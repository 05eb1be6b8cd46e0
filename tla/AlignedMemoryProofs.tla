------------------------- MODULE AlignedMemoryProofs -------------------------
(***************************************************************************)
(* Proofs about AlignedMemory for any number of callers, any addresses,    *)
(* places, sizes, counts and alignments, and both builds.  The argument:   *)
(* every pointer that is held lies in a block of its own and every block   *)
(* has such a pointer (MemoryInv); a call takes at most the caller's own   *)
(* block and gives at most one that is apart from all others (Change,      *)
(* Handed), so that nobody else notices (OthersStay).                      *)
(***************************************************************************)
EXTENDS AlignedMemory, WellFoundedInduction, TLAPS

-----------------------------------------------------------------------------
(* Powers of two                                                           *)

\* A non-empty set of numbers has a least one: induction, in the form the
\* provers take.
LEMMA LeastNumber ==
    ASSUME NEW S, S \subseteq Nat, S # {}
    PROVE  \E x \in S : \A y \in S : x <= y
<1>1. PICK x \in S : \A y \in S : ~(<<y, x>> \in OpToRel(<, Nat))
  BY WFMin, NatLessThanWellFounded, Zenon
<1>2. \A y \in S : ~(y < x)
  BY <1>1, Zenon DEF OpToRel
<1>3. QED
  BY <1>2

\* A product with an odd factor is even through its other factor only.
LEMMA OddTimesOdd ==
    ASSUME NEW d \in Nat, NEW e \in Nat, NEW n \in Nat, d % 2 = 1, d * e = 2 * n
    PROVE  e % 2 = 0
<1>1. PICK i \in Nat : d = 2 * i + 1
  <2>1. d = 2 * (d \div 2) + 1 /\ d \div 2 \in Nat
    OBVIOUS
  <2>2. QED
    BY <2>1
<1>2. SUFFICES ASSUME e % 2 = 1 PROVE FALSE
  OBVIOUS
<1>3. PICK k \in Nat : e = 2 * k + 1
  <2>1. e = 2 * (e \div 2) + 1 /\ e \div 2 \in Nat
    BY <1>2
  <2>2. QED
    BY <2>1
<1>4. d * e = 2 * (2 * (i * k) + i + k) + 1
  BY <1>1, <1>3
<1>5. i * k \in Nat
  BY SMT
<1>6. QED
  BY <1>4, <1>5

\* The double of a power of two is one.
LEMMA Doubled ==
    ASSUME NEW q \in Nat, PowerOfTwo(q)
    PROVE  PowerOfTwo(2 * q)
<1>1. SUFFICES ASSUME NEW d \in 2 .. 2 * q, (2 * q) % d = 0, d % 2 # 0
               PROVE  FALSE
  BY DEF PowerOfTwo
<1>2. d \in Nat \ {0} /\ d % 2 = 1
  BY <1>1
<1>3. PICK e \in Nat : 2 * q = d * e
  BY <1>1, <1>2
<1>4. e % 2 = 0
  BY <1>2, <1>3, OddTimesOdd
<1>5. PICK f \in Nat : e = 2 * f
  <2>1. e = 2 * (e \div 2) /\ e \div 2 \in Nat
    BY <1>4
  <2>2. QED
    BY <2>1
<1>6. q = d * f
  <2>1. d * e = 2 * (d * f) /\ d * f \in Nat
    BY <1>2, <1>5
  <2>2. QED
    BY <1>3, <2>1
<1>7. q % d = 0
  BY <1>2, <1>6
<1>8. d <= q
  <2>1. f # 0
    BY <1>6 DEF PowerOfTwo
  <2>2. d * f >= d
    BY <1>2, <2>1
  <2>3. QED
    BY <1>6, <2>2
<1>9. QED
  BY <1>1, <1>7, <1>8 DEF PowerOfTwo

\* Between a number and its double there is a power of two.
LEMMA PowerBelowDouble ==
    ASSUME NEW n \in Nat \ {0}
    PROVE  \E q \in n .. 2 * n - 1 : PowerOfTwo(q)
<1> DEFINE Without == {m \in Nat \ {0} : \A q \in m .. 2 * m - 1 : ~PowerOfTwo(q)}
<1>1. SUFFICES Without = {}
  OBVIOUS
<1>2. SUFFICES ASSUME Without # {} PROVE FALSE
  OBVIOUS
<1>3. PICK m \in Without : \A k \in Without : m <= k
  BY <1>2, LeastNumber
<1>4. PowerOfTwo(1)
  BY DEF PowerOfTwo
<1>5. m # 1
  BY <1>4
<1> DEFINE half == (m + 1) \div 2
<1>6. half \in Nat \ {0} /\ half < m /\ m <= 2 * half /\ 2 * half <= m + 1
  BY <1>5
<1>7. PICK q \in half .. 2 * half - 1 : PowerOfTwo(q)
  BY <1>3, <1>6
<1>8. q # m /\ q < m
  BY <1>6, <1>7
<1>9. 2 * q \in m .. 2 * m - 1
  BY <1>6, <1>7, <1>8
<1>10. QED
  BY <1>3, <1>7, <1>9, Doubled

\* bit_ceil gives the least power of two that is not below the number.
LEMMA BitCeil ==
    ASSUME NEW n \in Nat \ {0}
    PROVE  /\ bit_ceil(n) \in Nat /\ bit_ceil(n) >= n
           /\ PowerOfTwo(bit_ceil(n))
           /\ \A r \in n .. bit_ceil(n) - 1 : ~PowerOfTwo(r)
<1> DEFINE Above == {q \in n .. 2 * n - 1 : PowerOfTwo(q)}
<1>1. Above # {} /\ Above \subseteq Nat
  BY PowerBelowDouble
<1>2. PICK q \in Above : \A r \in Above : q <= r
  BY <1>1, LeastNumber
<1>3. /\ q \in 1 .. 2 * n + 1 /\ PowerOfTwo(q) /\ q >= n
      /\ \A r \in n .. q - 1 : ~PowerOfTwo(r)
  BY <1>2
<1>4. QED
  BY <1>3 DEF bit_ceil

\* The alignment is rounded up to a power of two, and stays what it is when it
\* is one.
LEMMA AlignmentRoundUp ==
    ASSUME NEW a \in Nat
    PROVE  /\ alignment_Round_Up(a) \in Nat \ {0} /\ alignment_Round_Up(a) >= a
           /\ PowerOfTwo(alignment_Round_Up(a))
           /\ PowerOfTwo(a) => alignment_Round_Up(a) = a
<1>1. CASE a = 0
  <2>1. alignment_Round_Up(a) = bit_ceil(1)
    BY <1>1 DEF alignment_Round_Up, POINTER
  <2>2. QED
    BY <1>1, <2>1, BitCeil DEF PowerOfTwo
<1>2. CASE a # 0
  <2>1. alignment_Round_Up(a) = bit_ceil(a)
    BY <1>2 DEF alignment_Round_Up, POINTER
  <2>2. PowerOfTwo(a) => bit_ceil(a) = a
    BY <1>2, BitCeil
  <2>3. QED
    BY <1>2, <2>1, <2>2, BitCeil
<1>3. QED
  BY <1>1, <1>2

\* The next multiple.
LEMMA NextMultiple ==
    ASSUME NEW n \in Nat, NEW a \in Nat \ {0}
    PROVE  /\ n % a \in 0 .. a - 1
           /\ (n + (a - (n % a))) % a = 0
<1>1. n % a \in 0 .. a - 1 /\ n \div a \in Nat /\ n = a * (n \div a) + (n % a)
  OBVIOUS
<1>2. a * (n \div a) \in Nat /\ a * ((n \div a) + 1) = a * (n \div a) + a
  BY <1>1
<1>3. n + (a - (n % a)) = a * ((n \div a) + 1)
  BY <1>1, <1>2
<1>4. \A x, k \in Nat : x = a * k => x % a = 0
  OBVIOUS
<1>5. n + (a - (n % a)) \in Nat /\ (n \div a) + 1 \in Nat
  BY <1>1
<1>6. (n + (a - (n % a))) % a = 0
  BY <1>1, <1>3, <1>4, <1>5, Zenon
<1>7. QED
  BY <1>1, <1>6

-----------------------------------------------------------------------------
(* The heap of the C library                                               *)

Addresses == 1 .. Top
Cells == {Junk, Zero, Data} \cup 1 .. Top
Blocks == [start : Addresses, size : Addresses]
Heaps == [blocks : SUBSET Blocks, mem : [Addresses -> Cells], corrupt : BOOLEAN]

Inside(a, b) == b.start <= a /\ a < b.start + b.size
Apart(b, d) == b.start + b.size <= d.start \/ d.start + d.size <= b.start

\* No free went wrong, every block lies within the addresses, and no two blocks
\* have a cell in common.
SoundHeap(h) ==
    /\ h \in Heaps
    /\ ~h.corrupt
    /\ \A b \in h.blocks : b.start + b.size - 1 <= Top
    /\ \A b, d \in h.blocks : b # d => Apart(b, d)

\* From heap h to g the blocks Old made place for the blocks New, and no cell of
\* another block changed.
Change(h, g, Old, New) ==
    /\ SoundHeap(g)
    /\ g.blocks = (h.blocks \ Old) \cup New
    /\ New \cap (h.blocks \ Old) = {}
    /\ \A b \in h.blocks \ Old, a \in Addresses : Inside(a, b) => g.mem[a] = h.mem[a]

\* The start and the size of a block are numbers other than zero.
LEMMA AddressTypes ==
    ASSUME NEW h \in Heaps, NEW b \in h.blocks
    PROVE  /\ b.start \in Nat \ {0} /\ b.size \in Nat \ {0} /\ b \in Blocks
           /\ b = Block(b.start, b.size)
  BY AlignedMemoryAssumption DEF Heaps, Blocks, Addresses, Block

\* Block makes a block.
LEMMA BlockIn ==
    ASSUME NEW start \in Addresses, NEW size \in Addresses
    PROVE  /\ Block(start, size) \in Blocks
           /\ Block(start, size).start = start /\ Block(start, size).size = size
  BY DEF Block, Blocks

\* memset changes the cells from q to q + size and no other.
LEMMA SetResult ==
    ASSUME NEW h \in Heaps, NEW q \in Int, NEW size \in Int, NEW value \in Cells
    PROVE  /\ Set(h, q, size, value) \in Heaps
           /\ Set(h, q, size, value).blocks = h.blocks
           /\ Set(h, q, size, value).corrupt = h.corrupt
           /\ \A a \in Addresses : Set(h, q, size, value).mem[a] =
                  IF q <= a /\ a < q + size THEN value ELSE h.mem[a]
<1> DEFINE m == [a \in DOMAIN h.mem |-> IF a \in Region(q, size) THEN value ELSE h.mem[a]]
<1>1. h.mem \in [Addresses -> Cells] /\ DOMAIN h.mem = Addresses
  BY DEF Heaps
<1>2. m \in [Addresses -> Cells]
  BY <1>1
<1>3. Set(h, q, size, value) = [h EXCEPT !.mem = m]
  BY DEF Set
<1>4. /\ Set(h, q, size, value) \in Heaps
      /\ Set(h, q, size, value).blocks = h.blocks
      /\ Set(h, q, size, value).corrupt = h.corrupt
      /\ Set(h, q, size, value).mem = m
  BY <1>2, <1>3 DEF Heaps
<1>5. ASSUME NEW a \in Addresses
      PROVE  m[a] = IF q <= a /\ a < q + size THEN value ELSE h.mem[a]
  BY <1>1, AlignedMemoryAssumption DEF Region, Addresses
<1>6. QED
  BY <1>4, <1>5

\* memcpy changes the cells from dest to dest + size and no other.
LEMMA CopyResult ==
    ASSUME NEW h \in Heaps, NEW dest \in Addresses, NEW src \in Addresses, NEW size \in Nat,
           src + size - 1 <= Top
    PROVE  /\ Copy(h, dest, src, size) \in Heaps
           /\ Copy(h, dest, src, size).blocks = h.blocks
           /\ Copy(h, dest, src, size).corrupt = h.corrupt
           /\ \A a \in Addresses : Copy(h, dest, src, size).mem[a] =
                  IF dest <= a /\ a < dest + size THEN h.mem[src + (a - dest)] ELSE h.mem[a]
<1> DEFINE m == [a \in DOMAIN h.mem |->
                    IF a \in Region(dest, size) THEN h.mem[src + (a - dest)] ELSE h.mem[a]]
<1>1. h.mem \in [Addresses -> Cells] /\ DOMAIN h.mem = Addresses
  BY DEF Heaps
<1>2. ASSUME NEW a \in Addresses
      PROVE  m[a] = IF dest <= a /\ a < dest + size THEN h.mem[src + (a - dest)] ELSE h.mem[a]
  BY <1>1, AlignedMemoryAssumption DEF Region, Addresses
<1>3. m \in [Addresses -> Cells]
  <2>1. ASSUME NEW a \in Addresses, dest <= a, a < dest + size
        PROVE  src + (a - dest) \in Addresses
    BY <2>1, AlignedMemoryAssumption DEF Addresses
  <2>2. \A a \in Addresses : m[a] \in Cells
    BY <1>1, <1>2, <2>1
  <2>3. QED
    BY <1>1, <2>2
<1>4. Copy(h, dest, src, size) = [h EXCEPT !.mem = m]
  BY DEF Copy
<1>5. /\ Copy(h, dest, src, size) \in Heaps
      /\ Copy(h, dest, src, size).blocks = h.blocks
      /\ Copy(h, dest, src, size).corrupt = h.corrupt
      /\ Copy(h, dest, src, size).mem = m
  BY <1>3, <1>4 DEF Heaps
<1>6. QED
  BY <1>2, <1>5

\* Writing within a block.
LEMMA SetInBlock ==
    ASSUME NEW h, SoundHeap(h), NEW b \in h.blocks, NEW q \in Nat, NEW size \in Nat,
           b.start <= q, q + size <= b.start + b.size, NEW value \in Cells
    PROVE  /\ Change(h, Set(h, q, size, value), {b}, {b})
           /\ \A a \in Addresses : Set(h, q, size, value).mem[a] =
                  IF q <= a /\ a < q + size THEN value ELSE h.mem[a]
<1> DEFINE g == Set(h, q, size, value)
<1>1. h \in Heaps
  BY DEF SoundHeap
<1>2. /\ g \in Heaps /\ g.blocks = h.blocks /\ g.corrupt = h.corrupt
      /\ \A a \in Addresses : g.mem[a] = IF q <= a /\ a < q + size THEN value ELSE h.mem[a]
  BY <1>1, SetResult
<1> HIDE DEF g
<1>3. SoundHeap(g)
  BY <1>2 DEF SoundHeap
<1>4. ASSUME NEW d \in h.blocks \ {b}, NEW a \in Addresses, Inside(a, d)
      PROVE  g.mem[a] = h.mem[a]
  <2>1. Apart(d, b)
    BY DEF SoundHeap
  <2>2. d.start \in Nat /\ d.size \in Nat /\ b.start \in Nat /\ b.size \in Nat /\ a \in Nat
    BY <1>1, AddressTypes, AlignedMemoryAssumption DEF Addresses
  <2>3. ~(q <= a /\ a < q + size)
    BY <1>4, <2>1, <2>2 DEF Apart, Inside
  <2>4. QED
    BY <1>2, <2>3
<1>5. QED
  BY <1>2, <1>3, <1>4 DEF Change, g

\* Copying into a block.
LEMMA CopyIntoBlock ==
    ASSUME NEW h, SoundHeap(h), NEW b \in h.blocks, NEW q \in Addresses, NEW size \in Nat,
           b.start <= q, q + size <= b.start + b.size,
           NEW src \in Addresses, src + size - 1 <= Top
    PROVE  /\ Change(h, Copy(h, q, src, size), {b}, {b})
           /\ \A a \in Addresses : Copy(h, q, src, size).mem[a] =
                  IF q <= a /\ a < q + size THEN h.mem[src + (a - q)] ELSE h.mem[a]
<1> DEFINE g == Copy(h, q, src, size)
<1>1. h \in Heaps
  BY DEF SoundHeap
<1>2. /\ g \in Heaps /\ g.blocks = h.blocks /\ g.corrupt = h.corrupt
      /\ \A a \in Addresses :
             g.mem[a] = IF q <= a /\ a < q + size THEN h.mem[src + (a - q)] ELSE h.mem[a]
  BY <1>1, CopyResult
<1> HIDE DEF g
<1>3. SoundHeap(g)
  BY <1>2 DEF SoundHeap
<1>4. ASSUME NEW d \in h.blocks \ {b}, NEW a \in Addresses, Inside(a, d)
      PROVE  g.mem[a] = h.mem[a]
  <2>1. Apart(d, b)
    BY DEF SoundHeap
  <2>2. /\ d.start \in Nat /\ d.size \in Nat /\ b.start \in Nat /\ b.size \in Nat
        /\ a \in Nat /\ q \in Nat
    BY <1>1, AddressTypes, AlignedMemoryAssumption DEF Addresses
  <2>3. ~(q <= a /\ a < q + size)
    BY <1>4, <2>1, <2>2 DEF Apart, Inside
  <2>4. QED
    BY <1>2, <2>3
<1>5. QED
  BY <1>2, <1>3, <1>4 DEF Change, g

\* malloc fails and leaves the heap, or adds a block that is apart from the
\* others.
LEMMA MallocResult ==
    ASSUME NEW h, SoundHeap(h), NEW at \in Places, NEW size \in Nat \ {0}
    PROVE  \/ malloc(h, at, size) = Result(h, 0)
           \/ /\ malloc(h, at, size).ptr = at
              /\ at \in Addresses /\ size \in Addresses /\ at + size - 1 <= Top
              /\ Change(h, malloc(h, at, size).heap, {}, {Block(at, size)})
<1> SUFFICES ASSUME malloc(h, at, size) # Result(h, 0)
             PROVE  /\ malloc(h, at, size).ptr = at
                    /\ at \in Addresses /\ size \in Addresses /\ at + size - 1 <= Top
                    /\ Change(h, malloc(h, at, size).heap, {}, {Block(at, size)})
  OBVIOUS
<1> DEFINE w == Set(h, at, size, Junk)
           g == [w EXCEPT !.blocks = @ \cup {Block(at, size)}]
           b == Block(at, size)
<1>1. at # 0 /\ Fits(h, at, size) /\ malloc(h, at, size) = Result(g, at)
  BY Zenon DEF malloc
<1>2. at \in Addresses /\ size \in Addresses /\ at + size - 1 <= Top
  BY <1>1, AlignedMemoryAssumption DEF Fits, Addresses
<1>3. b \in Blocks /\ b.start = at /\ b.size = size
  BY <1>2, BlockIn
<1>4. h \in Heaps
  BY DEF SoundHeap
<1>5. /\ w \in Heaps /\ w.blocks = h.blocks /\ w.corrupt = h.corrupt
      /\ \A a \in Addresses : w.mem[a] = IF at <= a /\ a < at + size THEN Junk ELSE h.mem[a]
  <2>1. Junk \in Cells /\ at \in Int
    BY <1>2, AlignedMemoryAssumption DEF Cells, Addresses
  <2>2. QED
    BY <1>4, <2>1, SetResult
<1>6. /\ g \in Heaps /\ g.blocks = h.blocks \cup {b} /\ g.corrupt = h.corrupt
      /\ g.mem = w.mem
  <2> HIDE DEF w, b
  <2>1. QED
    BY <1>3, <1>5 DEF Heaps, b
<1>7. ASSUME NEW d \in h.blocks PROVE Apart(d, b) /\ Apart(b, d) /\ d # b
  <2>1. d.start \in Nat \ {0} /\ d.size \in Nat \ {0} /\ at \in Nat
    BY <1>2, <1>4, AddressTypes, AlignedMemoryAssumption DEF Addresses
  <2>2. Region(at, size) \cap Region(d.start, d.size) = {}
    BY <1>1 DEF Fits
  <2>3. at \notin Region(d.start, d.size) /\ d.start \notin Region(at, size)
    <3>1. at \in Region(at, size) /\ d.start \in Region(d.start, d.size)
      BY <2>1 DEF Region
    <3>2. QED
      BY <2>2, <3>1
  <2>4. at + size <= d.start \/ d.start + d.size <= at
    BY <2>1, <2>3 DEF Region
  <2>5. QED
    <3>1. d # b
      BY <1>3, <2>1, <2>4
    <3>2. QED
      BY <1>3, <2>4, <3>1 DEF Apart
<1> HIDE DEF w, g, b
<1>8. SoundHeap(g)
  <2>1. \A d \in g.blocks : d.start + d.size - 1 <= Top
    BY <1>2, <1>3, <1>6 DEF SoundHeap
  <2>2. \A d, e \in g.blocks : d # e => Apart(d, e)
    BY <1>6, <1>7 DEF SoundHeap
  <2>3. ~g.corrupt
    BY <1>6 DEF SoundHeap
  <2>4. QED
    BY <1>6, <2>1, <2>2, <2>3 DEF SoundHeap
<1>9. ASSUME NEW d \in h.blocks, NEW a \in Addresses, Inside(a, d)
      PROVE  g.mem[a] = h.mem[a]
  <2>1. d.start \in Nat \ {0} /\ d.size \in Nat \ {0} /\ at \in Nat /\ a \in Nat
    BY <1>2, <1>4, AddressTypes, AlignedMemoryAssumption DEF Addresses
  <2>2. ~(at <= a /\ a < at + size)
    BY <1>3, <1>7, <1>9, <2>1 DEF Apart, Inside
  <2>3. QED
    BY <1>5, <1>6, <2>2
<1>10. Change(h, g, {}, {b})
  BY <1>6, <1>7, <1>8, <1>9 DEF Change
<1>11. malloc(h, at, size).heap = g /\ malloc(h, at, size).ptr = at
  BY <1>1 DEF Result, g, w
<1>12. QED
  BY <1>2, <1>10, <1>11 DEF b

\* A block is known by the address it starts at.
LEMMA SameStart ==
    ASSUME NEW h, SoundHeap(h), NEW b \in h.blocks, NEW d \in h.blocks, b.start = d.start
    PROVE  b = d
<1>1. b.start \in Nat \ {0} /\ b.size \in Nat \ {0} /\ d.start \in Nat \ {0} /\ d.size \in Nat \ {0}
  BY AddressTypes DEF SoundHeap
<1>2. ~Apart(b, d)
  BY <1>1 DEF Apart
<1>3. QED
  BY <1>2 DEF SoundHeap

\* free takes the block that starts there out of the heap.
LEMMA FreeResult ==
    ASSUME NEW h, SoundHeap(h), NEW b \in h.blocks
    PROVE  Change(h, free(h, b.start), {b}, {})
<1> DEFINE w == Set(h, b.start, b.size, Junk)
           g == [w EXCEPT !.blocks = @ \ {b}]
<1>1. h \in Heaps /\ b.start \in Nat \ {0} /\ b.size \in Nat \ {0}
  BY AddressTypes DEF SoundHeap
<1>2. free(h, b.start) = g
  <2>1. (CHOOSE x \in h.blocks : x.start = b.start) = b
    BY SameStart
  <2>2. b.start # 0 /\ \E x \in h.blocks : x.start = b.start
    BY <1>1
  <2>3. QED
    BY <2>1, <2>2 DEF free
<1>3. Change(h, w, {b}, {b})
  <2>1. Junk \in Cells
    BY DEF Cells
  <2>2. /\ b.start \in Nat /\ b.size \in Nat
        /\ b.start <= b.start /\ b.start + b.size <= b.start + b.size
    BY <1>1
  <2>3. Change(h, Set(h, b.start, b.size, Junk), {b}, {b})
    BY <2>1, <2>2, SetInBlock, Zenon
  <2>4. QED
    BY <2>3
<1> HIDE DEF w
<1>4. /\ w \in Heaps /\ w.blocks = h.blocks
      /\ \A d \in h.blocks \ {b}, a \in Addresses : Inside(a, d) => w.mem[a] = h.mem[a]
  BY <1>3 DEF Change, SoundHeap
<1>5. g \in Heaps /\ g.blocks = h.blocks \ {b} /\ g.corrupt = w.corrupt /\ g.mem = w.mem
  BY <1>4 DEF Heaps
<1> HIDE DEF g
<1>6. SoundHeap(g)
  BY <1>3, <1>4, <1>5 DEF Change, SoundHeap
<1>7. QED
  BY <1>2, <1>4, <1>5, <1>6 DEF Change

\* free(NULL) does nothing.
LEMMA FreeOfNull ==
    ASSUME NEW h
    PROVE  free(h, 0) = h
  BY DEF free

\* The block at that address is in the place of block b, and begins with what b
\* held.
Moved(h, r, b, at, size) ==
    /\ r.ptr = at /\ at \in Addresses /\ size \in Addresses
    /\ Change(h, r.heap, {b}, {Block(at, size)})
    /\ \A i \in Nat : i < size /\ i < b.size => r.heap.mem[at + i] = h.mem[b.start + i]

\* realloc fails and leaves the heap, or moves the block.
LEMMA ReallocResult ==
    ASSUME NEW h, SoundHeap(h), NEW b \in h.blocks, NEW at \in Places, NEW size \in Nat \ {0}
    PROVE  \/ realloc(h, at, b.start, size) = Result(h, 0)
           \/ Moved(h, realloc(h, at, b.start, size), b, at, size)
<1> DEFINE left == free(h, b.start)
           new == malloc(left, at, size)
           least == Min({size, b.size})
           m == [a \in DOMAIN h.mem |->
                    IF a \in Region(at, least) THEN h.mem[b.start + (a - at)] ELSE new.heap.mem[a]]
           g == [new.heap EXCEPT !.mem = m]
<1> SUFFICES ASSUME realloc(h, at, b.start, size) # Result(h, 0)
             PROVE  Moved(h, realloc(h, at, b.start, size), b, at, size)
  OBVIOUS
<1>1. (CHOOSE x \in h.blocks : x.start = b.start) = b
  BY SameStart
<1>2. new.ptr # 0 /\ realloc(h, at, b.start, size) = Result(g, at)
  BY <1>1, Zenon DEF realloc
<1>3. Change(h, left, {b}, {})
  BY FreeResult
<1> HIDE DEF left
<1>4. SoundHeap(left) /\ left.blocks = h.blocks \ {b}
  BY <1>3 DEF Change
<1>5. new # Result(left, 0)
  BY <1>2 DEF Result
<1>6. /\ at \in Addresses /\ size \in Addresses /\ at + size - 1 <= Top
      /\ Change(left, new.heap, {}, {Block(at, size)})
  BY <1>4, <1>5, MallocResult
<1> DEFINE k == new.heap
           nb == Block(at, size)
<1> HIDE DEF new
<1>7. /\ SoundHeap(k) /\ k.blocks = left.blocks \cup {nb} /\ nb \notin left.blocks
      /\ \A d \in left.blocks, a \in Addresses : Inside(a, d) => k.mem[a] = left.mem[a]
  BY <1>6 DEF Change
<1>8. h \in Heaps /\ k \in Heaps
  BY <1>7 DEF SoundHeap
<1>9. /\ h.mem \in [Addresses -> Cells] /\ k.mem \in [Addresses -> Cells]
      /\ at \in Nat \ {0} /\ b.start \in Nat \ {0} /\ b.size \in Nat \ {0}
      /\ b.start + b.size - 1 <= Top
  <2>1. at \in Nat \ {0}
    BY <1>6, AlignedMemoryAssumption DEF Addresses
  <2>2. b.start + b.size - 1 <= Top
    BY DEF SoundHeap
  <2>3. QED
    BY <1>8, <2>1, <2>2, AddressTypes DEF Heaps
<1>10. least \in Nat \ {0} /\ least <= size /\ least <= b.size /\ (least = size \/ least = b.size)
  BY <1>9 DEF Min
<1> HIDE DEF least
<1>11. ASSUME NEW a \in Addresses
       PROVE  /\ m[a] = IF at <= a /\ a < at + least THEN h.mem[b.start + (a - at)] ELSE k.mem[a]
              /\ m[a] \in Cells
  <2>1. a \in Region(at, least) <=> at <= a /\ a < at + least
    BY <1>9, <1>10, AlignedMemoryAssumption DEF Addresses, Region
  <2>2. DOMAIN h.mem = Addresses
    BY <1>9
  <2>3. at <= a /\ a < at + least => b.start + (a - at) \in Addresses
    BY <1>9, <1>10, AlignedMemoryAssumption DEF Addresses
  <2>4. m[a] = IF at <= a /\ a < at + least THEN h.mem[b.start + (a - at)] ELSE k.mem[a]
    BY <2>1, <2>2
  <2>5. QED
    BY <1>9, <2>3, <2>4
<1>12. m \in [Addresses -> Cells]
  <2>1. m = [a \in Addresses |-> m[a]]
    BY <1>9
  <2>2. QED
    BY <1>11, <2>1
<1> HIDE DEF m
<1>13. g \in Heaps /\ g.blocks = k.blocks /\ g.corrupt = k.corrupt /\ g.mem = m
  BY <1>8, <1>12 DEF Heaps
<1> HIDE DEF g
<1>14. SoundHeap(g)
  BY <1>7, <1>13 DEF SoundHeap
<1>15. nb.start = at /\ nb.size = size /\ nb \in Blocks
  BY <1>6, BlockIn
<1>16. ASSUME NEW d \in h.blocks \ {b}, NEW a \in Addresses, Inside(a, d)
       PROVE  g.mem[a] = h.mem[a]
  <2>1. d \in left.blocks /\ d # nb
    BY <1>4, <1>7
  <2>2. Apart(d, nb)
    BY <1>7, <2>1 DEF SoundHeap
  <2>3. d.start \in Nat /\ d.size \in Nat /\ a \in Nat
    BY <1>8, AddressTypes, AlignedMemoryAssumption DEF Addresses
  <2>4. ~(at <= a /\ a < at + least)
    BY <1>9, <1>10, <1>15, <1>16, <2>2, <2>3 DEF Apart, Inside
  <2>5. g.mem[a] = k.mem[a]
    BY <1>11, <1>13, <2>4
  <2>6. k.mem[a] = left.mem[a]
    BY <1>7, <1>16, <2>1
  <2>7. left.mem[a] = h.mem[a]
    BY <1>3, <1>16 DEF Change
  <2>8. QED
    BY <2>5, <2>6, <2>7
<1>17. Change(h, g, {b}, {nb})
  BY <1>4, <1>7, <1>13, <1>14, <1>16 DEF Change
<1>18. ASSUME NEW i \in Nat, i < size, i < b.size
       PROVE  g.mem[at + i] = h.mem[b.start + i]
  <2>1. at + i \in Addresses /\ at <= at + i /\ at + i < at + least
    BY <1>6, <1>9, <1>10, <1>18, AlignedMemoryAssumption DEF Addresses
  <2>2. g.mem[at + i] = h.mem[b.start + ((at + i) - at)]
    BY <1>11, <1>13, <2>1
  <2>3. (at + i) - at = i
    BY <1>9
  <2>4. QED
    BY <2>2, <2>3
<1>19. realloc(h, at, b.start, size).ptr = at /\ realloc(h, at, b.start, size).heap = g
  BY <1>2 DEF Result
<1> DEFINE r == realloc(h, at, b.start, size)
<1>20. r.ptr = at /\ r.heap = g
  BY <1>19
<1> HIDE DEF r
<1>21. Moved(h, r, b, at, size)
  BY <1>6, <1>17, <1>18, <1>20 DEF Moved, nb
<1>22. QED
  BY <1>21 DEF r

\* One change after another.
LEMMA WritingAfterwards ==
    ASSUME NEW h, NEW k, NEW g, NEW Old, NEW b, SoundHeap(h), Change(h, k, Old, {b}),
           Change(k, g, {b}, {b})
    PROVE  Change(h, g, Old, {b})
<1>1. /\ k.blocks = (h.blocks \ Old) \cup {b} /\ b \notin h.blocks \ Old
      /\ g.blocks = k.blocks /\ SoundHeap(g)
  BY DEF Change
<1>2. ASSUME NEW d \in h.blocks \ Old, NEW a \in Addresses, Inside(a, d)
      PROVE  g.mem[a] = h.mem[a]
  <2>1. d \in k.blocks \ {b}
    BY <1>1
  <2>2. g.mem[a] = k.mem[a]
    BY <1>2, <2>1 DEF Change
  <2>3. k.mem[a] = h.mem[a]
    BY <1>2 DEF Change
  <2>4. QED
    BY <2>2, <2>3
<1>3. QED
  BY <1>1, <1>2 DEF Change

\* A block is added, and another one is freed.
LEMMA FreeingAfterwards ==
    ASSUME NEW h, NEW k, NEW g, NEW gone, NEW b, SoundHeap(h), Change(h, k, {}, {b}),
           gone \in h.blocks, Change(k, g, {gone}, {})
    PROVE  Change(h, g, {gone}, {b})
<1>1. /\ k.blocks = h.blocks \cup {b} /\ b \notin h.blocks
      /\ g.blocks = k.blocks \ {gone} /\ SoundHeap(g)
  BY DEF Change
<1>2. ASSUME NEW d \in h.blocks \ {gone}, NEW a \in Addresses, Inside(a, d)
      PROVE  g.mem[a] = h.mem[a]
  <2>1. d \in k.blocks \ {gone}
    BY <1>1
  <2>2. g.mem[a] = k.mem[a]
    BY <1>2, <2>1 DEF Change
  <2>3. k.mem[a] = h.mem[a]
    BY <1>2 DEF Change
  <2>4. QED
    BY <2>2, <2>3
<1>3. QED
  BY <1>1, <1>2 DEF Change

-----------------------------------------------------------------------------
(* What the callers hold                                                   *)

Memories == [ptr : 0 .. Top, size : Nat, alignment : Nat,
             family : {"plain", "aligned"}, zeroed : BOOLEAN]

\* Memory m lies in block b of heap h: in front of it, within the block too, the
\* address of the block where free_aligned looks for it.
Placed(h, m, b) ==
    /\ b \in h.blocks
    /\ m.ptr \in Addresses /\ m.size \in Nat \ {0}
    /\ b.start <= m.ptr /\ m.ptr + m.size <= b.start + b.size
    /\ \E q \in Addresses : PowerOfTwo(q) /\ q >= m.alignment /\ m.ptr % q = 0
    /\ IF m.family = "aligned" /\ build = "generic"
       THEN b.start <= m.ptr - POINTER /\ h.mem[m.ptr - POINTER] = b.start
       ELSE m.ptr = b.start

Zeroed(h, m) ==
    m.zeroed => \A a \in Addresses : m.ptr <= a /\ a < m.ptr + m.size => h.mem[a] = Zero

\* The inductive invariant: every pointer lies in a block, every block has a
\* pointer that lies in it, and no two callers share one.
AllPlaced(h, ms) ==
    /\ SoundHeap(h)
    /\ ms \in [Callers -> Memories]
    /\ \A c \in Callers : ms[c].ptr # 0 => \E b \in h.blocks : Placed(h, ms[c], b)
    /\ \A c \in Callers : ms[c].ptr # 0 => Zeroed(h, ms[c])
    /\ \A b \in h.blocks : \E c \in Callers : Placed(h, ms[c], b)
    /\ \A c, d \in Callers, b \in h.blocks :
           Placed(h, ms[c], b) /\ Placed(h, ms[d], b) => c = d

MemoryInv == build \in {"c11", "generic"} /\ AllPlaced(heap, held)

Mine(c) == {b \in heap.blocks : Placed(heap, held[c], b)}

\* A call of caller c leads to heap g and to memory m.
Handed(c, g, m) ==
    /\ m \in Memories
    /\ \/ m.ptr = 0 /\ Change(heap, g, Mine(c), {})
       \/ \E b \in Blocks : Change(heap, g, Mine(c), {b}) /\ Placed(g, m, b) /\ Zeroed(g, m)

\* What the caller had written is still there when its memory has grown.
Grown(c, g, m) ==
    m.ptr # 0 /\ held[c].ptr # 0 /\ m.size >= held[c].size =>
        \A i \in Nat : i < held[c].size => g.mem[m.ptr + i] = heap.mem[held[c].ptr + i]

\* Memory lies in one block only.
LEMMA PlacedOnce ==
    ASSUME NEW h, SoundHeap(h), NEW m, NEW b, NEW d, Placed(h, m, b), Placed(h, m, d)
    PROVE  b = d
<1>1. b \in h.blocks /\ d \in h.blocks /\ b.start = d.start
  BY DEF Placed
<1>2. QED
  BY <1>1, SameStart

\* A change that takes nothing from a block leaves what lies in it.
LEMMA PlacedStays ==
    ASSUME NEW h, NEW g, NEW Old, NEW New, SoundHeap(h), Change(h, g, Old, New),
           NEW m, NEW b \in h.blocks \ Old, Placed(h, m, b)
    PROVE  /\ Placed(g, m, b)
           /\ Zeroed(h, m) => Zeroed(g, m)
           /\ \A i \in Nat : i < m.size => g.mem[m.ptr + i] = h.mem[m.ptr + i]
<1>1. /\ m.ptr \in Nat \ {0} /\ m.ptr <= Top /\ m.size \in Nat \ {0}
      /\ b.start \in Nat \ {0} /\ b.size \in Nat \ {0} /\ b.start + b.size - 1 <= Top
      /\ b.start <= m.ptr /\ m.ptr + m.size <= b.start + b.size
  BY AddressTypes, AlignedMemoryAssumption DEF Placed, SoundHeap, Addresses
<1>2. \A a \in Addresses : b.start <= a /\ a < b.start + b.size => g.mem[a] = h.mem[a]
  BY DEF Change, Inside
<1>3. b \in g.blocks
  BY DEF Change
<1>4. Placed(g, m, b)
  <2>1. CASE m.family = "aligned" /\ build = "generic"
    <3>1. b.start <= m.ptr - POINTER /\ h.mem[m.ptr - POINTER] = b.start
      BY <2>1 DEF Placed
    <3>2. m.ptr - POINTER \in Addresses /\ m.ptr - POINTER < b.start + b.size
      BY <1>1, <3>1, AlignedMemoryAssumption DEF Addresses, POINTER
    <3>3. g.mem[m.ptr - POINTER] = b.start
      BY <1>2, <3>1, <3>2
    <3>4. QED
      BY <1>3, <2>1, <3>1, <3>3 DEF Placed
  <2>2. CASE ~(m.family = "aligned" /\ build = "generic")
    BY <1>3, <2>2 DEF Placed
  <2>3. QED
    BY <2>1, <2>2
<1>5. Zeroed(h, m) => Zeroed(g, m)
  <2>1. SUFFICES ASSUME Zeroed(h, m), m.zeroed,
                        NEW a \in Addresses, m.ptr <= a, a < m.ptr + m.size
                 PROVE  g.mem[a] = Zero
    BY DEF Zeroed
  <2>2. h.mem[a] = Zero
    BY <2>1 DEF Zeroed
  <2>3. b.start <= a /\ a < b.start + b.size
    BY <1>1, <2>1, AlignedMemoryAssumption DEF Addresses
  <2>4. QED
    BY <1>2, <2>2, <2>3
<1>6. ASSUME NEW i \in Nat, i < m.size
      PROVE  g.mem[m.ptr + i] = h.mem[m.ptr + i]
  <2>1. m.ptr + i \in Addresses /\ b.start <= m.ptr + i /\ m.ptr + i < b.start + b.size
    BY <1>1, <1>6, AlignedMemoryAssumption DEF Addresses
  <2>2. QED
    BY <1>2, <2>1
<1>7. QED
  BY <1>4, <1>5, <1>6

\* A caller that holds a pointer has one block, and any other has none.
LEMMA MineIsOne ==
    ASSUME MemoryInv, NEW c \in Callers
    PROVE  /\ held[c].ptr = 0 => Mine(c) = {}
           /\ held[c].ptr # 0 => \E b \in heap.blocks : Mine(c) = {b} /\ Placed(heap, held[c], b)
<1>1. SoundHeap(heap)
  BY DEF MemoryInv, AllPlaced
<1>2. CASE held[c].ptr = 0
  <2>1. \A b : ~Placed(heap, held[c], b)
    BY <1>2 DEF Placed, Addresses
  <2>2. QED
    BY <1>2, <2>1 DEF Mine
<1>3. CASE held[c].ptr # 0
  <2>1. PICK b \in heap.blocks : Placed(heap, held[c], b)
    BY <1>3 DEF MemoryInv, AllPlaced
  <2>2. Mine(c) = {b}
    BY <1>1, <2>1, PlacedOnce DEF Mine
  <2>3. QED
    BY <1>3, <2>1, <2>2
<1>4. QED
  BY <1>2, <1>3

\* Whatever a call hands to one caller, the memory of the others stays as it is.
LEMMA OthersStay ==
    ASSUME MemoryInv, NEW c \in Callers, NEW d \in Callers, c # d,
           NEW g, NEW New, Change(heap, g, Mine(c), New), held[d].ptr # 0
    PROVE  /\ \E b \in heap.blocks \ Mine(c) : Placed(heap, held[d], b) /\ Placed(g, held[d], b)
           /\ Zeroed(g, held[d])
           /\ \A i \in Nat : i < held[d].size =>
                 g.mem[held[d].ptr + i] = heap.mem[held[d].ptr + i]
<1>1. PICK b \in heap.blocks : Placed(heap, held[d], b)
  BY DEF MemoryInv, AllPlaced
<1>2. b \notin Mine(c)
  BY <1>1 DEF MemoryInv, AllPlaced, Mine
<1>3. Zeroed(heap, held[d]) /\ SoundHeap(heap)
  BY DEF MemoryInv, AllPlaced
<1>4. QED
  BY <1>1, <1>2, <1>3, PlacedStays

\* A call that hands memory to one caller keeps every pointer in a block of its own.
LEMMA HandedPlaced ==
    ASSUME MemoryInv, NEW c \in Callers, NEW g, NEW m, Handed(c, g, m)
    PROVE  AllPlaced(g, [held EXCEPT ![c] = m])
<1> DEFINE ms == [held EXCEPT ![c] = m]
<1>1. held \in [Callers -> Memories] /\ SoundHeap(heap)
  BY DEF MemoryInv, AllPlaced
<1>2. /\ ms \in [Callers -> Memories] /\ ms[c] = m
      /\ \A d \in Callers : d # c => ms[d] = held[d]
  BY <1>1 DEF Handed
<1> HIDE DEF ms
<1>3. PICK New : /\ Change(heap, g, Mine(c), New)
                 /\ \/ New = {} /\ m.ptr = 0
                    \/ \E b \in Blocks : New = {b} /\ Placed(g, m, b) /\ Zeroed(g, m)
  BY DEF Handed
<1>4. /\ SoundHeap(g) /\ g.blocks = (heap.blocks \ Mine(c)) \cup New
      /\ New \cap (heap.blocks \ Mine(c)) = {}
  BY <1>3 DEF Change
<1>5. m.ptr = 0 => \A b : ~Placed(g, m, b)
  BY DEF Placed, Addresses
<1>6. \A b \in g.blocks : Placed(g, m, b) <=> b \in New
  <2>1. CASE New = {} /\ m.ptr = 0
    BY <1>5, <2>1
  <2>2. CASE \E b \in Blocks : New = {b} /\ Placed(g, m, b)
    BY <1>4, <2>2, PlacedOnce
  <2>3. QED
    BY <1>3, <2>1, <2>2
<1>7. ASSUME NEW d \in Callers, d # c
      PROVE  /\ held[d].ptr # 0 => \E b \in g.blocks : Placed(g, held[d], b) /\ Zeroed(g, held[d])
             /\ \A b \in g.blocks : Placed(g, held[d], b) =>
                    b \in heap.blocks \ Mine(c) /\ Placed(heap, held[d], b)
  <2>1. CASE held[d].ptr = 0
    <3>1. \A b : ~Placed(g, held[d], b)
      BY <2>1 DEF Placed, Addresses
    <3>2. QED
      BY <2>1, <3>1
  <2>2. CASE held[d].ptr # 0
    <3>1. PICK b \in heap.blocks \ Mine(c) : Placed(heap, held[d], b) /\ Placed(g, held[d], b)
      BY <1>3, <1>7, <2>2, OthersStay
    <3>2. Zeroed(g, held[d])
      BY <1>3, <1>7, <2>2, OthersStay
    <3>3. \A e \in g.blocks : Placed(g, held[d], e) => e = b
      BY <1>4, <3>1, PlacedOnce
    <3>4. QED
      BY <1>4, <3>1, <3>2, <3>3
  <2>3. QED
    BY <2>1, <2>2
<1>8. ASSUME NEW d \in Callers, ms[d].ptr # 0
      PROVE  Zeroed(g, ms[d]) /\ \E b \in g.blocks : Placed(g, ms[d], b)
  <2>1. CASE d = c
    BY <1>2, <1>3, <1>4, <1>8, <2>1
  <2>2. CASE d # c
    BY <1>2, <1>7, <1>8, <2>2
  <2>3. QED
    BY <2>1, <2>2
<1>9. ASSUME NEW b \in g.blocks
      PROVE  \E d \in Callers : Placed(g, ms[d], b)
  <2>1. CASE b \in New
    BY <1>2, <1>6, <2>1
  <2>2. CASE b \notin New
    <3>1. b \in heap.blocks \ Mine(c)
      BY <1>4, <2>2
    <3>2. PICK d \in Callers : Placed(heap, held[d], b)
      BY <3>1 DEF MemoryInv, AllPlaced
    <3>3. d # c
      BY <3>1, <3>2 DEF Mine
    <3>4. Placed(g, held[d], b)
      BY <1>1, <1>3, <3>1, <3>2, PlacedStays
    <3>5. QED
      BY <1>2, <3>3, <3>4
  <2>3. QED
    BY <2>1, <2>2
<1>10. ASSUME NEW d \in Callers, NEW e \in Callers, NEW b \in g.blocks,
              Placed(g, ms[d], b), Placed(g, ms[e], b)
       PROVE  d = e
  <2>1. CASE d = c /\ e # c
    BY <1>2, <1>4, <1>6, <1>7, <1>10, <2>1
  <2>2. CASE d # c /\ e = c
    BY <1>2, <1>4, <1>6, <1>7, <1>10, <2>2
  <2>3. CASE d # c /\ e # c
    <3>1. b \in heap.blocks /\ Placed(heap, held[d], b) /\ Placed(heap, held[e], b)
      BY <1>2, <1>7, <1>10, <2>3
    <3>2. QED
      BY <3>1 DEF MemoryInv, AllPlaced
  <2>4. QED
    BY <2>1, <2>2, <2>3
<1>11. QED
  BY <1>2, <1>4, <1>8, <1>9, <1>10 DEF AllPlaced, ms

-----------------------------------------------------------------------------
(* The functions that allocate                                             *)

\* The call fails and leaves the heap, or returns memory of the size and the
\* alignment in a block of its own.
NewMemory(h, r, size, alignment, family, zeroed) ==
    \/ r = Result(h, 0)
    \/ \E b \in Blocks :
          /\ Change(h, r.heap, {}, {b})
          /\ Placed(r.heap, Memory(r.ptr, size, alignment, family, zeroed), b)
          /\ Zeroed(r.heap, Memory(r.ptr, size, alignment, family, zeroed))

\* The parts of a result.
LEMMA ResultIs ==
    ASSUME NEW h, NEW q
    PROVE  Result(h, q).heap = h /\ Result(h, q).ptr = q
  BY DEF Result

\* A call that refuses promises nothing.
LEMMA RefusalIsSound ==
    ASSUME NEW h, NEW size, NEW alignment, NEW family, NEW zeroed
    PROVE  NewMemory(h, Result(h, 0), size, alignment, family, zeroed)
  BY DEF NewMemory

\* malloc and safe_malloc: the block is the memory.
LEMMA MallocGives ==
    ASSUME NEW h, SoundHeap(h), NEW at \in Places, NEW size \in Nat
    PROVE  /\ size # 0 => NewMemory(h, malloc(h, at, size), size, 1, "plain", FALSE)
           /\ NewMemory(h, safe_malloc(h, at, size), size, 1, "plain", FALSE)
<1>1. ASSUME size # 0
      PROVE  NewMemory(h, malloc(h, at, size), size, 1, "plain", FALSE)
  <2> DEFINE r == malloc(h, at, size)
             b == Block(at, size)
             m == Memory(r.ptr, size, 1, "plain", FALSE)
  <2>1. SUFFICES ASSUME r # Result(h, 0)
                 PROVE  NewMemory(h, r, size, 1, "plain", FALSE)
    BY DEF NewMemory
  <2>2. /\ r.ptr = at /\ at \in Addresses /\ size \in Addresses
        /\ Change(h, r.heap, {}, {b})
    BY <1>1, <2>1, MallocResult
  <2>3. b \in Blocks /\ b.start = at /\ b.size = size
    BY <2>2, BlockIn
  <2>4. /\ m.ptr = at /\ m.size = size /\ m.alignment = 1 /\ m.family = "plain"
        /\ m.zeroed = FALSE
    BY <2>2 DEF Memory
  <2> HIDE DEF r, b, m
  <2>5. b \in r.heap.blocks
    BY <2>2 DEF Change
  <2>6. 1 \in Addresses /\ PowerOfTwo(1) /\ at % 1 = 0 /\ at \in Nat
    BY <2>2, AlignedMemoryAssumption DEF PowerOfTwo, Addresses
  <2>7. Placed(r.heap, m, b)
    BY <1>1, <2>2, <2>3, <2>4, <2>5, <2>6 DEF Placed
  <2>8. Zeroed(r.heap, m)
    BY <2>4 DEF Zeroed
  <2>9. QED
    BY <2>2, <2>3, <2>7, <2>8 DEF NewMemory, m
<1>2. QED
  BY <1>1 DEF safe_malloc, NewMemory

\* The memory a successful call returned, filled with zeroes.
LEMMA ZeroesGiven ==
    ASSUME NEW h, SoundHeap(h), NEW r, NEW size \in Nat \ {0}, NEW alignment, NEW family,
           NewMemory(h, r, size, alignment, family, FALSE)
    PROVE  NewMemory(h, IF r.ptr = 0 THEN r ELSE Result(Set(r.heap, r.ptr, size, Zero), r.ptr),
                     size, alignment, family, TRUE)
<1>1. CASE r.ptr = 0
  <2>1. ~(r.ptr \in Addresses)
    BY <1>1, AlignedMemoryAssumption DEF Addresses
  <2>2. r = Result(h, 0)
    BY <2>1 DEF NewMemory, Placed, Memory
  <2>3. QED
    BY <1>1, <2>2 DEF NewMemory
<1>2. CASE r.ptr # 0
  <2> DEFINE m == Memory(r.ptr, size, alignment, family, FALSE)
             n == Memory(r.ptr, size, alignment, family, TRUE)
             g == Set(r.heap, r.ptr, size, Zero)
  <2>1. r # Result(h, 0)
    BY <1>2, ResultIs
  <2>2. PICK b \in Blocks : Change(h, r.heap, {}, {b}) /\ Placed(r.heap, m, b)
    BY <2>1 DEF NewMemory
  <2>3. /\ m.ptr = r.ptr /\ m.size = size /\ m.alignment = alignment /\ m.family = family
        /\ n.ptr = r.ptr /\ n.size = size /\ n.alignment = alignment /\ n.family = family
    BY DEF Memory
  <2> HIDE DEF m, n
  <2>4. /\ b \in r.heap.blocks /\ r.ptr \in Addresses
        /\ b.start <= r.ptr /\ r.ptr + size <= b.start + b.size
    BY <2>2, <2>3 DEF Placed
  <2>5. /\ SoundHeap(r.heap) /\ Zero \in Cells /\ r.ptr \in Nat /\ b.start \in Nat
        /\ size \in Nat
    BY <2>2, <2>4, AlignedMemoryAssumption DEF Change, Cells, Addresses, Blocks
  <2> DEFINE k == r.heap
             q == r.ptr
  <2> HIDE DEF k, q
  <2>6. /\ SoundHeap(k) /\ b \in k.blocks /\ q \in Nat /\ size \in Nat
        /\ b.start <= q /\ q + size <= b.start + b.size /\ Zero \in Cells
    BY <2>4, <2>5 DEF k, q
  <2>7. Change(k, Set(k, q, size, Zero), {b}, {b})
    BY <2>6, SetInBlock, Zenon
  <2>8. \A a \in Addresses : Set(k, q, size, Zero).mem[a] =
               IF q <= a /\ a < q + size THEN Zero ELSE k.mem[a]
    <3>1. k \in Heaps /\ q \in Int /\ size \in Int
      BY <2>6 DEF SoundHeap
    <3>2. QED
      BY <2>6, <3>1, SetResult
  <2>9. /\ Change(r.heap, g, {b}, {b})
        /\ \A a \in Addresses : g.mem[a] =
               IF r.ptr <= a /\ a < r.ptr + size THEN Zero ELSE r.heap.mem[a]
    BY <2>7, <2>8 DEF k, q
  <2> HIDE DEF g
  <2>10. Change(h, g, {}, {b})
    BY <2>2, <2>9, WritingAfterwards
  <2>11. Placed(g, n, b)
    <3>1. b \in g.blocks
      BY <2>9 DEF Change
    <3>2. CASE family = "aligned" /\ build = "generic"
      <4>1. b.start <= r.ptr - POINTER /\ r.heap.mem[r.ptr - POINTER] = b.start
        BY <2>2, <2>3, <3>2 DEF Placed
      <4>2. r.ptr - POINTER \in Addresses /\ ~(r.ptr <= r.ptr - POINTER)
        <5>1. b.start \in Nat \ {0}
          BY <2>4, <2>5, AddressTypes DEF SoundHeap
        <5>2. QED
          BY <2>4, <2>5, <4>1, <5>1, AlignedMemoryAssumption DEF Addresses, POINTER
      <4>3. g.mem[r.ptr - POINTER] = b.start
        BY <2>9, <4>1, <4>2
      <4>4. QED
        BY <2>2, <2>3, <3>1, <3>2, <4>1, <4>3 DEF Placed
    <3>3. CASE ~(family = "aligned" /\ build = "generic")
      BY <2>2, <2>3, <3>1, <3>3 DEF Placed
    <3>4. QED
      BY <3>2, <3>3
  <2>12. Zeroed(g, n)
    BY <2>3, <2>9 DEF Zeroed
  <2>13. Result(g, r.ptr).heap = g /\ Result(g, r.ptr).ptr = r.ptr
    BY ResultIs
  <2>14. NewMemory(h, Result(g, r.ptr), size, alignment, family, TRUE)
    BY <2>10, <2>11, <2>12, <2>13 DEF NewMemory, n
  <2>15. QED
    BY <1>2, <2>14 DEF g
<1>3. QED
  BY <1>1, <1>2

\* The product of a count and a size, neither of them zero.
LEMMA ProductNotZero ==
    ASSUME NEW i \in Nat \ {0}, NEW k \in Nat \ {0}
    PROVE  i * k \in Nat \ {0}
  BY SMT

\* safe_calloc: its check of the product keeps the size from wrapping around.
LEMMA CallocGives ==
    ASSUME NEW h, SoundHeap(h), NEW at \in Places, NEW count \in Nat, NEW size \in Nat
    PROVE  NewMemory(h, safe_calloc(h, at, count, size), count * size, 1, "plain", TRUE)
<1>1. CASE count = 0 \/ size = 0 \/ count > SIZE_MAX \div size
  BY <1>1 DEF safe_calloc, NewMemory
<1>2. CASE ~(count = 0 \/ size = 0 \/ count > SIZE_MAX \div size)
  <2>1. count * size \in Nat \ {0}
    BY <1>2, ProductNotZero
  <2>2. NewMemory(h, malloc(h, at, count * size), count * size, 1, "plain", FALSE)
    BY <2>1, MallocGives
  <2> DEFINE total == count * size
             new == malloc(h, at, total)
             full == IF new.ptr = 0 THEN new
                     ELSE Result(Set(new.heap, new.ptr, total, Zero), new.ptr)
  <2>3. NewMemory(h, full, count * size, 1, "plain", TRUE)
    BY <2>1, <2>2, ZeroesGiven
  <2>4. new.ptr = 0 \/ new.ptr = at
    BY DEF malloc, Result
  <2>5. safe_calloc(h, at, count, size) = full
    BY <1>2, <2>4 DEF safe_calloc
  <2>6. QED
    BY <2>3, <2>5
<1>3. QED
  BY <1>1, <1>2

\* The size is rounded up by less than the alignment.
LEMMA SizeRoundUp ==
    ASSUME NEW size \in Nat, NEW a \in Nat \ {0}
    PROVE  /\ aligned_Size_Round_Up(size, a) \in Nat
           /\ size <= aligned_Size_Round_Up(size, a)
           /\ aligned_Size_Round_Up(size, a) <= size + a
           /\ size = 0 => aligned_Size_Round_Up(size, a) = 0
<1>1. size % a \in 0 .. a - 1
  OBVIOUS
<1>2. size = 0 => size % a = 0
  OBVIOUS
<1>3. CASE size > (SIZE_MAX - a) + 1 \/ size % a = 0
  BY <1>3 DEF aligned_Size_Round_Up
<1>4. CASE ~(size > (SIZE_MAX - a) + 1 \/ size % a = 0)
  BY <1>1, <1>2, <1>4 DEF aligned_Size_Round_Up
<1>5. QED
  BY <1>3, <1>4

\* A size that fits in a size_t does not wrap around.
LEMMA NotWrapped ==
    ASSUME NEW n \in Nat, n <= SIZE_MAX
    PROVE  Wrapped(n) = n
<1>1. SIZE_MAX \in Nat
  BY AlignedMemoryAssumption
<1>2. \A i, k \in Nat : i <= k => i % (k + 1) = i
  OBVIOUS
<1>3. QED
  BY <1>1, <1>2 DEF Wrapped

\* malloc_aligned with the allocator of the platform: the size is rounded up to a
\* multiple of the alignment.
LEMMA MallocAlignedC11 ==
    ASSUME NEW h, SoundHeap(h), NEW at \in Places, NEW size \in Nat \ {0}, build = "c11",
           NEW a \in Nat, PowerOfTwo(a), size + a <= SIZE_MAX,
           NEW asked \in Nat \ {0}, asked <= size, NEW al \in Nat, al <= a
    PROVE  NewMemory(h, malloc_aligned(h, at, size, a), asked, al, "aligned", FALSE)
<1> DEFINE room == IF size % a = 0 THEN size ELSE Wrapped(size + a - (size % a))
           r == malloc(h, at, room)
           b == Block(at, room)
           m == Memory(r.ptr, asked, al, "aligned", FALSE)
<1>1. malloc_aligned(h, at, size, a) = IF at % a = 0 THEN r ELSE Result(h, 0)
  BY DEF malloc_aligned, aligned_alloc
<1>2. room \in Nat \ {0} /\ size <= room
  <2>1. a \in Nat \ {0}
    BY DEF PowerOfTwo
  <2>2. size % a \in 0 .. a - 1
    BY <2>1
  <2>3. CASE size % a = 0
    BY <2>3
  <2>4. CASE size % a # 0
    <3>1. size + a - (size % a) \in Nat /\ size + a - (size % a) <= SIZE_MAX
      BY <2>1, <2>2, <2>4, AlignedMemoryAssumption
    <3>2. room = size + a - (size % a)
      BY <2>4, <3>1, NotWrapped
    <3>3. QED
      BY <2>1, <2>2, <3>2
  <2>5. QED
    BY <2>3, <2>4
<1>3. SUFFICES ASSUME at % a = 0, r # Result(h, 0)
               PROVE  NewMemory(h, r, asked, al, "aligned", FALSE)
  <2>1. NewMemory(h, Result(h, 0), asked, al, "aligned", FALSE)
    BY RefusalIsSound
  <2> HIDE DEF r
  <2>2. QED
    BY <1>1, <2>1
<1> HIDE DEF room
<1>4. /\ r.ptr = at /\ at \in Addresses /\ room \in Addresses
      /\ Change(h, r.heap, {}, {b})
  BY <1>2, <1>3, MallocResult
<1>5. b \in Blocks /\ b.start = at /\ b.size = room
  BY <1>4, BlockIn
<1>6. /\ m.ptr = at /\ m.size = asked /\ m.alignment = al /\ m.family = "aligned"
      /\ m.zeroed = FALSE
  BY <1>4 DEF Memory
<1> HIDE DEF r, b, m
<1>7. b \in r.heap.blocks
  BY <1>4 DEF Change
<1>8. a \in Addresses /\ at \in Nat
  <2>1. at \in Nat \ {0} /\ at <= Top /\ Top \in Nat
    BY <1>4, AlignedMemoryAssumption DEF Addresses
  <2>2. a # 0
    BY DEF PowerOfTwo
  <2>3. \A i, k \in Nat \ {0} : i % k = 0 => k <= i
    OBVIOUS
  <2>4. QED
    BY <1>3, <2>1, <2>2, <2>3 DEF Addresses
<1>9. Placed(r.heap, m, b)
  <2>1. at + asked <= at + room
    BY <1>2, <1>8
  <2>2. \E q \in Addresses : PowerOfTwo(q) /\ q >= al /\ at % q = 0
    BY <1>3, <1>8
  <2>3. QED
    BY <1>4, <1>5, <1>6, <1>7, <1>8, <2>1, <2>2 DEF Placed
<1>10. Zeroed(r.heap, m)
  BY <1>6 DEF Zeroed
<1>11. QED
  BY <1>4, <1>5, <1>9, <1>10 DEF NewMemory, m

\* malloc_aligned without it: the address moved up to the alignment, the cell of the
\* hidden address in front of it and the whole size are within the block.
LEMMA MallocAlignedGeneric ==
    ASSUME NEW h, SoundHeap(h), NEW at \in Places, NEW size \in Nat \ {0}, build = "generic",
           NEW a \in Nat, PowerOfTwo(a), size + a + POINTER <= SIZE_MAX,
           NEW asked \in Nat \ {0}, asked <= size, NEW al \in Nat, al <= a
    PROVE  NewMemory(h, malloc_aligned(h, at, size, a), asked, al, "aligned", FALSE)
<1> DEFINE room == size + a + POINTER
           new == malloc(h, at, room)
           x == AlignedAddress(at, a)
           g == [new.heap EXCEPT !.mem[x - POINTER] = at]
           b == Block(at, room)
           m == Memory(x, asked, al, "aligned", FALSE)
<1>1. a \in Nat \ {0} /\ room \in Nat \ {0} /\ POINTER = 1
  BY DEF PowerOfTwo, POINTER
<1>2. Wrapped(room) = room
  BY <1>1, NotWrapped
<1>3. malloc_aligned(h, at, size, a) =
          IF new.ptr = 0 THEN new ELSE store_aligned_original_ptr(new.heap, new.ptr, a)
  <2>1. has_single_bit(a) /\ size # 0
    BY DEF has_single_bit
  <2>2. QED
    BY <1>2, <2>1 DEF malloc_aligned
<1> HIDE DEF room
<1>4. CASE new = Result(h, 0)
  <2>1. new.ptr = 0
    BY <1>4 DEF Result
  <2>2. malloc_aligned(h, at, size, a) = Result(h, 0)
    BY <1>3, <1>4, <2>1
  <2>3. QED
    BY <2>2, RefusalIsSound
<1>5. CASE new # Result(h, 0)
  <2>1. /\ new.ptr = at /\ at \in Addresses /\ room \in Addresses /\ at + room - 1 <= Top
        /\ Change(h, new.heap, {}, {b})
    BY <1>1, <1>5, MallocResult
  <2>2. malloc_aligned(h, at, size, a) = Result(g, x)
    <3>1. at # 0
      BY <2>1, AlignedMemoryAssumption DEF Addresses
    <3>2. QED
      BY <1>3, <2>1, <3>1 DEF store_aligned_original_ptr
  <2>3. b \in Blocks /\ b.start = at /\ b.size = room
    BY <2>1, BlockIn
  <2>4. m.ptr = x /\ m.size = asked /\ m.alignment = al /\ m.family = "aligned" /\ m.zeroed = FALSE
    BY DEF Memory
  <2> DEFINE k == new.heap
  <2> HIDE DEF b, m, new
  <2>5. at \in Nat \ {0}
    BY <2>1, AlignedMemoryAssumption DEF Addresses
  <2>6. x \in Nat /\ at + 2 <= x /\ x <= at + 1 + a /\ x % a = 0
    <3>1. at + 1 \in Nat
      BY <2>5
    <3>2. (at + 1) % a \in 0 .. a - 1 /\ ((at + 1) + (a - ((at + 1) % a))) % a = 0
      BY <1>1, <3>1, NextMultiple
    <3>3. x = (at + 1) + (a - ((at + 1) % a))
      BY <1>1 DEF AlignedAddress
    <3>4. QED
      BY <1>1, <2>5, <3>2, <3>3
  <2> HIDE DEF x
  <2>7. x + size <= at + room
    BY <1>1, <2>5, <2>6 DEF room
  <2>8. /\ x \in Addresses /\ x - POINTER \in Addresses /\ at <= x - POINTER
        /\ x - POINTER < at + room
    BY <1>1, <2>1, <2>5, <2>6, <2>7, AlignedMemoryAssumption DEF Addresses
  <2>9. /\ SoundHeap(k) /\ k \in Heaps /\ b \in k.blocks /\ at \in Cells
        /\ k.mem \in [Addresses -> Cells]
    BY <2>1 DEF Change, SoundHeap, Heaps, Cells, Addresses
  <2>10. /\ g \in Heaps /\ g.blocks = k.blocks /\ g.corrupt = k.corrupt
         /\ g.mem = [k.mem EXCEPT ![x - POINTER] = at]
    BY <2>8, <2>9 DEF Heaps
  <2> HIDE DEF g, k
  <2>11. /\ g.mem[x - POINTER] = at
         /\ \A i \in Addresses : i # x - POINTER => g.mem[i] = k.mem[i]
    BY <2>8, <2>9, <2>10
  <2>12. Change(k, g, {b}, {b})
    <3>1. SoundHeap(g)
      BY <2>9, <2>10 DEF SoundHeap
    <3>2. ASSUME NEW d \in k.blocks \ {b}, NEW i \in Addresses, Inside(i, d)
          PROVE  g.mem[i] = k.mem[i]
      <4>1. Apart(d, b)
        BY <2>9, <3>2 DEF SoundHeap
      <4>2. d.start \in Nat /\ d.size \in Nat /\ i \in Nat /\ room \in Nat
        BY <1>1, <2>9, AddressTypes, AlignedMemoryAssumption DEF Addresses
      <4>3. ~(at <= i /\ i < at + room)
        BY <2>3, <2>5, <3>2, <4>1, <4>2 DEF Apart, Inside
      <4>4. QED
        BY <2>8, <2>11, <4>3
    <3>3. QED
      BY <2>9, <2>10, <3>1, <3>2 DEF Change
  <2>13. Change(h, g, {}, {b})
    BY <2>1, <2>12, WritingAfterwards DEF k
  <2>14. Placed(g, m, b)
    <3>1. a \in Addresses
      <4>1. a <= x
        <5>1. \A i, j \in Nat \ {0} : i % j = 0 => j <= i
          OBVIOUS
        <5>2. QED
          BY <1>1, <2>5, <2>6, <5>1
      <4>2. QED
        BY <1>1, <2>8, <4>1, AlignedMemoryAssumption DEF Addresses
    <3>2. x + asked <= at + room /\ at <= x
      BY <1>1, <2>5, <2>6, <2>7
    <3>3. \E q \in Addresses : PowerOfTwo(q) /\ q >= al /\ x % q = 0
      BY <2>6, <3>1
    <3>4. QED
      BY <2>3, <2>4, <2>8, <2>9, <2>10, <2>11, <3>2, <3>3 DEF Placed
  <2>15. Zeroed(g, m)
    BY <2>4 DEF Zeroed
  <2>16. Result(g, x).heap = g /\ Result(g, x).ptr = x
    BY ResultIs
  <2>17. NewMemory(h, Result(g, x), asked, al, "aligned", FALSE)
    BY <2>3, <2>13, <2>14, <2>15, <2>16 DEF NewMemory, m
  <2>18. QED
    BY <2>2, <2>17 DEF g, k
<1>6. QED
  BY <1>4, <1>5

\* malloc_aligned in either build.
LEMMA MallocAlignedGives ==
    ASSUME build \in {"c11", "generic"},
           NEW h, SoundHeap(h), NEW at \in Places, NEW size \in Nat \ {0},
           NEW a \in Nat, PowerOfTwo(a), size + a + POINTER <= SIZE_MAX,
           NEW asked \in Nat \ {0}, asked <= size, NEW al \in Nat, al <= a
    PROVE  NewMemory(h, malloc_aligned(h, at, size, a), asked, al, "aligned", FALSE)
<1>1. size + a <= SIZE_MAX
  BY AlignedMemoryAssumption DEF POINTER
<1>2. QED
  BY <1>1, MallocAlignedC11, MallocAlignedGeneric

\* calloc_aligned, for a product that fits in a size_t.
LEMMA CallocAlignedGives ==
    ASSUME build \in {"c11", "generic"},
           NEW h, SoundHeap(h), NEW at \in Places, NEW num \in Nat, NEW size \in Nat,
           NEW a \in Nat, PowerOfTwo(a), num * size + a + POINTER <= SIZE_MAX
    PROVE  NewMemory(h, calloc_aligned(h, at, num, size, a), num * size, a, "aligned", TRUE)
<1> DEFINE n == num * size
           new == malloc_aligned(h, at, n, a)
<1>1. n \in Nat /\ n + a + POINTER <= SIZE_MAX
  BY SMT
<1> HIDE DEF n
<1>2. Wrapped(n) = n
  BY <1>1, NotWrapped, AlignedMemoryAssumption DEF POINTER
<1>3. calloc_aligned(h, at, num, size, a) =
          IF n = 0 THEN Result(h, 0)
          ELSE IF new.ptr = 0 THEN new ELSE Result(Set(new.heap, new.ptr, n, Zero), new.ptr)
  BY <1>2 DEF calloc_aligned, n
<1>4. CASE n = 0
  BY <1>3, <1>4, RefusalIsSound DEF n
<1>5. CASE n # 0
  <2>1. NewMemory(h, new, n, a, "aligned", FALSE)
    <3>1. n \in Nat \ {0} /\ n <= n /\ a <= a
      BY <1>1, <1>5
    <3>2. QED
      BY <1>1, <3>1, MallocAlignedGives, Zenon
  <2> HIDE DEF new
  <2>2. NewMemory(h, IF new.ptr = 0 THEN new
                     ELSE Result(Set(new.heap, new.ptr, n, Zero), new.ptr), n, a, "aligned", TRUE)
    BY <1>1, <1>5, <2>1, ZeroesGiven
  <2>3. QED
    BY <1>3, <1>5, <2>2 DEF n
<1>6. QED
  BY <1>4, <1>5

\* What the rounding of the safe_ functions needs to stay within a size_t.
Roundable(size, alignment) == size + 2 * alignment_Round_Up(alignment) + POINTER <= SIZE_MAX

\* safe_malloc_aligned: alignment and size are rounded up first.
LEMMA SafeMallocAlignedGives ==
    ASSUME build \in {"c11", "generic"},
           NEW h, SoundHeap(h), NEW at \in Places, NEW size \in Nat, NEW al \in Nat,
           Roundable(size, al)
    PROVE  NewMemory(h, safe_malloc_aligned(h, at, size, al), size, al, "aligned", FALSE)
<1> DEFINE a == alignment_Round_Up(al)
           room == aligned_Size_Round_Up(size, a)
<1>1. CASE size = 0
  BY <1>1, RefusalIsSound DEF safe_malloc_aligned
<1>2. CASE size # 0
  <2>1. safe_malloc_aligned(h, at, size, al) = malloc_aligned(h, at, room, a)
    BY <1>2 DEF safe_malloc_aligned
  <2>2. a \in Nat \ {0} /\ al <= a /\ PowerOfTwo(a) /\ size + 2 * a + POINTER <= SIZE_MAX
    BY AlignmentRoundUp DEF Roundable
  <2> HIDE DEF a
  <2>3. room \in Nat /\ size <= room /\ room <= size + a
    BY <2>2, SizeRoundUp
  <2> HIDE DEF room
  <2>4. room \in Nat \ {0} /\ room + a + POINTER <= SIZE_MAX
    BY <1>2, <2>2, <2>3, AlignedMemoryAssumption DEF POINTER
  <2>5. NewMemory(h, malloc_aligned(h, at, room, a), size, al, "aligned", FALSE)
    BY <1>2, <2>2, <2>3, <2>4, MallocAlignedGives
  <2>6. QED
    BY <2>1, <2>5
<1>3. QED
  BY <1>1, <1>2

\* safe_calloc_aligned: the size asked for is zeroed, not the one rounded up.
LEMMA SafeCallocAlignedGives ==
    ASSUME build \in {"c11", "generic"},
           NEW h, SoundHeap(h), NEW at \in Places, NEW count \in Nat, NEW size \in Nat,
           NEW al \in Nat, count * size <= SIZE_MAX => Roundable(count * size, al)
    PROVE  NewMemory(h, safe_calloc_aligned(h, at, count, size, al), count * size, al,
                     "aligned", TRUE)
<1> DEFINE n == count * size
           new == safe_malloc_aligned(h, at, n, al)
<1>1. CASE count = 0 \/ size = 0 \/ count > SIZE_MAX \div size
  BY <1>1, RefusalIsSound DEF safe_calloc_aligned
<1>2. CASE ~(count = 0 \/ size = 0 \/ count > SIZE_MAX \div size)
  <2>1. n \in Nat \ {0} /\ n <= SIZE_MAX
    <3>1. n \in Nat \ {0}
      BY <1>2, ProductNotZero
    <3> DEFINE top == SIZE_MAX \div size
    <3>2. top \in Nat /\ size * top <= SIZE_MAX /\ count <= top
      BY <1>2, AlignedMemoryAssumption
    <3>3. \A i, j, k \in Nat : i <= j => i * k <= k * j
      OBVIOUS
    <3>4. count * size <= size * top
      BY <3>2, <3>3
    <3>5. size * top \in Nat
      BY <3>2
    <3> HIDE DEF top
    <3>6. QED
      BY <3>1, <3>2, <3>4, <3>5, AlignedMemoryAssumption
  <2>2. safe_calloc_aligned(h, at, count, size, al) =
            IF new.ptr = 0 THEN new ELSE Result(Set(new.heap, new.ptr, n, Zero), new.ptr)
    BY <1>2 DEF safe_calloc_aligned
  <2>3. Roundable(n, al)
    BY <2>1
  <2> HIDE DEF n
  <2>4. NewMemory(h, new, n, al, "aligned", FALSE)
    BY <2>1, <2>3, SafeMallocAlignedGives
  <2> HIDE DEF new
  <2>5. NewMemory(h, IF new.ptr = 0 THEN new
                     ELSE Result(Set(new.heap, new.ptr, n, Zero), new.ptr), n, al, "aligned", TRUE)
    BY <2>1, <2>4, ZeroesGiven
  <2>6. QED
    BY <2>2, <2>5 DEF n
<1>3. QED
  BY <1>1, <1>2

-----------------------------------------------------------------------------
(* The functions that free and reallocate                                  *)

\* The free of the memory's family takes its block out of the heap.
LEMMA FreeOfPlaced ==
    ASSUME NEW h, SoundHeap(h), NEW m, NEW b, Placed(h, m, b)
    PROVE  /\ m.family = "plain" => Change(h, free(h, m.ptr), {b}, {})
           /\ build \in {"c11", "generic"} /\ m.family = "aligned" =>
                  Change(h, free_aligned(h, m.ptr), {b}, {})
<1>1. b \in h.blocks /\ Change(h, free(h, b.start), {b}, {})
  BY FreeResult DEF Placed
<1>2. m.ptr # 0
  BY AlignedMemoryAssumption DEF Placed, Addresses
<1>3. m.family = "plain" => free(h, m.ptr) = free(h, b.start)
  BY DEF Placed
<1>4. build \in {"c11", "generic"} /\ m.family = "aligned" =>
          free_aligned(h, m.ptr) = free(h, b.start)
  BY <1>2 DEF Placed, free_aligned, retrieve_aligned_original_ptr
<1>5. QED
  BY <1>1, <1>3, <1>4

\* free_aligned(NULL) does nothing.
LEMMA FreeAlignedOfNull ==
    ASSUME NEW h
    PROVE  free_aligned(h, 0) = h
  BY FreeOfNull DEF free_aligned, retrieve_aligned_original_ptr

\* Nothing is freed and nothing allocated.
LEMMA NoChange ==
    ASSUME NEW h, SoundHeap(h)
    PROVE  Change(h, h, {}, {})
  BY DEF Change

Taken(r, size, alignment, family, zeroed) ==
    IF r.ptr = 0 THEN NoMemory ELSE Memory(r.ptr, size, alignment, family, zeroed)

\* What a call of caller c promises: the caller ends up with memory as it asked
\* for, or with none, and the blocks of all others are left alone.
Served(c, r, size, alignment, family, zeroed) ==
    /\ Handed(c, r.heap, Taken(r, size, alignment, family, zeroed))
    /\ Grown(c, r.heap, Taken(r, size, alignment, family, zeroed))

Refused(r) == r.ptr = 0 /\ r.heap = heap

\* What a reallocation promises: a refusal of a size other than zero leaves
\* everything as it is.
Reserved(c, r, size, alignment, family) ==
    IF r.ptr = 0 /\ size # 0 THEN Refused(r) ELSE Served(c, r, size, alignment, family, FALSE)

\* A caller without a pointer.
LEMMA NoMemoryIs ==
    NoMemory \in Memories /\ NoMemory.ptr = 0
  BY AlignedMemoryAssumption DEF NoMemory, Memory, Memories

\* Memory that lies in a block has a type.
LEMMA PlacedMemoryType ==
    ASSUME NEW h, NEW b, NEW q, NEW size \in Nat, NEW alignment \in Nat,
           NEW family \in {"plain", "aligned"}, NEW zeroed \in BOOLEAN,
           Placed(h, Memory(q, size, alignment, family, zeroed), b)
    PROVE  /\ Memory(q, size, alignment, family, zeroed) \in Memories
           /\ q \in Nat \ {0}
  BY AlignedMemoryAssumption DEF Placed, Memory, Memories, Addresses

\* A caller without a pointer takes what an allocation gives.
LEMMA NewMemoryServes ==
    ASSUME MemoryInv, NEW c \in Callers, Free(c), NEW r, NEW size \in Nat, NEW alignment \in Nat,
           NEW family \in {"plain", "aligned"}, NEW zeroed \in BOOLEAN,
           NewMemory(heap, r, size, alignment, family, zeroed)
    PROVE  Served(c, r, size, alignment, family, zeroed)
<1>1. Mine(c) = {} /\ held[c].ptr = 0
  BY MineIsOne DEF Free, p
<1>2. Grown(c, r.heap, Taken(r, size, alignment, family, zeroed))
  BY <1>1 DEF Grown
<1>3. CASE r = Result(heap, 0)
  <2>1. r.ptr = 0 /\ r.heap = heap
    BY <1>3 DEF Result
  <2>2. Change(heap, heap, {}, {})
    BY NoChange DEF MemoryInv, AllPlaced
  <2>3. QED
    BY <1>1, <1>2, <2>1, <2>2, NoMemoryIs DEF Served, Taken, Handed
<1>4. CASE r # Result(heap, 0)
  <2> DEFINE m == Memory(r.ptr, size, alignment, family, zeroed)
  <2>1. PICK b \in Blocks : Change(heap, r.heap, {}, {b}) /\ Placed(r.heap, m, b) /\ Zeroed(r.heap, m)
    BY <1>4 DEF NewMemory
  <2>2. m \in Memories /\ r.ptr # 0
    BY <2>1, PlacedMemoryType
  <2>3. Taken(r, size, alignment, family, zeroed) = m
    BY <2>2 DEF Taken
  <2> HIDE DEF m
  <2>4. Handed(c, r.heap, m)
    BY <1>1, <2>1, <2>2 DEF Handed
  <2>5. QED
    BY <1>2, <2>3, <2>4 DEF Served
<1>5. QED
  BY <1>3, <1>4

\* The same for a reallocation of NULL.
LEMMA NewMemoryReserves ==
    ASSUME MemoryInv, NEW c \in Callers, Free(c), NEW r, NEW size \in Nat, NEW alignment \in Nat,
           NEW family \in {"plain", "aligned"}, NewMemory(heap, r, size, alignment, family, FALSE)
    PROVE  Reserved(c, r, size, alignment, family)
<1>1. Served(c, r, size, alignment, family, FALSE)
  BY NewMemoryServes
<1>2. ASSUME r.ptr = 0 PROVE Refused(r)
  <2>1. r = Result(heap, 0)
    BY <1>2, PlacedMemoryType DEF NewMemory
  <2>2. QED
    BY <2>1, ResultIs DEF Refused
<1>3. QED
  BY <1>1, <1>2 DEF Reserved

\* The free of the caller's family leaves it without memory.
LEMMA FreeServes ==
    ASSUME MemoryInv, NEW c \in Callers, NEW size \in Nat, NEW alignment, NEW family, NEW zeroed
    PROVE  /\ Owns(c, "plain") =>
                  Served(c, Result(free(heap, p(c)), 0), size, alignment, family, zeroed)
           /\ Owns(c, "aligned") =>
                  Served(c, Result(free_aligned(heap, p(c)), 0), size, alignment, family, zeroed)
<1> DEFINE T(r) == Taken(r, size, alignment, family, zeroed)
<1>1. SoundHeap(heap) /\ build \in {"c11", "generic"}
  BY DEF MemoryInv, AllPlaced
<1>2. ASSUME NEW g, Change(heap, g, Mine(c), {})
      PROVE  Served(c, Result(g, 0), size, alignment, family, zeroed)
  <2>1. T(Result(g, 0)) = NoMemory /\ Result(g, 0).heap = g
    BY ResultIs DEF Taken
  <2> HIDE DEF T
  <2>2. Handed(c, g, NoMemory) /\ Grown(c, g, NoMemory)
    BY <1>2, NoMemoryIs DEF Handed, Grown
  <2>3. QED
    BY <2>1, <2>2 DEF Served, T
<1>3. CASE Free(c)
  <2>1. Mine(c) = {} /\ p(c) = 0
    BY <1>3, MineIsOne DEF Free, p
  <2>2. free(heap, p(c)) = heap /\ free_aligned(heap, p(c)) = heap
    BY <2>1, FreeOfNull, FreeAlignedOfNull
  <2>3. Change(heap, heap, Mine(c), {})
    BY <1>1, <2>1, NoChange
  <2>4. QED
    BY <1>2, <2>2, <2>3
<1>4. CASE ~Free(c)
  <2>1. PICK b \in heap.blocks : Mine(c) = {b} /\ Placed(heap, held[c], b)
    BY <1>4, MineIsOne DEF Free
  <2>2. Owns(c, "plain") => Change(heap, free(heap, p(c)), Mine(c), {})
    BY <1>1, <1>4, <2>1, FreeOfPlaced DEF Owns, p
  <2>3. Owns(c, "aligned") => Change(heap, free_aligned(heap, p(c)), Mine(c), {})
    BY <1>1, <1>4, <2>1, FreeOfPlaced DEF Owns, p
  <2>4. QED
    BY <1>2, <2>2, <2>3
<1>5. QED
  BY <1>3, <1>4

\* The C library's realloc, for a caller that holds plain memory.
LEMMA ReallocServes ==
    ASSUME MemoryInv, NEW c \in Callers, ~Free(c), held[c].family = "plain",
           NEW at \in Places, NEW size \in Nat \ {0}
    PROVE  LET r == realloc(heap, at, p(c), size)
           IN Reserved(c, r, size, 1, "plain")
<1> DEFINE r == realloc(heap, at, p(c), size)
           m == Memory(at, size, 1, "plain", FALSE)
           nb == Block(at, size)
<1>1. SoundHeap(heap) /\ held \in [Callers -> Memories]
  BY DEF MemoryInv, AllPlaced
<1>2. PICK b \in heap.blocks : Mine(c) = {b} /\ Placed(heap, held[c], b)
  BY MineIsOne DEF Free
<1>3. p(c) = b.start /\ r = realloc(heap, at, b.start, size)
  BY <1>2 DEF Placed, p
<1> HIDE DEF r
<1>4. SUFFICES ASSUME r # Result(heap, 0)
               PROVE  r.ptr # 0 /\ Served(c, r, size, 1, "plain", FALSE)
  <2>1. Reserved(c, Result(heap, 0), size, 1, "plain")
    BY ResultIs DEF Reserved, Refused
  <2>2. QED
    BY <2>1 DEF r, Reserved
<1>5. /\ r.ptr = at /\ at \in Addresses /\ size \in Addresses
      /\ Change(heap, r.heap, {b}, {nb})
      /\ \A i \in Nat : i < size /\ i < b.size =>
             r.heap.mem[at + i] = heap.mem[b.start + i]
  <2>1. Moved(heap, r, b, at, size)
    BY <1>1, <1>3, <1>4, ReallocResult
  <2>2. QED
    BY <2>1 DEF Moved
<1>6. nb \in Blocks /\ nb.start = at /\ nb.size = size
  BY <1>5, BlockIn
<1>7. m.ptr = at /\ m.size = size /\ m.alignment = 1 /\ m.family = "plain" /\ m.zeroed = FALSE
  BY DEF Memory
<1>8. at \in Nat \ {0}
  BY <1>5, AlignedMemoryAssumption DEF Addresses
<1>9. Taken(r, size, 1, "plain", FALSE) = m
  BY <1>5, <1>8 DEF Taken
<1> HIDE DEF m, nb
<1>10. Placed(r.heap, m, nb)
  <2>1. nb \in r.heap.blocks
    BY <1>5 DEF Change
  <2>2. 1 \in Addresses /\ PowerOfTwo(1) /\ at % 1 = 0
    BY <1>5, <1>8, AlignedMemoryAssumption DEF PowerOfTwo, Addresses
  <2>3. QED
    BY <1>5, <1>6, <1>7, <1>8, <2>1, <2>2 DEF Placed
<1>11. Zeroed(r.heap, m)
  BY <1>7 DEF Zeroed
<1>12. m \in Memories
  BY <1>10, PlacedMemoryType DEF m
<1>13. Handed(c, r.heap, m)
  BY <1>2, <1>5, <1>6, <1>10, <1>11, <1>12 DEF Handed
<1>14. Grown(c, r.heap, m)
  <2>1. SUFFICES ASSUME m.size >= held[c].size, NEW i \in Nat, i < held[c].size
                 PROVE  r.heap.mem[m.ptr + i] = heap.mem[held[c].ptr + i]
    BY DEF Grown
  <2>2. /\ held[c].ptr = b.start /\ held[c].size \in Nat
        /\ held[c].ptr + held[c].size <= b.start + b.size
    BY <1>2, <1>3 DEF Placed, p
  <2>3. b.start \in Nat /\ b.size \in Nat
    BY <1>1, AddressTypes DEF SoundHeap
  <2>4. i < size /\ i < b.size
    BY <1>7, <2>1, <2>2, <2>3
  <2>5. QED
    BY <1>5, <1>7, <2>2, <2>4
<1>15. QED
  BY <1>5, <1>8, <1>9, <1>13, <1>14 DEF Served

\* safe_realloc and safe_reallocf: the block is moved, freed or kept as documented.
LEMMA SafeReallocServes ==
    ASSUME MemoryInv, NEW c \in Callers, Owns(c, "plain"), NEW at \in Places, NEW size \in Nat
    PROVE  /\ LET r == safe_realloc(heap, at, p(c), size)
              IN Reserved(c, r, size, 1, "plain")
           /\ Served(c, safe_reallocf(heap, at, p(c), size), size, 1, "plain", FALSE)
<1>1. SoundHeap(heap)
  BY DEF MemoryInv, AllPlaced
<1>2. CASE Free(c)
  <2> DEFINE r == safe_malloc(heap, at, size)
  <2>1. /\ safe_realloc(heap, at, p(c), size) = r
        /\ safe_reallocf(heap, at, p(c), size) = r
    BY <1>2 DEF safe_realloc, safe_reallocf, Free, p
  <2>2. NewMemory(heap, r, size, 1, "plain", FALSE)
    BY <1>1, MallocGives
  <2> HIDE DEF r
  <2>3. Served(c, r, size, 1, "plain", FALSE) /\ Reserved(c, r, size, 1, "plain")
    BY <1>2, <2>2, NewMemoryServes, NewMemoryReserves
  <2>4. QED
    BY <2>1, <2>3
<1>3. CASE ~Free(c) /\ size = 0
  <2> DEFINE r == Result(free(heap, p(c)), 0)
  <2>1. /\ safe_realloc(heap, at, p(c), size) = r
        /\ safe_reallocf(heap, at, p(c), size) = r
    BY <1>3 DEF safe_realloc, safe_reallocf, Free, p
  <2>2. Served(c, r, size, 1, "plain", FALSE)
    BY FreeServes
  <2>3. QED
    BY <1>3, <2>1, <2>2 DEF Reserved
<1>4. CASE ~Free(c) /\ size # 0
  <2> DEFINE r == realloc(heap, at, p(c), size)
             f == Result(free(heap, p(c)), 0)
  <2>1. /\ safe_realloc(heap, at, p(c), size) = r
        /\ safe_reallocf(heap, at, p(c), size) = IF r.ptr = 0 THEN f ELSE r
    BY <1>4 DEF safe_realloc, safe_reallocf, Free, p
  <2>2. Reserved(c, r, size, 1, "plain")
    BY <1>4, ReallocServes DEF Owns
  <2>3. Served(c, f, size, 1, "plain", FALSE)
    BY FreeServes
  <2> HIDE DEF r, f
  <2>4. QED
    BY <1>4, <2>1, <2>2, <2>3 DEF Reserved
<1>5. QED
  BY <1>2, <1>3, <1>4

\* A smaller size and a weaker alignment than what was asked of the C library.
LEMMA LessIsPlaced ==
    ASSUME NEW h, NEW b, NEW q, NEW family, NEW zeroed,
           NEW room \in Nat, NEW size \in Nat \ {0}, size <= room, NEW a \in Nat, NEW al \in Nat, al <= a,
           Placed(h, Memory(q, room, a, family, zeroed), b), SoundHeap(h)
    PROVE  Placed(h, Memory(q, size, al, family, zeroed), b)
<1> DEFINE m == Memory(q, room, a, family, zeroed)
           n == Memory(q, size, al, family, zeroed)
<1>1. /\ m.ptr = q /\ m.size = room /\ m.alignment = a /\ m.family = family
      /\ n.ptr = q /\ n.size = size /\ n.alignment = al /\ n.family = family
  BY DEF Memory
<1> HIDE DEF m, n
<1>2. Placed(h, m, b)
  BY DEF m
<1>3. q \in Nat /\ b.start \in Nat /\ b.size \in Nat
  BY <1>1, <1>2, AddressTypes, AlignedMemoryAssumption DEF Placed, Addresses, SoundHeap
<1>4. \E x \in Addresses : PowerOfTwo(x) /\ x >= al /\ q % x = 0
  <2>1. PICK x \in Addresses : PowerOfTwo(x) /\ x >= a /\ q % x = 0
    BY <1>1, <1>2 DEF Placed
  <2>2. x >= al
    BY <2>1, AlignedMemoryAssumption DEF Addresses
  <2>3. QED
    BY <2>1, <2>2
<1>5. q + size <= b.start + b.size
  BY <1>1, <1>2, <1>3 DEF Placed
<1>6. Placed(h, n, b)
  BY <1>1, <1>2, <1>4, <1>5 DEF Placed
<1>7. QED
  BY <1>6 DEF n

\* The first bytes at q are those at src, and nothing but block b changed: what
\* lies in it lies there still.
CarriedOver(h, g, b, q, size, a, src, original) ==
    /\ Change(h, g, {b}, {b})
    /\ Placed(g, Memory(q, size, a, "aligned", FALSE), b)
    /\ original <= size => \A i \in Nat : i < original => g.mem[q + i] = h.mem[src + i]

\* What realloc_aligned carries over stays within the new block, and leaves the
\* hidden address in front of it.
LEMMA CarriedResult ==
    ASSUME NEW h, SoundHeap(h), NEW b, NEW q, NEW size \in Nat \ {0}, NEW a,
           Placed(h, Memory(q, size, a, "aligned", FALSE), b),
           NEW src \in Addresses, NEW original \in Nat, src + original - 1 <= Top
    PROVE  CarriedOver(h, Carried(h, q, size, src, original), b, q, size, a, src, original)
<1> DEFINE g == Carried(h, q, size, src, original)
           m == Memory(q, size, a, "aligned", FALSE)
<1>1. m.ptr = q /\ m.size = size /\ m.alignment = a /\ m.family = "aligned"
  BY DEF Memory
<1> HIDE DEF m
<1>2. Placed(h, m, b)
  BY DEF m
<1>3. /\ b \in h.blocks /\ q \in Addresses /\ q \in Nat /\ b.start \in Nat \ {0} /\ b.size \in Nat
      /\ b.start <= q /\ q + size <= b.start + b.size /\ b.start + b.size - 1 <= Top
  BY <1>1, <1>2, AddressTypes, AlignedMemoryAssumption DEF Placed, Addresses, SoundHeap
<1>4. /\ Change(h, g, {b}, {b})
      /\ \A x \in Addresses : ~(q <= x /\ x < q + size) => g.mem[x] = h.mem[x]
      /\ original <= size => \A i \in Nat : i < original => g.mem[q + i] = h.mem[src + i]
  <2>1. CASE original > size
    <3> DEFINE s == Set(h, q, size, Zero)
    <3>1. g = s
      BY <2>1 DEF Carried
    <3>2. Zero \in Cells
      BY DEF Cells
    <3>3. /\ Change(h, s, {b}, {b})
          /\ \A x \in Addresses : s.mem[x] = IF q <= x /\ x < q + size THEN Zero ELSE h.mem[x]
      <4>1. Change(h, s, {b}, {b})
        <5>1. size \in Nat /\ b.start \in Nat
          BY <1>3
        <5>2. QED
          BY <1>3, <3>2, <5>1, SetInBlock, Zenon
      <4>2. h \in Heaps /\ q \in Int /\ size \in Int
        BY <1>3 DEF SoundHeap
      <4>3. QED
        BY <3>2, <4>1, <4>2, SetResult
    <3> HIDE DEF s, g
    <3>4. QED
      BY <2>1, <3>1, <3>3
  <2>2. CASE ~(original > size)
    <3> DEFINE s == Copy(h, q, src, original)
    <3>1. g = s
      BY <2>2 DEF Carried
    <3>2. q + original <= b.start + b.size
      BY <1>3, <2>2
    <3>3. /\ Change(h, s, {b}, {b})
          /\ \A x \in Addresses : s.mem[x] =
                 IF q <= x /\ x < q + original THEN h.mem[src + (x - q)] ELSE h.mem[x]
      <4>1. Change(h, s, {b}, {b})
        BY <1>3, <3>2, CopyIntoBlock, Zenon
      <4>2. h \in Heaps
        BY DEF SoundHeap
      <4>3. QED
        BY <1>3, <4>1, <4>2, CopyResult
    <3> HIDE DEF s, g
    <3>4. ASSUME NEW x \in Addresses, ~(q <= x /\ x < q + size)
          PROVE  g.mem[x] = h.mem[x]
      <4>1. ~(q <= x /\ x < q + original)
        BY <1>3, <2>2, <3>4, AlignedMemoryAssumption DEF Addresses
      <4>2. QED
        BY <3>1, <3>3, <4>1
    <3>5. ASSUME NEW i \in Nat, i < original
          PROVE  g.mem[q + i] = h.mem[src + i]
      <4>1. q + i \in Addresses /\ q <= q + i /\ q + i < q + original /\ (q + i) - q = i
        BY <1>3, <3>2, <3>5, AlignedMemoryAssumption DEF Addresses
      <4>2. g.mem[q + i] = h.mem[src + ((q + i) - q)]
        BY <3>1, <3>3, <4>1
      <4>3. QED
        BY <4>1, <4>2
    <3>6. QED
      BY <3>1, <3>3, <3>4, <3>5
  <2>3. QED
    BY <2>1, <2>2
<1> HIDE DEF g
<1>5. Placed(g, m, b)
  <2>1. b \in g.blocks
    BY <1>4 DEF Change
  <2>2. CASE build = "generic"
    <3>1. b.start <= q - POINTER /\ h.mem[q - POINTER] = b.start
      BY <1>1, <1>2, <2>2 DEF Placed
    <3>2. q - POINTER \in Addresses /\ ~(q <= q - POINTER)
      BY <1>3, <3>1, AlignedMemoryAssumption DEF Addresses, POINTER
    <3>3. g.mem[q - POINTER] = b.start
      BY <1>4, <3>1, <3>2
    <3>4. QED
      BY <1>1, <1>2, <2>1, <2>2, <3>1, <3>3 DEF Placed
  <2>3. CASE build # "generic"
    BY <1>1, <1>2, <2>1, <2>3 DEF Placed
  <2>4. QED
    BY <2>2, <2>3
<1>6. QED
  BY <1>4, <1>5 DEF CarriedOver, g, m

\* realloc_aligned: the new memory, what is carried over, and the free of the old
\* one.  room is the size the block is made for, size and al what the caller asked.
LEMMA ReallocAlignedMoves ==
    ASSUME MemoryInv, NEW c \in Callers, ~Free(c), held[c].family = "aligned",
           NEW k, NEW q, NEW bn \in Blocks, NEW room \in Nat \ {0}, NEW a \in Nat,
           Change(heap, k, {}, {bn}), Placed(k, Memory(q, room, a, "aligned", FALSE), bn),
           NEW size \in Nat \ {0}, size <= room, NEW al \in Nat, al <= a
    PROVE  LET g == free_aligned(Carried(k, q, room, p(c), old(c)), p(c))
           IN Reserved(c, Result(g, q), size, al, "aligned")
<1> DEFINE w == Carried(k, q, room, p(c), old(c))
           g == free_aligned(w, p(c))
           big == Memory(q, room, a, "aligned", FALSE)
           m == Memory(q, size, al, "aligned", FALSE)
           mine == held[c]
<1>1. SoundHeap(heap) /\ build \in {"c11", "generic"} /\ held \in [Callers -> Memories]
  BY DEF MemoryInv, AllPlaced
<1>2. PICK b \in heap.blocks : Mine(c) = {b} /\ Placed(heap, mine, b)
  BY MineIsOne DEF Free
<1>3. /\ p(c) = mine.ptr /\ old(c) = mine.size
      /\ p(c) \in Addresses /\ old(c) \in Nat \ {0} /\ p(c) + old(c) - 1 <= Top
  <2>1. /\ mine.ptr \in Addresses /\ mine.ptr \in Nat /\ mine.size \in Nat \ {0}
        /\ mine.ptr + mine.size <= b.start + b.size
        /\ b.start \in Nat /\ b.size \in Nat /\ b.start + b.size - 1 <= Top
    BY <1>1, <1>2, AddressTypes, AlignedMemoryAssumption DEF Placed, SoundHeap, Addresses
  <2>2. QED
    BY <2>1, AlignedMemoryAssumption DEF p, old
<1> HIDE DEF mine
<1>4. SoundHeap(k) /\ b \in k.blocks /\ bn \in k.blocks /\ b # bn
  BY <1>2 DEF Change
<1>5. /\ Placed(k, mine, b)
      /\ \A i \in Nat : i < mine.size => k.mem[mine.ptr + i] = heap.mem[mine.ptr + i]
  BY <1>1, <1>2, PlacedStays
<1>6. /\ Change(k, w, {bn}, {bn}) /\ Placed(w, big, bn)
      /\ old(c) <= room => \A i \in Nat : i < old(c) => w.mem[q + i] = k.mem[p(c) + i]
  <2>1. CarriedOver(k, w, bn, q, room, a, p(c), old(c))
    BY <1>3, <1>4, CarriedResult
  <2>2. QED
    BY <2>1 DEF CarriedOver
<1> HIDE DEF w
<1>7. SoundHeap(w) /\ Placed(w, mine, b) /\ b \in w.blocks
  <2>1. Placed(w, mine, b)
    BY <1>4, <1>5, <1>6, PlacedStays
  <2>2. QED
    BY <1>6, <2>1 DEF Change, Placed
<1>8. Change(heap, w, {}, {bn})
  BY <1>1, <1>6, WritingAfterwards
<1>9. Change(w, g, {b}, {})
  BY <1>1, <1>3, <1>7, FreeOfPlaced DEF mine
<1> HIDE DEF g
<1>10. Change(heap, g, {b}, {bn})
  BY <1>1, <1>2, <1>8, <1>9, FreeingAfterwards
<1>11. /\ Placed(g, big, bn)
       /\ \A i \in Nat : i < room => g.mem[q + i] = w.mem[q + i]
  <2>1. bn \in w.blocks \ {b}
    BY <1>4, <1>6 DEF Placed
  <2>2. big.ptr = q /\ big.size = room
    BY DEF Memory
  <2> HIDE DEF big
  <2>3. QED
    BY <1>6, <1>7, <1>9, <2>1, <2>2, PlacedStays
<1>12. SoundHeap(g)
  BY <1>10 DEF Change
<1>13. Placed(g, m, bn)
  BY <1>11, <1>12, LessIsPlaced
<1>14. m \in Memories /\ q # 0
  BY <1>13, PlacedMemoryType
<1>15. Taken(Result(g, q), size, al, "aligned", FALSE) = m /\ Result(g, q).heap = g
  BY <1>14, ResultIs DEF Taken
<1>16. m.ptr = q /\ m.size = size /\ m.zeroed = FALSE
  BY DEF Memory
<1> HIDE DEF m, big
<1>17. Handed(c, g, m)
  <2>1. Zeroed(g, m)
    BY <1>16 DEF Zeroed
  <2>2. QED
    BY <1>2, <1>10, <1>13, <1>14, <2>1 DEF Handed
<1>18. Grown(c, g, m)
  <2>1. SUFFICES ASSUME size >= mine.size, NEW i \in Nat, i < mine.size
                 PROVE  g.mem[q + i] = heap.mem[mine.ptr + i]
    BY <1>16 DEF Grown, mine
  <2>2. i < room /\ old(c) <= room /\ i < old(c)
    BY <1>3, <2>1
  <2>3. g.mem[q + i] = w.mem[q + i]
    BY <1>11, <2>2
  <2>4. w.mem[q + i] = k.mem[mine.ptr + i]
    BY <1>3, <1>6, <2>2
  <2>5. QED
    BY <1>5, <2>1, <2>3, <2>4
<1>19. QED
  BY <1>14, <1>15, <1>17, <1>18, ResultIs DEF Reserved, Served, g, w

\* realloc_aligned, also for NULL and for the size zero.
LEMMA ReallocAlignedServes ==
    ASSUME MemoryInv, NEW c \in Callers, Owns(c, "aligned"), NEW at \in Places,
           NEW room \in Nat, NEW a \in Nat, PowerOfTwo(a), room + a + POINTER <= SIZE_MAX,
           NEW size \in Nat, size <= room, size = 0 <=> room = 0, NEW al \in Nat, al <= a
    PROVE  LET r == realloc_aligned(heap, at, p(c), old(c), room, a)
           IN Reserved(c, r, size, al, "aligned")
<1> DEFINE r == realloc_aligned(heap, at, p(c), old(c), room, a)
           new == malloc_aligned(heap, at, room, a)
<1>1. SoundHeap(heap) /\ build \in {"c11", "generic"}
  BY DEF MemoryInv, AllPlaced
<1>2. CASE room = 0
  <2>1. r = Result(free_aligned(heap, p(c)), 0)
    BY <1>2 DEF realloc_aligned
  <2>2. Served(c, Result(free_aligned(heap, p(c)), 0), size, al, "aligned", FALSE)
    BY FreeServes
  <2>3. size = 0
    BY <1>2
  <2>4. QED
    BY <2>1, <2>2, <2>3 DEF Reserved
<1>3. CASE room # 0
  <2>1. size # 0 /\ room \in Nat \ {0} /\ room <= room /\ a <= a
    BY <1>3
  <2>2. NewMemory(heap, new, room, a, "aligned", FALSE)
    BY <1>1, <2>1, MallocAlignedGives, Zenon
  <2>3. r = IF new.ptr = 0 THEN new
            ELSE Result(IF p(c) # 0
                        THEN free_aligned(IF old(c) > 0 THEN Carried(new.heap, new.ptr, room, p(c), old(c))
                                          ELSE new.heap, p(c))
                        ELSE new.heap, new.ptr)
    BY <1>3 DEF realloc_aligned
  <2> HIDE DEF new, r
  <2>4. CASE new = Result(heap, 0)
    <3>1. r.ptr = 0 /\ r.heap = heap
      BY <2>3, <2>4, ResultIs
    <3>2. QED
      BY <2>1, <3>1 DEF Reserved, Refused, r
  <2>5. CASE new # Result(heap, 0)
    <3> DEFINE k == new.heap
               q == new.ptr
    <3>1. PICK bn \in Blocks :
              Change(heap, k, {}, {bn}) /\ Placed(k, Memory(q, room, a, "aligned", FALSE), bn)
      BY <2>2, <2>5 DEF NewMemory
    <3>2. q # 0
      BY <3>1, PlacedMemoryType
    <3>3. CASE Free(c)
      <4>1. r = Result(k, q)
        BY <2>3, <3>2, <3>3 DEF Free, p
      <4> HIDE DEF k, q
      <4>2. Placed(k, Memory(q, size, al, "aligned", FALSE), bn) /\ SoundHeap(k)
        BY <2>1, <3>1, LessIsPlaced DEF Change
      <4>3. Zeroed(k, Memory(q, size, al, "aligned", FALSE))
        BY DEF Zeroed, Memory
      <4>4. r.heap = k /\ r.ptr = q
        BY <4>1, ResultIs
      <4>5. NewMemory(heap, r, size, al, "aligned", FALSE)
        BY <3>1, <4>2, <4>3, <4>4 DEF NewMemory
      <4>6. QED
        BY <3>3, <4>5, NewMemoryReserves DEF r
    <3>4. CASE ~Free(c)
      <4>1. old(c) > 0 /\ p(c) # 0 /\ held[c].family = "aligned"
        <5>1. PICK b \in heap.blocks : Placed(heap, held[c], b)
          BY <3>4, MineIsOne DEF Free
        <5>2. QED
          BY <3>4, <5>1 DEF Placed, Free, Owns, p, old
      <4>2. r = Result(free_aligned(Carried(k, q, room, p(c), old(c)), p(c)), q)
        BY <2>3, <3>2, <4>1
      <4> HIDE DEF k, q
      <4>3. Reserved(c, Result(free_aligned(Carried(k, q, room, p(c), old(c)), p(c)), q),
                     size, al, "aligned")
        BY <2>1, <3>1, <3>4, <4>1, ReallocAlignedMoves
      <4>4. QED
        BY <4>2, <4>3 DEF r
    <3>5. QED
      BY <3>3, <3>4
  <2>6. QED
    BY <2>4, <2>5
<1>4. QED
  BY <1>2, <1>3

\* safe_realloc_aligned and safe_reallocf_aligned.
LEMMA SafeReallocAlignedServes ==
    ASSUME MemoryInv, NEW c \in Callers, Owns(c, "aligned"), NEW at \in Places,
           NEW size \in Nat, NEW al \in Nat, Roundable(size, al)
    PROVE  /\ LET r == safe_realloc_aligned(heap, at, p(c), old(c), size, al)
              IN Reserved(c, r, size, al, "aligned")
           /\ Served(c, safe_reallocf_aligned(heap, at, p(c), old(c), size, al),
                     size, al, "aligned", FALSE)
<1> DEFINE r == safe_realloc_aligned(heap, at, p(c), old(c), size, al)
           f == Result(free_aligned(heap, p(c)), 0)
           a == alignment_Round_Up(al)
           room == aligned_Size_Round_Up(size, a)
<1>1. SoundHeap(heap) /\ build \in {"c11", "generic"}
  BY DEF MemoryInv, AllPlaced
<1>2. safe_reallocf_aligned(heap, at, p(c), old(c), size, al) =
          IF p(c) # 0 /\ size # 0 /\ r.ptr = 0 THEN f ELSE r
  BY DEF safe_reallocf_aligned
<1>3. Served(c, f, size, al, "aligned", FALSE)
  BY FreeServes
<1>4. CASE Free(c)
  <2>1. r = safe_malloc_aligned(heap, at, size, al) /\ p(c) = 0
    BY <1>4 DEF safe_realloc_aligned, Free, p
  <2>2. NewMemory(heap, r, size, al, "aligned", FALSE)
    BY <1>1, <2>1, SafeMallocAlignedGives
  <2> HIDE DEF r
  <2>3. Served(c, r, size, al, "aligned", FALSE) /\ Reserved(c, r, size, al, "aligned")
    BY <1>4, <2>2, NewMemoryServes, NewMemoryReserves
  <2>4. QED
    BY <1>2, <2>1, <2>3 DEF r
<1>5. CASE ~Free(c) /\ size = 0
  <2>1. r = f
    BY <1>5 DEF safe_realloc_aligned, Free, p
  <2>2. QED
    BY <1>2, <1>3, <1>5, <2>1 DEF Reserved
<1>6. CASE ~Free(c) /\ size # 0
  <2>1. r = realloc_aligned(heap, at, p(c), old(c), room, a) /\ p(c) # 0
    BY <1>6 DEF safe_realloc_aligned, Free, p
  <2>2. a \in Nat \ {0} /\ al <= a /\ PowerOfTwo(a) /\ size + 2 * a + POINTER <= SIZE_MAX
    BY AlignmentRoundUp DEF Roundable
  <2> HIDE DEF a
  <2>3. room \in Nat /\ size <= room /\ room <= size + a
    BY <2>2, SizeRoundUp
  <2> HIDE DEF room
  <2>4. room + a + POINTER <= SIZE_MAX
    BY <2>2, <2>3, AlignedMemoryAssumption DEF POINTER
  <2>5. Reserved(c, r, size, al, "aligned")
    BY <1>6, <2>1, <2>2, <2>3, <2>4, ReallocAlignedServes
  <2> HIDE DEF r, f
  <2>6. QED
    BY <1>2, <1>3, <1>6, <2>1, <2>5 DEF Reserved, r, f
<1>7. QED
  BY <1>4, <1>5, <1>6

-----------------------------------------------------------------------------
(* The steps                                                               *)

\* What every step does: nothing, or it hands memory to one caller.
Steps(c) ==
    /\ build' = build
    /\ \/ heap' = heap /\ held' = held
       \/ \E m : /\ held' = [held EXCEPT ![c] = m] /\ Handed(c, heap', m)
                 /\ Write(c) \/ Grown(c, heap', m)

\* A call that serves the caller.
LEMMA HoldsSteps ==
    ASSUME NEW c, NEW r, NEW size, NEW alignment, NEW family, NEW zeroed,
           Served(c, r, size, alignment, family, zeroed),
           Takes(c, r, size, alignment, family, zeroed)
    PROVE  Steps(c)
<1> DEFINE m == Taken(r, size, alignment, family, zeroed)
<1>1. held' = [held EXCEPT ![c] = m] /\ heap' = r.heap /\ build' = build
  BY DEF Takes, Taken
<1>2. Handed(c, r.heap, m) /\ Grown(c, r.heap, m)
  BY DEF Served
<1> HIDE DEF m
<1>3. Handed(c, heap', m) /\ Grown(c, heap', m)
  BY <1>1, <1>2
<1>4. QED
  BY <1>1, <1>3 DEF Steps

\* A reallocation, which may leave everything as it is.
LEMMA ReholdsSteps ==
    ASSUME NEW c, NEW r, NEW size, NEW alignment, NEW family,
           Reserved(c, r, size, alignment, family), Reholds(c, r, size, alignment, family)
    PROVE  Steps(c)
<1>1. CASE r.ptr = 0 /\ size # 0
  BY <1>1 DEF Reserved, Reholds, Refused, Steps
<1>2. CASE ~(r.ptr = 0 /\ size # 0)
  BY <1>2, HoldsSteps DEF Reserved, Reholds, Holds
<1>3. QED
  BY <1>1, <1>2

\* What the callers ask for are numbers.
LEMMA CallerTypes ==
    /\ Sizes \subseteq Nat /\ Counts \subseteq Nat
    /\ Alignments \cup {PAGE} \subseteq Nat
    /\ Powers \cup {PAGE} \subseteq Alignments \cup {PAGE}
    /\ \A a \in Powers \cup {PAGE} : PowerOfTwo(a)
    /\ \A n \in Counts, s \in Sizes : n * s \in Nat
  BY AlignedMemoryAssumption, PageAssumption DEF Powers, has_single_bit

\* No size the callers ask for wraps around when it is rounded up.
LEMMA RoundableProducts ==
    ASSUME NEW n \in Counts \cup {1}, NEW s \in Sizes, n * s <= SIZE_MAX,
           NEW a \in Alignments \cup {PAGE}
    PROVE  /\ Roundable(n * s, a)
           /\ PowerOfTwo(a) => n * s + a + POINTER <= SIZE_MAX
<1> DEFINE total == n * s
<1>1. total \in Nat /\ a \in Nat
  BY CallerTypes
<1>2. total + 2 * alignment_Round_Up(a) + POINTER <= SIZE_MAX
  BY RoundingAssumption
<1> HIDE DEF total
<1>3. alignment_Round_Up(a) \in Nat /\ (PowerOfTwo(a) => alignment_Round_Up(a) = a)
  BY <1>1, AlignmentRoundUp
<1>4. PowerOfTwo(a) => total + a + POINTER <= SIZE_MAX
  BY <1>1, <1>2, <1>3, AlignedMemoryAssumption DEF POINTER
<1>5. QED
  BY <1>2, <1>4 DEF Roundable, total

\* The same for a size without a count.
LEMMA RoundableSizes ==
    ASSUME NEW s \in Sizes, NEW a \in Alignments \cup {PAGE}
    PROVE  /\ Roundable(s, a)
           /\ PowerOfTwo(a) => s + a + POINTER <= SIZE_MAX
<1>1. 1 * s = s /\ s <= SIZE_MAX
  BY AlignedMemoryAssumption
<1>2. QED
  BY <1>1, RoundableProducts

\* The functions for plain memory.
LEMMA PlainSteps ==
    ASSUME MemoryInv, NEW c \in Callers, Plain(c)
    PROVE  Steps(c)
<1> USE CallerTypes
<1>1. SoundHeap(heap)
  BY DEF MemoryInv, AllPlaced
<1>2. CASE SafeMalloc(c)
  <2>1. PICK at \in Places, s \in Sizes : Holds(c, safe_malloc(heap, at, s), s, 1, "plain")
    BY <1>2 DEF SafeMalloc
  <2> DEFINE r == safe_malloc(heap, at, s)
  <2>2. NewMemory(heap, r, s, 1, "plain", FALSE)
    BY <1>1, MallocGives
  <2> HIDE DEF r
  <2>3. Served(c, r, s, 1, "plain", FALSE)
    BY <1>2, <2>2, NewMemoryServes DEF SafeMalloc
  <2>4. QED
    BY <2>1, <2>3, HoldsSteps DEF Holds, r
<1>3. CASE SafeCalloc(c)
  <2>1. PICK at \in Places, s \in Sizes, n \in Counts :
            HoldsZeroed(c, safe_calloc(heap, at, n, s), n * s, 1, "plain")
    BY <1>3 DEF SafeCalloc
  <2> DEFINE r == safe_calloc(heap, at, n, s)
             total == n * s
  <2>2. NewMemory(heap, r, total, 1, "plain", TRUE) /\ total \in Nat
    BY <1>1, CallocGives
  <2> HIDE DEF r, total
  <2>3. Served(c, r, total, 1, "plain", TRUE)
    BY <1>3, <2>2, NewMemoryServes DEF SafeCalloc
  <2>4. QED
    BY <2>1, <2>3, HoldsSteps DEF HoldsZeroed, r, total
<1>4. CASE SafeRealloc(c)
  <2>1. PICK at \in Places, s \in Sizes : Reholds(c, safe_realloc(heap, at, p(c), s), s, 1, "plain")
    BY <1>4 DEF SafeRealloc
  <2>2. Reserved(c, safe_realloc(heap, at, p(c), s), s, 1, "plain")
    BY <1>4, SafeReallocServes DEF SafeRealloc
  <2>3. QED
    BY <2>1, <2>2, ReholdsSteps
<1>5. CASE SafeReallocf(c)
  <2>1. PICK at \in Places, s \in Sizes : Holds(c, safe_reallocf(heap, at, p(c), s), s, 1, "plain")
    BY <1>5 DEF SafeReallocf
  <2>2. Served(c, safe_reallocf(heap, at, p(c), s), s, 1, "plain", FALSE)
    BY <1>5, SafeReallocServes DEF SafeReallocf
  <2>3. QED
    BY <2>1, <2>2, HoldsSteps DEF Holds
<1>6. CASE SafeFree(c)
  <2> DEFINE r == Result(safe_free_core(heap, p(c)), 0)
  <2>1. Holds(c, r, 0, 1, "plain") /\ Owns(c, "plain")
    BY <1>6 DEF SafeFree
  <2>2. safe_free_core(heap, p(c)) = free(heap, p(c))
    BY FreeOfNull DEF safe_free_core
  <2>3. Served(c, r, 0, 1, "plain", FALSE)
    BY <2>1, <2>2, FreeServes
  <2> HIDE DEF r
  <2>4. QED
    BY <2>1, <2>3, HoldsSteps DEF Holds
<1>7. QED
  BY <1>2, <1>3, <1>4, <1>5, <1>6 DEF Plain

\* An aligned allocation, whatever the function it came from.
LEMMA AllocationSteps ==
    ASSUME MemoryInv, NEW c \in Callers, Free(c), NEW r, NEW size \in Nat, NEW al \in Nat,
           NEW zeroed \in BOOLEAN, NewMemory(heap, r, size, al, "aligned", zeroed),
           Takes(c, r, size, al, "aligned", zeroed)
    PROVE  Steps(c)
<1>1. Served(c, r, size, al, "aligned", zeroed)
  BY NewMemoryServes
<1>2. QED
  BY <1>1, HoldsSteps

\* The free of aligned memory.
LEMMA AlignedFreeSteps ==
    ASSUME MemoryInv, NEW c \in Callers, Owns(c, "aligned"),
           Holds(c, Result(safe_free_aligned_core(heap, p(c)), 0), 0, 1, "aligned")
    PROVE  Steps(c)
<1> DEFINE r == Result(safe_free_aligned_core(heap, p(c)), 0)
<1>1. safe_free_aligned_core(heap, p(c)) = free_aligned(heap, p(c))
  BY FreeAlignedOfNull DEF safe_free_aligned_core
<1>2. Served(c, r, 0, 1, "aligned", FALSE)
  BY <1>1, FreeServes
<1> HIDE DEF r
<1>3. QED
  BY <1>2, HoldsSteps DEF Holds, r

\* The functions of the aligned and of the page aligned family, at one alignment.
LEMMA UncheckedSteps ==
    ASSUME MemoryInv, NEW c \in Callers, NEW at \in Places, NEW s \in Sizes,
           NEW a \in Alignments \cup {PAGE}, PowerOfTwo(a)
    PROVE  /\ Free(c) /\ s # 0 /\ Holds(c, malloc_aligned(heap, at, s, a), s, a, "aligned") => Steps(c)
           /\ \A n \in Counts :
                 Free(c) /\ n * s <= SIZE_MAX
                 /\ HoldsZeroed(c, calloc_aligned(heap, at, n, s, a), n * s, a, "aligned") => Steps(c)
           /\ Owns(c, "aligned")
              /\ Reholds(c, realloc_aligned(heap, at, p(c), old(c), s, a), s, a, "aligned") => Steps(c)
<1>1. SoundHeap(heap) /\ build \in {"c11", "generic"}
  BY DEF MemoryInv, AllPlaced
<1>2. s \in Nat /\ a \in Nat /\ s + a + POINTER <= SIZE_MAX
  BY CallerTypes, RoundableSizes
<1>3. ASSUME Free(c), s # 0, Holds(c, malloc_aligned(heap, at, s, a), s, a, "aligned")
      PROVE  Steps(c)
  <2> DEFINE r == malloc_aligned(heap, at, s, a)
  <2>1. s \in Nat \ {0} /\ s <= s /\ a <= a
    BY <1>2, <1>3
  <2>2. NewMemory(heap, r, s, a, "aligned", FALSE)
    BY <1>1, <1>2, <2>1, MallocAlignedGives, Zenon
  <2>3. Takes(c, r, s, a, "aligned", FALSE)
    BY <1>3 DEF Holds
  <2> HIDE DEF r
  <2>4. QED
    BY <1>2, <1>3, <2>2, <2>3, AllocationSteps
<1>4. ASSUME NEW n \in Counts, Free(c), n * s <= SIZE_MAX,
             HoldsZeroed(c, calloc_aligned(heap, at, n, s, a), n * s, a, "aligned")
      PROVE  Steps(c)
  <2> DEFINE r == calloc_aligned(heap, at, n, s, a)
             total == n * s
  <2>1. n \in Nat /\ total \in Nat /\ total + a + POINTER <= SIZE_MAX
    BY <1>4, CallerTypes, RoundableProducts
  <2>2. NewMemory(heap, r, total, a, "aligned", TRUE)
    BY <1>1, <1>2, <2>1, CallocAlignedGives
  <2>3. Takes(c, r, total, a, "aligned", TRUE)
    BY <1>4 DEF HoldsZeroed
  <2> HIDE DEF r, total
  <2>4. QED
    BY <1>2, <1>4, <2>1, <2>2, <2>3, AllocationSteps
<1>5. ASSUME Owns(c, "aligned"),
             Reholds(c, realloc_aligned(heap, at, p(c), old(c), s, a), s, a, "aligned")
      PROVE  Steps(c)
  <2> DEFINE r == realloc_aligned(heap, at, p(c), old(c), s, a)
  <2>1. s <= s /\ a <= a /\ (s = 0 <=> s = 0)
    BY <1>2
  <2>2. Reserved(c, r, s, a, "aligned")
    BY <1>2, <1>5, <2>1, ReallocAlignedServes
  <2> HIDE DEF r
  <2>3. QED
    BY <1>5, <2>2, ReholdsSteps DEF r
<1>6. QED
  BY <1>3, <1>4, <1>5

\* The same for the functions with checks, at an alignment of any value.
LEMMA CheckedSteps ==
    ASSUME MemoryInv, NEW c \in Callers, NEW at \in Places, NEW s \in Sizes,
           NEW a \in Alignments \cup {PAGE}
    PROVE  /\ Free(c) /\ Holds(c, safe_malloc_aligned(heap, at, s, a), s, a, "aligned") => Steps(c)
           /\ \A n \in Counts :
                 Free(c) /\ HoldsZeroed(c, safe_calloc_aligned(heap, at, n, s, a), n * s, a, "aligned")
                 => Steps(c)
           /\ Owns(c, "aligned")
              /\ Reholds(c, safe_realloc_aligned(heap, at, p(c), old(c), s, a), s, a, "aligned")
              => Steps(c)
           /\ Owns(c, "aligned")
              /\ Holds(c, safe_reallocf_aligned(heap, at, p(c), old(c), s, a), s, a, "aligned")
              => Steps(c)
<1>1. SoundHeap(heap) /\ build \in {"c11", "generic"}
  BY DEF MemoryInv, AllPlaced
<1>2. s \in Nat /\ a \in Nat /\ Roundable(s, a)
  BY CallerTypes, RoundableSizes
<1>3. ASSUME Free(c), Holds(c, safe_malloc_aligned(heap, at, s, a), s, a, "aligned")
      PROVE  Steps(c)
  <2> DEFINE r == safe_malloc_aligned(heap, at, s, a)
  <2>1. NewMemory(heap, r, s, a, "aligned", FALSE)
    BY <1>1, <1>2, SafeMallocAlignedGives
  <2>2. Takes(c, r, s, a, "aligned", FALSE)
    BY <1>3 DEF Holds
  <2> HIDE DEF r
  <2>3. QED
    BY <1>2, <1>3, <2>1, <2>2, AllocationSteps
<1>4. ASSUME NEW n \in Counts, Free(c),
             HoldsZeroed(c, safe_calloc_aligned(heap, at, n, s, a), n * s, a, "aligned")
      PROVE  Steps(c)
  <2> DEFINE r == safe_calloc_aligned(heap, at, n, s, a)
             total == n * s
  <2>1. n \in Nat /\ total \in Nat
    BY CallerTypes
  <2>2. n * s <= SIZE_MAX => Roundable(n * s, a)
    BY RoundableProducts
  <2>3. NewMemory(heap, r, total, a, "aligned", TRUE)
    BY <1>1, <1>2, <2>1, <2>2, SafeCallocAlignedGives
  <2>4. Takes(c, r, total, a, "aligned", TRUE)
    BY <1>4 DEF HoldsZeroed
  <2> HIDE DEF r, total
  <2>5. QED
    BY <1>2, <1>4, <2>1, <2>3, <2>4, AllocationSteps
<1>5. ASSUME Owns(c, "aligned")
      PROVE  /\ Reholds(c, safe_realloc_aligned(heap, at, p(c), old(c), s, a), s, a, "aligned")
                => Steps(c)
             /\ Holds(c, safe_reallocf_aligned(heap, at, p(c), old(c), s, a), s, a, "aligned")
                => Steps(c)
  <2> DEFINE r == safe_realloc_aligned(heap, at, p(c), old(c), s, a)
             f == safe_reallocf_aligned(heap, at, p(c), old(c), s, a)
  <2>1. Reserved(c, r, s, a, "aligned") /\ Served(c, f, s, a, "aligned", FALSE)
    BY <1>2, <1>5, SafeReallocAlignedServes
  <2> HIDE DEF r, f
  <2>2. Reholds(c, r, s, a, "aligned") => Steps(c)
    BY <2>1, ReholdsSteps
  <2>3. Holds(c, f, s, a, "aligned") => Steps(c)
    BY <2>1, HoldsSteps DEF Holds
  <2>4. QED
    BY <2>2, <2>3 DEF r, f
<1>6. QED
  BY <1>3, <1>4, <1>5

\* The functions for aligned memory.
LEMMA AlignedSteps ==
    ASSUME MemoryInv, NEW c \in Callers, Aligned(c)
    PROVE  Steps(c)
<1>1. CASE MallocAligned(c)
  <2>1. PICK at \in Places, s \in Sizes \ {0}, a \in Powers :
            Holds(c, malloc_aligned(heap, at, s, a), s, a, "aligned")
    BY <1>1 DEF MallocAligned
  <2>2. QED
    BY <1>1, <2>1, CallerTypes, UncheckedSteps DEF MallocAligned
<1>2. CASE CallocAligned(c)
  <2>1. PICK at \in Places, s \in Sizes, n \in Counts, a \in Powers :
            n * s <= SIZE_MAX
            /\ HoldsZeroed(c, calloc_aligned(heap, at, n, s, a), n * s, a, "aligned")
    BY <1>2 DEF CallocAligned
  <2>2. QED
    BY <1>2, <2>1, CallerTypes, UncheckedSteps DEF CallocAligned
<1>3. CASE ReallocAligned(c)
  <2>1. PICK at \in Places, s \in Sizes, a \in Powers :
            Reholds(c, realloc_aligned(heap, at, p(c), old(c), s, a), s, a, "aligned")
    BY <1>3 DEF ReallocAligned
  <2>2. QED
    BY <1>3, <2>1, CallerTypes, UncheckedSteps DEF ReallocAligned
<1>4. CASE SafeMallocAligned(c)
  <2>1. PICK at \in Places, s \in Sizes, a \in Alignments :
            Holds(c, safe_malloc_aligned(heap, at, s, a), s, a, "aligned")
    BY <1>4 DEF SafeMallocAligned
  <2>2. QED
    BY <1>4, <2>1, CheckedSteps DEF SafeMallocAligned
<1>5. CASE SafeCallocAligned(c)
  <2>1. PICK at \in Places, s \in Sizes, n \in Counts, a \in Alignments :
            HoldsZeroed(c, safe_calloc_aligned(heap, at, n, s, a), n * s, a, "aligned")
    BY <1>5 DEF SafeCallocAligned
  <2>2. QED
    BY <1>5, <2>1, CheckedSteps DEF SafeCallocAligned
<1>6. CASE SafeReallocAligned(c)
  <2>1. PICK at \in Places, s \in Sizes, a \in Powers :
            Reholds(c, safe_realloc_aligned(heap, at, p(c), old(c), s, a), s, a, "aligned")
    BY <1>6 DEF SafeReallocAligned
  <2>2. QED
    BY <1>6, <2>1, CallerTypes, CheckedSteps DEF SafeReallocAligned
<1>7. CASE SafeReallocfAligned(c)
  <2>1. PICK at \in Places, s \in Sizes, a \in Powers :
            Holds(c, safe_reallocf_aligned(heap, at, p(c), old(c), s, a), s, a, "aligned")
    BY <1>7 DEF SafeReallocfAligned
  <2>2. QED
    BY <1>7, <2>1, CallerTypes, CheckedSteps DEF SafeReallocfAligned
<1>8. CASE SafeFreeAligned(c)
  BY <1>8, AlignedFreeSteps DEF SafeFreeAligned
<1>9. QED
  BY <1>1, <1>2, <1>3, <1>4, <1>5, <1>6, <1>7, <1>8 DEF Aligned

\* The functions for page aligned memory: those for aligned memory at one alignment.
LEMMA PagedSteps ==
    ASSUME MemoryInv, NEW c \in Callers, Paged(c)
    PROVE  Steps(c)
<1> USE DEF get_System_Pagesize
<1>1. PAGE \in Alignments \cup {PAGE} /\ PowerOfTwo(PAGE)
  BY PageAssumption
<1>2. CASE MallocPage(c)
  <2>1. PICK at \in Places, s \in Sizes \ {0} :
            Holds(c, malloc_aligned(heap, at, s, PAGE), s, PAGE, "aligned")
    BY <1>2 DEF MallocPage, malloc_page_aligned
  <2>2. QED
    BY <1>1, <1>2, <2>1, UncheckedSteps DEF MallocPage
<1>3. CASE CallocPage(c)
  <2>1. PICK at \in Places, s \in Sizes, n \in Counts :
            n * s <= SIZE_MAX
            /\ HoldsZeroed(c, calloc_aligned(heap, at, n, s, PAGE), n * s, PAGE, "aligned")
    BY <1>3 DEF CallocPage, calloc_page_aligned
  <2>2. QED
    BY <1>1, <1>3, <2>1, UncheckedSteps DEF CallocPage
<1>4. CASE ReallocPage(c)
  <2>1. PICK at \in Places, s \in Sizes :
            Reholds(c, realloc_aligned(heap, at, p(c), old(c), s, PAGE), s, PAGE, "aligned")
    BY <1>4 DEF ReallocPage, realloc_page_aligned
  <2>2. QED
    BY <1>1, <1>4, <2>1, UncheckedSteps DEF ReallocPage
<1>5. CASE SafeMallocPage(c)
  <2>1. PICK at \in Places, s \in Sizes :
            Holds(c, safe_malloc_aligned(heap, at, s, PAGE), s, PAGE, "aligned")
    BY <1>5 DEF SafeMallocPage, safe_malloc_page_aligned
  <2>2. QED
    BY <1>1, <1>5, <2>1, CheckedSteps DEF SafeMallocPage
<1>6. CASE SafeCallocPage(c)
  <2>1. PICK at \in Places, s \in Sizes, n \in Counts :
            HoldsZeroed(c, safe_calloc_aligned(heap, at, n, s, PAGE), n * s, PAGE, "aligned")
    BY <1>6 DEF SafeCallocPage, safe_calloc_page_aligned
  <2>2. QED
    BY <1>1, <1>6, <2>1, CheckedSteps DEF SafeCallocPage
<1>7. CASE SafeReallocPage(c)
  <2>1. PICK at \in Places, s \in Sizes :
            Reholds(c, safe_realloc_aligned(heap, at, p(c), old(c), s, PAGE), s, PAGE, "aligned")
    BY <1>7 DEF SafeReallocPage, safe_realloc_page_aligned
  <2>2. QED
    BY <1>1, <1>7, <2>1, CheckedSteps DEF SafeReallocPage
<1>8. CASE SafeReallocfPage(c)
  <2>1. PICK at \in Places, s \in Sizes :
            Holds(c, safe_reallocf_aligned(heap, at, p(c), old(c), s, PAGE), s, PAGE, "aligned")
    BY <1>8 DEF SafeReallocfPage, safe_reallocf_page_aligned
  <2>2. QED
    BY <1>1, <1>8, <2>1, CheckedSteps DEF SafeReallocfPage
<1>9. CASE SafeFreePage(c)
  BY <1>9, AlignedFreeSteps DEF SafeFreePage, safe_free_page_aligned_core
<1>10. QED
  BY <1>2, <1>3, <1>4, <1>5, <1>6, <1>7, <1>8, <1>9 DEF Paged

\* What a caller writes stays within its memory, away from the hidden address.
LEMMA WriteSteps ==
    ASSUME MemoryInv, NEW c \in Callers, Write(c)
    PROVE  Steps(c)
<1> DEFINE m == [held[c] EXCEPT !.zeroed = FALSE]
           g == Set(heap, p(c), old(c), Data)
<1>1. SoundHeap(heap) /\ held \in [Callers -> Memories] /\ held[c] \in Memories
  BY DEF MemoryInv, AllPlaced
<1>2. heap' = g /\ held' = [held EXCEPT ![c] = m] /\ build' = build
  BY <1>1 DEF Write
<1>3. PICK b \in heap.blocks : Mine(c) = {b} /\ Placed(heap, held[c], b)
  BY MineIsOne DEF Write, Free
<1>4. /\ m \in Memories /\ m.zeroed = FALSE
      /\ m.ptr = p(c) /\ m.size = old(c) /\ m.family = held[c].family
      /\ m.alignment = held[c].alignment
  BY <1>1 DEF Memories, p, old
<1>5. /\ p(c) \in Addresses /\ p(c) \in Nat /\ old(c) \in Nat /\ old(c) # 0
      /\ b.start <= p(c) /\ p(c) + old(c) <= b.start + b.size
      /\ b.start \in Nat \ {0} /\ b.size \in Nat
  BY <1>1, <1>3, AddressTypes, AlignedMemoryAssumption DEF Placed, SoundHeap, Addresses, p, old
<1>6. Data \in Cells
  BY DEF Cells
<1> HIDE DEF m
<1>7. Change(heap, g, {b}, {b})
  BY <1>1, <1>5, <1>6, SetInBlock, Zenon
<1>8. \A a \in Addresses : ~(p(c) <= a) => g.mem[a] = heap.mem[a]
  <2>1. heap \in Heaps /\ p(c) \in Int /\ old(c) \in Int
    BY <1>1, <1>5 DEF SoundHeap
  <2>2. QED
    BY <1>6, <2>1, SetResult
<1> HIDE DEF g
<1>9. Placed(g, m, b)
  <2>1. b \in g.blocks
    BY <1>7 DEF Change
  <2>2. CASE held[c].family = "aligned" /\ build = "generic"
    <3>1. b.start <= p(c) - POINTER /\ heap.mem[p(c) - POINTER] = b.start
      BY <1>3, <2>2 DEF Placed, p
    <3>2. p(c) - POINTER \in Addresses /\ ~(p(c) <= p(c) - POINTER)
      BY <1>5, <3>1, AlignedMemoryAssumption DEF Addresses, POINTER
    <3>3. g.mem[p(c) - POINTER] = b.start
      BY <1>8, <3>1, <3>2
    <3>4. QED
      BY <1>3, <1>4, <1>5, <2>1, <2>2, <3>1, <3>3 DEF Placed, p
  <2>3. CASE ~(held[c].family = "aligned" /\ build = "generic")
    BY <1>3, <1>4, <1>5, <2>1, <2>3 DEF Placed, p
  <2>4. QED
    BY <2>2, <2>3
<1>10. Handed(c, g, m)
  <2>1. Zeroed(g, m)
    BY <1>4 DEF Zeroed
  <2>2. b \in Blocks
    BY <1>1 DEF SoundHeap, Heaps
  <2>3. QED
    BY <1>3, <1>4, <1>7, <1>9, <2>1, <2>2 DEF Handed
<1>11. QED
  BY <1>2, <1>10 DEF Steps

\* Every step is a step of one caller.
LEMMA NextSteps ==
    ASSUME MemoryInv, Next
    PROVE  \E c \in Callers : Steps(c)
  BY PlainSteps, AlignedSteps, PagedSteps, WriteSteps DEF Next

\* The invariant holds at the start.
LEMMA MemoryInit ==
    ASSUME Init
    PROVE  MemoryInv
<1>1. heap \in Heaps /\ heap.blocks = {} /\ ~heap.corrupt
  BY DEF Init, Heaps, Addresses, Cells
<1>2. SoundHeap(heap)
  BY <1>1 DEF SoundHeap
<1>3. held \in [Callers -> Memories] /\ \A c \in Callers : held[c].ptr = 0
  BY NoMemoryIs DEF Init
<1>4. AllPlaced(heap, held)
  BY <1>1, <1>2, <1>3 DEF AllPlaced
<1>5. QED
  BY <1>4 DEF Init, MemoryInv

\* Every step preserves it.
LEMMA MemoryStep ==
    ASSUME MemoryInv, [Next]_vars
    PROVE  MemoryInv'
<1>1. CASE UNCHANGED vars
  BY <1>1 DEF vars, MemoryInv, AllPlaced, SoundHeap, Placed, Zeroed
<1>2. CASE Next
  <2>1. PICK c \in Callers : Steps(c)
    BY <1>2, NextSteps
  <2>2. build' = build /\ AllPlaced(heap', held')
    <3>1. CASE heap' = heap /\ held' = held
      BY <2>1, <3>1 DEF MemoryInv, Steps
    <3>2. CASE \E m : held' = [held EXCEPT ![c] = m] /\ Handed(c, heap', m)
      <4>1. PICK m : held' = [held EXCEPT ![c] = m] /\ Handed(c, heap', m)
        BY <3>2
      <4>2. AllPlaced(heap', [held EXCEPT ![c] = m])
        BY <4>1, HandedPlaced
      <4>3. QED
        BY <2>1, <4>1, <4>2 DEF Steps
    <3>3. QED
      BY <2>1, <3>1, <3>2 DEF Steps
  <2>3. QED
    BY <2>2 DEF MemoryInv, AllPlaced, SoundHeap, Placed, Zeroed
<1>3. QED
  BY <1>1, <1>2

\* In every state every pointer lies in a block of its own.
LEMMA MemoryInvariant == Spec => []MemoryInv
<1>1. Init => MemoryInv
  BY MemoryInit
<1>2. MemoryInv /\ [Next]_vars => MemoryInv'
  BY MemoryStep
<1>3. QED
  BY <1>1, <1>2, PTL DEF Spec

-----------------------------------------------------------------------------
(* What the runs check                                                     *)

\* The address the C library gave is where the block starts.
LEMMA OriginalIsItsBlock ==
    ASSUME MemoryInv, NEW c \in Callers, NEW b, Placed(heap, held[c], b)
    PROVE  Original(c) = b.start /\ ~Free(c)
<1>1. p(c) # 0
  BY AlignedMemoryAssumption DEF Placed, Addresses, p
<1>2. Original(c) = b.start
  BY <1>1 DEF Original, retrieve_aligned_original_ptr, Placed, p
<1>3. QED
  BY <1>1, <1>2 DEF Free, p

\* The state of the heap and of the callers stays of its type.
THEOREM TypeCorrect == Spec => []TypeOK
<1>1. MemoryInv => TypeOK
  <2>1. SUFFICES ASSUME MemoryInv PROVE TypeOK
    OBVIOUS
  <2>2. heap \in Heaps /\ held \in [Callers -> Memories] /\ build \in {"c11", "generic"}
    BY <2>1 DEF MemoryInv, AllPlaced, SoundHeap
  <2>3. heap.mem \in [1 .. Top -> {Junk, Zero, Data} \cup 1 .. Top]
    BY <2>2 DEF Heaps, Addresses, Cells
  <2>4. \A b \in heap.blocks : b.start \in 1 .. Top /\ b.size \in 1 .. Top
    BY <2>2 DEF Heaps, Blocks, Addresses
  <2>5. \A c \in Callers : held[c].ptr \in 0 .. Top /\ held[c].family \in {"plain", "aligned"}
    BY <2>2 DEF Memories
  <2>6. QED
    BY <2>2, <2>3, <2>4, <2>5 DEF TypeOK
<1>2. QED
  BY <1>1, MemoryInvariant, PTL

\* What malloc, calloc, realloc and their aligned, page aligned and safe_ variants
\* return lies inside an allocation of the caller, aligned as asked, as long as
\* asked, and zero over all of it after a calloc.
THEOREM HeldMemoryCorrect == Spec => []HeldMemoryIsAsAsked
<1>1. ASSUME MemoryInv, NEW c \in Callers, ~Free(c)
      PROVE  /\ \E q \in 1 .. Top : PowerOfTwo(q) /\ q >= held[c].alignment /\ p(c) % q = 0
             /\ \E b \in heap.blocks :
                    b.start = Original(c) /\ Region(p(c), old(c)) \subseteq Region(b.start, b.size)
             /\ held[c].zeroed => \A a \in Region(p(c), old(c)) : heap.mem[a] = Zero
  <2>1. PICK b \in heap.blocks : Placed(heap, held[c], b)
    BY <1>1, MineIsOne DEF Free
  <2>2. /\ p(c) \in Addresses /\ old(c) \in Nat \ {0} /\ p(c) \in Nat \ {0}
        /\ b.start \in Nat /\ b.size \in Nat
        /\ b.start <= p(c) /\ p(c) + old(c) <= b.start + b.size /\ b.start + b.size - 1 <= Top
    BY <1>1, <2>1, AddressTypes, AlignedMemoryAssumption
    DEF MemoryInv, AllPlaced, SoundHeap, Placed, Addresses, p, old
  <2>3. \E q \in 1 .. Top : PowerOfTwo(q) /\ q >= held[c].alignment /\ p(c) % q = 0
    BY <2>1 DEF Placed, Addresses, p
  <2>4. b.start = Original(c)
    BY <1>1, <2>1, OriginalIsItsBlock
  <2>5. Region(p(c), old(c)) \subseteq Region(b.start, b.size)
    BY <2>2 DEF Region
  <2>6. held[c].zeroed => \A a \in Region(p(c), old(c)) : heap.mem[a] = Zero
    <3>1. SUFFICES ASSUME held[c].zeroed, NEW a \in Region(p(c), old(c))
                   PROVE  heap.mem[a] = Zero
      OBVIOUS
    <3>2. a \in Addresses /\ p(c) <= a /\ a < p(c) + old(c)
      BY <2>2, AlignedMemoryAssumption DEF Region, Addresses
    <3>3. Zeroed(heap, held[c])
      BY <1>1 DEF MemoryInv, AllPlaced, Free, p
    <3>4. QED
      BY <3>1, <3>2, <3>3 DEF Zeroed, p, old
  <2>7. QED
    BY <2>3, <2>4, <2>5, <2>6
<1>2. MemoryInv => HeldMemoryIsAsAsked
  BY <1>1 DEF HeldMemoryIsAsAsked
<1>3. QED
  BY <1>2, MemoryInvariant, PTL

\* No function frees an address twice or one it was not given, and none loses an
\* allocation: every block has exactly one holder, also after a reallocation that
\* fails or that frees for its caller.
THEOREM EveryBlockHeldOnceCorrect == Spec => []EveryBlockIsHeldOnce
<1>1. ASSUME MemoryInv PROVE EveryBlockIsHeldOnce
  <2>1. ~heap.corrupt
    BY <1>1 DEF MemoryInv, AllPlaced, SoundHeap
  <2>2. \A c \in Callers : ~Free(c) => \E b \in heap.blocks : Placed(heap, held[c], b)
    BY <1>1, MineIsOne DEF Free
  <2>3. \A b \in heap.blocks : \E c \in Callers : Placed(heap, held[c], b)
    BY <1>1 DEF MemoryInv, AllPlaced
  <2>4. {b.start : b \in heap.blocks} = {Original(c) : c \in {d \in Callers : ~Free(d)}}
    BY <1>1, <2>2, <2>3, OriginalIsItsBlock
  <2>5. ASSUME NEW c \in Callers, NEW d \in Callers, ~Free(c), ~Free(d), Original(c) = Original(d)
        PROVE  c = d
    <3>1. PICK b \in heap.blocks : Placed(heap, held[c], b)
      BY <2>2, <2>5
    <3>2. PICK e \in heap.blocks : Placed(heap, held[d], e)
      BY <2>2, <2>5
    <3>3. b = e
      <4>1. b.start = e.start
        BY <1>1, <2>5, <3>1, <3>2, OriginalIsItsBlock
      <4>2. SoundHeap(heap)
        BY <1>1 DEF MemoryInv, AllPlaced
      <4>3. QED
        BY <4>1, <4>2, SameStart
    <3>4. QED
      BY <1>1, <3>1, <3>2, <3>3 DEF MemoryInv, AllPlaced
  <2>6. QED
    BY <2>1, <2>4, <2>5 DEF EveryBlockIsHeldOnce
<1>2. QED
  BY <1>1, MemoryInvariant, PTL

\* What a step leaves of the data of one caller.
LEMMA StepKeepsData ==
    ASSUME MemoryInv, [Next]_vars, NEW c \in Callers,
           ~Free(c), ~Free(c)', old(c)' >= old(c)
    PROVE  Write(c) \/ Kept(c, old(c))
<1>1. held \in [Callers -> Memories] /\ old(c) \in Nat
  BY DEF MemoryInv, AllPlaced, Memories, old
<1>2. CASE heap' = heap /\ held' = held
  BY <1>2 DEF Kept, p
<1>3. CASE Next
  <2>1. PICK d \in Callers : Steps(d)
    BY <1>3, NextSteps
  <2>2. SUFFICES ASSUME ~(heap' = heap /\ held' = held) PROVE Write(c) \/ Kept(c, old(c))
    BY <1>2
  <2>3. PICK m : /\ held' = [held EXCEPT ![d] = m] /\ Handed(d, heap', m)
                 /\ Write(d) \/ Grown(d, heap', m)
    BY <2>1, <2>2 DEF Steps
  <2>4. CASE d = c
    <3>1. held'[c] = m
      BY <1>1, <2>3, <2>4
    <3>2. SUFFICES ASSUME Grown(c, heap', m), NEW i \in 0 .. old(c) - 1
                   PROVE  heap'.mem[m.ptr + i] = heap.mem[held[c].ptr + i]
      BY <2>3, <2>4, <3>1 DEF Kept, p
    <3>3. m.ptr # 0 /\ held[c].ptr # 0 /\ m.size >= held[c].size
      BY <3>1 DEF Free, p, old
    <3>4. i \in Nat /\ i < held[c].size
      BY <1>1, <3>2 DEF old
    <3>5. QED
      BY <3>2, <3>3, <3>4 DEF Grown
  <2>5. CASE d # c
    <3>1. held'[c] = held[c] /\ held[c].ptr # 0
      BY <1>1, <2>3, <2>5 DEF Free, p
    <3>2. PICK New : Change(heap, heap', Mine(d), New)
      BY <2>3 DEF Handed
    <3>3. \A i \in Nat : i < held[c].size =>
              heap'.mem[held[c].ptr + i] = heap.mem[held[c].ptr + i]
      BY <2>5, <3>1, <3>2, OthersStay
    <3>4. Kept(c, old(c))
      <4>1. SUFFICES ASSUME NEW i \in 0 .. old(c) - 1
                     PROVE  heap'.mem[p(c)' + i] = heap.mem[p(c) + i]
        BY DEF Kept
      <4>2. i \in Nat /\ i < held[c].size
        BY <1>1 DEF old
      <4>3. QED
        BY <3>1, <3>3, <4>2 DEF p
    <3>5. QED
      BY <3>4
  <2>6. QED
    BY <2>4, <2>5
<1>4. QED
  BY <1>2, <1>3 DEF vars

\* No call changes what another caller wrote, and a reallocation that does not
\* shrink keeps what the caller wrote, wherever it moves it.
THEOREM GrowKeepsDataCorrect == Spec => GrowKeepsData
<1>1. MemoryInv /\ [Next]_vars =>
          [\A c \in Callers :
              ~Free(c) /\ ~Free(c)' /\ old(c)' >= old(c) => Write(c) \/ Kept(c, old(c))]_vars
  BY StepKeepsData
<1>2. QED
  BY <1>1, MemoryInvariant, PTL DEF Spec, GrowKeepsData
=============================================================================
