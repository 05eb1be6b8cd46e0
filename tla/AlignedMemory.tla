----------------------------- MODULE AlignedMemory -----------------------------
(* The allocation functions of memory_safety.c: plain, aligned and page aligned *)
(* memory, with and without the checks of the safe_ functions.  An address      *)
(* stands for a pointer sized cell.  The heap of the C library is external: it  *)
(* places a block anywhere it fits, or fails.  Two builds: one with an aligned  *)
(* allocator of the platform (C11), and the generic one, which allocates more   *)
(* and keeps the address of the allocation in front of the aligned address.     *)
(* Each caller holds one pointer and does with it what the documentation asks.  *)
EXTENDS Integers, FiniteSetsExt

CONSTANTS
    Callers,        \* who holds a pointer
    Top,            \* the last address; 0 is M_NULLPTR
    Places,         \* where the C library may place a block
    PAGE,           \* what get_System_Pagesize returns, in cells
    Sizes,          \* the sizes asked for
    Counts,         \* the counts asked for with them
    Alignments,     \* the alignments asked for
    SIZE_MAX

POINTER == 1        \* sizeof(size_t), in cells

(* Every divisor but 1 is even. *)
PowerOfTwo(n) == n # 0 /\ \A d \in 2 .. n : n % d = 0 => d % 2 = 0

has_single_bit(n) == PowerOfTwo(n)

(* The power of two that is not below the number. *)
bit_ceil(n) ==
    CHOOSE q \in 1 .. 2 * n + 1 : PowerOfTwo(q) /\ q >= n /\ \A r \in n .. q - 1 : ~PowerOfTwo(r)

alignment_Round_Up(alignment) == bit_ceil(IF alignment < POINTER THEN POINTER ELSE alignment)

ASSUME AlignedMemoryAssumption ==
    /\ Top \in Nat /\ Places \subseteq 0 .. Top /\ SIZE_MAX \in Nat
    /\ Sizes \subseteq 0 .. SIZE_MAX /\ Counts \subseteq Nat /\ Alignments \subseteq Nat

(* The size of a page is a power of two on every system.                        *)
ASSUME PageAssumption == PAGE \in Nat /\ PowerOfTwo(PAGE)

(* No size so large that rounding it up wraps around: malloc_aligned does not   *)
(* look, and then gives less than what was asked for.                           *)
ASSUME RoundingAssumption ==
    \A s \in Sizes, n \in Counts \cup {1}, a \in Alignments \cup {PAGE} :
        n * s <= SIZE_MAX => n * s + 2 * alignment_Round_Up(a) + POINTER <= SIZE_MAX

VARIABLES
    build,      \* "c11" or "generic"
    heap,       \* the blocks of the C library, the cells, and whether a free went wrong
    held        \* per caller its pointer, what it asked for, and the family of its free

vars == <<build, heap, held>>

Junk == 0 - 1       \* the content of memory nobody has written
Zero == 0
Data == 0 - 2       \* what a caller writes

Region(p, size) == p .. p + size - 1
Block(start, size) == [start |-> start, size |-> size]
Result(h, p) == [heap |-> h, ptr |-> p]

Set(h, p, size, value) ==
    [h EXCEPT !.mem = [a \in DOMAIN h.mem |-> IF a \in Region(p, size) THEN value ELSE h.mem[a]]]

Copy(h, dest, src, size) ==
    [h EXCEPT !.mem = [a \in DOMAIN h.mem |->
                          IF a \in Region(dest, size) THEN h.mem[src + (a - dest)] ELSE h.mem[a]]]

(* ----------------------------------------------------- the C library *)

Fits(h, at, size) ==
    /\ at + size - 1 <= Top
    /\ \A b \in h.blocks : Region(at, size) \cap Region(b.start, b.size) = {}

(* at: the address the library chooses, 0 for none; a place that is not free    *)
(* or not aligned is a failure as well.                                         *)
malloc(h, at, size) ==
    IF at = 0 \/ ~Fits(h, at, size) THEN Result(h, 0)
    ELSE Result([Set(h, at, size, Junk) EXCEPT !.blocks = @ \cup {Block(at, size)}], at)

aligned_alloc(h, at, alignment, size) ==
    IF at % alignment = 0 THEN malloc(h, at, size) ELSE Result(h, 0)

free(h, p) ==
    IF p = 0 THEN h
    ELSE IF \E b \in h.blocks : b.start = p
    THEN LET b == CHOOSE x \in h.blocks : x.start = p
         IN [Set(h, p, b.size, Junk) EXCEPT !.blocks = @ \ {b}]
    ELSE [h EXCEPT !.corrupt = TRUE]

realloc(h, at, p, size) ==
    LET old  == CHOOSE b \in h.blocks : b.start = p
        left == free(h, p)
        new  == malloc(left, at, size)
    IN IF new.ptr = 0 THEN Result(h, 0)
       ELSE Result([new.heap EXCEPT !.mem =
                       [a \in DOMAIN h.mem |->
                           IF a \in Region(at, Min({size, old.size})) THEN h.mem[p + (a - at)]
                           ELSE new.heap.mem[a]]], at)

(* ------------------------------------------------------ plain memory *)

(* Mutant: no check for the size zero. *)
safe_mallocOfZero(h, at, size) == malloc(h, at, size)

safe_malloc(h, at, size) == IF size = 0 THEN Result(h, 0) ELSE malloc(h, at, size)

(* Mutant: the first element is zeroed only. *)
safe_callocOfOne(h, at, count, size) ==
    IF count = 0 \/ size = 0 \/ count > SIZE_MAX \div size THEN Result(h, 0)
    ELSE LET new == malloc(h, at, count * size)
         IN IF new.ptr = 0 THEN new ELSE Result(Set(new.heap, at, size, Zero), at)

safe_calloc(h, at, count, size) ==
    IF count = 0 \/ size = 0 \/ count > SIZE_MAX \div size THEN Result(h, 0)
    ELSE LET new == malloc(h, at, count * size)
         IN IF new.ptr = 0 THEN new ELSE Result(Set(new.heap, at, count * size, Zero), at)

safe_realloc(h, at, block, size) ==
    IF block = 0 THEN safe_malloc(h, at, size)
    ELSE IF size = 0 THEN Result(free(h, block), 0)
    ELSE realloc(h, at, block, size)

(* Mutant: the old memory stays after a failure. *)
safe_reallocfKeeping(h, at, block, size) ==
    IF block = 0 THEN safe_malloc(h, at, size)
    ELSE IF size = 0 THEN Result(free(h, block), 0)
    ELSE realloc(h, at, block, size)

(* The caller's pointer is given by reference and is NULL after a failure.      *)
safe_reallocf(h, at, block, size) ==
    IF block = 0 THEN safe_malloc(h, at, size)
    ELSE IF size = 0 THEN Result(free(h, block), 0)
    ELSE LET new == realloc(h, at, block, size)
         IN IF new.ptr = 0 THEN Result(free(h, block), 0) ELSE new

safe_free_core(h, block) == IF block # 0 THEN free(h, block) ELSE h

(* ---------------------------------------------------- aligned memory *)

(* A size_t wraps around. *)
Wrapped(n) == n % (SIZE_MAX + 1)

aligned_Size_Round_Up(size, alignment) ==
    IF size > (SIZE_MAX - alignment) + 1 \/ size % alignment = 0 THEN size
    ELSE size + alignment - (size % alignment)

AlignedAddress(p, alignment) == p + POINTER + (alignment - ((p + POINTER) % alignment))

store_aligned_original_ptr(h, p, alignment) ==
    LET aligned == AlignedAddress(p, alignment)
    IN Result([h EXCEPT !.mem[aligned - POINTER] = p], aligned)

retrieve_aligned_original_ptr(h, p) == IF p = 0 THEN 0 ELSE h.mem[p - POINTER]

malloc_aligned(h, at, size, alignment) ==
    CASE build = "c11" ->
            aligned_alloc(h, at, alignment,
                          IF size % alignment = 0 THEN size
                          ELSE Wrapped(size + alignment - (size % alignment)))
      [] build = "generic" ->
            IF size = 0 \/ ~has_single_bit(alignment) THEN Result(h, 0)
            ELSE LET new == malloc(h, at, Wrapped(size + alignment + POINTER))
                 IN IF new.ptr = 0 THEN new
                    ELSE store_aligned_original_ptr(new.heap, new.ptr, alignment)

free_aligned(h, p) ==
    IF build = "c11" THEN free(h, p) ELSE free(h, retrieve_aligned_original_ptr(h, p))

calloc_aligned(h, at, num, size, alignment) ==
    LET numSize == Wrapped(num * size)
        new     == malloc_aligned(h, at, numSize, alignment)
    IN IF numSize = 0 THEN Result(h, 0)
       ELSE IF new.ptr = 0 THEN new ELSE Result(Set(new.heap, new.ptr, numSize, Zero), new.ptr)

(* Mutant: as many bytes as the new block has are refused as well. *)
CarriedBelow(h, p, size, old, originalSize) ==
    IF originalSize >= size THEN Set(h, p, size, Zero) ELSE Copy(h, p, old, originalSize)

(* safe_memcpy refuses more bytes than the new block has, and then zeroes it.   *)
Carried(h, p, size, old, originalSize) ==
    IF originalSize > size THEN Set(h, p, size, Zero) ELSE Copy(h, p, old, originalSize)

realloc_aligned(h, at, old, originalSize, size, alignment) ==
    LET new   == malloc_aligned(h, at, size, alignment)
        moved == IF old # 0 /\ originalSize > 0
                 THEN Carried(new.heap, new.ptr, size, old, originalSize) ELSE new.heap
    IN IF size = 0 THEN Result(free_aligned(h, old), 0)
       ELSE IF new.ptr = 0 THEN new
       ELSE Result(IF old # 0 THEN free_aligned(moved, old) ELSE moved, new.ptr)

safe_malloc_aligned(h, at, size, alignment) ==
    LET rounded == alignment_Round_Up(alignment)
    IN IF size = 0 THEN Result(h, 0)
       ELSE malloc_aligned(h, at, aligned_Size_Round_Up(size, rounded), rounded)

safe_calloc_aligned(h, at, count, size, alignment) ==
    IF count = 0 \/ size = 0 \/ count > SIZE_MAX \div size THEN Result(h, 0)
    ELSE LET new == safe_malloc_aligned(h, at, count * size, alignment)
         IN IF new.ptr = 0 THEN new ELSE Result(Set(new.heap, new.ptr, count * size, Zero), new.ptr)

safe_realloc_aligned(h, at, block, originalSize, size, alignment) ==
    LET rounded == alignment_Round_Up(alignment)
    IN IF block = 0 THEN safe_malloc_aligned(h, at, size, alignment)
       ELSE IF size = 0 THEN Result(free_aligned(h, block), 0)
       ELSE realloc_aligned(h, at, block, originalSize, aligned_Size_Round_Up(size, rounded), rounded)

safe_reallocf_aligned(h, at, block, originalSize, size, alignment) ==
    LET new == safe_realloc_aligned(h, at, block, originalSize, size, alignment)
    IN IF block # 0 /\ size # 0 /\ new.ptr = 0 THEN Result(free_aligned(h, block), 0) ELSE new

safe_free_aligned_core(h, block) == IF block # 0 THEN free_aligned(h, block) ELSE h

(* ----------------------------------------------- page aligned memory *)

get_System_Pagesize == PAGE

malloc_page_aligned(h, at, size) == malloc_aligned(h, at, size, get_System_Pagesize)
calloc_page_aligned(h, at, num, size) == calloc_aligned(h, at, num, size, get_System_Pagesize)
realloc_page_aligned(h, at, old, originalSize, size) ==
    realloc_aligned(h, at, old, originalSize, size, get_System_Pagesize)
safe_malloc_page_aligned(h, at, size) == safe_malloc_aligned(h, at, size, get_System_Pagesize)
safe_calloc_page_aligned(h, at, count, size) == safe_calloc_aligned(h, at, count, size, get_System_Pagesize)
safe_realloc_page_aligned(h, at, block, originalSize, size) ==
    safe_realloc_aligned(h, at, block, originalSize, size, get_System_Pagesize)
safe_reallocf_page_aligned(h, at, block, originalSize, size) ==
    safe_reallocf_aligned(h, at, block, originalSize, size, get_System_Pagesize)
safe_free_page_aligned_core(h, block) == safe_free_aligned_core(h, block)

(* --------------------------------------------------------- the callers *)

(* zeroed: allocated by a calloc and not written since. *)
Memory(p, size, alignment, family, zeroed) ==
    [ptr |-> p, size |-> size, alignment |-> alignment, family |-> family, zeroed |-> zeroed]
NoMemory == Memory(0, 0, 1, "plain", FALSE)

Init ==
    /\ build \in {"c11", "generic"}
    /\ heap = [blocks |-> {}, mem |-> [a \in 1 .. Top |-> Junk], corrupt |-> FALSE]
    /\ held = [c \in Callers |-> NoMemory]

(* The caller holds what the call returned. *)
Takes(c, result, size, alignment, family, zeroed) ==
    /\ heap' = result.heap
    /\ held' = [held EXCEPT ![c] =
                   IF result.ptr = 0 THEN NoMemory ELSE Memory(result.ptr, size, alignment, family, zeroed)]
    /\ UNCHANGED build

Holds(c, result, size, alignment, family)       == Takes(c, result, size, alignment, family, FALSE)
HoldsZeroed(c, result, size, alignment, family) == Takes(c, result, size, alignment, family, TRUE)

(* A reallocation to a size other than zero that fails leaves the old memory.   *)
Reholds(c, result, size, alignment, family) ==
    IF result.ptr = 0 /\ size # 0
    THEN heap' = result.heap /\ UNCHANGED <<build, held>>
    ELSE Holds(c, result, size, alignment, family)

Free(c) == held[c].ptr = 0
Owns(c, family) == Free(c) \/ held[c].family = family
Powers == {a \in Alignments : has_single_bit(a)}
p(c) == held[c].ptr
old(c) == held[c].size

SafeMalloc(c) == Free(c) /\ \E at \in Places, s \in Sizes :
    Holds(c, safe_malloc(heap, at, s), s, 1, "plain")
SafeCalloc(c) == Free(c) /\ \E at \in Places, s \in Sizes, n \in Counts :
    HoldsZeroed(c, safe_calloc(heap, at, n, s), n * s, 1, "plain")
SafeRealloc(c) == Owns(c, "plain") /\ \E at \in Places, s \in Sizes :
    Reholds(c, safe_realloc(heap, at, p(c), s), s, 1, "plain")
SafeReallocf(c) == Owns(c, "plain") /\ \E at \in Places, s \in Sizes :
    Holds(c, safe_reallocf(heap, at, p(c), s), s, 1, "plain")
SafeFree(c) == Owns(c, "plain") /\ Holds(c, Result(safe_free_core(heap, p(c)), 0), 0, 1, "plain")

(* The functions without checks: sizes other than zero, powers of two, no       *)
(* product that wraps around.                                                   *)
MallocAligned(c) == Free(c) /\ \E at \in Places, s \in Sizes \ {0}, a \in Powers :
    Holds(c, malloc_aligned(heap, at, s, a), s, a, "aligned")
CallocAligned(c) == Free(c) /\ \E at \in Places, s \in Sizes, n \in Counts, a \in Powers :
    n * s <= SIZE_MAX /\ HoldsZeroed(c, calloc_aligned(heap, at, n, s, a), n * s, a, "aligned")
ReallocAligned(c) == Owns(c, "aligned") /\ \E at \in Places, s \in Sizes, a \in Powers :
    Reholds(c, realloc_aligned(heap, at, p(c), old(c), s, a), s, a, "aligned")

SafeMallocAligned(c) == Free(c) /\ \E at \in Places, s \in Sizes, a \in Alignments :
    Holds(c, safe_malloc_aligned(heap, at, s, a), s, a, "aligned")
SafeCallocAligned(c) == Free(c) /\ \E at \in Places, s \in Sizes, n \in Counts, a \in Alignments :
    HoldsZeroed(c, safe_calloc_aligned(heap, at, n, s, a), n * s, a, "aligned")
SafeReallocAligned(c) == Owns(c, "aligned") /\ \E at \in Places, s \in Sizes, a \in Powers :
    Reholds(c, safe_realloc_aligned(heap, at, p(c), old(c), s, a), s, a, "aligned")
SafeReallocfAligned(c) == Owns(c, "aligned") /\ \E at \in Places, s \in Sizes, a \in Powers :
    Holds(c, safe_reallocf_aligned(heap, at, p(c), old(c), s, a), s, a, "aligned")
SafeFreeAligned(c) ==
    Owns(c, "aligned") /\ Holds(c, Result(safe_free_aligned_core(heap, p(c)), 0), 0, 1, "aligned")

MallocPage(c) == Free(c) /\ \E at \in Places, s \in Sizes \ {0} :
    Holds(c, malloc_page_aligned(heap, at, s), s, PAGE, "aligned")
CallocPage(c) == Free(c) /\ \E at \in Places, s \in Sizes, n \in Counts :
    n * s <= SIZE_MAX /\ HoldsZeroed(c, calloc_page_aligned(heap, at, n, s), n * s, PAGE, "aligned")
ReallocPage(c) == Owns(c, "aligned") /\ \E at \in Places, s \in Sizes :
    Reholds(c, realloc_page_aligned(heap, at, p(c), old(c), s), s, PAGE, "aligned")
SafeMallocPage(c) == Free(c) /\ \E at \in Places, s \in Sizes :
    Holds(c, safe_malloc_page_aligned(heap, at, s), s, PAGE, "aligned")
SafeCallocPage(c) == Free(c) /\ \E at \in Places, s \in Sizes, n \in Counts :
    HoldsZeroed(c, safe_calloc_page_aligned(heap, at, n, s), n * s, PAGE, "aligned")
SafeReallocPage(c) == Owns(c, "aligned") /\ \E at \in Places, s \in Sizes :
    Reholds(c, safe_realloc_page_aligned(heap, at, p(c), old(c), s), s, PAGE, "aligned")
SafeReallocfPage(c) == Owns(c, "aligned") /\ \E at \in Places, s \in Sizes :
    Holds(c, safe_reallocf_page_aligned(heap, at, p(c), old(c), s), s, PAGE, "aligned")
SafeFreePage(c) ==
    Owns(c, "aligned") /\ Holds(c, Result(safe_free_page_aligned_core(heap, p(c)), 0), 0, 1, "aligned")

(* The caller fills its memory. *)
Write(c) ==
    /\ ~Free(c)
    /\ heap' = Set(heap, p(c), old(c), Data)
    /\ held' = [held EXCEPT ![c].zeroed = FALSE]
    /\ UNCHANGED build

Plain(c) == SafeMalloc(c) \/ SafeCalloc(c) \/ SafeRealloc(c) \/ SafeReallocf(c) \/ SafeFree(c)
Aligned(c) ==
    \/ MallocAligned(c) \/ CallocAligned(c) \/ ReallocAligned(c)
    \/ SafeMallocAligned(c) \/ SafeCallocAligned(c) \/ SafeReallocAligned(c)
    \/ SafeReallocfAligned(c) \/ SafeFreeAligned(c)
Paged(c) ==
    \/ MallocPage(c) \/ CallocPage(c) \/ ReallocPage(c)
    \/ SafeMallocPage(c) \/ SafeCallocPage(c) \/ SafeReallocPage(c)
    \/ SafeReallocfPage(c) \/ SafeFreePage(c)

Next == \E c \in Callers : Plain(c) \/ Aligned(c) \/ Paged(c) \/ Write(c)

Spec == Init /\ [][Next]_vars

(* --------------------------------------------------------- properties *)

(* Addresses, sizes and the family of every pointer are of their types. *)
TypeOK ==
    /\ build \in {"c11", "generic"}
    /\ heap.mem \in [1 .. Top -> {Junk, Zero, Data} \cup 1 .. Top]
    /\ \A b \in heap.blocks : b.start \in 1 .. Top /\ b.size \in 1 .. Top
    /\ \A c \in Callers : held[c].ptr \in 0 .. Top /\ held[c].family \in {"plain", "aligned"}

(* The address the C library gave for the memory of a caller. *)
Original(c) ==
    IF held[c].family = "aligned" /\ build = "generic" THEN retrieve_aligned_original_ptr(heap, p(c)) ELSE p(c)

(* What a caller holds lies inside an allocation of its own, at the alignment   *)
(* it asked for, and is zero over its whole size after a calloc: neither the    *)
(* rounding of the size and of the alignment nor the place taken by the hidden  *)
(* address makes the memory shorter, or less zero, than asked.                  *)
HeldMemoryIsAsAsked ==
    \A c \in Callers : ~Free(c) =>
        /\ \E q \in 1 .. Top : PowerOfTwo(q) /\ q >= held[c].alignment /\ p(c) % q = 0
        /\ \E b \in heap.blocks : b.start = Original(c) /\ Region(p(c), old(c)) \subseteq Region(b.start, b.size)
        /\ held[c].zeroed => \A a \in Region(p(c), old(c)) : heap.mem[a] = Zero

(* Every free gives the C library an address it handed out, once, and every     *)
(* allocation is still reachable from a caller: nothing is freed twice, nothing *)
(* leaks, whichever function fails in whichever reallocation.                   *)
EveryBlockIsHeldOnce ==
    /\ ~heap.corrupt
    /\ {b.start : b \in heap.blocks} = {Original(c) : c \in {d \in Callers : ~Free(d)}}
    /\ \A c, d \in Callers : ~Free(c) /\ ~Free(d) /\ Original(c) = Original(d) => c = d

Kept(c, n) == \A i \in 0 .. n - 1 : heap'.mem[p(c)' + i] = heap.mem[p(c) + i]

(* A step of whichever caller leaves the data of a pointer as it is, also where *)
(* a reallocation that does not shrink moves it.                                *)
GrowKeepsData ==
    [][\A c \in Callers :
          ~Free(c) /\ ~Free(c)' /\ old(c)' >= old(c) => Write(c) \/ Kept(c, old(c))]_vars
=============================================================================
