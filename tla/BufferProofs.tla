----------------------------- MODULE BufferProofs -----------------------------
(***************************************************************************)
(* What is proved of the functions that work on memory the caller gives.   *)
(* The bounded copies, for every arena, every size and every RSIZE_MAX:    *)
(* each of the thirteen copying functions, the two duplicates and the wipe *)
(* does what CopiesStayInBounds says of it.  The sorts and the searches,   *)
(* for every table and number of elements: SortedAndFound.  The calls that *)
(* take a string apart, for every string and sets of delimiters:           *)
(* TokensAreTheParts.  Loops are reasoned about by what their rounds keep, *)
(* or by the least counterexample.                                         *)
(***************************************************************************)
EXTENDS CopyCalls, SortCalls, TokenCalls, FiniteSetTheorems, SequenceTheorems, WellFoundedInduction, TLAPS

-----------------------------------------------------------------------------
(* The first of a set of numbers                                           *)

\* A non-empty set of numbers has a least one, and Min is it.
LEMMA LeastNumber ==
    ASSUME NEW S, S \subseteq Nat, S # {}
    PROVE  Min(S) \in S /\ \A y \in S : Min(S) <= y
<1>1. PICK x \in S : \A y \in S : ~(<<y, x>> \in OpToRel(<, Nat))
  BY WFMin, NatLessThanWellFounded, Zenon
<1>2. \A y \in S : ~(y < x)
  BY <1>1, Zenon DEF OpToRel
<1>3. \E z \in S : \A y \in S : z <= y
  BY <1>2
<1>4. QED
  BY <1>3 DEF Min

\* A chain of tests answers 0 exactly when none of them holds: every error of
\* the chain is a number other than 0.
LEMMA NoTestFails ==
    ASSUME NEW tests, DOMAIN tests \in SUBSET Nat,
           \A i \in DOMAIN tests : tests[i][2] # 0
    PROVE  FirstFailing(tests) = 0 <=> \A i \in DOMAIN tests : ~tests[i][1]
<1> DEFINE failing == {i \in DOMAIN tests : tests[i][1]}
<1>1. CASE failing = {}
  BY <1>1 DEF FirstFailing
<1>2. CASE failing # {}
  <2>1. Min(failing) \in failing
    BY <1>2, LeastNumber
  <2>2. FirstFailing(tests) = tests[Min(failing)][2]
    BY <1>2 DEF FirstFailing
  <2>3. QED
    BY <2>1, <2>2
<1>3. QED
  BY <1>1, <1>2

-----------------------------------------------------------------------------
(* Loops of n rounds                                                       *)

\* What the rounds leave: round i takes what is in S[i - 1] to what is in S[i].
Rounds(f, n, x, next) == f = [i \in 0 .. n |-> IF i = 0 THEN x ELSE next[i][f[i - 1]]]

\* What holds at first and is kept by every round holds after each.
LEMMA RoundsKeep ==
    ASSUME NEW n \in Nat, NEW S, NEW f, f[0] \in S[0],
           \A i \in 1 .. n : f[i - 1] \in S[i - 1] => f[i] \in S[i]
    PROVE  \A i \in 0 .. n : f[i] \in S[i]
<1> DEFINE Lost == {i \in 0 .. n : f[i] \notin S[i]}
<1>1. SUFFICES ASSUME Lost # {} PROVE FALSE
  OBVIOUS
<1> DEFINE k == Min(Lost)
<1>2. k \in Lost /\ \A j \in Lost : k <= j
  <2>1. Lost \subseteq Nat
    OBVIOUS
  <2> HIDE DEF Lost
  <2>2. QED
    BY <1>1, <2>1, LeastNumber
<1> HIDE DEF k
<1>3. k # 0
  BY <1>2
<1>4. k - 1 \in 0 .. n /\ k \in 1 .. n /\ k - 1 \notin Lost
  BY <1>2, <1>3
<1>5. QED
  BY <1>2, <1>4

\* A loop whose rounds stay within these sets exists.
LEMMA RoundsExist ==
    ASSUME NEW n \in Nat, NEW S, NEW x \in S[0], NEW next,
           \A i \in 1 .. n : next[i] \in [S[i - 1] -> S[i]]
    PROVE  \E f : Rounds(f, n, x, next) /\ \A i \in 0 .. n : f[i] \in S[i]
<1> DEFINE Lost == {k \in 0 .. n : ~\E f : Rounds(f, k, x, next)}
<1>1. Lost = {}
  <2>1. SUFFICES ASSUME Lost # {} PROVE FALSE
    OBVIOUS
  <2> DEFINE k == Min(Lost)
  <2>2. k \in Lost /\ \A j \in Lost : k <= j
    <3>1. Lost \subseteq Nat
      OBVIOUS
    <3> HIDE DEF Lost
    <3>2. QED
      BY <2>1, <3>1, LeastNumber
  <2> HIDE DEF k
  <2>3. CASE k = 0
    <3> DEFINE f == [i \in 0 .. 0 |-> x]
    <3>1. Rounds(f, 0, x, next)
      BY DEF Rounds
    <3>2. QED
      BY <2>2, <2>3, <3>1
  <2>4. CASE k # 0
    <3>1. k - 1 \in 0 .. n /\ k \in Nat /\ k - 1 \notin Lost
      BY <2>2, <2>4
    <3>2. PICK g : Rounds(g, k - 1, x, next)
      BY <3>1
    <3> DEFINE last == next[k][g[k - 1]]
               f == [i \in 0 .. k |-> IF i = k THEN last ELSE g[i]]
    <3>3. \A i \in 0 .. k - 1 : f[i] = g[i]
      BY <3>1
    <3>4. ASSUME NEW i \in 0 .. k PROVE f[i] = IF i = 0 THEN x ELSE next[i][f[i - 1]]
      <4>1. CASE i = k
        <5>1. f[i] = last /\ f[i - 1] = g[i - 1] /\ i # 0
          BY <2>4, <3>1, <3>3, <4>1
        <5> HIDE DEF f
        <5>2. QED
          BY <4>1, <5>1
      <4>2. CASE i # k
        <5>1. i \in 0 .. k - 1 /\ f[i] = g[i] /\ (i # 0 => i - 1 \in 0 .. k - 1 /\ f[i - 1] = g[i - 1])
          BY <3>1, <3>3, <4>2
        <5>2. g[i] = IF i = 0 THEN x ELSE next[i][g[i - 1]]
          BY <3>2, <5>1 DEF Rounds
        <5> HIDE DEF f
        <5>3. QED
          BY <5>1, <5>2
      <4>3. QED
        BY <4>1, <4>2
    <3>5. DOMAIN f = 0 .. k /\ f = [i \in DOMAIN f |-> f[i]]
      OBVIOUS
    <3> HIDE DEF f, last
    <3>6. Rounds(f, k, x, next)
      BY <3>4, <3>5 DEF Rounds
    <3>7. QED
      BY <2>2, <3>6
  <2>5. QED
    BY <2>3, <2>4
<1>2. PICK f : Rounds(f, n, x, next)
  BY <1>1
<1>3. f[0] = x /\ \A i \in 1 .. n : f[i] = next[i][f[i - 1]]
  <2>1. \A i \in 0 .. n : f[i] = IF i = 0 THEN x ELSE next[i][f[i - 1]]
    BY <1>2 DEF Rounds
  <2>2. QED
    BY <2>1
<1>4. \A i \in 1 .. n : f[i - 1] \in S[i - 1] => f[i] \in S[i]
  BY <1>3
<1>5. \A i \in 0 .. n : f[i] \in S[i]
  BY <1>3, <1>4, RoundsKeep
<1>6. QED
  BY <1>2, <1>5

-----------------------------------------------------------------------------
(* Copies                                                                  *)

Memories == [1 .. Arena -> 0 .. 255]
Inside(dest, destsz) == dest .. dest + destsz - 1

\* What a bounded function leaves alone: every byte outside its destination.
RestIsKept(m, out, dest, destsz) == \A a \in DOMAIN m \ Inside(dest, destsz) : out.mem[a] = m[a]

\* safe_memset succeeds exactly for a count within the destination, and then
\* fills these bytes; it never writes outside them.
THEOREM FillStaysInside ==
    ASSUME NEW m \in Memories, NEW dest \in Nat, NEW destsz \in Nat, NEW ch \in 0 .. 255, NEW count \in Nat
    PROVE  LET out == safe_memset(m, dest, destsz, ch, count)
           IN /\ out.error = 0 <=> dest # 0 /\ destsz <= RSIZE_MAX /\ count <= destsz
              /\ out.error = 0 => \A a \in DOMAIN m : out.mem[a] = IF a \in Inside(dest, count) THEN ch ELSE m[a]
              /\ RestIsKept(m, out, dest, destsz)
<1> DEFINE tests == << <<dest = 0, EINVAL>>, <<destsz > RSIZE_MAX, ERANGE>>,
                       <<count > RSIZE_MAX, ERANGE>>, <<count > destsz, ERANGE>> >>
           error == FirstFailing(tests)
           out == safe_memset(m, dest, destsz, ch, count)
<1>1. error = 0 <=> dest # 0 /\ destsz <= RSIZE_MAX /\ count <= destsz
  <2>1. DOMAIN tests = 1 .. 4 /\ \A i \in DOMAIN tests : tests[i][2] # 0
    BY DEF EINVAL, ERANGE
  <2>2. (\A i \in DOMAIN tests : ~tests[i][1])
        <=> dest # 0 /\ ~(destsz > RSIZE_MAX) /\ ~(count > RSIZE_MAX) /\ ~(count > destsz)
    <3>1. /\ 1 .. 4 = {1, 2, 3, 4}
          /\ tests[1][1] = (dest = 0) /\ tests[2][1] = (destsz > RSIZE_MAX)
          /\ tests[3][1] = (count > RSIZE_MAX) /\ tests[4][1] = (count > destsz)
      OBVIOUS
    <3> HIDE DEF tests
    <3>2. QED
      BY <2>1, <3>1
  <2>3. error = 0 <=> \A i \in DOMAIN tests : ~tests[i][1]
    <3> HIDE DEF tests
    <3>1. QED
      BY <2>1, NoTestFails
  <2>4. RSIZE_MAX \in Nat
    BY BoundedCopyAssumption
  <2>5. QED
    BY <2>2, <2>3, <2>4
<1>2. out = Result(error, IF error = 0 THEN Fill(m, dest, ch, count) ELSE m)
  BY DEF safe_memset
<1> HIDE DEF error, out
<1>3. out.error = error /\ out.mem = IF error = 0 THEN Fill(m, dest, ch, count) ELSE m
  BY <1>2 DEF Result
<1>4. out.error = 0 => \A a \in DOMAIN m : out.mem[a] = IF a \in Inside(dest, count) THEN ch ELSE m[a]
  BY <1>3 DEF Fill, Inside
<1>5. RestIsKept(m, out, dest, destsz)
  <2>1. CASE error = 0
    <3>1. Inside(dest, count) \subseteq Inside(dest, destsz)
      BY <1>1, <2>1 DEF Inside
    <3>2. QED
      BY <3>1, <2>1, <1>3, <1>4 DEF RestIsKept
  <2>2. CASE error # 0
    BY <2>2, <1>3 DEF RestIsKept
  <2>3. QED
    BY <2>1, <2>2
<1>6. QED
  BY <1>1, <1>3, <1>4, <1>5 DEF out

\* A refused copy zeroes its destination, or leaves it.
LEMMA RefusedCopy ==
    ASSUME NEW m \in Memories, NEW dest \in Nat, NEW destsz \in Nat, NEW error
    PROVE  /\ ZeroOnError(m, dest, destsz, error).error = error
           /\ RestIsKept(m, ZeroOnError(m, dest, destsz, error), dest, destsz)
<1> DEFINE zeroed == safe_memset(m, dest, destsz, 0, destsz)
<1>1. RestIsKept(m, zeroed, dest, destsz)
  BY FillStaysInside
<1> HIDE DEF zeroed
<1>2. ZeroOnError(m, dest, destsz, error) = Result(error, IF dest # 0 /\ destsz <= RSIZE_MAX THEN zeroed.mem ELSE m)
  BY DEF ZeroOnError, zeroed
<1>3. QED
  BY <1>1, <1>2 DEF Result, RestIsKept

\* What a copy that succeeds leaves: the bytes the source had, in order, and
\* nothing else is changed; the regions may overlap.
Moved(m, out, dest, src, count) ==
    \A a \in DOMAIN m : out.mem[a] = IF a \in Inside(dest, count) THEN m[src + (a - dest)] ELSE m[a]

Outcome(m, dest, destsz, src, count, error) ==
    IF error # 0 THEN ZeroOnError(m, dest, destsz, error) ELSE Result(0, Move(m, dest, src, count))

\* A move or a refusal, by its checks.
LEMMA MovedOrRefused ==
    ASSUME NEW m \in Memories, NEW dest \in Nat, NEW destsz \in Nat, NEW src \in Nat, NEW count \in Nat,
           NEW error, error = 0 => count <= destsz
    PROVE  LET out == Outcome(m, dest, destsz, src, count, error) IN
           /\ out.error = error
           /\ out.error = 0 => Moved(m, out, dest, src, count)
           /\ RestIsKept(m, out, dest, destsz)
<1> DEFINE out == Outcome(m, dest, destsz, src, count, error)
<1>0. out = IF error # 0 THEN ZeroOnError(m, dest, destsz, error) ELSE Result(0, Move(m, dest, src, count))
  BY DEF Outcome
<1> HIDE DEF out
<1> SUFFICES /\ out.error = error
             /\ out.error = 0 => Moved(m, out, dest, src, count)
             /\ RestIsKept(m, out, dest, destsz)
  BY DEF out
<1>1. CASE error # 0
  BY <1>0, <1>1, RefusedCopy
<1>2. CASE error = 0
  <2>1. out.error = 0 /\ out.mem = Move(m, dest, src, count)
    BY <1>0, <1>2 DEF Result
  <2>2. Moved(m, out, dest, src, count)
    BY <2>1 DEF Moved, Move, Inside
  <2>3. Inside(dest, count) \subseteq Inside(dest, destsz)
    BY <1>2 DEF Inside
  <2>4. QED
    BY <1>2, <2>1, <2>2, <2>3 DEF Moved, RestIsKept
<1>3. QED
  BY <1>1, <1>2

\* safe_memmove succeeds exactly for two pointers and a count within the
\* destination; the destination then holds the bytes the source had before
\* the call, also where the two overlap; no byte outside of the destination
\* is written, by a call that succeeds or by one that is refused.
THEOREM MoveStaysInside ==
    ASSUME NEW m \in Memories, NEW dest \in Nat, NEW destsz \in Nat, NEW src \in Nat, NEW count \in Nat
    PROVE  LET out == safe_memmove(m, dest, destsz, src, count)
           IN /\ out.error = 0 <=> dest # 0 /\ src # 0 /\ destsz <= RSIZE_MAX /\ count <= destsz
              /\ out.error = 0 => Moved(m, out, dest, src, count)
              /\ RestIsKept(m, out, dest, destsz)
<1> DEFINE tests == << <<dest = 0, EINVAL>>, <<src = 0, EINVAL>>, <<destsz > RSIZE_MAX, EINVAL>>,
                       <<count > RSIZE_MAX, EINVAL>>, <<count > destsz, ERANGE>> >>
           error == FirstFailing(tests)
           out == safe_memmove(m, dest, destsz, src, count)
<1>1. error = 0 <=> dest # 0 /\ src # 0 /\ destsz <= RSIZE_MAX /\ count <= destsz
  <2>1. DOMAIN tests = 1 .. 5 /\ 1 .. 5 = {1, 2, 3, 4, 5} /\ \A i \in DOMAIN tests : tests[i][2] # 0
    BY DEF EINVAL, ERANGE
  <2>2. (\A i \in DOMAIN tests : ~tests[i][1])
        <=> dest # 0 /\ src # 0 /\ ~(destsz > RSIZE_MAX) /\ ~(count > RSIZE_MAX) /\ ~(count > destsz)
    <3>1. /\ tests[1][1] = (dest = 0) /\ tests[2][1] = (src = 0) /\ tests[3][1] = (destsz > RSIZE_MAX)
          /\ tests[4][1] = (count > RSIZE_MAX) /\ tests[5][1] = (count > destsz)
      OBVIOUS
    <3> HIDE DEF tests
    <3>2. QED
      BY <2>1, <3>1
  <2>3. error = 0 <=> \A i \in DOMAIN tests : ~tests[i][1]
    <3> HIDE DEF tests
    <3>1. QED
      BY <2>1, NoTestFails
  <2>4. RSIZE_MAX \in Nat
    BY BoundedCopyAssumption
  <2>5. QED
    BY <2>2, <2>3, <2>4
<1>2. out = Outcome(m, dest, destsz, src, count, error)
  BY DEF safe_memmove, Outcome
<1> HIDE DEF error, out
<1>3. /\ out.error = error
      /\ out.error = 0 => Moved(m, out, dest, src, count)
      /\ RestIsKept(m, out, dest, destsz)
  <2>1. error = 0 => count <= destsz
    BY <1>1
  <2>2. QED
    BY <2>1, <1>2, MovedOrRefused
<1>4. QED
  BY <1>1, <1>3 DEF out

\* safe_memcpy succeeds exactly where safe_memmove does and the source lies
\* outside of the whole destination, not only of the part that is written.
THEOREM CopyStaysInside ==
    ASSUME NEW m \in Memories, NEW dest \in Nat, NEW destsz \in Nat, NEW src \in Nat, NEW count \in Nat
    PROVE  LET out == safe_memcpy(m, dest, destsz, src, count)
           IN /\ out.error = 0 <=> (/\ dest # 0 /\ src # 0 /\ destsz <= RSIZE_MAX /\ count <= destsz
                                   /\ (dest >= src + count \/ src >= dest + destsz))
              /\ out.error = 0 => Moved(m, out, dest, src, count)
              /\ RestIsKept(m, out, dest, destsz)
<1> DEFINE overlap == memory_regions_overlap(dest, destsz, src, count)
           tests == << <<dest = 0, EINVAL>>, <<src = 0, EINVAL>>, <<destsz > RSIZE_MAX, EINVAL>>,
                       <<count > RSIZE_MAX, EINVAL>>, <<count > destsz, ERANGE>>, <<overlap, EINVAL>> >>
           error == FirstFailing(tests)
           out == safe_memcpy(m, dest, destsz, src, count)
<1>1. error = 0 <=> (/\ dest # 0 /\ src # 0 /\ destsz <= RSIZE_MAX /\ count <= destsz
                     /\ (dest >= src + count \/ src >= dest + destsz))
  <2>1. overlap <=> ~(dest >= src + count \/ src >= dest + destsz)
    BY DEF memory_regions_overlap
  <2> HIDE DEF overlap
  <2>2. DOMAIN tests = 1 .. 6 /\ 1 .. 6 = {1, 2, 3, 4, 5, 6} /\ \A i \in DOMAIN tests : tests[i][2] # 0
    BY DEF EINVAL, ERANGE
  <2>3. (\A i \in DOMAIN tests : ~tests[i][1])
        <=> dest # 0 /\ src # 0 /\ ~(destsz > RSIZE_MAX) /\ ~(count > RSIZE_MAX) /\ ~(count > destsz) /\ ~overlap
    <3>1. /\ tests[1][1] = (dest = 0) /\ tests[2][1] = (src = 0) /\ tests[3][1] = (destsz > RSIZE_MAX)
          /\ tests[4][1] = (count > RSIZE_MAX) /\ tests[5][1] = (count > destsz) /\ tests[6][1] = overlap
      OBVIOUS
    <3> HIDE DEF tests
    <3>2. QED
      BY <2>2, <3>1
  <2>4. error = 0 <=> \A i \in DOMAIN tests : ~tests[i][1]
    <3> HIDE DEF tests
    <3>1. QED
      BY <2>2, NoTestFails
  <2>5. RSIZE_MAX \in Nat
    BY BoundedCopyAssumption
  <2>6. QED
    BY <2>1, <2>3, <2>4, <2>5
<1>2. out = Outcome(m, dest, destsz, src, count, error)
  BY DEF safe_memcpy, Outcome
<1> HIDE DEF error, out
<1>3. /\ out.error = error
      /\ out.error = 0 => Moved(m, out, dest, src, count)
      /\ RestIsKept(m, out, dest, destsz)
  <2>1. error = 0 => count <= destsz
    BY <1>1
  <2>2. QED
    BY <2>1, <1>2, MovedOrRefused
<1>4. QED
  BY <1>1, <1>3 DEF out

-----------------------------------------------------------------------------
(* The loop that copies one byte at a time                                 *)

\* What the first k bytes of a copy leave, for every k up to n.
Steps(f, n, m, dest, src, order) ==
    f = [i \in 0 .. n |->
            IF i = 0 THEN m ELSE [f[i - 1] EXCEPT ![dest + order[i]] = f[i - 1][src + order[i]]]]

\* The recursive function of the loop exists.
LEMMA StepsExist ==
    ASSUME NEW n \in Nat, NEW m, NEW dest, NEW src, NEW order
    PROVE  \E f : Steps(f, n, m, dest, src, order)
<1> DEFINE Lost == {k \in Nat : ~\E f : Steps(f, k, m, dest, src, order)}
<1>1. SUFFICES ASSUME Lost # {} PROVE FALSE
  OBVIOUS
<1> DEFINE k == Min(Lost)
<1>2. k \in Lost /\ \A j \in Lost : k <= j
  <2>1. Lost \subseteq Nat
    OBVIOUS
  <2> HIDE DEF Lost
  <2>2. QED
    BY <1>1, <2>1, LeastNumber
<1> HIDE DEF k
<1>3. CASE k = 0
  <2> DEFINE f == [i \in 0 .. 0 |-> m]
  <2>1. Steps(f, 0, m, dest, src, order)
    BY DEF Steps
  <2>2. QED
    BY <1>2, <1>3, <2>1
<1>4. CASE k # 0
  <2>1. k - 1 \in Nat /\ k \in Nat /\ k - 1 \notin Lost
    BY <1>2, <1>4
  <2>2. PICK g : Steps(g, k - 1, m, dest, src, order)
    BY <2>1
  <2> DEFINE next == [g[k - 1] EXCEPT ![dest + order[k]] = g[k - 1][src + order[k]]]
             f == [i \in 0 .. k |-> IF i = k THEN next ELSE g[i]]
  <2>3. \A i \in 0 .. k - 1 : f[i] = g[i]
    BY <2>1
  <2>4. ASSUME NEW i \in 0 .. k
        PROVE  f[i] = IF i = 0 THEN m ELSE [f[i - 1] EXCEPT ![dest + order[i]] = f[i - 1][src + order[i]]]
    <3>1. CASE i = k
      <4>1. f[i] = next /\ f[i - 1] = g[i - 1] /\ i # 0
        BY <1>4, <2>1, <2>3, <3>1
      <4>2. next = [g[i - 1] EXCEPT ![dest + order[i]] = g[i - 1][src + order[i]]]
        BY <3>1
      <4> HIDE DEF f, next
      <4>3. QED
        BY <4>1, <4>2
    <3>2. CASE i # k
      <4>1. i \in 0 .. k - 1 /\ f[i] = g[i] /\ (i # 0 => i - 1 \in 0 .. k - 1 /\ f[i - 1] = g[i - 1])
        BY <2>1, <2>3, <3>2
      <4>2. g[i] = IF i = 0 THEN m ELSE [g[i - 1] EXCEPT ![dest + order[i]] = g[i - 1][src + order[i]]]
        BY <2>2, <4>1 DEF Steps
      <4> HIDE DEF f
      <4>3. QED
        BY <4>1, <4>2
    <3>3. QED
      BY <3>1, <3>2
  <2>5. DOMAIN f = 0 .. k /\ f = [i \in DOMAIN f |-> f[i]]
    OBVIOUS
  <2> HIDE DEF f, next
  <2>6. Steps(f, k, m, dest, src, order)
    BY <2>4, <2>5 DEF Steps
  <2>7. QED
    BY <1>2, <2>6
<1>5. QED
  BY <1>3, <1>4

\* So the loop is what its last step leaves.
LEMMA LoopUnfolds ==
    ASSUME NEW m, NEW dest, NEW src, NEW order, Len(order) \in Nat
    PROVE  \E f : Steps(f, Len(order), m, dest, src, order) /\ CopyLoop(m, dest, src, order) = f[Len(order)]
<1> DEFINE n == Len(order)
           f == CHOOSE f : f = [i \in 0 .. n |->
            IF i = 0 THEN m ELSE [f[i - 1] EXCEPT ![dest + order[i]] = f[i - 1][src + order[i]]]]
<1>1. \E g : g = [i \in 0 .. n |->
            IF i = 0 THEN m ELSE [g[i - 1] EXCEPT ![dest + order[i]] = g[i - 1][src + order[i]]]]
  <2>1. n \in Nat
    OBVIOUS
  <2> HIDE DEF n
  <2>2. \E g : Steps(g, n, m, dest, src, order)
    BY <2>1, StepsExist, Zenon
  <2>3. QED
    BY <2>2, Zenon DEF Steps
<1>2. f = [i \in 0 .. n |->
            IF i = 0 THEN m ELSE [f[i - 1] EXCEPT ![dest + order[i]] = f[i - 1][src + order[i]]]]
  BY <1>1, Zenon
<1>3. CopyLoop(m, dest, src, order) = f[n]
  BY Zenon DEF CopyLoop
<1> HIDE DEF f
<1>4. Steps(f, n, m, dest, src, order)
  BY <1>2, Zenon DEF Steps
<1>5. QED
  BY <1>3, <1>4, Zenon

\* n bytes have come from src to dest, and nothing else has changed.
Copied(m, r, dest, src, n) ==
    /\ r \in Memories
    /\ \A a \in 1 .. Arena : r[a] = IF a \in Inside(dest, n) THEN m[src + (a - dest)] ELSE m[a]

\* Nothing is copied yet.
LEMMA NoByte ==
    ASSUME NEW m \in Memories, NEW dest \in Int, NEW src \in Int
    PROVE  Copied(m, m, dest, src, 0)
<1>1. Inside(dest, 0) = {}
  BY DEF Inside
<1>2. QED
  BY <1>1 DEF Copied

\* One byte is written.
Written(r, s, at, b) == s \in Memories /\ s[at] = b /\ \A a \in 1 .. Arena : a # at => s[a] = r[a]

LEMMA OneByte ==
    ASSUME NEW r \in Memories, NEW at \in 1 .. Arena, NEW b \in 0 .. 255, NEW s, s = [r EXCEPT ![at] = b]
    PROVE  Written(r, s, at, b)
BY DEF Memories, Written

LEMMA ByteOf ==
    ASSUME NEW m \in Memories, NEW a \in 1 .. Arena
    PROVE  m[a] \in 0 .. 255
BY DEF Memories

\* A byte copied over a byte the copy still needs is what goes wrong in a loop
\* over two regions that overlap.  From the first byte to the last it does not
\* happen when the destination is below the source, or not in it at all.
LEMMA ForwardLoop ==
    ASSUME NEW m \in Memories, NEW dest \in Nat, NEW src \in Nat, NEW n \in Nat,
           Inside(dest, n) \subseteq 1 .. Arena, Inside(src, n) \subseteq 1 .. Arena,
           dest < src \/ src + n <= dest
    PROVE  Copied(m, CopyLoop(m, dest, src, Forward(n)), dest, src, n)
<1> DEFINE order == Forward(n)
<1>1. Len(order) = n /\ \A i \in 1 .. n : order[i] = i - 1
  BY DEF Forward
<1> HIDE DEF order
<1>2. PICK f : Steps(f, n, m, dest, src, order) /\ CopyLoop(m, dest, src, order) = f[n]
  BY <1>1, LoopUnfolds
<1> DEFINE Lost == {k \in 0 .. n : ~Copied(m, f[k], dest, src, k)}
           k == Min(Lost)
<1>3. Lost = {}
  <2>1. SUFFICES ASSUME Lost # {} PROVE FALSE
    OBVIOUS
  <2>2. k \in Lost /\ \A j \in Lost : k <= j
    <3>1. Lost \subseteq Nat
      OBVIOUS
    <3> HIDE DEF Lost
    <3>2. QED
      BY <2>1, <3>1, LeastNumber
  <2> HIDE DEF k
  <2>3. k \in 0 .. n /\ f[k] = IF k = 0 THEN m ELSE [f[k - 1] EXCEPT ![dest + order[k]] = f[k - 1][src + order[k]]]
    BY <1>2, <2>2 DEF Steps
  <2>4. CASE k = 0
    BY <2>2, <2>3, <2>4, NoByte
  <2>5. CASE k # 0
    <3>1. k - 1 \in 0 .. n /\ k - 1 \notin Lost /\ order[k] = k - 1
      BY <1>1, <2>2, <2>3, <2>5
    <3>2. Copied(m, f[k - 1], dest, src, k - 1)
      BY <3>1
    <3>3. dest + (k - 1) \in 1 .. Arena /\ src + (k - 1) \in 1 .. Arena
      BY <2>3, <3>1 DEF Inside
    <3>4. src + (k - 1) \notin Inside(dest, k - 1)
      BY <2>3, <3>1 DEF Inside
    <3>5. f[k] = [f[k - 1] EXCEPT ![dest + (k - 1)] = m[src + (k - 1)]]
      BY <2>3, <2>5, <3>1, <3>2, <3>3, <3>4 DEF Copied
    <3>6. \A a \in 1 .. Arena : a \in Inside(dest, k) <=> (a \in Inside(dest, k - 1) \/ a = dest + (k - 1))
      BY <2>3, <2>5 DEF Inside
    <3>7. /\ f[k] \in Memories /\ f[k][dest + (k - 1)] = m[src + (k - 1)]
          /\ \A a \in 1 .. Arena : a # dest + (k - 1) => f[k][a] = f[k - 1][a]
      <4>1. f[k - 1] \in Memories /\ m[src + (k - 1)] \in 0 .. 255
        BY <3>2, <3>3, ByteOf DEF Copied
      <4>2. Written(f[k - 1], f[k], dest + (k - 1), m[src + (k - 1)])
        BY <3>3, <3>5, <4>1, OneByte
      <4>3. QED
        BY <4>2 DEF Written
    <3>8. ASSUME NEW a \in 1 .. Arena
          PROVE  f[k][a] = IF a \in Inside(dest, k) THEN m[src + (a - dest)] ELSE m[a]
      <4>1. CASE a = dest + (k - 1)
        <5>1. src + (a - dest) = src + (k - 1)
          BY <2>3, <4>1
        <5>2. QED
          BY <3>6, <3>7, <4>1, <5>1
      <4>2. CASE a # dest + (k - 1)
        BY <3>2, <3>6, <3>7, <4>2 DEF Copied
      <4>3. QED
        BY <4>1, <4>2
    <3>9. Copied(m, f[k], dest, src, k)
      BY <3>7, <3>8 DEF Copied
    <3>10. QED
      BY <2>2, <3>9
  <2>6. QED
    BY <2>4, <2>5
<1>4. n \in 0 .. n /\ n \notin Lost
  BY <1>3
<1>5. Copied(m, f[n], dest, src, n)
  BY <1>4
<1>6. QED
  BY <1>2, <1>5 DEF order

\* From the last byte to the first it does not happen when the destination is
\* above the source.
LEMMA BackwardLoop ==
    ASSUME NEW m \in Memories, NEW dest \in Nat, NEW src \in Nat, NEW n \in Nat,
           Inside(dest, n) \subseteq 1 .. Arena, Inside(src, n) \subseteq 1 .. Arena,
           src < dest
    PROVE  Copied(m, CopyLoop(m, dest, src, Backward(n)), dest, src, n)
<1> DEFINE order == Backward(n)
<1>1. Len(order) = n /\ \A i \in 1 .. n : order[i] = n - i
  BY DEF Backward
<1> HIDE DEF order
<1>2. PICK f : Steps(f, n, m, dest, src, order) /\ CopyLoop(m, dest, src, order) = f[n]
  BY <1>1, LoopUnfolds
<1> DEFINE LastOnes(j) == Copied(m, f[j], dest + (n - j), src + (n - j), j)
           Lost == {j \in 0 .. n : ~LastOnes(j)}
           k == Min(Lost)
<1>3. Lost = {}
  <2>1. SUFFICES ASSUME Lost # {} PROVE FALSE
    OBVIOUS
  <2>2. k \in Lost /\ \A j \in Lost : k <= j
    <3>1. Lost \subseteq Nat
      OBVIOUS
    <3> HIDE DEF Lost
    <3>2. QED
      BY <2>1, <3>1, LeastNumber
  <2> HIDE DEF k
  <2>3. k \in 0 .. n /\ f[k] = IF k = 0 THEN m ELSE [f[k - 1] EXCEPT ![dest + order[k]] = f[k - 1][src + order[k]]]
    BY <1>2, <2>2 DEF Steps
  <2> DEFINE to == dest + (n - k)
             from == src + (n - k)
  <2>4. to \in Nat /\ from \in Nat /\ to + 1 \in Nat /\ from + 1 \in Nat /\ from < to
    BY <2>3
  <2>5. CASE k = 0
    <3>1. f[k] = m /\ dest + (n - k) \in Int /\ src + (n - k) \in Int
      BY <2>3, <2>5
    <3>2. QED
      BY <2>2, <2>5, <3>1, NoByte
  <2>6. CASE k # 0
    <3>1. k - 1 \in 0 .. n /\ k - 1 \notin Lost /\ order[k] = n - k
      BY <1>1, <2>2, <2>3, <2>6
    <3>2. Copied(m, f[k - 1], to + 1, from + 1, k - 1)
      <4>1. dest + (n - (k - 1)) = to + 1 /\ src + (n - (k - 1)) = from + 1
        BY <2>3
      <4>2. QED
        BY <3>1, <4>1
    <3>3. to \in 1 .. Arena /\ from \in 1 .. Arena
      BY <2>3, <2>6 DEF Inside
    <3> HIDE DEF to, from
    <3>4. from \notin Inside(to + 1, k - 1) /\ to \notin Inside(to + 1, k - 1)
      BY <2>4 DEF Inside
    <3>5. f[k] = [f[k - 1] EXCEPT ![to] = m[from]]
      <4>1. f[k] = [f[k - 1] EXCEPT ![to] = f[k - 1][from]]
        BY <2>3, <2>6, <3>1 DEF to, from
      <4>2. QED
        BY <3>2, <3>3, <3>4, <4>1 DEF Copied
    <3>6. \A a \in 1 .. Arena : a \in Inside(to, k) <=> (a \in Inside(to + 1, k - 1) \/ a = to)
      BY <2>3, <2>4, <2>6 DEF Inside
    <3>7. /\ f[k] \in Memories /\ f[k][to] = m[from]
          /\ \A a \in 1 .. Arena : a # to => f[k][a] = f[k - 1][a]
      <4>1. f[k - 1] \in Memories /\ m[from] \in 0 .. 255
        BY <3>2, <3>3, ByteOf DEF Copied
      <4>2. Written(f[k - 1], f[k], to, m[from])
        BY <3>3, <3>5, <4>1, OneByte
      <4>3. QED
        BY <4>2 DEF Written
    <3>8. ASSUME NEW a \in 1 .. Arena
          PROVE  f[k][a] = IF a \in Inside(to, k) THEN m[from + (a - to)] ELSE m[a]
      <4>1. CASE a = to
        <5>1. from + (a - to) = from
          BY <2>4, <4>1
        <5>2. QED
          BY <3>6, <3>7, <4>1, <5>1
      <4>2. CASE a # to
        <5>1. (from + 1) + (a - (to + 1)) = from + (a - to)
          BY <2>4
        <5>2. QED
          BY <3>2, <3>6, <3>7, <4>2, <5>1 DEF Copied
      <4>3. QED
        BY <4>1, <4>2
    <3>9. Copied(m, f[k], to, from, k)
      BY <3>7, <3>8 DEF Copied
    <3>10. QED
      BY <2>2, <3>9 DEF to, from
  <2>7. QED
    BY <2>5, <2>6
<1>4. n \in 0 .. n /\ n \notin Lost /\ n - n = 0
  BY <1>3
<1>5. Copied(m, f[n], dest, src, n)
  <2>1. LastOnes(n) /\ dest + (n - n) = dest /\ src + (n - n) = src
    BY <1>4
  <2>2. QED
    BY <2>1
<1>6. QED
  BY <1>2, <1>5 DEF order

-----------------------------------------------------------------------------
(* Where a string ends                                                     *)

\* What an arena may hold: its last byte is a terminator.
Ended(m) == m \in Memories /\ m[Arena] = 0

\* At a there is a string of L bytes.
StringOf(m, a, L) ==
    /\ L \in Nat /\ a + L <= Arena
    /\ m[a + L] = 0
    /\ \A i \in 0 .. L - 1 : m[a + i] # 0

\* Every address of an arena is the beginning of a string that ends within it.
LEMMA StringsEnd ==
    ASSUME NEW m, Ended(m), NEW a \in 1 .. Arena
    PROVE  \E L \in Nat : StringOf(m, a, L) /\ StringAt(m, a) = BytesAt(m, a, L)
<1> DEFINE Nuls == {i \in Nat : a + i <= Arena /\ m[a + i] = 0}
           L == Min(Nuls)
           IsEnd(e) == m[e] = 0 /\ \A i \in a .. e - 1 : m[i] # 0
           end == CHOOSE e \in a .. Arena : IsEnd(e)
<1>1. L \in Nuls /\ \A i \in Nuls : L <= i
  <2>1. Nuls \subseteq Nat
    OBVIOUS
  <2>2. Arena - a \in Nat /\ a + (Arena - a) = Arena
    BY BoundedCopyAssumption
  <2>3. Arena - a \in Nuls
    BY <2>2, BoundedCopyAssumption DEF Ended
  <2> HIDE DEF Nuls
  <2>4. QED
    BY <2>1, <2>3, LeastNumber
<1> HIDE DEF L
<1>2. StringOf(m, a, L)
  <2>1. ASSUME NEW i \in 0 .. L - 1 PROVE m[a + i] # 0
    BY <1>1, BoundedCopyAssumption
  <2>2. QED
    BY <1>1, <2>1 DEF StringOf
<1>3. a + L \in a .. Arena /\ IsEnd(a + L)
  <2>1. ASSUME NEW i \in a .. (a + L) - 1 PROVE m[i] # 0
    <3>1. i - a \in 0 .. L - 1 /\ a + (i - a) = i
      BY <1>1
    <3>2. QED
      BY <1>2, <3>1 DEF StringOf
  <2>2. QED
    BY <1>1, <2>1, BoundedCopyAssumption
<1>4. end = a + L
  <2>1. end \in a .. Arena /\ IsEnd(end)
    BY <1>3, Zenon
  <2>2. QED
    BY <1>1, <1>3, <2>1, BoundedCopyAssumption
<1>5. StringAt(m, a) = [i \in 1 .. end - a |-> m[a + i - 1]]
  BY Zenon DEF StringAt
<1>6. L \in Nat /\ end - a = L
  <2>1. L \in Nat
    BY <1>1
  <2> HIDE DEF end
  <2>2. QED
    BY <1>4, <2>1
<1>7. QED
  BY <1>2, <1>5, <1>6 DEF BytesAt

\* The bounded length of a string.
LEMMA BoundedLength ==
    ASSUME NEW m, Ended(m), NEW a \in 1 .. Arena, NEW L \in Nat, StringOf(m, a, L), NEW n \in Nat
    PROVE  safe_strnlen(m, a, n) = IF L < n THEN L ELSE n
<1> DEFINE nul == {i \in 0 .. n - 1 : a + i \in DOMAIN m /\ m[a + i] = 0}
<1>1. DOMAIN m = 1 .. Arena
  BY DEF Ended, Memories
<1>2. safe_strnlen(m, a, n) = IF nul = {} THEN n ELSE Min(nul)
  BY DEF safe_strnlen
<1>3. ASSUME NEW i \in nul PROVE i \in Nat /\ L <= i
  BY DEF StringOf
<1>4. CASE L < n
  <2>1. L \in nul
    BY <1>1, <1>4 DEF StringOf
  <2>2. Min(nul) \in nul /\ \A i \in nul : Min(nul) <= i
    <3>1. nul # {} /\ nul \subseteq Nat
      BY <2>1
    <3> HIDE DEF nul
    <3>2. QED
      BY <3>1, LeastNumber
  <2> HIDE DEF nul
  <2> DEFINE k == Min(nul)
  <2>3. k \in Nat /\ L <= k /\ k <= L
    BY <1>3, <2>1, <2>2
  <2> HIDE DEF k
  <2>4. k = L
    BY <2>3
  <2>5. QED
    BY <1>2, <1>4, <2>1, <2>4 DEF k
<1>5. CASE ~(L < n)
  <2>1. nul = {}
    BY <1>3, <1>5
  <2>2. QED
    BY <1>2, <1>5, <2>1
<1>6. QED
  BY <1>4, <1>5

\* memchr for the terminator of the destination.
LEMMA FoundTerminator ==
    ASSUME NEW m, Ended(m), NEW a \in 1 .. Arena, NEW L \in Nat, StringOf(m, a, L), NEW n \in Nat,
           a + n <= Arena + 1
    PROVE  DestNull(m, a, n) = IF L < n THEN a + L ELSE 0
<1> DEFINE nul == {x \in DOMAIN m : x \in a .. a + n - 1 /\ m[x] = 0}
<1>1. DOMAIN m = 1 .. Arena
  BY DEF Ended, Memories
<1>2. DestNull(m, a, n) = IF nul = {} THEN 0 ELSE Min(nul)
  BY DEF DestNull
<1>3. ASSUME NEW x \in nul PROVE x \in Nat /\ a + L <= x
  <2>1. x \in Nat /\ a <= x /\ m[x] = 0
    BY <1>1
  <2>2. x - a \in Nat /\ a + (x - a) = x
    BY <2>1
  <2>3. ~(x - a \in 0 .. L - 1)
    BY <2>1, <2>2 DEF StringOf
  <2>4. QED
    BY <2>1, <2>2, <2>3
<1>4. CASE L < n
  <2>1. a + L \in nul
    BY <1>1, <1>4 DEF StringOf
  <2>2. Min(nul) \in nul /\ \A i \in nul : Min(nul) <= i
    <3>1. nul # {} /\ nul \subseteq Nat
      BY <1>3, <2>1
    <3> HIDE DEF nul
    <3>2. QED
      BY <3>1, LeastNumber
  <2> HIDE DEF nul
  <2>3. Min(nul) = a + L
    BY <1>3, <2>1, <2>2
  <2>4. QED
    BY <1>2, <1>4, <2>1, <2>3
<1>5. CASE ~(L < n)
  <2>1. nul = {}
    <3>1. \A x \in nul : x \in a .. a + n - 1 /\ x \in Nat /\ a + L <= x
      BY <1>3
    <3> HIDE DEF nul
    <3>2. QED
      BY <1>5, <3>1
  <2>2. QED
    BY <1>2, <1>5, <2>1
<1>6. QED
  BY <1>4, <1>5

\* The length of a copy that ends at the first c: it ends with it, or it is
\* the whole count.
LEMMA UpToTheFirst ==
    ASSUME NEW m, NEW src, NEW c, NEW count \in Nat
    PROVE  LET n == UpTo(m, src, c, count) IN
           /\ n \in 0 .. count
           /\ \/ n > 0 /\ src + (n - 1) \in DOMAIN m /\ m[src + (n - 1)] = c
              \/ n = count /\ \A i \in 0 .. count - 1 : ~(src + i \in DOMAIN m /\ m[src + i] = c)
           /\ \A i \in 0 .. n - 2 : ~(src + i \in DOMAIN m /\ m[src + i] = c)
<1> DEFINE found == {i \in 0 .. count - 1 : src + i \in DOMAIN m /\ m[src + i] = c}
           n == UpTo(m, src, c, count)
<1>1. n = IF found = {} THEN count ELSE Min(found) + 1
  BY DEF UpTo
<1> HIDE DEF n
<1>2. CASE found = {}
  <2>1. n = count
    BY <1>1, <1>2
  <2>2. \A i \in 0 .. count - 1 : ~(src + i \in DOMAIN m /\ m[src + i] = c)
    BY <1>2
  <2>3. QED
    BY <2>1, <2>2 DEF n
<1>3. CASE found # {}
  <2>1. Min(found) \in found /\ \A i \in found : Min(found) <= i
    <3>1. found \subseteq Nat
      OBVIOUS
    <3> HIDE DEF found
    <3>2. QED
      BY <1>3, <3>1, LeastNumber
  <2> DEFINE k == Min(found)
  <2>2. n = k + 1
    BY <1>1, <1>3
  <2>3. k \in 0 .. count - 1 /\ src + k \in DOMAIN m /\ m[src + k] = c
    BY <2>1
  <2>4. \A i \in 0 .. k - 1 : ~(src + i \in DOMAIN m /\ m[src + i] = c)
    BY <2>1
  <2> HIDE DEF k
  <2>5. n > 0 /\ n \in 0 .. count /\ n - 1 = k /\ n - 2 = k - 1
    BY <2>2, <2>3
  <2>6. QED
    BY <2>3, <2>4, <2>5 DEF n
<1>4. QED
  BY <1>2, <1>3

-----------------------------------------------------------------------------
(* The chains of tests                                                     *)

Test == BOOLEAN \X (Nat \ {0})

\* A chain that goes on with another one.
LEMMA JoinedTests ==
    ASSUME NEW s \in Seq(Test), NEW t \in Seq(Test)
    PROVE  s \o t \in Seq(Test) /\ (FirstFailing(s \o t) = 0 <=> FirstFailing(s) = 0 /\ FirstFailing(t) = 0)
<1> DEFINE joined == s \o t
           None(u) == \A i \in DOMAIN u : ~u[i][1]
<1>1. ASSUME NEW u \in Seq(Test) PROVE FirstFailing(u) = 0 <=> None(u)
  <2>1. DOMAIN u \in SUBSET Nat /\ \A i \in DOMAIN u : u[i][2] # 0
    BY DEF Test
  <2>2. QED
    BY <2>1, NoTestFails
<1>2. joined \in Seq(Test) /\ Len(joined) = Len(s) + Len(t)
  BY ConcatProperties
<1>3. \A i \in 1 .. Len(s) + Len(t) : joined[i] = IF i <= Len(s) THEN s[i] ELSE t[i - Len(s)]
  BY ConcatProperties
<1>4. /\ DOMAIN s = 1 .. Len(s) /\ DOMAIN t = 1 .. Len(t) /\ DOMAIN joined = 1 .. Len(s) + Len(t)
      /\ Len(s) \in Nat /\ Len(t) \in Nat
  BY <1>2
<1> HIDE DEF joined
<1>5. None(joined) => None(s)
  BY <1>3, <1>4
<1>6. None(joined) => None(t)
  <2>1. SUFFICES ASSUME None(joined), NEW i \in DOMAIN t PROVE ~t[i][1]
    OBVIOUS
  <2>2. i + Len(s) \in DOMAIN joined /\ ~(i + Len(s) <= Len(s)) /\ (i + Len(s)) - Len(s) = i
    BY <1>4
  <2>3. QED
    BY <1>3, <1>4, <2>1, <2>2
<1>7. None(s) /\ None(t) => None(joined)
  <2>1. SUFFICES ASSUME None(s), None(t), NEW i \in DOMAIN joined PROVE ~joined[i][1]
    OBVIOUS
  <2>2. i <= Len(s) \/ i - Len(s) \in DOMAIN t
    BY <1>4
  <2>3. QED
    BY <1>3, <1>4, <2>1, <2>2
<1>8. QED
  BY <1>1, <1>2, <1>5, <1>6, <1>7 DEF joined

\* Chains written out.
LEMMA OneTest ==
    ASSUME NEW p \in BOOLEAN,
           NEW e \in Nat \ {0},
           NEW tests, tests = << <<p, e>> >>
    PROVE  tests \in Seq(Test) /\ (FirstFailing(tests) = 0 <=> ~p)
<1>1. tests \in Seq(Test)
  BY DEF Test
<1>2. /\ DOMAIN tests = 1 .. 1 /\ 1 .. 1 = {1}
      /\ tests[1][1] = p /\ tests[1][2] = e
  OBVIOUS
<1>3. FirstFailing(tests) = 0 <=> ~p
  BY <1>2, NoTestFails
<1>4. QED
  BY <1>1, <1>3

LEMMA TwoTests ==
    ASSUME NEW p \in BOOLEAN, NEW q \in BOOLEAN,
           NEW e \in Nat \ {0}, NEW f \in Nat \ {0},
           NEW tests, tests = << <<p, e>>, <<q, f>> >>
    PROVE  tests \in Seq(Test) /\ (FirstFailing(tests) = 0 <=> ~p /\ ~q)
<1>1. tests \in Seq(Test)
  BY DEF Test
<1>2. /\ DOMAIN tests = 1 .. 2 /\ 1 .. 2 = {1, 2}
      /\ tests[1][1] = p /\ tests[1][2] = e /\ tests[2][1] = q /\ tests[2][2] = f
  OBVIOUS
<1>3. FirstFailing(tests) = 0 <=> ~p /\ ~q
  BY <1>2, NoTestFails
<1>4. QED
  BY <1>1, <1>3

\* The tests of the pointers and of the size that the string functions begin with.
LEMMA CheckedPointers ==
    ASSUME NEW dest \in Nat, NEW destsz \in Nat, NEW src \in Nat
    PROVE  /\ PointerChecks(dest, destsz, src) \in Seq(Test)
           /\ FirstFailing(PointerChecks(dest, destsz, src)) = 0
              <=> dest # 0 /\ src # 0 /\ destsz # 0 /\ destsz <= RSIZE_MAX
<1> DEFINE p == dest = 0
           q == src = 0
           r == destsz = 0
           s == destsz > RSIZE_MAX
           tests == PointerChecks(dest, destsz, src)
<1>1. tests = << <<p, EINVAL>>, <<q, EINVAL>>, <<r, ERANGE>>, <<s, ERANGE>> >>
  BY DEF PointerChecks
<1>2. p \in BOOLEAN /\ q \in BOOLEAN /\ r \in BOOLEAN /\ s \in BOOLEAN
      /\ EINVAL \in Nat \ {0} /\ ERANGE \in Nat \ {0}
  BY DEF EINVAL, ERANGE
<1>3. ~p /\ ~q /\ ~r /\ ~s <=> dest # 0 /\ src # 0 /\ destsz # 0 /\ destsz <= RSIZE_MAX
  BY BoundedCopyAssumption
<1> HIDE DEF p, q, r, s, tests
<1>4. tests \in Seq(Test)
  BY <1>1, <1>2 DEF Test
<1>5. /\ DOMAIN tests = 1 .. 4 /\ 1 .. 4 = {1, 2, 3, 4} /\ \A i \in DOMAIN tests : tests[i][2] # 0
      /\ tests[1][1] = p /\ tests[2][1] = q /\ tests[3][1] = r /\ tests[4][1] = s
  BY <1>1, <1>2
<1>6. FirstFailing(tests) = 0 <=> ~p /\ ~q /\ ~r /\ ~s
  BY <1>5, NoTestFails
<1>7. QED
  BY <1>3, <1>4, <1>6 DEF tests

-----------------------------------------------------------------------------
(* The copies of counted bytes                                             *)

InDest(dest, destsz) == IF dest = 0 THEN {} ELSE Inside(dest, destsz)

\* No byte outside of the destination is written.
Bounded(m, out, dest, destsz) ==
    /\ out.mem \in Memories
    /\ \A a \in (1 .. Arena) \ InDest(dest, destsz) : out.mem[a] = m[a]

\* A caller's region lies in the arena.
Fits(address, size) == address = 0 \/ address + size <= Arena + 1

LEMMA Unchanged ==
    ASSUME NEW m \in Memories, NEW error, NEW dest, NEW destsz
    PROVE  Bounded(m, Result(error, m), dest, destsz) /\ Result(error, m).error = error
BY DEF Bounded, Result

LEMMA FillIsBounded ==
    ASSUME NEW m \in Memories, NEW dest \in Nat, NEW destsz \in Nat, NEW ch \in 0 .. 255, NEW count \in Nat
    PROVE  Bounded(m, safe_memset(m, dest, destsz, ch, count), dest, destsz)
<1> DEFINE out == safe_memset(m, dest, destsz, ch, count)
<1>1. /\ out.error = 0 <=> dest # 0 /\ destsz <= RSIZE_MAX /\ count <= destsz
      /\ out.error = 0 => \A a \in DOMAIN m : out.mem[a] = IF a \in Inside(dest, count) THEN ch ELSE m[a]
      /\ RestIsKept(m, out, dest, destsz)
  BY FillStaysInside
<1>2. (out.mem = m /\ out.error # 0) \/ (out.mem = Fill(m, dest, ch, count) /\ out.error = 0)
  BY DEF safe_memset, Result
<1> HIDE DEF out
<1>3. DOMAIN m = 1 .. Arena
  BY DEF Memories
<1>4. Fill(m, dest, ch, count) \in Memories
  BY DEF Fill, Memories
<1>5. CASE out.error = 0
  BY <1>1, <1>2, <1>3, <1>4, <1>5 DEF Bounded, RestIsKept, InDest, out
<1>6. CASE out.error # 0
  BY <1>2, <1>6 DEF Bounded, out
<1>7. QED
  BY <1>5, <1>6

LEMMA RefusedIsBounded ==
    ASSUME NEW m \in Memories, NEW dest \in Nat, NEW destsz \in Nat, NEW error
    PROVE  /\ ZeroOnError(m, dest, destsz, error).error = error
           /\ Bounded(m, ZeroOnError(m, dest, destsz, error), dest, destsz)
<1> DEFINE zeroed == safe_memset(m, dest, destsz, 0, destsz)
<1>1. Bounded(m, zeroed, dest, destsz)
  BY FillIsBounded
<1> HIDE DEF zeroed
<1>2. ZeroOnError(m, dest, destsz, error) = Result(error, IF dest # 0 /\ destsz <= RSIZE_MAX THEN zeroed.mem ELSE m)
  BY DEF ZeroOnError, zeroed
<1>3. QED
  BY <1>1, <1>2 DEF Result, Bounded

LEMMA CopiedIsBounded ==
    ASSUME NEW m \in Memories, NEW r, NEW dest \in Nat \ {0}, NEW destsz \in Nat, NEW src, NEW n \in Nat,
           Copied(m, r, dest, src, n), n <= destsz, NEW error
    PROVE  Bounded(m, Result(error, r), dest, destsz) /\ Result(error, r).error = error
<1>1. Inside(dest, n) \subseteq InDest(dest, destsz)
  BY DEF Inside, InDest
<1>2. QED
  BY <1>1 DEF Copied, Bounded, Result

\* safe_memccpy succeeds exactly for two regions of the count that do not
\* overlap, the count within the destination; what it copies ends with the
\* first c.
THEOREM CopyUpToStaysInside ==
    ASSUME NEW m \in Memories, NEW dest \in Nat, NEW destsz \in Nat, NEW src \in Nat, NEW c, NEW count \in Nat,
           Fits(dest, destsz), Fits(src, UpTo(m, src, c, count))
    PROVE  LET out == safe_memccpy(m, dest, destsz, src, c, count) IN
           /\ out.error = 0 <=> (/\ dest # 0 /\ src # 0 /\ destsz <= RSIZE_MAX /\ count <= destsz
                                 /\ (src + count <= dest \/ dest + count <= src))
           /\ out.error = 0 => Copied(m, out.mem, dest, src, UpTo(m, src, c, count))
           /\ Bounded(m, out, dest, destsz)
<1> DEFINE overlap == (src <= dest /\ src + count > dest) \/ (dest <= src /\ dest + count > src)
           tests == << <<dest = 0, EINVAL>>, <<src = 0, EINVAL>>, <<destsz > RSIZE_MAX, ERANGE>>,
                       <<count > RSIZE_MAX, ERANGE>>, <<count > destsz, ERANGE>>, <<overlap, EINVAL>> >>
           error == FirstFailing(tests)
           n == UpTo(m, src, c, count)
           copied == CopyLoop(m, dest, src, Forward(n))
           out == safe_memccpy(m, dest, destsz, src, c, count)
<1>1. error = 0 <=> (/\ dest # 0 /\ src # 0 /\ destsz <= RSIZE_MAX /\ count <= destsz
                     /\ (src + count <= dest \/ dest + count <= src))
  <2>1. overlap <=> ~(src + count <= dest \/ dest + count <= src)
    OBVIOUS
  <2> HIDE DEF overlap
  <2>2. DOMAIN tests = 1 .. 6 /\ 1 .. 6 = {1, 2, 3, 4, 5, 6} /\ \A i \in DOMAIN tests : tests[i][2] # 0
    BY DEF EINVAL, ERANGE
  <2>3. (\A i \in DOMAIN tests : ~tests[i][1])
        <=> dest # 0 /\ src # 0 /\ ~(destsz > RSIZE_MAX) /\ ~(count > RSIZE_MAX) /\ ~(count > destsz) /\ ~overlap
    <3>1. /\ tests[1][1] = (dest = 0) /\ tests[2][1] = (src = 0) /\ tests[3][1] = (destsz > RSIZE_MAX)
          /\ tests[4][1] = (count > RSIZE_MAX) /\ tests[5][1] = (count > destsz) /\ tests[6][1] = overlap
      OBVIOUS
    <3> HIDE DEF tests
    <3>2. QED
      BY <2>2, <3>1
  <2>4. error = 0 <=> \A i \in DOMAIN tests : ~tests[i][1]
    <3> HIDE DEF tests
    <3>1. QED
      BY <2>2, NoTestFails
  <2>5. RSIZE_MAX \in Nat
    BY BoundedCopyAssumption
  <2>6. QED
    BY <2>1, <2>3, <2>4, <2>5
<1>2. out = IF error # 0 THEN ZeroOnError(m, dest, destsz, error) ELSE Result(0, copied)
  BY DEF safe_memccpy
<1>3. n \in 0 .. count
  BY UpToTheFirst
<1> HIDE DEF error, out, copied, n
<1>4. CASE error # 0
  BY <1>1, <1>2, <1>4, RefusedIsBounded DEF out
<1>5. CASE error = 0
  <2>1. Copied(m, copied, dest, src, n)
    <3>1. Inside(dest, n) \subseteq 1 .. Arena /\ Inside(src, n) \subseteq 1 .. Arena
      BY <1>1, <1>3, <1>5, BoundedCopyAssumption DEF Fits, Inside, n
    <3>2. n \in Nat /\ (dest < src \/ src + n <= dest)
      BY <1>1, <1>3, <1>5
    <3>3. QED
      BY <3>1, <3>2, ForwardLoop DEF copied
  <2>2. QED
    BY <1>1, <1>2, <1>3, <1>5, <2>1, CopiedIsBounded DEF out, n, Result
<1>6. QED
  BY <1>4, <1>5

\* safe_memcmove succeeds exactly for two regions that do not begin at the same
\* address, the count within the destination; what it copies ends with the
\* first c of the source before the call, also where the two overlap.
THEOREM MoveUpToStaysInside ==
    ASSUME NEW m \in Memories, NEW dest \in Nat, NEW destsz \in Nat, NEW src \in Nat, NEW c, NEW count \in Nat,
           Fits(dest, destsz), Fits(src, UpTo(m, src, c, count))
    PROVE  LET out == safe_memcmove(m, dest, destsz, src, c, count) IN
           /\ out.error = 0 <=> (/\ dest # 0 /\ src # 0 /\ destsz <= RSIZE_MAX /\ count <= destsz
                                 /\ dest # src)
           /\ out.error = 0 => Copied(m, out.mem, dest, src, UpTo(m, src, c, count))
           /\ Bounded(m, out, dest, destsz)
<1> DEFINE tests == << <<dest = 0, EINVAL>>, <<src = 0, EINVAL>>, <<destsz > RSIZE_MAX, ERANGE>>,
                       <<count > RSIZE_MAX, ERANGE>>, <<count > destsz, ERANGE>> >>
           error == FirstFailing(tests)
           n == UpTo(m, src, c, count)
           copied == CopyLoop(m, dest, src, IF dest < src THEN Forward(n) ELSE Backward(n))
           out == safe_memcmove(m, dest, destsz, src, c, count)
<1>1. error = 0 <=> dest # 0 /\ src # 0 /\ destsz <= RSIZE_MAX /\ count <= destsz
  <2>1. DOMAIN tests = 1 .. 5 /\ 1 .. 5 = {1, 2, 3, 4, 5} /\ \A i \in DOMAIN tests : tests[i][2] # 0
    BY DEF EINVAL, ERANGE
  <2>2. (\A i \in DOMAIN tests : ~tests[i][1])
        <=> dest # 0 /\ src # 0 /\ ~(destsz > RSIZE_MAX) /\ ~(count > RSIZE_MAX) /\ ~(count > destsz)
    <3>1. /\ tests[1][1] = (dest = 0) /\ tests[2][1] = (src = 0) /\ tests[3][1] = (destsz > RSIZE_MAX)
          /\ tests[4][1] = (count > RSIZE_MAX) /\ tests[5][1] = (count > destsz)
      OBVIOUS
    <3> HIDE DEF tests
    <3>2. QED
      BY <2>1, <3>1
  <2>3. error = 0 <=> \A i \in DOMAIN tests : ~tests[i][1]
    <3> HIDE DEF tests
    <3>1. QED
      BY <2>1, NoTestFails
  <2>4. RSIZE_MAX \in Nat
    BY BoundedCopyAssumption
  <2>5. QED
    BY <2>2, <2>3, <2>4
<1>2. out = CASE error # 0 /\ destsz < RSIZE_MAX  -> ZeroOnError(m, dest, destsz, error)
              [] error # 0 /\ destsz >= RSIZE_MAX -> Result(error, m)
              [] error = 0 /\ dest = src          -> Result(EINVAL, m)
              [] error = 0 /\ dest # src          -> Result(0, copied)
  BY DEF safe_memcmove
<1>3. n \in 0 .. count
  BY UpToTheFirst
<1> HIDE DEF error, out, copied, n
<1>4. CASE error # 0
  <2>1. out = ZeroOnError(m, dest, destsz, error) \/ out = Result(error, m)
    BY <1>2, <1>4, BoundedCopyAssumption
  <2>2. out.error = error /\ Bounded(m, out, dest, destsz)
    BY <2>1, RefusedIsBounded, Unchanged
  <2>3. QED
    BY <1>1, <1>4, <2>2 DEF out
<1>5. CASE error = 0 /\ dest = src
  <2>1. out = Result(EINVAL, m)
    BY <1>2, <1>5
  <2>2. out.error = EINVAL /\ Bounded(m, out, dest, destsz)
    BY <2>1, Unchanged
  <2>3. QED
    BY <1>1, <1>5, <2>2 DEF out, EINVAL
<1>6. CASE error = 0 /\ dest # src
  <2>1. Copied(m, copied, dest, src, n)
    <3>1. Inside(dest, n) \subseteq 1 .. Arena /\ Inside(src, n) \subseteq 1 .. Arena
      BY <1>1, <1>3, <1>6, BoundedCopyAssumption DEF Fits, Inside, n
    <3>2. CASE dest < src
      <4>1. copied = CopyLoop(m, dest, src, Forward(n)) /\ n \in Nat
        BY <1>3, <3>2 DEF copied
      <4>2. QED
        BY <3>1, <3>2, <4>1, ForwardLoop
    <3>3. CASE src < dest
      <4>1. copied = CopyLoop(m, dest, src, Backward(n)) /\ n \in Nat
        BY <1>3, <3>3 DEF copied
      <4>2. QED
        BY <3>1, <3>3, <4>1, BackwardLoop
    <3>4. QED
      BY <1>6, <3>2, <3>3
  <2>2. out = Result(0, copied)
    BY <1>2, <1>6
  <2>3. QED
    BY <1>1, <1>3, <1>6, <2>1, <2>2, CopiedIsBounded DEF out, n, Result
<1>7. QED
  BY <1>4, <1>5, <1>6

-----------------------------------------------------------------------------
(* The calls                                                               *)

\* The regions a caller gives to a copy.
Given(m, dest, destsz, src) ==
    /\ Ended(m) /\ dest \in 0 .. Arena /\ src \in 0 .. Arena
    /\ destsz \in Nat /\ Fits(dest, destsz)

\* What CopiesStayInBounds asks of one call.
Meets(f, x, out) ==
    /\ CopyIsExact(f, x, out) /\ CopyKeepsTheRest(x, out)
    /\ StringStaysTerminated(f, x, out) /\ FittingStringIsCopied(f, x, out)

LEMMA BoundedKeepsTheRest ==
    ASSUME NEW m, NEW dest, NEW destsz, NEW src, NEW c, NEW count, NEW out, Bounded(m, out, dest, destsz)
    PROVE  CopyKeepsTheRest(CopyIn(m, dest, destsz, src, c, count), out)
<1> DEFINE x == CopyIn(m, dest, destsz, src, c, count)
<1>1. x.m = m /\ x.dest = dest /\ x.destsz = destsz
  BY DEF CopyIn
<1> HIDE DEF x
<1>2. InDestination(x) = InDest(dest, destsz)
  BY <1>1 DEF InDestination, InDest, Inside
<1>3. CopyKeepsTheRest(x, out)
  BY <1>1, <1>2 DEF CopyKeepsTheRest, Bounded
<1>4. QED
  BY <1>3 DEF x

\* A copy of counted bytes is exact and bounded; nothing else is asked of it.
LEMMA CountedMeets ==
    ASSUME NEW f \in Counted, NEW m, NEW dest, NEW destsz, NEW src, NEW c, NEW count, NEW out,
           Bounded(m, out, dest, destsz), NEW s, s = ToBeCopied(f, CopyIn(m, dest, destsz, src, c, count)),
           out.error = 0 => BytesAt(out.mem, dest, Len(s)) = s
    PROVE  Meets(f, CopyIn(m, dest, destsz, src, c, count), out)
<1> DEFINE x == CopyIn(m, dest, destsz, src, c, count)
<1>1. x.dest = dest
  BY DEF CopyIn
<1>2. CopyKeepsTheRest(x, out)
  BY BoundedKeepsTheRest
<1> HIDE DEF x
<1>3. CopyIsExact(f, x, out)
  BY <1>1 DEF CopyIsExact, x
<1>4. f \notin Unlimited
  BY DEF Counted, Unlimited
<1>5. Meets(f, x, out)
  BY <1>2, <1>3, <1>4 DEF Meets, StringStaysTerminated, FittingStringIsCopied
<1>6. QED
  BY <1>5 DEF x

LEMMA LengthOfBytes ==
    ASSUME NEW m, NEW a, NEW n \in Nat
    PROVE  Len(BytesAt(m, a, n)) = n
BY DEF BytesAt

\* The bytes that have been copied are at the destination.
LEMMA CopiedBytes ==
    ASSUME NEW m, NEW r, NEW dest \in Nat \ {0}, NEW src \in Nat, NEW n \in Nat,
           dest + n <= Arena + 1, Copied(m, r, dest, src, n)
    PROVE  BytesAt(r, dest, n) = BytesAt(m, src, n)
<1>1. ASSUME NEW i \in 1 .. n PROVE r[dest + i - 1] = m[src + i - 1]
  <2>1. dest + i - 1 \in 1 .. Arena /\ dest + i - 1 \in Inside(dest, n)
        /\ src + ((dest + i - 1) - dest) = src + i - 1
    BY BoundedCopyAssumption DEF Inside
  <2>2. QED
    BY <2>1 DEF Copied
<1>2. QED
  BY <1>1 DEF BytesAt

\* A call of safe_memset with a destination within the arena does what
\* CopiesStayInBounds says of a copy.
LEMMA FillMeets ==
    ASSUME NEW m, NEW dest, NEW destsz, NEW src, Given(m, dest, destsz, src), NEW c \in 0 .. 255, NEW count \in Nat
    PROVE  Meets("memset", CopyIn(m, dest, destsz, src, c, count), safe_memset(m, dest, destsz, c, count))
<1> DEFINE out == safe_memset(m, dest, destsz, c, count)
           x == CopyIn(m, dest, destsz, src, c, count)
           s == [i \in 1 .. count |-> c]
<1>1. m \in Memories /\ dest \in Nat /\ destsz \in Nat
  BY DEF Given, Ended
<1>2. Bounded(m, out, dest, destsz)
  BY <1>1, FillIsBounded
<1>3. /\ out.error = 0 <=> dest # 0 /\ destsz <= RSIZE_MAX /\ count <= destsz
      /\ out.error = 0 => \A a \in DOMAIN m : out.mem[a] = IF a \in Inside(dest, count) THEN c ELSE m[a]
      /\ RestIsKept(m, out, dest, destsz)
  BY <1>1, FillStaysInside
<1>4. s = ToBeCopied("memset", x)
  BY Zenon DEF ToBeCopied, CopyIn
<1> HIDE DEF out
<1>5. ASSUME out.error = 0 PROVE BytesAt(out.mem, dest, Len(s)) = s
  <2>1. Len(s) = count
    OBVIOUS
  <2>2. ASSUME NEW i \in 1 .. count PROVE out.mem[dest + i - 1] = c
    <3>1. dest + i - 1 \in 1 .. Arena /\ dest + i - 1 \in Inside(dest, count)
      BY <1>1, <1>3, <1>5, BoundedCopyAssumption DEF Given, Fits, Inside
    <3>2. QED
      BY <1>1, <1>3, <1>5, <3>1 DEF Memories
  <2>3. QED
    BY <2>1, <2>2 DEF BytesAt
<1>6. "memset" \in Counted
  BY DEF Counted
<1> HIDE DEF s
<1>7. QED
  BY <1>2, <1>4, <1>5, <1>6, CountedMeets DEF out

\* A moved region is a copied one.
LEMMA MoveCopies ==
    ASSUME NEW m \in Memories, NEW dest \in Nat, NEW src \in Nat \ {0}, NEW count \in Nat, Fits(src, count)
    PROVE  Copied(m, Move(m, dest, src, count), dest, src, count)
<1>1. DOMAIN m = 1 .. Arena
  BY DEF Memories
<1>2. ASSUME NEW a \in 1 .. Arena
      PROVE  (IF a \in Inside(dest, count) THEN m[src + (a - dest)] ELSE m[a]) \in 0 .. 255
  <2>1. CASE a \in Inside(dest, count)
    <3>1. src + (a - dest) \in 1 .. Arena
      BY <2>1, BoundedCopyAssumption DEF Fits, Inside
    <3>2. QED
      BY <2>1, <3>1, ByteOf
  <2>2. CASE a \notin Inside(dest, count)
    BY <2>2, ByteOf
  <2>3. QED
    BY <2>1, <2>2
<1>3. Move(m, dest, src, count) = [a \in 1 .. Arena |-> IF a \in Inside(dest, count) THEN m[src + (a - dest)] ELSE m[a]]
  BY <1>1 DEF Move, Inside
<1>4. Move(m, dest, src, count) \in Memories
  BY <1>2, <1>3 DEF Memories
<1>5. QED
  BY <1>3, <1>4 DEF Copied

LEMMA MovedMeets ==
    ASSUME NEW f \in {"memmove", "memcpy"}, NEW m, NEW dest, NEW destsz, NEW src, Given(m, dest, destsz, src),
           NEW c, NEW count \in Nat, Fits(src, count), NEW error, NEW out,
           out = Outcome(m, dest, destsz, src, count, error),
           error = 0 => dest # 0 /\ src # 0 /\ count <= destsz
    PROVE  Meets(f, CopyIn(m, dest, destsz, src, c, count), out)
<1> DEFINE x == CopyIn(m, dest, destsz, src, c, count)
           s == BytesAt(m, src, count)
           moved == Move(m, dest, src, count)
<1>1. m \in Memories /\ dest \in Nat /\ destsz \in Nat /\ src \in Nat
  BY DEF Given, Ended
<1>2. f \in Counted /\ s = ToBeCopied(f, x)
  <2>1. x.m = m /\ x.src = src /\ x.count = count
    BY DEF CopyIn
  <2>2. f # "memset" /\ f \in Counted
    BY DEF Counted
  <2> HIDE DEF x
  <2>3. ToBeCopied(f, x) = BytesAt(x.m, x.src, x.count)
    BY <2>2, Zenon DEF ToBeCopied
  <2>4. QED
    BY <2>1, <2>2, <2>3
<1>3. CASE error # 0
  <2>1. out = ZeroOnError(m, dest, destsz, error)
    BY <1>3 DEF Outcome
  <2>2. out.error # 0 /\ Bounded(m, out, dest, destsz)
    BY <1>1, <1>3, <2>1, RefusedIsBounded
  <2> HIDE DEF s, x
  <2>3. QED
    BY <1>2, <2>2, CountedMeets DEF x
<1>4. CASE error = 0
  <2>1. out = Result(0, moved) /\ out.mem = moved
    BY <1>4 DEF Outcome, Result
  <2>2. Copied(m, moved, dest, src, count)
    BY <1>1, <1>4, MoveCopies
  <2>3. dest + count <= Arena + 1 /\ dest \in Nat \ {0}
    BY <1>1, <1>4, BoundedCopyAssumption DEF Given, Fits
  <2> HIDE DEF moved
  <2>4. BytesAt(moved, dest, count) = s
    BY <1>1, <2>2, <2>3, CopiedBytes
  <2>5. Len(s) = count
    BY LengthOfBytes
  <2>6. Bounded(m, out, dest, destsz)
    BY <1>1, <1>4, <2>1, <2>2, <2>3, CopiedIsBounded
  <2> HIDE DEF s, x
  <2>7. QED
    BY <1>2, <2>1, <2>4, <2>5, <2>6, CountedMeets DEF x
<1>5. QED
  BY <1>3, <1>4

LEMMA MemmoveMeets ==
    ASSUME NEW m, NEW dest, NEW destsz, NEW src, Given(m, dest, destsz, src),
           NEW c, NEW count \in Nat, Fits(src, count)
    PROVE  Meets("memmove", CopyIn(m, dest, destsz, src, c, count), safe_memmove(m, dest, destsz, src, count))
<1> DEFINE out == safe_memmove(m, dest, destsz, src, count)
<1>1. m \in Memories /\ dest \in Nat /\ destsz \in Nat /\ src \in Nat
  BY DEF Given, Ended
<1>2. /\ out.error = 0 <=> dest # 0 /\ src # 0 /\ destsz <= RSIZE_MAX /\ count <= destsz
      /\ out.error = 0 => Moved(m, out, dest, src, count)
      /\ RestIsKept(m, out, dest, destsz)
  BY <1>1, MoveStaysInside
<1>3. \E error : out = Outcome(m, dest, destsz, src, count, error)
  BY DEF safe_memmove, Outcome
<1> HIDE DEF out
<1>4. PICK error : out = Outcome(m, dest, destsz, src, count, error)
  BY <1>3
<1>5. error = out.error
  <2>1. CASE error = 0
    BY <1>4, <2>1 DEF Outcome, Result
  <2>2. CASE error # 0
    BY <1>1, <1>4, <2>2, RefusedIsBounded DEF Outcome
  <2>3. QED
    BY <2>1, <2>2
<1>6. QED
  BY <1>2, <1>4, <1>5, MovedMeets DEF out

LEMMA MemcpyMeets ==
    ASSUME NEW m, NEW dest, NEW destsz, NEW src, Given(m, dest, destsz, src),
           NEW c, NEW count \in Nat, Fits(src, count)
    PROVE  Meets("memcpy", CopyIn(m, dest, destsz, src, c, count), safe_memcpy(m, dest, destsz, src, count))
<1> DEFINE out == safe_memcpy(m, dest, destsz, src, count)
<1>1. m \in Memories /\ dest \in Nat /\ destsz \in Nat /\ src \in Nat
  BY DEF Given, Ended
<1>2. /\ out.error = 0 <=> (/\ dest # 0 /\ src # 0 /\ destsz <= RSIZE_MAX /\ count <= destsz
                           /\ (dest >= src + count \/ src >= dest + destsz))
      /\ out.error = 0 => Moved(m, out, dest, src, count)
      /\ RestIsKept(m, out, dest, destsz)
  BY <1>1, CopyStaysInside
<1>3. \E error : out = Outcome(m, dest, destsz, src, count, error)
  BY DEF safe_memcpy, Outcome
<1> HIDE DEF out
<1>4. PICK error : out = Outcome(m, dest, destsz, src, count, error)
  BY <1>3
<1>5. error = out.error
  <2>1. CASE error = 0
    BY <1>4, <2>1 DEF Outcome, Result
  <2>2. CASE error # 0
    BY <1>1, <1>4, <2>2, RefusedIsBounded DEF Outcome
  <2>3. QED
    BY <2>1, <2>2
<1>6. QED
  BY <1>2, <1>4, <1>5, MovedMeets DEF out

\* The number of bytes up to the first c, by its definition.
FirstPlaces(m, src, c, count) ==
    {n \in 1 .. count : m[src + n - 1] = c /\ \A i \in 1 .. n - 1 : m[src + i - 1] # c}

LEMMA UpToIsExact ==
    ASSUME NEW m \in Memories, NEW src \in Nat \ {0}, NEW c, NEW count \in Nat, Fits(src, count)
    PROVE  LET upto == FirstPlaces(m, src, c, count)
           IN (IF upto = {} THEN count ELSE Min(upto)) = UpTo(m, src, c, count)
<1> DEFINE n == UpTo(m, src, c, count)
           upto == FirstPlaces(m, src, c, count)
<1>1. /\ n \in 0 .. count
      /\ \/ n > 0 /\ src + (n - 1) \in DOMAIN m /\ m[src + (n - 1)] = c
         \/ n = count /\ \A i \in 0 .. count - 1 : ~(src + i \in DOMAIN m /\ m[src + i] = c)
      /\ \A i \in 0 .. n - 2 : ~(src + i \in DOMAIN m /\ m[src + i] = c)
  BY UpToTheFirst
<1> HIDE DEF n
<1>2. \A i \in 0 .. count - 1 : src + i \in DOMAIN m
  BY BoundedCopyAssumption DEF Memories, Fits
<1>3. \A j \in upto : j \in 1 .. count /\ m[src + (j - 1)] = c /\ \A i \in 1 .. j - 1 : m[src + (i - 1)] # c
  BY DEF FirstPlaces
<1>4. CASE n > 0 /\ src + (n - 1) \in DOMAIN m /\ m[src + (n - 1)] = c
  <2>1. n \in upto
    <3>1. ASSUME NEW i \in 1 .. n - 1 PROVE m[src + i - 1] # c
      <4>1. i - 1 \in 0 .. n - 2 /\ i - 1 \in 0 .. count - 1 /\ src + (i - 1) = src + i - 1
        BY <1>1
      <4>2. QED
        BY <1>1, <1>2, <4>1
    <3>2. n \in 1 .. count /\ src + n - 1 = src + (n - 1)
      BY <1>1, <1>4
    <3>3. QED
      BY <1>4, <3>1, <3>2 DEF FirstPlaces
  <2>2. ASSUME NEW j \in upto PROVE j = n
    <3>1. j \in 1 .. count
      BY <1>3
    <3>2. CASE j < n
      <4>1. j - 1 \in 0 .. n - 2 /\ j - 1 \in 0 .. count - 1
        BY <1>1, <3>1, <3>2
      <4>2. QED
        BY <1>1, <1>2, <1>3, <4>1
    <3>3. CASE n < j
      <4>1. n \in 1 .. j - 1
        BY <1>1, <1>4, <3>1, <3>3
      <4>2. QED
        BY <1>3, <1>4, <4>1
    <3>4. QED
      BY <1>1, <3>1, <3>2, <3>3
  <2>3. Min(upto) = n
    <3>1. upto \subseteq Nat /\ upto # {}
      BY <1>3, <2>1
    <3>2. Min(upto) \in upto
      BY <3>1, LeastNumber
    <3>3. QED
      BY <2>2, <3>2
  <2>4. QED
    BY <2>1, <2>3 DEF n
<1>5. CASE n = count /\ \A i \in 0 .. count - 1 : ~(src + i \in DOMAIN m /\ m[src + i] = c)
  <2>1. ASSUME NEW j \in upto PROVE FALSE
    <3>1. j - 1 \in 0 .. count - 1 /\ m[src + (j - 1)] = c
      BY <1>3
    <3>2. QED
      BY <1>2, <1>5, <3>1
  <2>2. QED
    BY <1>5, <2>1 DEF n
<1>6. QED
  BY <1>1, <1>4, <1>5

LEMMA UpToMeets ==
    ASSUME NEW f \in {"memccpy", "memcmove"}, NEW m, NEW dest, NEW destsz, NEW src, Given(m, dest, destsz, src),
           NEW c, NEW count \in Nat, Fits(src, count), NEW out,
           Bounded(m, out, dest, destsz),
           out.error = 0 => dest # 0 /\ src # 0 /\ count <= destsz,
           out.error = 0 => Copied(m, out.mem, dest, src, UpTo(m, src, c, count))
    PROVE  Meets(f, CopyIn(m, dest, destsz, src, c, count), out)
<1> DEFINE x == CopyIn(m, dest, destsz, src, c, count)
           upto == FirstPlaces(m, src, c, count)
           s == BytesAt(m, src, IF upto = {} THEN count ELSE Min(upto))
           n == UpTo(m, src, c, count)
<1>1. m \in Memories /\ dest \in Nat /\ destsz \in Nat /\ src \in Nat
  BY DEF Given, Ended
<1>2. f \in Counted /\ s = ToBeCopied(f, x)
  <2>1. x.m = m /\ x.src = src /\ x.count = count /\ x.c = c
    BY DEF CopyIn
  <2>2. f \notin {"memset", "memmove", "memcpy"} /\ f \in Counted
    BY DEF Counted
  <2>3. f # "memset" /\ f \notin {"memmove", "memcpy"}
    BY <2>2
  <2>4. upto = {k \in 1 .. x.count : x.m[x.src + k - 1] = x.c /\ \A i \in 1 .. k - 1 : x.m[x.src + i - 1] # x.c}
    BY <2>1 DEF FirstPlaces
  <2> HIDE DEF x, upto
  <2>5. ToBeCopied(f, x) = BytesAt(x.m, x.src, IF upto = {} THEN x.count ELSE Min(upto))
    BY <2>3, <2>4, Zenon DEF ToBeCopied
  <2>6. QED
    BY <2>1, <2>2, <2>5
<1>3. CASE out.error # 0
  <2> HIDE DEF s, x
  <2>1. QED
    BY <1>2, <1>3, CountedMeets DEF x
<1>4. CASE out.error = 0
  <2>1. s = BytesAt(m, src, n)
    BY <1>1, <1>4, UpToIsExact
  <2>2. n \in 0 .. count
    BY UpToTheFirst
  <2> HIDE DEF n
  <2>3. dest + n <= Arena + 1 /\ dest \in Nat \ {0} /\ n \in Nat
    BY <1>1, <1>4, <2>2, BoundedCopyAssumption DEF Given, Fits
  <2>4. Copied(m, out.mem, dest, src, n)
    BY <1>4 DEF n
  <2> HIDE DEF s
  <2>5. BytesAt(out.mem, dest, n) = s
    BY <1>1, <2>1, <2>3, <2>4, CopiedBytes
  <2>6. Len(s) = n
    BY <2>1, <2>3, LengthOfBytes
  <2> HIDE DEF x
  <2>7. QED
    BY <1>2, <2>5, <2>6, CountedMeets DEF x
<1>5. QED
  BY <1>3, <1>4

\* A copy up to a byte stays in a source that holds all the bytes counted.
LEMMA UpToFits ==
    ASSUME NEW m, NEW src \in Nat, NEW c, NEW count \in Nat, Fits(src, count)
    PROVE  Fits(src, UpTo(m, src, c, count))
<1>1. UpTo(m, src, c, count) \in 0 .. count
  BY UpToTheFirst
<1>2. QED
  BY <1>1, BoundedCopyAssumption DEF Fits

LEMMA MemccpyMeets ==
    ASSUME NEW m, NEW dest, NEW destsz, NEW src, Given(m, dest, destsz, src),
           NEW c, NEW count \in Nat, Fits(src, count)
    PROVE  Meets("memccpy", CopyIn(m, dest, destsz, src, c, count), safe_memccpy(m, dest, destsz, src, c, count))
<1> DEFINE out == safe_memccpy(m, dest, destsz, src, c, count)
<1>1. m \in Memories /\ dest \in Nat /\ destsz \in Nat /\ src \in Nat
  BY DEF Given, Ended
<1>2. Fits(dest, destsz) /\ Fits(src, UpTo(m, src, c, count))
  BY <1>1, UpToFits DEF Given
<1>3. /\ out.error = 0 <=> (/\ dest # 0 /\ src # 0 /\ destsz <= RSIZE_MAX /\ count <= destsz
                            /\ (src + count <= dest \/ dest + count <= src))
      /\ out.error = 0 => Copied(m, out.mem, dest, src, UpTo(m, src, c, count))
      /\ Bounded(m, out, dest, destsz)
  BY <1>1, <1>2, CopyUpToStaysInside
<1> HIDE DEF out
<1>4. QED
  BY <1>3, UpToMeets DEF out

LEMMA MemcmoveMeets ==
    ASSUME NEW m, NEW dest, NEW destsz, NEW src, Given(m, dest, destsz, src),
           NEW c, NEW count \in Nat, Fits(src, count)
    PROVE  Meets("memcmove", CopyIn(m, dest, destsz, src, c, count), safe_memcmove(m, dest, destsz, src, c, count))
<1> DEFINE out == safe_memcmove(m, dest, destsz, src, c, count)
<1>1. m \in Memories /\ dest \in Nat /\ destsz \in Nat /\ src \in Nat
  BY DEF Given, Ended
<1>2. Fits(dest, destsz) /\ Fits(src, UpTo(m, src, c, count))
  BY <1>1, UpToFits DEF Given
<1>3. /\ out.error = 0 <=> (/\ dest # 0 /\ src # 0 /\ destsz <= RSIZE_MAX /\ count <= destsz
                            /\ dest # src)
      /\ out.error = 0 => Copied(m, out.mem, dest, src, UpTo(m, src, c, count))
      /\ Bounded(m, out, dest, destsz)
  BY <1>1, <1>2, MoveUpToStaysInside
<1> HIDE DEF out
<1>4. QED
  BY <1>3, UpToMeets DEF out

-----------------------------------------------------------------------------
(* The copies of strings                                                   *)

IsResult(out) == out = Result(out.error, out.mem)

LEMMA InnerCopyIsResult ==
    ASSUME NEW m, NEW dest, NEW destsz \in Nat, NEW src, NEW c, NEW count
    PROVE  /\ IsResult(safe_memccpy(m, dest, destsz, src, c, count))
           /\ IsResult(safe_memcmove(m, dest, destsz, src, c, count))
<1>1. ASSUME NEW error, NEW r PROVE IsResult(Result(error, r))
  BY DEF IsResult, Result
<1>2. ASSUME NEW error PROVE IsResult(ZeroOnError(m, dest, destsz, error))
  BY <1>1, Zenon DEF ZeroOnError
<1>3. IsResult(safe_memccpy(m, dest, destsz, src, c, count))
  BY <1>1, <1>2, Zenon DEF safe_memccpy
<1>4. IsResult(safe_memcmove(m, dest, destsz, src, c, count))
  <2> DEFINE error == FirstFailing(<< <<dest = 0, EINVAL>>, <<src = 0, EINVAL>>,
                                      <<destsz > RSIZE_MAX, ERANGE>>, <<count > RSIZE_MAX, ERANGE>>,
                                      <<count > destsz, ERANGE>> >>)
             copied == CopyLoop(m, dest, src, IF dest < src THEN Forward(UpTo(m, src, c, count))
                                              ELSE Backward(UpTo(m, src, c, count)))
             out == safe_memcmove(m, dest, destsz, src, c, count)
  <2>1. out = CASE error # 0 /\ destsz < RSIZE_MAX  -> ZeroOnError(m, dest, destsz, error)
                [] error # 0 /\ destsz >= RSIZE_MAX -> Result(error, m)
                [] error = 0 /\ dest = src          -> Result(EINVAL, m)
                [] error = 0 /\ dest # src          -> Result(0, copied)
    BY DEF safe_memcmove
  <2> HIDE DEF error, out, copied
  <2>2. \/ out = ZeroOnError(m, dest, destsz, error) \/ out = Result(error, m)
        \/ out = Result(EINVAL, m) \/ out = Result(0, copied)
    <3>1. \/ error # 0 /\ destsz < RSIZE_MAX
          \/ error # 0 /\ destsz >= RSIZE_MAX
          \/ error = 0 /\ dest = src
          \/ error = 0 /\ dest # src
      BY BoundedCopyAssumption
    <3>2. QED
      BY <2>1, <3>1
  <2>3. IsResult(out)
    BY <1>1, <1>2, <2>2
  <2>4. QED
    BY <2>3 DEF out
<1>5. QED
  BY <1>3, <1>4

Ends(r, dest, destsz) == \E a \in InDest(dest, destsz) : r[a] = 0

\* A refused call empties its destination, when there is one.
LEMMA RefusedString ==
    ASSUME NEW m \in Memories, NEW dest \in 0 .. Arena, NEW destsz \in Nat, NEW error
    PROVE  LET out == Refused(m, dest, destsz, error) IN
           /\ out.error = error /\ Bounded(m, out, dest, destsz)
           /\ dest # 0 /\ destsz \in 1 .. RSIZE_MAX => Ends(out.mem, dest, destsz)
<1> DEFINE out == Refused(m, dest, destsz, error)
<1>1. out.error = error
  BY DEF Refused, Result
<1>2. CASE dest # 0 /\ destsz \in 1 .. RSIZE_MAX
  <2>1. out.mem = [m EXCEPT ![dest] = 0]
    BY <1>2 DEF Refused, Result
  <2> HIDE DEF out
  <2>2. dest \in 1 .. Arena /\ dest \in InDest(dest, destsz)
    BY <1>2 DEF InDest, Inside
  <2>3. Written(m, out.mem, dest, 0)
    BY <2>1, <2>2, OneByte
  <2>4. QED
    BY <1>1, <2>2, <2>3 DEF out, Written, Bounded, Ends
<1>3. CASE ~(dest # 0 /\ destsz \in 1 .. RSIZE_MAX)
  <2>1. out.mem = m
    BY <1>3 DEF Refused, Result
  <2> HIDE DEF out
  <2>2. QED
    BY <1>1, <1>3, <2>1 DEF out, Bounded
<1>4. QED
  BY <1>2, <1>3

\* The string of a call that copies k bytes to where the string of Ld bytes at
\* its destination ends, and then terminates what it has copied.
Joined(m, dest, Ld, src, k) == Append(BytesAt(m, dest, Ld) \o BytesAt(m, src, k), 0)

\* These bytes are in the memory r.
HoldsJoined(r, m, dest, Ld, src, k) ==
    /\ \A i \in 0 .. Ld - 1 : r[dest + i] = m[dest + i]
    /\ \A i \in 0 .. k - 1 : r[dest + Ld + i] = m[src + i]
    /\ r[dest + Ld + k] = 0

OneBehindTheOther(w, u, v) ==
    /\ w \in Seq(0 .. 255) /\ Len(w) = Len(u) + Len(v)
    /\ \A i \in 1 .. Len(u) + Len(v) : w[i] = IF i <= Len(u) THEN u[i] ELSE v[i - Len(u)]

LEMMA BytesJoin ==
    ASSUME NEW u \in Seq(0 .. 255), NEW v \in Seq(0 .. 255)
    PROVE  OneBehindTheOther(u \o v, u, v)
BY ConcatProperties DEF OneBehindTheOther

LEMMA JoinedBytes ==
    ASSUME NEW m \in Memories, NEW dest \in 1 .. Arena, NEW src \in 1 .. Arena, NEW Ld \in Nat, NEW k \in Nat,
           dest + Ld <= Arena + 1, src + k <= Arena + 1
    PROVE  /\ Len(Joined(m, dest, Ld, src, k)) = Ld + k + 1
           /\ \A r : HoldsJoined(r, m, dest, Ld, src, k)
                     => BytesAt(r, dest, Ld + k + 1) = Joined(m, dest, Ld, src, k)
<1> DEFINE s == BytesAt(m, dest, Ld)
           t == BytesAt(m, src, k)
           j == Joined(m, dest, Ld, src, k)
<1>1. s \in Seq(0 .. 255) /\ t \in Seq(0 .. 255) /\ Len(s) = Ld /\ Len(t) = k
  <2>1. \A i \in 1 .. Ld : m[dest + i - 1] \in 0 .. 255
    BY BoundedCopyAssumption DEF Memories
  <2>2. \A i \in 1 .. k : m[src + i - 1] \in 0 .. 255
    BY BoundedCopyAssumption DEF Memories
  <2>3. QED
    BY <2>1, <2>2 DEF BytesAt
<1>2. /\ s \o t \in Seq(0 .. 255) /\ Len(s \o t) = Ld + k
      /\ \A i \in 1 .. Ld + k : (s \o t)[i] = IF i <= Ld THEN s[i] ELSE t[i - Ld]
  <2> HIDE DEF s, t, j
  <2>1. \A u \in Seq(0 .. 255), v \in Seq(0 .. 255) : OneBehindTheOther(u \o v, u, v)
    BY BytesJoin, Zenon
  <2>2. OneBehindTheOther(s \o t, s, t)
    BY <1>1, <2>1, Zenon
  <2>3. QED
    BY <1>1, <2>2 DEF OneBehindTheOther
<1>3. /\ Len(j) = Ld + k + 1 /\ j \in Seq(0 .. 255)
      /\ \A i \in 1 .. Ld + k + 1 : j[i] = IF i <= Ld + k THEN (s \o t)[i] ELSE 0
  <2> HIDE DEF s, t
  <2> DEFINE u == s \o t
  <2>1. j = Append(u, 0)
    BY DEF Joined, s, t
  <2>2. u \in Seq(0 .. 255) /\ Len(u) = Ld + k /\ 0 \in 0 .. 255
    BY <1>2
  <2> HIDE DEF u, j
  <2>3. /\ Append(u, 0) \in Seq(0 .. 255) /\ Len(Append(u, 0)) = Len(u) + 1
        /\ \A i \in 1 .. Len(u) : Append(u, 0)[i] = u[i]
        /\ Append(u, 0)[Len(u) + 1] = 0
    BY <2>2, AppendProperties
  <2>4. \A i \in 1 .. Ld + k + 1 : i \in 1 .. Len(u) \/ (i = Len(u) + 1 /\ ~(i <= Ld + k))
    BY <2>2
  <2>5. \A i \in 1 .. Ld + k + 1 : j[i] = IF i <= Ld + k THEN u[i] ELSE 0
    BY <2>1, <2>2, <2>3, <2>4
  <2>6. Len(j) = Ld + k + 1 /\ j \in Seq(0 .. 255)
    BY <2>1, <2>2, <2>3
  <2>7. QED
    BY <2>5, <2>6 DEF u
<1>4. ASSUME NEW r, \A i \in 0 .. Ld - 1 : r[dest + i] = m[dest + i],
             \A i \in 0 .. k - 1 : r[dest + Ld + i] = m[src + i], r[dest + Ld + k] = 0
      PROVE  BytesAt(r, dest, Ld + k + 1) = j
  <2>1. \A i \in 1 .. Ld : s[i] = m[dest + (i - 1)]
    BY DEF BytesAt
  <2>2. \A i \in 1 .. k : t[i] = m[src + (i - 1)]
    BY DEF BytesAt
  <2> HIDE DEF s, t, j
  <2>3. ASSUME NEW i \in 1 .. Ld + k + 1 PROVE r[dest + i - 1] = j[i]
    <3>1. CASE i <= Ld
      <4>1. i - 1 \in 0 .. Ld - 1 /\ dest + (i - 1) = dest + i - 1 /\ i \in 1 .. Ld
        BY <3>1
      <4>2. j[i] = (s \o t)[i] /\ (s \o t)[i] = s[i]
        BY <1>2, <1>3, <3>1
      <4>3. s[i] = m[dest + (i - 1)] /\ r[dest + (i - 1)] = m[dest + (i - 1)]
        BY <1>4, <2>1, <4>1
      <4>4. QED
        BY <4>1, <4>2, <4>3
    <3>2. CASE i > Ld /\ i <= Ld + k
      <4>1. (i - Ld) - 1 \in 0 .. k - 1 /\ dest + Ld + ((i - Ld) - 1) = dest + i - 1 /\ i - Ld \in 1 .. k
            /\ ~(i <= Ld) /\ i \in 1 .. Ld + k
        BY <3>2
      <4>2. j[i] = (s \o t)[i] /\ (s \o t)[i] = t[i - Ld]
        BY <1>2, <1>3, <3>2, <4>1
      <4>3. t[i - Ld] = m[src + ((i - Ld) - 1)] /\ r[dest + Ld + ((i - Ld) - 1)] = m[src + ((i - Ld) - 1)]
        BY <1>4, <2>2, <4>1
      <4>4. QED
        BY <4>1, <4>2, <4>3
    <3>3. CASE i = Ld + k + 1
      <4>1. dest + i - 1 = dest + Ld + k /\ ~(i <= Ld + k)
        BY <3>3
      <4>2. QED
        BY <1>3, <1>4, <4>1
    <3>4. QED
      BY <3>1, <3>2, <3>3
  <2>4. j = [i \in 1 .. Ld + k + 1 |-> j[i]]
    BY <1>3
  <2>5. BytesAt(r, dest, Ld + k + 1) = [i \in 1 .. Ld + k + 1 |-> r[dest + i - 1]]
    BY DEF BytesAt
  <2>6. QED
    BY <2>3, <2>4, <2>5
<1>5. QED
  BY <1>3, <1>4 DEF HoldsJoined

LEMMA JoinedToNothing ==
    ASSUME NEW m \in Memories, NEW dest, NEW src \in 1 .. Arena, NEW k \in Nat, src + k <= Arena + 1
    PROVE  Joined(m, dest, 0, src, k) = Append(BytesAt(m, src, k), 0)
<1> DEFINE s == BytesAt(m, dest, 0)
           t == BytesAt(m, src, k)
<1>1. s = << >> /\ t \in Seq(0 .. 255)
  <2>1. \A i \in 1 .. k : m[src + i - 1] \in 0 .. 255
    BY BoundedCopyAssumption DEF Memories
  <2>2. QED
    BY <2>1 DEF BytesAt
<1> HIDE DEF s, t
<1>2. s \o t = t
  BY <1>1
<1>3. QED
  BY <1>2 DEF Joined, s, t

\* A copy of a string up to its terminator takes the terminator with it, unless
\* the count ends it before; it never leaves the arena.
LEMMA UpToTheTerminator ==
    ASSUME NEW m, Ended(m), NEW src \in 1 .. Arena, NEW L \in Nat, StringOf(m, src, L), NEW count \in Nat
    PROVE  /\ UpTo(m, src, 0, count) = IF L < count THEN L + 1 ELSE count
           /\ Fits(src, UpTo(m, src, 0, count))
<1> DEFINE n == UpTo(m, src, 0, count)
<1>1. /\ n \in 0 .. count
      /\ \/ n > 0 /\ src + (n - 1) \in DOMAIN m /\ m[src + (n - 1)] = 0
         \/ n = count /\ \A i \in 0 .. count - 1 : ~(src + i \in DOMAIN m /\ m[src + i] = 0)
      /\ \A i \in 0 .. n - 2 : ~(src + i \in DOMAIN m /\ m[src + i] = 0)
  BY UpToTheFirst
<1>2. /\ \A i \in 0 .. L - 1 : m[src + i] # 0
      /\ src + L \in DOMAIN m /\ m[src + L] = 0 /\ src + L <= Arena
  BY DEF StringOf, Ended, Memories
<1> HIDE DEF n
<1>3. L < count => n = L + 1
  <2>1. SUFFICES ASSUME L < count PROVE n = L + 1
    OBVIOUS
  <2>2. ~(n = count /\ \A i \in 0 .. count - 1 : ~(src + i \in DOMAIN m /\ m[src + i] = 0))
    <3>1. L \in 0 .. count - 1
      BY <2>1
    <3>2. QED
      BY <1>2, <3>1
  <2>3. ~(n - 1 \in 0 .. L - 1) /\ n > 0
    BY <1>1, <1>2, <2>2
  <2>4. ~(L \in 0 .. n - 2)
    BY <1>1, <1>2
  <2>5. QED
    BY <1>1, <2>3, <2>4
<1>4. ~(L < count) => n = count
  <2>1. SUFFICES ASSUME ~(L < count), n # count PROVE FALSE
    OBVIOUS
  <2>2. n > 0 /\ m[src + (n - 1)] = 0
    BY <1>1, <2>1
  <2>3. n - 1 \in 0 .. L - 1
    BY <1>1, <2>1, <2>2
  <2>4. QED
    BY <1>2, <2>2, <2>3
<1>5. Fits(src, n)
  BY <1>1, <1>2, <1>3, <1>4, BoundedCopyAssumption DEF Fits
<1>6. QED
  BY <1>3, <1>4, <1>5 DEF n

\* The source is a string of L bytes, the call appends to Ld bytes and takes k.
Takes(f, m, dest, src, count, L, Ld, k) ==
    /\ L \in Nat /\ StringOf(m, src, L) /\ StringAt(m, src) = BytesAt(m, src, L)
    /\ Ld \in Nat /\ (f \notin Appending => Ld = 0)
    /\ f \in Appending => StringOf(m, dest, Ld) /\ StringAt(m, dest) = BytesAt(m, dest, Ld)
    /\ k = IF f \in Limited /\ count < L THEN count ELSE L

\* What a string function is to leave at its destination: the string that is
\* there, for an append, what it copies of the source, and a terminator.
LEMMA WhatIsCopied ==
    ASSUME NEW f \in Limited \cup Unlimited, NEW m, Ended(m), NEW dest \in 1 .. Arena, NEW src \in 1 .. Arena,
           NEW destsz, NEW c, NEW count \in Nat, NEW L, NEW Ld, NEW k, Takes(f, m, dest, src, count, L, Ld, k)
    PROVE  LET x == CopyIn(m, dest, destsz, src, c, count) IN
           /\ ToBeCopied(f, x) = Joined(m, dest, Ld, src, k)
           /\ Len(ToBeCopied(f, x)) = Ld + k + 1
<1> DEFINE x == CopyIn(m, dest, destsz, src, c, count)
           s == StringAt(m, src)
           t == BytesAt(m, src, k)
<1>0. /\ L \in Nat /\ StringOf(m, src, L) /\ StringAt(m, src) = BytesAt(m, src, L)
      /\ Ld \in Nat /\ (f \notin Appending => Ld = 0)
      /\ f \in Appending => StringOf(m, dest, Ld) /\ StringAt(m, dest) = BytesAt(m, dest, Ld)
      /\ k = IF f \in Limited /\ count < L THEN count ELSE L
  BY DEF Takes
<1>1. x.m = m /\ x.src = src /\ x.dest = dest /\ x.count = count
  BY DEF CopyIn
<1>2. k \in Nat /\ k <= L /\ src + k <= Arena + 1 /\ dest + Ld <= Arena + 1 /\ m \in Memories
  <2>1. dest + Ld <= Arena + 1
    BY <1>0, BoundedCopyAssumption DEF StringOf
  <2>2. QED
    BY <1>0, <2>1, BoundedCopyAssumption DEF StringOf, Ended
<1>3. f \in Limited => FirstOf(s, count) = t
  <2>1. SUFFICES ASSUME f \in Limited PROVE FirstOf(s, count) = t
    OBVIOUS
  <2>2. Len(s) = L
    BY <1>0, LengthOfBytes
  <2>3. FirstOf(s, count) = SubSeq(s, 1, k)
    BY <1>0, <2>1, <2>2 DEF FirstOf
  <2>4. SubSeq(s, 1, k) = [i \in 1 .. k |-> s[i]]
    BY <1>0, <1>2, <2>2 DEF BytesAt
  <2>5. \A i \in 1 .. k : s[i] = m[src + i - 1]
    BY <1>0, <1>2 DEF BytesAt
  <2> HIDE DEF s
  <2>6. QED
    BY <2>3, <2>4, <2>5 DEF BytesAt
<1>4. f \notin Limited => s = t
  BY <1>0
<1>5. Len(Joined(m, dest, Ld, src, k)) = Ld + k + 1
      /\ (Ld = 0 => Joined(m, dest, Ld, src, k) = Append(t, 0))
  <2>1. Len(Joined(m, dest, Ld, src, k)) = Ld + k + 1
    BY <1>0, <1>2, JoinedBytes
  <2>2. Joined(m, dest, 0, src, k) = Append(BytesAt(m, src, k), 0)
    BY <1>2, JoinedToNothing
  <2>3. QED
    BY <2>1, <2>2
<1> HIDE DEF x
<1>6. CASE f \in {"strcpy", "strmove"}
  <2>1. /\ f \notin Limited /\ f \notin Appending /\ f # "memset"
        /\ f \notin {"memmove", "memcpy"} /\ f \notin {"memccpy", "memcmove"}
    BY <1>6 DEF Limited, Appending
  <2>2. ToBeCopied(f, x) = Append(StringAt(x.m, x.src), 0)
    BY <1>6, <2>1, Zenon DEF ToBeCopied
  <2>3. QED
    BY <1>0, <1>1, <1>4, <1>5, <2>1, <2>2 DEF x
<1>7. CASE f \in {"strncpy", "strnmove"}
  <2>1. /\ f \in Limited /\ f \notin Appending /\ f # "memset"
        /\ f \notin {"memmove", "memcpy"} /\ f \notin {"memccpy", "memcmove"} /\ f \notin {"strcpy", "strmove"}
    BY <1>7 DEF Limited, Appending
  <2>2. ToBeCopied(f, x) = Append(FirstOf(StringAt(x.m, x.src), x.count), 0)
    BY <1>7, <2>1, Zenon DEF ToBeCopied
  <2>3. QED
    BY <1>0, <1>1, <1>3, <1>5, <2>1, <2>2 DEF x
<1>8. CASE f \in {"strcat", "strcatmove"}
  <2>1. /\ f \notin Limited /\ f \in Appending /\ f # "memset"
        /\ f \notin {"memmove", "memcpy"} /\ f \notin {"memccpy", "memcmove"} /\ f \notin {"strcpy", "strmove"}
        /\ f \notin {"strncpy", "strnmove"}
    BY <1>8 DEF Limited, Appending
  <2>2. ToBeCopied(f, x) = Append(StringAt(x.m, x.dest) \o StringAt(x.m, x.src), 0)
    BY <1>8, <2>1, Zenon DEF ToBeCopied
  <2>3. QED
    BY <1>0, <1>1, <1>4, <1>5, <2>1, <2>2 DEF x, Joined
<1>9. CASE f \in {"strncat", "strncatmove"}
  <2>1. /\ f \in Limited /\ f \in Appending /\ f # "memset"
        /\ f \notin {"memmove", "memcpy"} /\ f \notin {"memccpy", "memcmove"} /\ f \notin {"strcpy", "strmove"}
        /\ f \notin {"strncpy", "strnmove"} /\ f \notin {"strcat", "strcatmove"}
    BY <1>9 DEF Limited, Appending
  <2>2. ToBeCopied(f, x) = Append(StringAt(x.m, x.dest) \o FirstOf(StringAt(x.m, x.src), x.count), 0)
    BY <1>9, <2>1, Zenon DEF ToBeCopied
  <2>3. QED
    BY <1>0, <1>1, <1>3, <1>5, <2>1, <2>2 DEF x, Joined
<1>10. QED
  BY <1>6, <1>7, <1>8, <1>9 DEF Limited, Unlimited

\* A string that fits beside its source: FittingStringIsCopied wants it copied.
FitsBeside(f, x) ==
    /\ f \in Unlimited /\ Usable(x) /\ x.src # 0 /\ (f \in Appending => TerminatedIn(x.m, x))
    /\ Len(ToBeCopied(f, x)) <= x.destsz
    /\ x.src \notin InDestination(x) /\ x.src + Len(StringAt(x.m, x.src)) \notin InDestination(x)

\* What is asked of a string function.
LEMMA StringMeets ==
    ASSUME NEW f, NEW m, NEW dest, NEW destsz, NEW src, NEW c, NEW count, NEW out, NEW x,
           x = CopyIn(m, dest, destsz, src, c, count),
           Bounded(m, out, dest, destsz),
           dest # 0 /\ destsz \in 1 .. RSIZE_MAX /\ (f \in Appending => Ends(m, dest, destsz))
               => Ends(out.mem, dest, destsz),
           out.error = 0 => BytesAt(out.mem, dest, Len(ToBeCopied(f, x))) = ToBeCopied(f, x),
           FitsBeside(f, x) => out.error = 0
    PROVE  Meets(f, x, out)
<1>1. x.m = m /\ x.dest = dest /\ x.destsz = destsz
  BY DEF CopyIn
<1>2. CopyKeepsTheRest(x, out)
  BY BoundedKeepsTheRest
<1>3. InDestination(x) = InDest(dest, destsz)
  BY <1>1 DEF InDestination, InDest, Inside
<1>4. StringStaysTerminated(f, x, out)
  BY <1>1, <1>3 DEF StringStaysTerminated, Usable, TerminatedIn, Ends
<1>5. CopyIsExact(f, x, out)
  BY <1>1 DEF CopyIsExact
<1>6. FittingStringIsCopied(f, x, out)
  BY Zenon DEF FittingStringIsCopied, FitsBeside
<1>7. QED
  BY <1>2, <1>4, <1>5, <1>6 DEF Meets

\* A call that is refused, or that answers at once.
LEMMA RefusedMeets ==
    ASSUME NEW f, NEW m, NEW dest, NEW destsz, NEW src, Given(m, dest, destsz, src), NEW c, NEW count, NEW x,
           x = CopyIn(m, dest, destsz, src, c, count), NEW error, error # 0, ~FitsBeside(f, x),
           NEW out, out = Refused(m, dest, destsz, error) \/ (out = Result(error, m) /\ f \in Appending)
    PROVE  Meets(f, x, out)
<1>1. m \in Memories /\ dest \in 0 .. Arena /\ destsz \in Nat
  BY DEF Given, Ended
<1>2. CASE out = Refused(m, dest, destsz, error)
  <2>1. /\ out.error = error /\ Bounded(m, out, dest, destsz)
        /\ dest # 0 /\ destsz \in 1 .. RSIZE_MAX => Ends(out.mem, dest, destsz)
    BY <1>1, <1>2, RefusedString
  <2>2. QED
    BY <2>1, StringMeets
<1>3. CASE out = Result(error, m) /\ f \in Appending
  <2>1. out.error = error /\ out.mem = m /\ Bounded(m, out, dest, destsz)
    BY <1>1, <1>3, Unchanged DEF Result
  <2>2. QED
    BY <1>3, <2>1, StringMeets
<1>4. QED
  BY <1>2, <1>3

\* A part of the destination.
LEMMA PartIsBounded ==
    ASSUME NEW m, NEW out, NEW dest \in Nat \ {0}, NEW destsz \in Nat, NEW Ld \in Nat, Ld <= destsz,
           Bounded(m, out, dest + Ld, destsz - Ld)
    PROVE  Bounded(m, out, dest, destsz)
<1>1. InDest(dest + Ld, destsz - Ld) \subseteq InDest(dest, destsz)
  BY DEF InDest, Inside
<1>2. QED
  BY <1>1 DEF Bounded

\* The terminator that ends a string function.
LEMMA TerminatorIsBounded ==
    ASSUME NEW m, NEW done, IsResult(done), NEW dest \in Nat, NEW destsz, Bounded(m, done, dest, destsz),
           NEW last \in 1 .. Arena, last \in InDest(dest, destsz)
    PROVE  LET out == Terminated(done, last) IN
           /\ out.error = done.error /\ Bounded(m, out, dest, destsz) /\ Ends(out.mem, dest, destsz)
           /\ Written(done.mem, out.mem, last, 0)
<1> DEFINE out == Terminated(done, last)
           r == done.mem
           e == done.error
<1>1. out = [[error |-> e, mem |-> r] EXCEPT !.mem[last] = 0]
  BY Zenon DEF Terminated, IsResult, Result
<1>2. out.error = e /\ out.mem = [r EXCEPT ![last] = 0]
  <2> HIDE DEF out, e, r
  <2>1. QED
    BY <1>1
<1>3. r \in Memories
  BY DEF Bounded
<1> HIDE DEF out
<1>4. Written(r, out.mem, last, 0)
  BY <1>2, <1>3, OneByte
<1>5. Bounded(m, out, dest, destsz)
  BY <1>4 DEF Written, Bounded
<1>6. Ends(out.mem, dest, destsz)
  BY <1>4 DEF Written, Ends
<1>7. QED
  BY <1>2, <1>4, <1>5, <1>6 DEF out

\* A string function that copies and then terminates.  What goes wrong here is a
\* terminator that is written beside the bytes copied, or outside of the
\* destination: it is either right behind them, or they bring one themselves.
LEMMA PutMeets ==
    ASSUME NEW f \in Limited \cup Unlimited, NEW m, NEW dest, NEW destsz, NEW src, Given(m, dest, destsz, src),
           dest # 0, src # 0, NEW c, NEW count \in Nat, NEW x, x = CopyIn(m, dest, destsz, src, c, count),
           NEW L, NEW Ld, NEW k, Takes(f, m, dest, src, count, L, Ld, k), Ld < destsz,
           NEW done, IsResult(done), Bounded(m, done, dest + Ld, destsz - Ld),
           NEW n \in Nat, k <= n, done.error = 0 => Copied(m, done.mem, dest + Ld, src, n),
           NEW last \in Inside(dest, destsz),
           \/ last = dest + Ld + k
           \/ last > dest + Ld + k /\ k < n /\ m[src + k] = 0,
           FitsBeside(f, x) => done.error = 0
    PROVE  Meets(f, x, Terminated(done, last))
<1> DEFINE out == Terminated(done, last)
           at == dest + Ld + k
<1>1. /\ m \in Memories /\ Ended(m) /\ dest \in 1 .. Arena /\ src \in 1 .. Arena /\ destsz \in Nat
      /\ dest + destsz <= Arena + 1 /\ last \in 1 .. Arena /\ last \in InDest(dest, destsz)
  BY BoundedCopyAssumption DEF Given, Ended, Fits, Inside, InDest
<1>2. L \in Nat /\ Ld \in Nat /\ k \in Nat /\ src + k <= Arena + 1 /\ dest + Ld <= Arena + 1
  BY <1>1, BoundedCopyAssumption DEF Takes, StringOf
<1>3. Bounded(m, done, dest, destsz)
  BY <1>1, <1>2, PartIsBounded
<1>4. /\ out.error = done.error /\ Bounded(m, out, dest, destsz) /\ Ends(out.mem, dest, destsz)
      /\ Written(done.mem, out.mem, last, 0)
  BY <1>1, <1>3, TerminatorIsBounded
<1>5. ToBeCopied(f, x) = Joined(m, dest, Ld, src, k) /\ Len(ToBeCopied(f, x)) = Ld + k + 1
  BY <1>1, WhatIsCopied
<1> HIDE DEF out
<1>6. ASSUME out.error = 0 PROVE HoldsJoined(out.mem, m, dest, Ld, src, k)
  <2>1. Copied(m, done.mem, dest + Ld, src, n)
    BY <1>4, <1>6
  <2>2. ASSUME NEW a \in 1 .. Arena, a # last
        PROVE  out.mem[a] = IF a \in Inside(dest + Ld, n) THEN m[src + (a - (dest + Ld))] ELSE m[a]
    BY <1>4, <2>1, <2>2 DEF Written, Copied
  <2>3. ASSUME NEW i \in 0 .. Ld - 1 PROVE out.mem[dest + i] = m[dest + i]
    <3>1. dest + i \in 1 .. Arena /\ dest + i # last /\ dest + i \notin Inside(dest + Ld, n)
      BY <1>1, <1>2, BoundedCopyAssumption DEF Inside
    <3>2. QED
      BY <2>2, <3>1
  <2>4. ASSUME NEW i \in 0 .. k - 1 PROVE out.mem[dest + Ld + i] = m[src + i]
    <3>1. dest + Ld + i \in 1 .. Arena /\ dest + Ld + i # last /\ dest + Ld + i \in Inside(dest + Ld, n)
          /\ src + ((dest + Ld + i) - (dest + Ld)) = src + i
      BY <1>1, <1>2, BoundedCopyAssumption DEF Inside
    <3>2. QED
      BY <2>2, <3>1
  <2>5. out.mem[dest + Ld + k] = 0
    <3>1. CASE last = dest + Ld + k
      BY <1>4, <3>1 DEF Written
    <3>2. CASE last > dest + Ld + k /\ k < n /\ m[src + k] = 0
      <4>1. dest + Ld + k \in 1 .. Arena /\ dest + Ld + k # last /\ dest + Ld + k \in Inside(dest + Ld, n)
            /\ src + ((dest + Ld + k) - (dest + Ld)) = src + k
        BY <1>1, <1>2, <3>2, BoundedCopyAssumption DEF Inside
      <4>2. QED
        BY <2>2, <3>2, <4>1
    <3>3. QED
      BY <3>1, <3>2
  <2>6. QED
    BY <2>3, <2>4, <2>5 DEF HoldsJoined
<1>7. out.error = 0 => BytesAt(out.mem, dest, Len(ToBeCopied(f, x))) = ToBeCopied(f, x)
  BY <1>1, <1>2, <1>5, <1>6, JoinedBytes
<1>8. Meets(f, x, out)
  BY <1>4, <1>7, StringMeets
<1>9. QED
  BY <1>8 DEF out

-----------------------------------------------------------------------------
(* Function by function                                                    *)

LEMMA LengthIsNumber ==
    ASSUME NEW m, Ended(m), NEW a \in 0 .. Arena, NEW n \in Nat
    PROVE  safe_strnlen(m, a, n) \in Nat
<1>1. CASE a = 0
  BY <1>1 DEF safe_strnlen
<1>2. CASE a # 0
  <2>1. PICK L \in Nat : StringOf(m, a, L)
    BY <1>2, StringsEnd
  <2>2. a \in 1 .. Arena
    BY <1>2
  <2>3. QED
    BY <2>1, <2>2, BoundedLength
<1>3. QED
  BY <1>1, <1>2

\* The tests of the pointers and of the size hold.
GoodPointers(dest, destsz, src) == dest # 0 /\ src # 0 /\ destsz # 0 /\ destsz <= RSIZE_MAX

LEMMA FitsBesidePointers ==
    ASSUME NEW f, NEW m, NEW dest, NEW destsz \in Nat, NEW src, NEW c, NEW count, NEW x,
           x = CopyIn(m, dest, destsz, src, c, count), FitsBeside(f, x)
    PROVE  GoodPointers(dest, destsz, src) /\ (f \in Appending => Ends(m, dest, destsz))
<1>1. x.m = m /\ x.dest = dest /\ x.destsz = destsz /\ x.src = src
  BY DEF CopyIn
<1>2. InDestination(x) = InDest(dest, destsz)
  BY <1>1 DEF InDestination, InDest, Inside
<1>3. QED
  BY <1>1, <1>2, BoundedCopyAssumption DEF FitsBeside, Usable, GoodPointers, TerminatedIn, Ends

LEMMA FitsBesideMeans ==
    ASSUME NEW f \in Unlimited, NEW m, Ended(m), NEW dest \in 1 .. Arena, NEW src \in 1 .. Arena, NEW destsz,
           NEW c, NEW count \in Nat, NEW x, x = CopyIn(m, dest, destsz, src, c, count),
           NEW L, NEW Ld, Takes(f, m, dest, src, count, L, Ld, L), FitsBeside(f, x)
    PROVE  Ld + L + 1 <= destsz /\ src \notin Inside(dest, destsz) /\ src + L \notin Inside(dest, destsz)
<1>1. x.m = m /\ x.dest = dest /\ x.destsz = destsz /\ x.src = src
  BY DEF CopyIn
<1>2. InDestination(x) = Inside(dest, destsz)
  BY <1>1 DEF InDestination, Inside
<1>3. Len(StringAt(m, src)) = L
  BY LengthOfBytes DEF Takes
<1>4. Len(ToBeCopied(f, x)) = Ld + L + 1
  BY WhatIsCopied
<1>5. QED
  BY <1>1, <1>2, <1>3, <1>4 DEF FitsBeside

\* The source is a string, and what is copied of it, when nothing is appended.
LEMMA SourceTaken ==
    ASSUME NEW f \in {"strcpy", "strmove", "strncpy", "strnmove"}, NEW m, Ended(m), NEW dest,
           NEW src \in 1 .. Arena, NEW count \in Nat
    PROVE  \E L \in Nat : Takes(f, m, dest, src, count, L, 0, IF f \in Limited /\ count < L THEN count ELSE L)
<1>1. PICK L \in Nat : StringOf(m, src, L) /\ StringAt(m, src) = BytesAt(m, src, L)
  BY StringsEnd
<1>2. f \notin Appending
  BY DEF Appending
<1>3. QED
  BY <1>1, <1>2 DEF Takes

LEMMA StrcpyMeets ==
    ASSUME NEW m, NEW dest, NEW destsz, NEW src, Given(m, dest, destsz, src), NEW c, NEW count \in Nat
    PROVE  Meets("strcpy", CopyIn(m, dest, destsz, src, c, count), safe_strcpy(m, dest, destsz, src))
<1> DEFINE srclen == safe_strnlen(m, src, RSIZE_MAX)
           p == destsz <= srclen
           q == memory_regions_overlap(dest, destsz, src, srclen)
           checks == PointerChecks(dest, destsz, src)
           more == << <<p, ERANGE>>, <<q, EINVAL>> >>
           error == FirstFailing(checks \o more)
           done == safe_memccpy(m, dest, destsz, src, 0, srclen + 1)
           out == safe_strcpy(m, dest, destsz, src)
           x == CopyIn(m, dest, destsz, src, c, count)
<1>1. /\ m \in Memories /\ Ended(m) /\ dest \in Nat /\ destsz \in Nat /\ src \in Nat
      /\ dest \in 0 .. Arena /\ src \in 0 .. Arena /\ Fits(dest, destsz) /\ RSIZE_MAX \in Nat
  BY BoundedCopyAssumption DEF Given, Ended
<1>2. srclen \in Nat
  BY <1>1, LengthIsNumber
<1>3. q <=> dest < src + srclen /\ src < dest + destsz
  BY <1>1, <1>2 DEF memory_regions_overlap
<1>4. out = IF error # 0 THEN Refused(m, dest, destsz, error) ELSE Terminated(done, dest + srclen)
  BY DEF safe_strcpy
<1>5. error = 0 <=> GoodPointers(dest, destsz, src) /\ ~p /\ ~q
  <2>1. p \in BOOLEAN /\ q \in BOOLEAN
    BY <1>1, <1>2, <1>3 DEF memory_regions_overlap
  <2> HIDE DEF p, q, checks
  <2>2. EINVAL \in Nat \ {0} /\ ERANGE \in Nat \ {0} /\ more = << <<p, ERANGE>>, <<q, EINVAL>> >>
    BY DEF EINVAL, ERANGE
  <2> HIDE DEF more
  <2>3. more \in Seq(Test) /\ (FirstFailing(more) = 0 <=> ~p /\ ~q)
    BY <2>1, <2>2, TwoTests, Zenon
  <2>4. checks \in Seq(Test) /\ (FirstFailing(checks) = 0 <=> GoodPointers(dest, destsz, src))
    BY <1>1, CheckedPointers DEF checks, GoodPointers
  <2>5. QED
    BY <2>3, <2>4, JoinedTests
<1> HIDE DEF srclen, q, error, out, x
<1>6. CASE ~GoodPointers(dest, destsz, src)
  <2>1. ~FitsBeside("strcpy", x)
    BY <1>1, <1>6, FitsBesidePointers DEF x
  <2>2. QED
    BY <1>4, <1>5, <1>6, <2>1, RefusedMeets DEF x, out
<1>7. CASE GoodPointers(dest, destsz, src)
  <2>1. dest \in 1 .. Arena /\ src \in 1 .. Arena /\ dest + destsz <= Arena + 1
    BY <1>1, <1>7 DEF GoodPointers, Fits
  <2>2. "strcpy" \in Unlimited /\ "strcpy" \notin Limited
    BY DEF Unlimited, Limited
  <2>3. PICK L \in Nat : Takes("strcpy", m, dest, src, count, L, 0, L)
    BY <1>1, <2>1, <2>2, SourceTaken
  <2>4. StringOf(m, src, L) /\ srclen = IF L < RSIZE_MAX THEN L ELSE RSIZE_MAX
    BY <1>1, <2>1, <2>3, BoundedLength DEF Takes, srclen
  <2>5. FitsBeside("strcpy", x) => /\ L + 1 <= destsz /\ src \notin Inside(dest, destsz)
                                   /\ src + L \notin Inside(dest, destsz)
    <3>1. FitsBeside("strcpy", x) => /\ 0 + L + 1 <= destsz /\ src \notin Inside(dest, destsz)
                                     /\ src + L \notin Inside(dest, destsz)
      BY <1>1, <2>1, <2>2, <2>3, FitsBesideMeans DEF x
    <3>2. QED
      BY <3>1
  <2>6. CASE error # 0
    <3>1. ~FitsBeside("strcpy", x)
      BY <1>1, <1>3, <1>5, <1>7, <2>1, <2>4, <2>5, <2>6 DEF GoodPointers, Inside
    <3>2. QED
      BY <1>4, <2>6, <3>1, RefusedMeets DEF x, out
  <2>7. CASE error = 0
    <3>1. srclen = L /\ L < destsz /\ ~(dest < src + L /\ src < dest + destsz)
      BY <1>1, <1>2, <1>3, <1>5, <1>7, <2>4, <2>7 DEF GoodPointers
    <3>2. UpTo(m, src, 0, L + 1) = L + 1 /\ Fits(src, UpTo(m, src, 0, L + 1)) /\ L + 1 \in Nat
      BY <1>1, <2>1, <2>4, UpToTheTerminator
    <3>3. /\ done.error = 0 <=> (/\ dest # 0 /\ src # 0 /\ destsz <= RSIZE_MAX /\ L + 1 <= destsz
                                 /\ (src + (L + 1) <= dest \/ dest + (L + 1) <= src))
          /\ done.error = 0 => Copied(m, done.mem, dest, src, L + 1)
          /\ Bounded(m, done, dest, destsz)
      <4>1. done = safe_memccpy(m, dest, destsz, src, 0, L + 1)
        BY <3>1
      <4> HIDE DEF done
      <4>2. QED
        BY <1>1, <3>2, <4>1, CopyUpToStaysInside
    <3>4. IsResult(done)
      BY <1>1, InnerCopyIsResult
    <3> HIDE DEF done
    <3>5. FitsBeside("strcpy", x) => done.error = 0
      BY <1>1, <1>7, <2>1, <2>5, <3>1, <3>3 DEF GoodPointers, Inside
    <3>6. dest + L \in Inside(dest, destsz) /\ dest + 0 + L = dest + L /\ dest + 0 = dest /\ destsz - 0 = destsz
      BY <1>1, <3>1 DEF Inside
    <3>7. out = Terminated(done, dest + L)
      BY <1>4, <2>7, <3>1
    <3>8. Bounded(m, done, dest + 0, destsz - 0) /\ (done.error = 0 => Copied(m, done.mem, dest + 0, src, L + 1))
      BY <3>3, <3>6
    <3>9. "strcpy" \in Limited \cup Unlimited /\ L <= L + 1 /\ 0 < destsz
      BY <1>1, <2>2, <3>1
    <3>10. Meets("strcpy", x, Terminated(done, dest + L))
      BY <2>1, <2>3, <3>2, <3>4, <3>5, <3>6, <3>8, <3>9, PutMeets DEF x
    <3>11. QED
      BY <3>7, <3>10 DEF x, out
  <2>8. QED
    BY <2>6, <2>7
<1>8. QED
  BY <1>6, <1>7

LEMMA StrmoveMeets ==
    ASSUME NEW m, NEW dest, NEW destsz, NEW src, Given(m, dest, destsz, src), NEW c, NEW count \in Nat
    PROVE  Meets("strmove", CopyIn(m, dest, destsz, src, c, count), safe_strmove(m, dest, destsz, src))
<1> DEFINE srclen == safe_strnlen(m, src, RSIZE_MAX)
           p == destsz <= srclen
           checks == PointerChecks(dest, destsz, src)
           more == << <<p, ERANGE>> >>
           error == FirstFailing(checks \o more)
           done == safe_memcmove(m, dest, destsz, src, 0, srclen + 1)
           out == safe_strmove(m, dest, destsz, src)
           x == CopyIn(m, dest, destsz, src, c, count)
<1>1. /\ m \in Memories /\ Ended(m) /\ dest \in Nat /\ destsz \in Nat /\ src \in Nat
      /\ dest \in 0 .. Arena /\ src \in 0 .. Arena /\ Fits(dest, destsz) /\ RSIZE_MAX \in Nat
  BY BoundedCopyAssumption DEF Given, Ended
<1>2. srclen \in Nat
  BY <1>1, LengthIsNumber
<1>3. out = IF error # 0 THEN Refused(m, dest, destsz, error) ELSE Terminated(done, dest + srclen)
  BY DEF safe_strmove
<1>4. error = 0 <=> GoodPointers(dest, destsz, src) /\ ~p
  <2>1. p \in BOOLEAN
    OBVIOUS
  <2> HIDE DEF p, checks
  <2>2. ERANGE \in Nat \ {0} /\ more = << <<p, ERANGE>> >>
    BY DEF ERANGE
  <2> HIDE DEF more
  <2>3. more \in Seq(Test) /\ (FirstFailing(more) = 0 <=> ~p)
    BY <2>1, <2>2, OneTest, Zenon
  <2>4. checks \in Seq(Test) /\ (FirstFailing(checks) = 0 <=> GoodPointers(dest, destsz, src))
    BY <1>1, CheckedPointers DEF checks, GoodPointers
  <2>5. QED
    BY <2>3, <2>4, JoinedTests
<1> HIDE DEF srclen, error, out, x
<1>5. CASE ~GoodPointers(dest, destsz, src)
  <2>1. ~FitsBeside("strmove", x)
    BY <1>1, <1>5, FitsBesidePointers DEF x
  <2>2. QED
    BY <1>3, <1>4, <1>5, <2>1, RefusedMeets DEF x, out
<1>6. CASE GoodPointers(dest, destsz, src)
  <2>1. dest \in 1 .. Arena /\ src \in 1 .. Arena /\ dest + destsz <= Arena + 1
    BY <1>1, <1>6 DEF GoodPointers, Fits
  <2>2. "strmove" \in Unlimited /\ "strmove" \notin Limited
    BY DEF Unlimited, Limited
  <2>3. PICK L \in Nat : Takes("strmove", m, dest, src, count, L, 0, L)
    BY <1>1, <2>1, <2>2, SourceTaken
  <2>4. StringOf(m, src, L) /\ srclen = IF L < RSIZE_MAX THEN L ELSE RSIZE_MAX
    BY <1>1, <2>1, <2>3, BoundedLength DEF Takes, srclen
  <2>5. FitsBeside("strmove", x) => /\ L + 1 <= destsz /\ src \notin Inside(dest, destsz)
                                   /\ src + L \notin Inside(dest, destsz)
    <3>1. FitsBeside("strmove", x) => /\ 0 + L + 1 <= destsz /\ src \notin Inside(dest, destsz)
                                     /\ src + L \notin Inside(dest, destsz)
      BY <1>1, <2>1, <2>2, <2>3, FitsBesideMeans DEF x
    <3>2. QED
      BY <3>1
  <2>6. CASE error # 0
    <3>1. ~FitsBeside("strmove", x)
      BY <1>1, <1>4, <1>6, <2>1, <2>4, <2>5, <2>6 DEF GoodPointers, Inside
    <3>2. QED
      BY <1>3, <2>6, <3>1, RefusedMeets DEF x, out
  <2>7. CASE error = 0
    <3>1. srclen = L /\ L < destsz
      BY <1>1, <1>2, <1>4, <1>6, <2>4, <2>7 DEF GoodPointers
    <3>2. UpTo(m, src, 0, L + 1) = L + 1 /\ Fits(src, UpTo(m, src, 0, L + 1)) /\ L + 1 \in Nat
      BY <1>1, <2>1, <2>4, UpToTheTerminator
    <3>3. /\ done.error = 0 <=> (/\ dest # 0 /\ src # 0 /\ destsz <= RSIZE_MAX /\ L + 1 <= destsz /\ dest # src)
          /\ done.error = 0 => Copied(m, done.mem, dest, src, L + 1)
          /\ Bounded(m, done, dest, destsz)
      <4>1. done = safe_memcmove(m, dest, destsz, src, 0, L + 1)
        BY <3>1
      <4> HIDE DEF done
      <4>2. QED
        BY <1>1, <3>2, <4>1, MoveUpToStaysInside
    <3>4. IsResult(done)
      BY <1>1, InnerCopyIsResult
    <3> HIDE DEF done
    <3>5. FitsBeside("strmove", x) => done.error = 0
      BY <1>1, <1>6, <2>1, <2>5, <3>1, <3>3 DEF GoodPointers, Inside
    <3>6. dest + L \in Inside(dest, destsz) /\ dest + 0 + L = dest + L /\ dest + 0 = dest /\ destsz - 0 = destsz
      BY <1>1, <3>1 DEF Inside
    <3>7. out = Terminated(done, dest + L)
      BY <1>3, <2>7, <3>1
    <3>8. Bounded(m, done, dest + 0, destsz - 0) /\ (done.error = 0 => Copied(m, done.mem, dest + 0, src, L + 1))
      BY <3>3, <3>6
    <3>9. "strmove" \in Limited \cup Unlimited /\ L <= L + 1 /\ 0 < destsz
      BY <1>1, <2>2, <3>1
    <3>10. Meets("strmove", x, Terminated(done, dest + L))
      BY <2>1, <2>3, <3>2, <3>4, <3>5, <3>6, <3>8, <3>9, PutMeets DEF x
    <3>11. QED
      BY <3>7, <3>10 DEF x, out
  <2>8. QED
    BY <2>6, <2>7
<1>7. QED
  BY <1>5, <1>6

LEMMA StrncpyMeets ==
    ASSUME NEW m, NEW dest, NEW destsz, NEW src, Given(m, dest, destsz, src), NEW c, NEW count \in Nat
    PROVE  Meets("strncpy", CopyIn(m, dest, destsz, src, c, count), safe_strncpy(m, dest, destsz, src, count))
<1> DEFINE srclen == safe_strnlen(m, src, count)
           p == count > RSIZE_MAX
           r == count >= destsz /\ destsz <= srclen
           q == memory_regions_overlap(dest, destsz, src, count)
           checks == PointerChecks(dest, destsz, src)
           more == << <<p, ERANGE>>, <<r, ERANGE>> >>
           last == << <<q, EINVAL>> >>
           error == FirstFailing((checks \o more) \o last)
           done == safe_memccpy(m, dest, destsz, src, 0, count)
           out == safe_strncpy(m, dest, destsz, src, count)
           x == CopyIn(m, dest, destsz, src, c, count)
<1>1. /\ m \in Memories /\ Ended(m) /\ dest \in Nat /\ destsz \in Nat /\ src \in Nat
      /\ dest \in 0 .. Arena /\ src \in 0 .. Arena /\ Fits(dest, destsz) /\ RSIZE_MAX \in Nat
  BY BoundedCopyAssumption DEF Given, Ended
<1>2. srclen \in Nat
  BY <1>1, LengthIsNumber
<1>3. out = IF error # 0 THEN Refused(m, dest, destsz, error)
            ELSE Terminated(done, dest + (IF srclen < count THEN srclen ELSE count))
  BY DEF safe_strncpy, CountedChecks
<1>4. error = 0 <=> GoodPointers(dest, destsz, src) /\ ~p /\ ~r /\ ~q
  <2>1. p \in BOOLEAN /\ r \in BOOLEAN /\ q \in BOOLEAN
    BY <1>1, <1>2 DEF memory_regions_overlap
  <2> HIDE DEF p, q, r, checks
  <2>2. /\ EINVAL \in Nat \ {0} /\ ERANGE \in Nat \ {0}
        /\ more = << <<p, ERANGE>>, <<r, ERANGE>> >> /\ last = << <<q, EINVAL>> >>
    BY DEF EINVAL, ERANGE
  <2> HIDE DEF more, last
  <2>3. more \in Seq(Test) /\ (FirstFailing(more) = 0 <=> ~p /\ ~r)
    BY <2>1, <2>2, TwoTests, Zenon
  <2>4. last \in Seq(Test) /\ (FirstFailing(last) = 0 <=> ~q)
    BY <2>1, <2>2, OneTest, Zenon
  <2>5. checks \in Seq(Test) /\ (FirstFailing(checks) = 0 <=> GoodPointers(dest, destsz, src))
    BY <1>1, CheckedPointers DEF checks, GoodPointers
  <2> DEFINE both == checks \o more
  <2>6. both \in Seq(Test) /\ (FirstFailing(both) = 0 <=> GoodPointers(dest, destsz, src) /\ ~p /\ ~r)
    BY <2>3, <2>5, JoinedTests
  <2>7. error = FirstFailing(both \o last)
    OBVIOUS
  <2> HIDE DEF both, error
  <2>8. QED
    BY <2>4, <2>6, <2>7, JoinedTests
<1> HIDE DEF srclen, q, error, out, x
<1>5. "strncpy" \in Limited \cup Unlimited /\ "strncpy" \in Limited /\ ~FitsBeside("strncpy", x)
  BY DEF Limited, Unlimited, FitsBeside
<1>6. CASE error # 0
  BY <1>3, <1>5, <1>6, RefusedMeets DEF x, out
<1>7. CASE error = 0
  <2>1. dest \in 1 .. Arena /\ src \in 1 .. Arena /\ dest + destsz <= Arena + 1 /\ dest # 0 /\ src # 0
    BY <1>1, <1>4, <1>7 DEF GoodPointers, Fits
  <2>2. PICK L \in Nat : Takes("strncpy", m, dest, src, count, L, 0, IF "strncpy" \in Limited /\ count < L THEN count ELSE L)
    BY <1>1, <2>1, SourceTaken
  <2> DEFINE k == IF count < L THEN count ELSE L
             n == IF L < count THEN L + 1 ELSE count
  <2>3. Takes("strncpy", m, dest, src, count, L, 0, k)
    BY <1>5, <2>2
  <2>4. StringOf(m, src, L) /\ srclen = IF L < count THEN L ELSE count
    BY <1>1, <2>1, <2>2, BoundedLength DEF Takes, srclen
  <2>5. k \in Nat /\ n \in Nat /\ k <= n /\ k < destsz /\ (IF srclen < count THEN srclen ELSE count) = k
    BY <1>1, <1>4, <1>7, <2>4
  <2>6. UpTo(m, src, 0, count) = n /\ Fits(src, UpTo(m, src, 0, count))
    BY <2>1, <1>1, <2>4, UpToTheTerminator
  <2>7. out = Terminated(done, dest + k)
    BY <1>3, <1>7, <2>5
  <2> HIDE DEF k, n
  <2>8. /\ done.error = 0 <=> (/\ dest # 0 /\ src # 0 /\ destsz <= RSIZE_MAX /\ count <= destsz
                                 /\ (src + count <= dest \/ dest + count <= src))
        /\ done.error = 0 => Copied(m, done.mem, dest, src, n)
        /\ Bounded(m, done, dest, destsz)
    BY <1>1, <2>6, CopyUpToStaysInside
  <2>9. IsResult(done)
    BY <1>1, InnerCopyIsResult
  <2> HIDE DEF done
  <2>10. dest + k \in Inside(dest, destsz) /\ dest + 0 + k = dest + k /\ dest + 0 = dest /\ destsz - 0 = destsz
         /\ 0 < destsz
    BY <1>1, <2>5 DEF Inside
  <2>11. Bounded(m, done, dest + 0, destsz - 0) /\ (done.error = 0 => Copied(m, done.mem, dest + 0, src, n))
    BY <2>8, <2>10
  <2>12. Meets("strncpy", x, Terminated(done, dest + k))
    BY <1>5, <2>1, <2>3, <2>5, <2>9, <2>10, <2>11, PutMeets DEF x
  <2>13. QED
    BY <2>7, <2>12 DEF x, out
<1>8. QED
  BY <1>6, <1>7

LEMMA StrnmoveMeets ==
    ASSUME NEW m, NEW dest, NEW destsz, NEW src, Given(m, dest, destsz, src), NEW c, NEW count \in Nat
    PROVE  Meets("strnmove", CopyIn(m, dest, destsz, src, c, count), safe_strnmove(m, dest, destsz, src, count))
<1> DEFINE srclen == safe_strnlen(m, src, count)
           p == count > RSIZE_MAX
           r == count >= destsz /\ destsz <= srclen
           checks == PointerChecks(dest, destsz, src)
           more == << <<p, ERANGE>>, <<r, ERANGE>> >>
           error == FirstFailing(checks \o more)
           done == safe_memcmove(m, dest, destsz, src, 0, count)
           out == safe_strnmove(m, dest, destsz, src, count)
           x == CopyIn(m, dest, destsz, src, c, count)
<1>1. /\ m \in Memories /\ Ended(m) /\ dest \in Nat /\ destsz \in Nat /\ src \in Nat
      /\ dest \in 0 .. Arena /\ src \in 0 .. Arena /\ Fits(dest, destsz) /\ RSIZE_MAX \in Nat
  BY BoundedCopyAssumption DEF Given, Ended
<1>2. srclen \in Nat
  BY <1>1, LengthIsNumber
<1>3. out = IF error # 0 THEN Refused(m, dest, destsz, error)
            ELSE Terminated(done, dest + (IF srclen < count THEN srclen ELSE count))
  BY DEF safe_strnmove, CountedChecks
<1>4. error = 0 <=> GoodPointers(dest, destsz, src) /\ ~p /\ ~r
  <2>1. p \in BOOLEAN /\ r \in BOOLEAN
    BY <1>1, <1>2
  <2> HIDE DEF p, r, checks
  <2>2. EINVAL \in Nat \ {0} /\ ERANGE \in Nat \ {0} /\ more = << <<p, ERANGE>>, <<r, ERANGE>> >>
    BY DEF EINVAL, ERANGE
  <2> HIDE DEF more
  <2>3. more \in Seq(Test) /\ (FirstFailing(more) = 0 <=> ~p /\ ~r)
    BY <2>1, <2>2, TwoTests, Zenon
  <2>4. checks \in Seq(Test) /\ (FirstFailing(checks) = 0 <=> GoodPointers(dest, destsz, src))
    BY <1>1, CheckedPointers DEF checks, GoodPointers
  <2>5. QED
    BY <2>3, <2>4, JoinedTests
<1> HIDE DEF srclen, error, out, x
<1>5. "strnmove" \in Limited \cup Unlimited /\ "strnmove" \in Limited /\ ~FitsBeside("strnmove", x)
  BY DEF Limited, Unlimited, FitsBeside
<1>6. CASE error # 0
  BY <1>3, <1>5, <1>6, RefusedMeets DEF x, out
<1>7. CASE error = 0
  <2>1. dest \in 1 .. Arena /\ src \in 1 .. Arena /\ dest + destsz <= Arena + 1 /\ dest # 0 /\ src # 0
    BY <1>1, <1>4, <1>7 DEF GoodPointers, Fits
  <2>2. PICK L \in Nat : Takes("strnmove", m, dest, src, count, L, 0, IF "strnmove" \in Limited /\ count < L THEN count ELSE L)
    BY <1>1, <2>1, SourceTaken
  <2> DEFINE k == IF count < L THEN count ELSE L
             n == IF L < count THEN L + 1 ELSE count
  <2>3. Takes("strnmove", m, dest, src, count, L, 0, k)
    BY <1>5, <2>2
  <2>4. StringOf(m, src, L) /\ srclen = IF L < count THEN L ELSE count
    BY <1>1, <2>1, <2>2, BoundedLength DEF Takes, srclen
  <2>5. k \in Nat /\ n \in Nat /\ k <= n /\ k < destsz /\ (IF srclen < count THEN srclen ELSE count) = k
    BY <1>1, <1>4, <1>7, <2>4
  <2>6. UpTo(m, src, 0, count) = n /\ Fits(src, UpTo(m, src, 0, count))
    BY <2>1, <1>1, <2>4, UpToTheTerminator
  <2>7. out = Terminated(done, dest + k)
    BY <1>3, <1>7, <2>5
  <2> HIDE DEF k, n
  <2>8. /\ done.error = 0 <=> (/\ dest # 0 /\ src # 0 /\ destsz <= RSIZE_MAX /\ count <= destsz
                                 /\ dest # src)
        /\ done.error = 0 => Copied(m, done.mem, dest, src, n)
        /\ Bounded(m, done, dest, destsz)
    BY <1>1, <2>6, MoveUpToStaysInside
  <2>9. IsResult(done)
    BY <1>1, InnerCopyIsResult
  <2> HIDE DEF done
  <2>10. dest + k \in Inside(dest, destsz) /\ dest + 0 + k = dest + k /\ dest + 0 = dest /\ destsz - 0 = destsz
         /\ 0 < destsz
    BY <1>1, <2>5 DEF Inside
  <2>11. Bounded(m, done, dest + 0, destsz - 0) /\ (done.error = 0 => Copied(m, done.mem, dest + 0, src, n))
    BY <2>8, <2>10
  <2>12. Meets("strnmove", x, Terminated(done, dest + k))
    BY <1>5, <2>1, <2>3, <2>5, <2>9, <2>10, <2>11, PutMeets DEF x
  <2>13. QED
    BY <2>7, <2>12 DEF x, out
<1>8. QED
  BY <1>6, <1>7

\* The source and the destination are strings, and what is copied of the source.
LEMMA BothTaken ==
    ASSUME NEW f \in Appending, NEW m, Ended(m), NEW dest \in 1 .. Arena, NEW src \in 1 .. Arena, NEW count \in Nat
    PROVE  \E L \in Nat, Ld \in Nat :
               Takes(f, m, dest, src, count, L, Ld, IF f \in Limited /\ count < L THEN count ELSE L)
<1>1. PICK L \in Nat : StringOf(m, src, L) /\ StringAt(m, src) = BytesAt(m, src, L)
  BY StringsEnd
<1>2. PICK Ld \in Nat : StringOf(m, dest, Ld) /\ StringAt(m, dest) = BytesAt(m, dest, Ld)
  BY StringsEnd
<1>3. QED
  BY <1>1, <1>2 DEF Takes

\* The room behind the string at the destination.
LEMMA RoomLeft ==
    ASSUME NEW m, Ended(m), NEW dest \in 1 .. Arena, NEW destsz \in Nat, Fits(dest, destsz),
           NEW Ld \in Nat, StringOf(m, dest, Ld)
    PROVE  /\ DestNull(m, dest, destsz) = 0 <=> Ld >= destsz
           /\ Ld < destsz => /\ DestNull(m, dest, destsz) = dest + Ld
                             /\ destsz - (DestNull(m, dest, destsz) - dest) = destsz - Ld
                             /\ destsz - Ld \in Nat /\ dest + Ld \in Nat /\ Fits(dest + Ld, destsz - Ld)
<1>1. dest + destsz <= Arena + 1
  BY DEF Fits
<1>2. DestNull(m, dest, destsz) = IF Ld < destsz THEN dest + Ld ELSE 0
  BY <1>1, FoundTerminator
<1>3. QED
  BY <1>1, <1>2, BoundedCopyAssumption DEF Fits

LEMMA StrcatMeets ==
    ASSUME NEW m, NEW dest, NEW destsz, NEW src, Given(m, dest, destsz, src), NEW c, NEW count \in Nat
    PROVE  Meets("strcat", CopyIn(m, dest, destsz, src, c, count), safe_strcat(m, dest, destsz, src))
<1> DEFINE srclen == safe_strnlen(m, src, RSIZE_MAX)
           destnull == DestNull(m, dest, destsz)
           room == destsz - (destnull - dest)
           bad == FirstFailing(PointerChecks(dest, destsz, src))
           p == room <= srclen
           q == memory_regions_overlap(dest, destsz, src, srclen)
           error == FirstFailing(<< <<p, ERANGE>>, <<q, EINVAL>> >>)
           done == safe_memccpy(m, destnull, room, src, 0, srclen)
           out == safe_strcat(m, dest, destsz, src)
           x == CopyIn(m, dest, destsz, src, c, count)
<1>1. /\ m \in Memories /\ Ended(m) /\ dest \in Nat /\ destsz \in Nat /\ src \in Nat
      /\ dest \in 0 .. Arena /\ src \in 0 .. Arena /\ Fits(dest, destsz) /\ RSIZE_MAX \in Nat
  BY BoundedCopyAssumption DEF Given, Ended
<1>2. srclen \in Nat
  BY <1>1, LengthIsNumber
<1>3. out = IF bad # 0 THEN Refused(m, dest, destsz, bad)
            ELSE IF destnull = 0 THEN Result(EINVAL, m)
            ELSE IF error # 0 THEN Refused(m, dest, destsz, error)
            ELSE Terminated(done, destnull + srclen)
  BY DEF safe_strcat
<1>4. error = 0 <=> ~p /\ ~q
  <2> DEFINE tests == << <<p, ERANGE>>, <<q, EINVAL>> >>
  <2>1. p \in BOOLEAN /\ q \in BOOLEAN
    BY <1>1, <1>2 DEF memory_regions_overlap
  <2>2. EINVAL \in Nat \ {0} /\ ERANGE \in Nat \ {0} /\ tests = << <<p, ERANGE>>, <<q, EINVAL>> >>
        /\ error = FirstFailing(tests)
    BY DEF EINVAL, ERANGE
  <2> HIDE DEF p, q, tests, error
  <2>3. FirstFailing(tests) = 0 <=> ~p /\ ~q
    BY <2>1, <2>2, TwoTests, Zenon
  <2>4. QED
    BY <2>2, <2>3
<1>5. q <=> dest < src + srclen /\ src < dest + destsz
  BY <1>1, <1>2 DEF memory_regions_overlap
<1>6. bad = 0 <=> GoodPointers(dest, destsz, src)
  BY <1>1, CheckedPointers DEF GoodPointers
<1>7. "strcat" \in Limited \cup Unlimited /\ "strcat" \in Appending
      /\ "strcat" \notin Limited /\ "strcat" \in Unlimited
  BY DEF Limited, Unlimited, Appending
<1> HIDE DEF srclen, destnull, bad, q, error, out, x
<1>8. CASE bad # 0
  <2>1. ~FitsBeside("strcat", x)
    BY <1>1, <1>6, <1>8, FitsBesidePointers DEF x
  <2>2. QED
    BY <1>3, <1>8, <2>1, RefusedMeets DEF x, out
<1>9. CASE bad = 0
  <2>1. dest \in 1 .. Arena /\ src \in 1 .. Arena /\ dest + destsz <= Arena + 1 /\ dest # 0 /\ src # 0
    BY <1>1, <1>6, <1>9 DEF GoodPointers, Fits
  <2>2. PICK L \in Nat, Ld \in Nat :
            Takes("strcat", m, dest, src, count, L, Ld, IF "strcat" \in Limited /\ count < L THEN count ELSE L)
    BY <1>1, <1>7, <2>1, BothTaken
  <2> DEFINE k == L
             n == L
  <2>3. Takes("strcat", m, dest, src, count, L, Ld, k)
    BY <1>7, <2>2
  <2>4. StringOf(m, src, L) /\ StringOf(m, dest, Ld) /\ k \in Nat /\ n \in Nat
    BY <1>7, <2>2 DEF Takes
  <2>5. srclen = IF L < RSIZE_MAX THEN L ELSE RSIZE_MAX
    BY <1>1, <2>1, <2>4, BoundedLength DEF srclen
  <2>6. /\ destnull = 0 <=> Ld >= destsz
        /\ Ld < destsz => /\ destnull = dest + Ld /\ room = destsz - Ld /\ destsz - Ld \in Nat
                          /\ dest + Ld \in Nat /\ Fits(dest + Ld, destsz - Ld)
    BY <1>1, <2>1, <2>4, RoomLeft DEF destnull
  <2>7. FitsBeside("strcat", x) => /\ Ld + L + 1 <= destsz /\ src \notin Inside(dest, destsz)
                                   /\ src + L \notin Inside(dest, destsz)
    BY <1>1, <1>7, <2>1, <2>3, FitsBesideMeans DEF x
  <2>8. CASE destnull = 0
    <3>1. ~FitsBeside("strcat", x)
      BY <1>1, <2>4, <2>6, <2>7, <2>8
    <3>2. \E e : e # 0 /\ out = Result(e, m)
      BY <1>3, <1>9, <2>8 DEF EINVAL, ERANGE
    <3>3. QED
      BY <1>7, <3>1, <3>2, RefusedMeets DEF x, out
  <2>9. CASE destnull # 0 /\ error # 0
    <3>1. ~FitsBeside("strcat", x)
      BY <1>1, <1>6, <1>9, <1>4, <1>5, <2>1, <2>4, <2>5, <2>6, <2>7, <2>9 DEF GoodPointers, Inside
    <3>2. out = Refused(m, dest, destsz, error) /\ error # 0
      BY <1>3, <1>9, <2>9 DEF ERANGE
    <3>3. QED
      BY <3>1, <3>2, RefusedMeets DEF x, out
  <2>10. CASE destnull # 0 /\ error = 0
    <3>1. Ld < destsz /\ destnull = dest + Ld /\ room = destsz - Ld /\ srclen < destsz - Ld
      BY <1>1, <1>2, <1>4, <2>4, <2>6, <2>10
    <3>2. srclen = L
      BY <1>1, <1>2, <1>6, <1>9, <2>4, <2>5, <3>1 DEF GoodPointers
    <3>3. UpTo(m, src, 0, L) = n /\ Fits(src, UpTo(m, src, 0, L)) /\ L \in Nat
      BY <1>1, <2>1, <2>4, UpToTheTerminator
    <3>4. out = Terminated(done, dest + Ld + L)
      BY <1>3, <1>9, <2>10, <3>1, <3>2
    <3>5. done = safe_memccpy(m, dest + Ld, destsz - Ld, src, 0, L)
      BY <3>1, <3>2
    <3>6. k <= n /\ dest + Ld + L \in Inside(dest, destsz)
          /\ \/ dest + Ld + L = dest + Ld + k
             \/ dest + Ld + L > dest + Ld + k /\ k < n /\ m[src + k] = 0
      BY <1>1, <2>4, <3>1, <3>2 DEF Inside, StringOf
    <3>7. n \in Nat
      BY <2>4
    <3> HIDE DEF k, n, done
    <3>8. /\ done.error = 0 <=> (/\ dest + Ld # 0 /\ src # 0 /\ destsz - Ld <= RSIZE_MAX /\ L <= destsz - Ld
                                 /\ (src + L <= dest + Ld \/ (dest + Ld) + L <= src))
          /\ done.error = 0 => Copied(m, done.mem, dest + Ld, src, n)
          /\ Bounded(m, done, dest + Ld, destsz - Ld)
      BY <1>1, <2>6, <3>1, <3>3, <3>5, CopyUpToStaysInside
    <3>9. IsResult(done)
      BY <2>6, <3>1, <3>5, InnerCopyIsResult
    <3>10. FitsBeside("strcat", x) => done.error = 0
      BY <1>1, <1>6, <1>9, <1>4, <1>5, <2>1, <2>4, <2>7, <2>10, <3>1, <3>2, <3>8 DEF GoodPointers, Inside
    <3>11. Meets("strcat", x, Terminated(done, dest + Ld + L))
      BY <1>7, <2>1, <2>3, <3>1, <3>6, <3>7, <3>8, <3>9, <3>10, PutMeets DEF x
    <3>12. QED
      BY <3>4, <3>11 DEF x, out
  <2>11. QED
    BY <2>8, <2>9, <2>10
<1>10. QED
  BY <1>8, <1>9

LEMMA StrcatmoveMeets ==
    ASSUME NEW m, NEW dest, NEW destsz, NEW src, Given(m, dest, destsz, src), NEW c, NEW count \in Nat
    PROVE  Meets("strcatmove", CopyIn(m, dest, destsz, src, c, count), safe_strcatmove(m, dest, destsz, src))
<1> DEFINE srclen == safe_strnlen(m, src, RSIZE_MAX)
           destnull == DestNull(m, dest, destsz)
           room == destsz - (destnull - dest)
           bad == FirstFailing(PointerChecks(dest, destsz, src))
           p == room <= srclen
           done == safe_memcmove(m, destnull, room, src, 0, srclen + 1)
           out == safe_strcatmove(m, dest, destsz, src)
           x == CopyIn(m, dest, destsz, src, c, count)
<1>1. /\ m \in Memories /\ Ended(m) /\ dest \in Nat /\ destsz \in Nat /\ src \in Nat
      /\ dest \in 0 .. Arena /\ src \in 0 .. Arena /\ Fits(dest, destsz) /\ RSIZE_MAX \in Nat
  BY BoundedCopyAssumption DEF Given, Ended
<1>2. srclen \in Nat
  BY <1>1, LengthIsNumber
<1>3. out = IF bad # 0 THEN Refused(m, dest, destsz, bad)
            ELSE IF destnull = 0 THEN Result(EINVAL, m)
            ELSE IF p THEN Refused(m, dest, destsz, ERANGE)
            ELSE Terminated(done, destnull + srclen)
  BY DEF safe_strcatmove
<1>4. ERANGE # 0
  BY DEF ERANGE
<1>5. EINVAL # 0
  BY DEF EINVAL
<1>6. bad = 0 <=> GoodPointers(dest, destsz, src)
  BY <1>1, CheckedPointers DEF GoodPointers
<1>7. "strcatmove" \in Limited \cup Unlimited /\ "strcatmove" \in Appending
      /\ "strcatmove" \notin Limited /\ "strcatmove" \in Unlimited
  BY DEF Limited, Unlimited, Appending
<1> HIDE DEF srclen, destnull, bad, out, x
<1>8. CASE bad # 0
  <2>1. ~FitsBeside("strcatmove", x)
    BY <1>1, <1>6, <1>8, FitsBesidePointers DEF x
  <2>2. QED
    BY <1>3, <1>8, <2>1, RefusedMeets DEF x, out
<1>9. CASE bad = 0
  <2>1. dest \in 1 .. Arena /\ src \in 1 .. Arena /\ dest + destsz <= Arena + 1 /\ dest # 0 /\ src # 0
    BY <1>1, <1>6, <1>9 DEF GoodPointers, Fits
  <2>2. PICK L \in Nat, Ld \in Nat :
            Takes("strcatmove", m, dest, src, count, L, Ld, IF "strcatmove" \in Limited /\ count < L THEN count ELSE L)
    BY <1>1, <1>7, <2>1, BothTaken
  <2> DEFINE k == L
             n == L + 1
  <2>3. Takes("strcatmove", m, dest, src, count, L, Ld, k)
    BY <1>7, <2>2
  <2>4. StringOf(m, src, L) /\ StringOf(m, dest, Ld) /\ k \in Nat /\ n \in Nat
    BY <1>7, <2>2 DEF Takes
  <2>5. srclen = IF L < RSIZE_MAX THEN L ELSE RSIZE_MAX
    BY <1>1, <2>1, <2>4, BoundedLength DEF srclen
  <2>6. /\ destnull = 0 <=> Ld >= destsz
        /\ Ld < destsz => /\ destnull = dest + Ld /\ room = destsz - Ld /\ destsz - Ld \in Nat
                          /\ dest + Ld \in Nat /\ Fits(dest + Ld, destsz - Ld)
    BY <1>1, <2>1, <2>4, RoomLeft DEF destnull
  <2>7. FitsBeside("strcatmove", x) => /\ Ld + L + 1 <= destsz /\ src \notin Inside(dest, destsz)
                                   /\ src + L \notin Inside(dest, destsz)
    BY <1>1, <1>7, <2>1, <2>3, FitsBesideMeans DEF x
  <2>8. CASE destnull = 0
    <3>1. ~FitsBeside("strcatmove", x)
      BY <1>1, <2>4, <2>6, <2>7, <2>8
    <3>2. \E e : e # 0 /\ out = Result(e, m)
      BY <1>3, <1>9, <2>8 DEF EINVAL, ERANGE
    <3>3. QED
      BY <1>7, <3>1, <3>2, RefusedMeets DEF x, out
  <2>9. CASE destnull # 0 /\ p
    <3>1. ~FitsBeside("strcatmove", x)
      BY <1>1, <1>6, <1>9, <2>1, <2>4, <2>5, <2>6, <2>7, <2>9 DEF GoodPointers, Inside
    <3>2. out = Refused(m, dest, destsz, ERANGE) /\ ERANGE # 0
      BY <1>3, <1>9, <2>9 DEF ERANGE
    <3>3. QED
      BY <3>1, <3>2, RefusedMeets DEF x, out
  <2>10. CASE destnull # 0 /\ ~p
    <3>1. Ld < destsz /\ destnull = dest + Ld /\ room = destsz - Ld /\ srclen < destsz - Ld
      BY <1>1, <1>2, <1>4, <2>4, <2>6, <2>10
    <3>2. srclen = L
      BY <1>1, <1>2, <1>6, <1>9, <2>4, <2>5, <3>1 DEF GoodPointers
    <3>3. UpTo(m, src, 0, L + 1) = n /\ Fits(src, UpTo(m, src, 0, L + 1)) /\ L + 1 \in Nat
      BY <1>1, <2>1, <2>4, UpToTheTerminator
    <3>4. out = Terminated(done, dest + Ld + L)
      BY <1>3, <1>9, <2>10, <3>1, <3>2
    <3>5. done = safe_memcmove(m, dest + Ld, destsz - Ld, src, 0, L + 1)
      BY <3>1, <3>2
    <3>6. k <= n /\ dest + Ld + L \in Inside(dest, destsz)
          /\ \/ dest + Ld + L = dest + Ld + k
             \/ dest + Ld + L > dest + Ld + k /\ k < n /\ m[src + k] = 0
      BY <1>1, <2>4, <3>1, <3>2 DEF Inside, StringOf
    <3>7. n \in Nat
      BY <2>4
    <3> HIDE DEF k, n, done
    <3>8. /\ done.error = 0 <=> (/\ dest + Ld # 0 /\ src # 0 /\ destsz - Ld <= RSIZE_MAX /\ L + 1 <= destsz - Ld
                                 /\ dest + Ld # src)
          /\ done.error = 0 => Copied(m, done.mem, dest + Ld, src, n)
          /\ Bounded(m, done, dest + Ld, destsz - Ld)
      BY <1>1, <2>6, <3>1, <3>3, <3>5, MoveUpToStaysInside
    <3>9. IsResult(done)
      BY <2>6, <3>1, <3>5, InnerCopyIsResult
    <3>10. FitsBeside("strcatmove", x) => done.error = 0
      BY <1>1, <1>6, <1>9, <2>1, <2>4, <2>7, <2>10, <3>1, <3>2, <3>8 DEF GoodPointers, Inside
    <3>11. Meets("strcatmove", x, Terminated(done, dest + Ld + L))
      BY <1>7, <2>1, <2>3, <3>1, <3>6, <3>7, <3>8, <3>9, <3>10, PutMeets DEF x
    <3>12. QED
      BY <3>4, <3>11 DEF x, out
  <2>11. QED
    BY <2>8, <2>9, <2>10
<1>10. QED
  BY <1>8, <1>9

LEMMA StrncatMeets ==
    ASSUME NEW m, NEW dest, NEW destsz, NEW src, Given(m, dest, destsz, src), NEW c, NEW count \in Nat
    PROVE  Meets("strncat", CopyIn(m, dest, destsz, src, c, count), safe_strncat(m, dest, destsz, src, count))
<1> DEFINE srclen == safe_strnlen(m, src, destsz)
           destnull == DestNull(m, dest, destsz)
           room == destsz - (destnull - dest)
           bad == FirstFailing(PointerChecks(dest, destsz, src))
           p == room <= srclen \/ room <= count
           q == memory_regions_overlap(dest, destsz, src, count)
           error == FirstFailing(<< <<p, ERANGE>>, <<q, EINVAL>> >>)
           done == safe_memccpy(m, destnull, room, src, 0, count)
           out == safe_strncat(m, dest, destsz, src, count)
           x == CopyIn(m, dest, destsz, src, c, count)
<1>1. /\ m \in Memories /\ Ended(m) /\ dest \in Nat /\ destsz \in Nat /\ src \in Nat
      /\ dest \in 0 .. Arena /\ src \in 0 .. Arena /\ Fits(dest, destsz) /\ RSIZE_MAX \in Nat
  BY BoundedCopyAssumption DEF Given, Ended
<1>2. srclen \in Nat
  BY <1>1, LengthIsNumber
<1>3. out = IF bad # 0 THEN Refused(m, dest, destsz, bad)
            ELSE IF count = 0 \/ count > RSIZE_MAX THEN Result(ERANGE, m)
            ELSE IF destnull = 0 THEN Result(EINVAL, m)
            ELSE IF error # 0 THEN Refused(m, dest, destsz, error)
            ELSE Terminated(done, destnull + count)
  BY DEF safe_strncat
<1>4. error = 0 <=> ~p /\ ~q
  <2> DEFINE tests == << <<p, ERANGE>>, <<q, EINVAL>> >>
  <2>1. p \in BOOLEAN /\ q \in BOOLEAN
    BY <1>1, <1>2 DEF memory_regions_overlap
  <2>2. EINVAL \in Nat \ {0} /\ ERANGE \in Nat \ {0} /\ tests = << <<p, ERANGE>>, <<q, EINVAL>> >>
        /\ error = FirstFailing(tests)
    BY DEF EINVAL, ERANGE
  <2> HIDE DEF p, q, tests, error
  <2>3. FirstFailing(tests) = 0 <=> ~p /\ ~q
    BY <2>1, <2>2, TwoTests, Zenon
  <2>4. QED
    BY <2>2, <2>3
<1>5. q <=> dest < src + count /\ src < dest + destsz
  BY <1>1, <1>2 DEF memory_regions_overlap
<1>6. bad = 0 <=> GoodPointers(dest, destsz, src)
  BY <1>1, CheckedPointers DEF GoodPointers
<1>7. "strncat" \in Limited \cup Unlimited /\ "strncat" \in Appending
      /\ "strncat" \in Limited /\ "strncat" \notin Unlimited
  BY DEF Limited, Unlimited, Appending
<1> HIDE DEF srclen, destnull, bad, q, error, out, x
<1>8. CASE bad # 0
  <2>1. ~FitsBeside("strncat", x)
    BY <1>1, <1>6, <1>8, FitsBesidePointers DEF x
  <2>2. QED
    BY <1>3, <1>8, <2>1, RefusedMeets DEF x, out
<1>9. CASE bad = 0
  <2>1. dest \in 1 .. Arena /\ src \in 1 .. Arena /\ dest + destsz <= Arena + 1 /\ dest # 0 /\ src # 0
    BY <1>1, <1>6, <1>9 DEF GoodPointers, Fits
  <2>2. PICK L \in Nat, Ld \in Nat :
            Takes("strncat", m, dest, src, count, L, Ld, IF "strncat" \in Limited /\ count < L THEN count ELSE L)
    BY <1>1, <1>7, <2>1, BothTaken
  <2> DEFINE k == IF count < L THEN count ELSE L
             n == IF L < count THEN L + 1 ELSE count
  <2>3. Takes("strncat", m, dest, src, count, L, Ld, k)
    BY <1>7, <2>2
  <2>4. StringOf(m, src, L) /\ StringOf(m, dest, Ld) /\ k \in Nat /\ n \in Nat
    BY <1>7, <2>2 DEF Takes
  <2>5. srclen = IF L < destsz THEN L ELSE destsz
    BY <1>1, <2>1, <2>4, BoundedLength DEF srclen
  <2>6. /\ destnull = 0 <=> Ld >= destsz
        /\ Ld < destsz => /\ destnull = dest + Ld /\ room = destsz - Ld /\ destsz - Ld \in Nat
                          /\ dest + Ld \in Nat /\ Fits(dest + Ld, destsz - Ld)
    BY <1>1, <2>1, <2>4, RoomLeft DEF destnull
  <2>7. FitsBeside("strncat", x) => FALSE
    BY <1>7 DEF FitsBeside
  <2>8. CASE (count = 0 \/ count > RSIZE_MAX) \/ destnull = 0
    <3>1. ~FitsBeside("strncat", x)
      BY <1>1, <2>4, <2>6, <2>7, <2>8
    <3>2. \E e : e # 0 /\ out = Result(e, m)
      BY <1>3, <1>9, <2>8 DEF EINVAL, ERANGE
    <3>3. QED
      BY <1>7, <3>1, <3>2, RefusedMeets DEF x, out
  <2>9. CASE ~(count = 0 \/ count > RSIZE_MAX) /\ destnull # 0 /\ error # 0
    <3>1. ~FitsBeside("strncat", x)
      BY <2>7
    <3>2. out = Refused(m, dest, destsz, error) /\ error # 0
      BY <1>3, <1>9, <2>9 DEF ERANGE
    <3>3. QED
      BY <3>1, <3>2, RefusedMeets DEF x, out
  <2>10. CASE ~(count = 0 \/ count > RSIZE_MAX) /\ destnull # 0 /\ error = 0
    <3>1. Ld < destsz /\ destnull = dest + Ld /\ room = destsz - Ld /\ srclen < destsz - Ld /\ count < destsz - Ld
      BY <1>1, <1>2, <1>4, <2>4, <2>6, <2>10
    <3>2. srclen = L
      BY <1>1, <1>2, <1>6, <1>9, <2>4, <2>5, <3>1 DEF GoodPointers
    <3>3. UpTo(m, src, 0, count) = n /\ Fits(src, UpTo(m, src, 0, count)) /\ count \in Nat
      BY <1>1, <2>1, <2>4, UpToTheTerminator
    <3>4. out = Terminated(done, dest + Ld + count)
      BY <1>3, <1>9, <2>10, <3>1, <3>2
    <3>5. done = safe_memccpy(m, dest + Ld, destsz - Ld, src, 0, count)
      BY <3>1, <3>2
    <3>6. k <= n /\ dest + Ld + count \in Inside(dest, destsz)
          /\ \/ dest + Ld + count = dest + Ld + k
             \/ dest + Ld + count > dest + Ld + k /\ k < n /\ m[src + k] = 0
      BY <1>1, <2>4, <3>1, <3>2 DEF Inside, StringOf
    <3>7. n \in Nat
      BY <2>4
    <3> HIDE DEF k, n, done
    <3>8. /\ done.error = 0 <=> (/\ dest + Ld # 0 /\ src # 0 /\ destsz - Ld <= RSIZE_MAX /\ count <= destsz - Ld
                                 /\ (src + count <= dest + Ld \/ (dest + Ld) + count <= src))
          /\ done.error = 0 => Copied(m, done.mem, dest + Ld, src, n)
          /\ Bounded(m, done, dest + Ld, destsz - Ld)
      BY <1>1, <2>6, <3>1, <3>3, <3>5, CopyUpToStaysInside
    <3>9. IsResult(done)
      BY <2>6, <3>1, <3>5, InnerCopyIsResult
    <3>10. FitsBeside("strncat", x) => done.error = 0
      BY <2>7
    <3>11. Meets("strncat", x, Terminated(done, dest + Ld + count))
      BY <1>7, <2>1, <2>3, <3>1, <3>6, <3>7, <3>8, <3>9, <3>10, PutMeets DEF x
    <3>12. QED
      BY <3>4, <3>11 DEF x, out
  <2>11. QED
    BY <2>8, <2>9, <2>10
<1>10. QED
  BY <1>8, <1>9

LEMMA StrncatmoveMeets ==
    ASSUME NEW m, NEW dest, NEW destsz, NEW src, Given(m, dest, destsz, src), NEW c, NEW count \in Nat
    PROVE  Meets("strncatmove", CopyIn(m, dest, destsz, src, c, count), safe_strncatmove(m, dest, destsz, src, count))
<1> DEFINE srclen == safe_strnlen(m, src, destsz)
           destnull == DestNull(m, dest, destsz)
           room == destsz - (destnull - dest)
           bad == FirstFailing(PointerChecks(dest, destsz, src))
           p == room <= srclen \/ room <= count
           done == safe_memcmove(m, destnull, room, src, 0, count)
           out == safe_strncatmove(m, dest, destsz, src, count)
           x == CopyIn(m, dest, destsz, src, c, count)
<1>1. /\ m \in Memories /\ Ended(m) /\ dest \in Nat /\ destsz \in Nat /\ src \in Nat
      /\ dest \in 0 .. Arena /\ src \in 0 .. Arena /\ Fits(dest, destsz) /\ RSIZE_MAX \in Nat
  BY BoundedCopyAssumption DEF Given, Ended
<1>2. srclen \in Nat
  BY <1>1, LengthIsNumber
<1>3. out = IF bad # 0 THEN Refused(m, dest, destsz, bad)
            ELSE IF count = 0 \/ count > RSIZE_MAX THEN Result(ERANGE, m)
            ELSE IF destnull = 0 THEN Result(EINVAL, m)
            ELSE IF p THEN Refused(m, dest, destsz, ERANGE)
            ELSE Terminated(done, destnull + count)
  BY DEF safe_strncatmove
<1>4. ERANGE # 0
  BY DEF ERANGE
<1>5. EINVAL # 0
  BY DEF EINVAL
<1>6. bad = 0 <=> GoodPointers(dest, destsz, src)
  BY <1>1, CheckedPointers DEF GoodPointers
<1>7. "strncatmove" \in Limited \cup Unlimited /\ "strncatmove" \in Appending
      /\ "strncatmove" \in Limited /\ "strncatmove" \notin Unlimited
  BY DEF Limited, Unlimited, Appending
<1> HIDE DEF srclen, destnull, bad, out, x
<1>8. CASE bad # 0
  <2>1. ~FitsBeside("strncatmove", x)
    BY <1>1, <1>6, <1>8, FitsBesidePointers DEF x
  <2>2. QED
    BY <1>3, <1>8, <2>1, RefusedMeets DEF x, out
<1>9. CASE bad = 0
  <2>1. dest \in 1 .. Arena /\ src \in 1 .. Arena /\ dest + destsz <= Arena + 1 /\ dest # 0 /\ src # 0
    BY <1>1, <1>6, <1>9 DEF GoodPointers, Fits
  <2>2. PICK L \in Nat, Ld \in Nat :
            Takes("strncatmove", m, dest, src, count, L, Ld, IF "strncatmove" \in Limited /\ count < L THEN count ELSE L)
    BY <1>1, <1>7, <2>1, BothTaken
  <2> DEFINE k == IF count < L THEN count ELSE L
             n == IF L < count THEN L + 1 ELSE count
  <2>3. Takes("strncatmove", m, dest, src, count, L, Ld, k)
    BY <1>7, <2>2
  <2>4. StringOf(m, src, L) /\ StringOf(m, dest, Ld) /\ k \in Nat /\ n \in Nat
    BY <1>7, <2>2 DEF Takes
  <2>5. srclen = IF L < destsz THEN L ELSE destsz
    BY <1>1, <2>1, <2>4, BoundedLength DEF srclen
  <2>6. /\ destnull = 0 <=> Ld >= destsz
        /\ Ld < destsz => /\ destnull = dest + Ld /\ room = destsz - Ld /\ destsz - Ld \in Nat
                          /\ dest + Ld \in Nat /\ Fits(dest + Ld, destsz - Ld)
    BY <1>1, <2>1, <2>4, RoomLeft DEF destnull
  <2>7. FitsBeside("strncatmove", x) => FALSE
    BY <1>7 DEF FitsBeside
  <2>8. CASE (count = 0 \/ count > RSIZE_MAX) \/ destnull = 0
    <3>1. ~FitsBeside("strncatmove", x)
      BY <1>1, <2>4, <2>6, <2>7, <2>8
    <3>2. \E e : e # 0 /\ out = Result(e, m)
      BY <1>3, <1>9, <2>8 DEF EINVAL, ERANGE
    <3>3. QED
      BY <1>7, <3>1, <3>2, RefusedMeets DEF x, out
  <2>9. CASE ~(count = 0 \/ count > RSIZE_MAX) /\ destnull # 0 /\ p
    <3>1. ~FitsBeside("strncatmove", x)
      BY <2>7
    <3>2. out = Refused(m, dest, destsz, ERANGE) /\ ERANGE # 0
      BY <1>3, <1>9, <2>9 DEF ERANGE
    <3>3. QED
      BY <3>1, <3>2, RefusedMeets DEF x, out
  <2>10. CASE ~(count = 0 \/ count > RSIZE_MAX) /\ destnull # 0 /\ ~p
    <3>1. Ld < destsz /\ destnull = dest + Ld /\ room = destsz - Ld /\ srclen < destsz - Ld /\ count < destsz - Ld
      BY <1>1, <1>2, <1>4, <2>4, <2>6, <2>10
    <3>2. srclen = L
      BY <1>1, <1>2, <1>6, <1>9, <2>4, <2>5, <3>1 DEF GoodPointers
    <3>3. UpTo(m, src, 0, count) = n /\ Fits(src, UpTo(m, src, 0, count)) /\ count \in Nat
      BY <1>1, <2>1, <2>4, UpToTheTerminator
    <3>4. out = Terminated(done, dest + Ld + count)
      BY <1>3, <1>9, <2>10, <3>1, <3>2
    <3>5. done = safe_memcmove(m, dest + Ld, destsz - Ld, src, 0, count)
      BY <3>1, <3>2
    <3>6. k <= n /\ dest + Ld + count \in Inside(dest, destsz)
          /\ \/ dest + Ld + count = dest + Ld + k
             \/ dest + Ld + count > dest + Ld + k /\ k < n /\ m[src + k] = 0
      BY <1>1, <2>4, <3>1, <3>2 DEF Inside, StringOf
    <3>7. n \in Nat
      BY <2>4
    <3> HIDE DEF k, n, done
    <3>8. /\ done.error = 0 <=> (/\ dest + Ld # 0 /\ src # 0 /\ destsz - Ld <= RSIZE_MAX /\ count <= destsz - Ld
                                 /\ dest + Ld # src)
          /\ done.error = 0 => Copied(m, done.mem, dest + Ld, src, n)
          /\ Bounded(m, done, dest + Ld, destsz - Ld)
      BY <1>1, <2>6, <3>1, <3>3, <3>5, MoveUpToStaysInside
    <3>9. IsResult(done)
      BY <2>6, <3>1, <3>5, InnerCopyIsResult
    <3>10. FitsBeside("strncatmove", x) => done.error = 0
      BY <2>7
    <3>11. Meets("strncatmove", x, Terminated(done, dest + Ld + count))
      BY <1>7, <2>1, <2>3, <3>1, <3>6, <3>7, <3>8, <3>9, <3>10, PutMeets DEF x
    <3>12. QED
      BY <3>4, <3>11 DEF x, out
  <2>11. QED
    BY <2>8, <2>9, <2>10
<1>10. QED
  BY <1>8, <1>9

-----------------------------------------------------------------------------
(* Every call                                                              *)

LEMMA EveryCopyMeets ==
    ASSUME NEW f \in Counted \cup Limited \cup Unlimited,
           NEW m, NEW dest, NEW destsz, NEW src, Given(m, dest, destsz, src), NEW c \in 0 .. 255, NEW count \in Nat,
           f \in Counted => Fits(src, count), NEW x, x = CopyIn(m, dest, destsz, src, c, count)
    PROVE  Meets(f, x, CopyOut(f, x))
<1>1. x.m = m /\ x.dest = dest /\ x.destsz = destsz /\ x.src = src /\ x.c = c /\ x.count = count
  BY DEF CopyIn
<1>2. CASE f = "memset"
  <2>1. CopyOut("memset", x) = safe_memset(x.m, x.dest, x.destsz, x.c, x.count)
    BY Zenon DEF CopyOut
  <2>2. Meets("memset", x, safe_memset(m, dest, destsz, c, count))
    BY <1>2, FillMeets DEF Counted
  <2>3. QED
    BY <1>1, <1>2, <2>1, <2>2
<1>3. CASE f = "memmove"
  <2>1. CopyOut("memmove", x) = safe_memmove(x.m, x.dest, x.destsz, x.src, x.count)
    BY Zenon DEF CopyOut
  <2>2. Meets("memmove", x, safe_memmove(m, dest, destsz, src, count))
    BY <1>3, MemmoveMeets DEF Counted
  <2>3. QED
    BY <1>1, <1>3, <2>1, <2>2
<1>4. CASE f = "memcpy"
  <2>1. CopyOut("memcpy", x) = safe_memcpy(x.m, x.dest, x.destsz, x.src, x.count)
    BY Zenon DEF CopyOut
  <2>2. Meets("memcpy", x, safe_memcpy(m, dest, destsz, src, count))
    BY <1>4, MemcpyMeets DEF Counted
  <2>3. QED
    BY <1>1, <1>4, <2>1, <2>2
<1>5. CASE f = "memccpy"
  <2>1. CopyOut("memccpy", x) = safe_memccpy(x.m, x.dest, x.destsz, x.src, x.c, x.count)
    BY Zenon DEF CopyOut
  <2>2. Meets("memccpy", x, safe_memccpy(m, dest, destsz, src, c, count))
    BY <1>5, MemccpyMeets DEF Counted
  <2>3. QED
    BY <1>1, <1>5, <2>1, <2>2
<1>6. CASE f = "memcmove"
  <2>1. CopyOut("memcmove", x) = safe_memcmove(x.m, x.dest, x.destsz, x.src, x.c, x.count)
    BY Zenon DEF CopyOut
  <2>2. Meets("memcmove", x, safe_memcmove(m, dest, destsz, src, c, count))
    BY <1>6, MemcmoveMeets DEF Counted
  <2>3. QED
    BY <1>1, <1>6, <2>1, <2>2
<1>7. CASE f = "strcpy"
  <2>1. CopyOut("strcpy", x) = safe_strcpy(x.m, x.dest, x.destsz, x.src)
    BY Zenon DEF CopyOut
  <2>2. Meets("strcpy", x, safe_strcpy(m, dest, destsz, src))
    BY <1>7, StrcpyMeets
  <2>3. QED
    BY <1>1, <1>7, <2>1, <2>2
<1>8. CASE f = "strmove"
  <2>1. CopyOut("strmove", x) = safe_strmove(x.m, x.dest, x.destsz, x.src)
    BY Zenon DEF CopyOut
  <2>2. Meets("strmove", x, safe_strmove(m, dest, destsz, src))
    BY <1>8, StrmoveMeets
  <2>3. QED
    BY <1>1, <1>8, <2>1, <2>2
<1>9. CASE f = "strncpy"
  <2>1. CopyOut("strncpy", x) = safe_strncpy(x.m, x.dest, x.destsz, x.src, x.count)
    BY Zenon DEF CopyOut
  <2>2. Meets("strncpy", x, safe_strncpy(m, dest, destsz, src, count))
    BY <1>9, StrncpyMeets
  <2>3. QED
    BY <1>1, <1>9, <2>1, <2>2
<1>10. CASE f = "strnmove"
  <2>1. CopyOut("strnmove", x) = safe_strnmove(x.m, x.dest, x.destsz, x.src, x.count)
    BY Zenon DEF CopyOut
  <2>2. Meets("strnmove", x, safe_strnmove(m, dest, destsz, src, count))
    BY <1>10, StrnmoveMeets
  <2>3. QED
    BY <1>1, <1>10, <2>1, <2>2
<1>11. CASE f = "strcat"
  <2>1. CopyOut("strcat", x) = safe_strcat(x.m, x.dest, x.destsz, x.src)
    BY Zenon DEF CopyOut
  <2>2. Meets("strcat", x, safe_strcat(m, dest, destsz, src))
    BY <1>11, StrcatMeets
  <2>3. QED
    BY <1>1, <1>11, <2>1, <2>2
<1>12. CASE f = "strcatmove"
  <2>1. CopyOut("strcatmove", x) = safe_strcatmove(x.m, x.dest, x.destsz, x.src)
    BY Zenon DEF CopyOut
  <2>2. Meets("strcatmove", x, safe_strcatmove(m, dest, destsz, src))
    BY <1>12, StrcatmoveMeets
  <2>3. QED
    BY <1>1, <1>12, <2>1, <2>2
<1>13. CASE f = "strncat"
  <2>1. CopyOut("strncat", x) = safe_strncat(x.m, x.dest, x.destsz, x.src, x.count)
    BY Zenon DEF CopyOut
  <2>2. Meets("strncat", x, safe_strncat(m, dest, destsz, src, count))
    BY <1>13, StrncatMeets
  <2>3. QED
    BY <1>1, <1>13, <2>1, <2>2
<1>14. CASE f = "strncatmove"
  <2>1. CopyOut("strncatmove", x) = safe_strncatmove(x.m, x.dest, x.destsz, x.src, x.count)
    BY Zenon DEF CopyOut
  <2>2. Meets("strncatmove", x, safe_strncatmove(m, dest, destsz, src, count))
    BY <1>14, StrncatmoveMeets
  <2>3. QED
    BY <1>1, <1>14, <2>1, <2>2
<1>15. QED
  BY <1>2, <1>3, <1>4, <1>5, <1>6, <1>7, <1>8, <1>9, <1>10, <1>11, <1>12, <1>13, <1>14 DEF Counted, Limited, Unlimited

LEMMA DuplicateIsExact ==
    ASSUME NEW m, Ended(m), NEW src \in 1 .. Arena, NEW hasDup \in BOOLEAN, NEW memory \in BOOLEAN
    PROVE  LET out == safe_strdup(m, hasDup, src, memory)
           IN out.error = 0 => out.dup = Append(StringAt(m, src), 0)
<1> DEFINE srclen == safe_strnlen(m, src, RSIZE_MAX)
           p == ~hasDup
           q == ~memory
           tests == << <<p, EINVAL>>, <<src = 0, EINVAL>>,
                       <<srclen = RSIZE_MAX, EINVAL>>, <<srclen = 0, EINVAL>>, <<q, ENOMEM>> >>
           error == FirstFailing(tests)
           out == safe_strdup(m, hasDup, src, memory)
<1>1. out = IF error # 0 THEN Duplicate(error, <<>>) ELSE Duplicate(0, Append(Bytes(m, src, srclen), 0))
  BY DEF safe_strdup
<1>2. PICK L \in Nat : StringOf(m, src, L) /\ StringAt(m, src) = BytesAt(m, src, L)
  BY StringsEnd
<1>3. srclen = IF L < RSIZE_MAX THEN L ELSE RSIZE_MAX
  BY <1>2, BoundedLength, BoundedCopyAssumption
<1>4. error = 0 => srclen # RSIZE_MAX
  <2> HIDE DEF srclen, p, q
  <2>1. DOMAIN tests = 1 .. 5 /\ 1 .. 5 = {1, 2, 3, 4, 5} /\ \A i \in DOMAIN tests : tests[i][2] # 0
    BY DEF EINVAL, ENOMEM
  <2>2. tests[3][1] = (srclen = RSIZE_MAX) /\ 3 \in DOMAIN tests
    OBVIOUS
  <2> HIDE DEF tests
  <2>3. error = 0 <=> \A i \in DOMAIN tests : ~tests[i][1]
    BY <2>1, NoTestFails
  <2>4. QED
    BY <2>2, <2>3
<1> HIDE DEF error, srclen, out
<1>5. CASE error # 0
  BY <1>1, <1>5 DEF Duplicate, out
<1>6. CASE error = 0
  <2>1. out.dup = Append(Bytes(m, src, srclen), 0) /\ srclen = L
    BY <1>1, <1>3, <1>4, <1>6 DEF Duplicate
  <2>2. QED
    BY <1>2, <2>1 DEF out, Bytes, BytesAt
<1>7. QED
  BY <1>5, <1>6

LEMMA LimitedDuplicateIsExact ==
    ASSUME NEW m, NEW src, NEW hasDup, NEW size, NEW memory
    PROVE  LET out == safe_strndup(m, hasDup, src, size, memory)
           IN out.error = 0 => out.dup = Append(BytesAt(m, src, size), 0)
<1> DEFINE error == FirstFailing(<< <<~hasDup, EINVAL>>, <<src = 0, EINVAL>>,
                                 <<size > RSIZE_MAX, EINVAL>>, <<size = 0, EINVAL>>, <<~memory, ENOMEM>> >>)
           out == safe_strndup(m, hasDup, src, size, memory)
<1>1. out = IF error # 0 THEN Duplicate(error, <<>>) ELSE Duplicate(0, Append(Bytes(m, src, size), 0))
  BY DEF safe_strndup
<1> HIDE DEF error, out
<1>2. out.error = 0 => out.dup = Append(Bytes(m, src, size), 0)
  BY <1>1 DEF Duplicate
<1>3. QED
  BY <1>2 DEF out, Bytes, BytesAt

\* The bytes of a wiped region are zero and the others are kept.
LEMMA WipeIsExact ==
    ASSUME NEW m, Ended(m), NEW at \in 0 .. Arena, NEW n \in Nat, Fits(at, n), n <= RSIZE_MAX
    PROVE  LET r == explicit_zeroes(m, at, n).mem IN
           /\ \A a \in 1 .. Arena : r[a] = IF a \in InDest(at, n) THEN 0 ELSE m[a]
           /\ is_Empty(r, at, n) = (InDest(at, n) # {}) /\ safe_strnlen(r, at, n) = 0
<1> DEFINE out == explicit_zeroes(m, at, n)
           r == out.mem
           set == safe_memset(m, at, n, 0, n)
<1>1. m \in Memories /\ DOMAIN m = 1 .. Arena /\ at \in Nat /\ RSIZE_MAX \in Nat
  BY BoundedCopyAssumption DEF Ended, Memories
<1>2. out = IF at # 0 /\ n > 0 THEN set ELSE Result(0, m)
  BY DEF explicit_zeroes
<1> SUFFICES /\ \A a \in 1 .. Arena : r[a] = IF a \in InDest(at, n) THEN 0 ELSE m[a]
             /\ is_Empty(r, at, n) = (InDest(at, n) # {}) /\ safe_strnlen(r, at, n) = 0
  OBVIOUS
<1> HIDE DEF out, r
<1>3. CASE at # 0 /\ n > 0
  <2>1. /\ set.error = 0 <=> at # 0 /\ n <= RSIZE_MAX /\ n <= n
        /\ set.error = 0 => \A a \in DOMAIN m : set.mem[a] = IF a \in Inside(at, n) THEN 0 ELSE m[a]
        /\ RestIsKept(m, set, at, n)
    <3>1. 0 \in 0 .. 255
      OBVIOUS
    <3>2. QED
      BY <1>1, <3>1, FillStaysInside, Zenon
  <2> HIDE DEF set
  <2>2. out = set /\ set.error = 0
    BY <1>1, <1>2, <1>3, <2>1
  <2>3. \A a \in 1 .. Arena : r[a] = IF a \in InDest(at, n) THEN 0 ELSE m[a]
    BY <1>1, <1>3, <2>1, <2>2 DEF InDest, r
  <2>4. \A i \in 0 .. n - 1 : at + i \in InDest(at, n) /\ at + i \in 1 .. Arena
    BY <1>1, <1>3, BoundedCopyAssumption DEF InDest, Inside, Fits
  <2>5. Bounded(m, set, at, n)
    BY <1>1, FillIsBounded DEF set
  <2>6. DOMAIN r = 1 .. Arena
    BY <2>2, <2>5 DEF Bounded, Memories, r
  <2>7. \A i \in 0 .. n - 1 : r[at + i] = 0
    BY <2>3, <2>4
  <2>8. is_Empty(r, at, n) = TRUE
    <3>1. ASSUME NEW i \in 0 .. n - 1, n - 1 - i >= i PROVE r[at + i] = 0 /\ r[at + n - 1 - i] = 0
      <4>1. n - 1 - i \in 0 .. n - 1 /\ at + (n - 1 - i) = at + n - 1 - i
        OBVIOUS
      <4>2. QED
        BY <2>7, <4>1
    <3>2. QED
      BY <1>3, <3>1 DEF is_Empty
  <2>9. safe_strnlen(r, at, n) = 0
    <3> DEFINE nul == {i \in 0 .. n - 1 : at + i \in DOMAIN r /\ r[at + i] = 0}
    <3>1. 0 \in nul /\ nul \subseteq Nat
      BY <1>3, <2>4, <2>6, <2>7
    <3>2. safe_strnlen(r, at, n) = Min(nul)
      BY <1>3, <3>1 DEF safe_strnlen
    <3> HIDE DEF nul
    <3>3. Min(nul) \in Nat /\ Min(nul) <= 0
      BY <3>1, LeastNumber
    <3>4. QED
      BY <3>2, <3>3
  <2>10. InDest(at, n) # {}
    <3>1. 0 \in 0 .. n - 1
      BY <1>3
    <3>2. QED
      BY <2>4, <3>1
  <2>11. QED
    BY <2>3, <2>8, <2>9, <2>10
<1>4. CASE ~(at # 0 /\ n > 0)
  <2>1. r = m
    BY <1>2, <1>4 DEF Result, r
  <2>2. InDest(at, n) = {}
    BY <1>4 DEF InDest, Inside
  <2>3. is_Empty(r, at, n) = FALSE
    BY <1>4 DEF is_Empty
  <2>4. safe_strnlen(r, at, n) = 0
    <3>1. CASE at = 0
      BY <3>1 DEF safe_strnlen
    <3>2. CASE at # 0
      <4>1. n = 0
        BY <1>4, <3>2
      <4>2. {i \in 0 .. n - 1 : at + i \in DOMAIN r /\ r[at + i] = 0} = {}
        BY <4>1
      <4>3. QED
        BY <3>2, <4>1, <4>2 DEF safe_strnlen
    <3>3. QED
      BY <3>1, <3>2
  <2>5. QED
    BY <2>1, <2>2, <2>3, <2>4
<1>5. QED
  BY <1>3, <1>4

LEMMA CopyingIsCorrect == Copying => CopiesStayInBounds'
<1> SUFFICES ASSUME Copying PROVE CopiesStayInBounds'
  OBVIOUS
<1>1. PICK m \in Contents, dest \in 0 .. Arena, src \in 0 .. Arena, f \in Counted \cup Limited \cup Unlimited :
          \E destsz \in 0 .. Room(dest), c \in IF f \in {"memccpy", "memcmove"} THEN {0, 3} ELSE {0},
             count \in CASE f \in Counted -> 0 .. Room(src) [] f \in Limited -> 0 .. Arena [] f \in Unlimited -> {0} :
              LET x == CopyIn(m, dest, destsz, src, c, count) IN Called("copy", f, x, CopyOut(f, x))
  BY Zenon DEF Copying
<1>2. PICK destsz \in 0 .. Room(dest), c \in IF f \in {"memccpy", "memcmove"} THEN {0, 3} ELSE {0},
           count \in CASE f \in Counted -> 0 .. Room(src) [] f \in Limited -> 0 .. Arena [] f \in Unlimited -> {0} :
              LET x == CopyIn(m, dest, destsz, src, c, count) IN Called("copy", f, x, CopyOut(f, x))
  BY <1>1, Zenon
<1> DEFINE x == CopyIn(m, dest, destsz, src, c, count)
           out == CopyOut(f, x)
<1>3. Called("copy", f, x, out)
  BY <1>2, Zenon
<1>4. Room(dest) \in Nat /\ Room(src) \in Nat
  BY BoundedCopyAssumption DEF Room
<1>5. Given(m, dest, destsz, src)
  <2>1. Ended(m)
    BY ContentsAssumption DEF Ended, Memories, Byte
  <2>2. destsz \in Nat /\ Fits(dest, destsz)
    BY <1>4, BoundedCopyAssumption DEF Room, Fits
  <2>3. QED
    BY <2>1, <2>2 DEF Given
<1>6. c \in 0 .. 255
  <2>1. c \in {0, 3}
    OBVIOUS
  <2>2. QED
    BY <2>1
<1>7. count \in Nat /\ (f \in Counted => Fits(src, count))
  <2>1. CASE f \in Counted
    <3>1. f \notin Limited /\ f \notin Unlimited
      BY <2>1 DEF Counted, Limited, Unlimited
    <3>2. (CASE f \in Counted -> 0 .. Room(src) [] f \in Limited -> 0 .. Arena [] f \in Unlimited -> {0}) = 0 .. Room(src)
      BY <2>1, <3>1, Zenon
    <3>3. QED
      BY <1>4, <3>2, BoundedCopyAssumption DEF Room, Fits
  <2>2. CASE f \in Limited
    <3>1. f \notin Counted /\ f \notin Unlimited
      BY <2>2 DEF Counted, Limited, Unlimited
    <3>2. (CASE f \in Counted -> 0 .. Room(src) [] f \in Limited -> 0 .. Arena [] f \in Unlimited -> {0}) = 0 .. Arena
      BY <2>2, <3>1, Zenon
    <3>3. QED
      BY <3>1, <3>2, BoundedCopyAssumption
  <2>3. CASE f \in Unlimited
    <3>1. f \notin Counted /\ f \notin Limited
      BY <2>3 DEF Counted, Limited, Unlimited
    <3>2. (CASE f \in Counted -> 0 .. Room(src) [] f \in Limited -> 0 .. Arena [] f \in Unlimited -> {0}) = {0}
      BY <2>3, <3>1, Zenon
    <3>3. QED
      BY <3>1, <3>2
  <2>4. QED
    BY <2>1, <2>2, <2>3
<1> HIDE DEF x, out
<1>8. Meets(f, x, out)
  BY <1>5, <1>6, <1>7, EveryCopyMeets DEF x, out
<1>9. call' = [family |-> "copy", f |-> f, in |-> x, out |-> out]
  BY <1>3 DEF Called
<1>10. /\ call'.family = "copy" /\ call'.f = f /\ call'.in = x /\ call'.out = out
       /\ call'.family # "duplicate" /\ call'.family # "wipe"
  BY <1>9
<1>11. QED
  BY <1>8, <1>10, Zenon DEF Meets, CopiesStayInBounds, Is

LEMMA DuplicatingIsCorrect == Duplicating => CopiesStayInBounds'
<1> SUFFICES ASSUME Duplicating PROVE CopiesStayInBounds'
  OBVIOUS
<1>1. PICK m \in Contents, src \in 1 .. Arena, memory \in BOOLEAN, hasDup \in BOOLEAN :
        \/ Called("duplicate", "strdup", [m |-> m, src |-> src, count |-> Arena], safe_strdup(m, hasDup, src, memory))
        \/ \E count \in 0 .. (Arena - src) + 1 :
               Called("duplicate", "strndup", [m |-> m, src |-> src, count |-> count],
                      safe_strndup(m, hasDup, src, count, memory))
  BY Zenon DEF Duplicating
<1>2. Ended(m)
  BY ContentsAssumption DEF Ended, Memories, Byte
<1>3. CASE Called("duplicate", "strdup", [m |-> m, src |-> src, count |-> Arena], safe_strdup(m, hasDup, src, memory))
  <2> DEFINE out == safe_strdup(m, hasDup, src, memory)
  <2>1. out.error = 0 => out.dup = Append(StringAt(m, src), 0)
    BY <1>2, DuplicateIsExact
  <2>2. call' = [family |-> "duplicate", f |-> "strdup", in |-> [m |-> m, src |-> src, count |-> Arena], out |-> out]
    BY <1>3 DEF Called
  <2> HIDE DEF out
  <2>3. /\ call'.family = "duplicate" /\ call'.f = "strdup" /\ call'.in.m = m /\ call'.in.src = src
        /\ call'.out = out /\ call'.family # "copy" /\ call'.family # "wipe"
    BY <2>2
  <2>4. QED
    BY <2>1, <2>3, Zenon DEF CopiesStayInBounds, Is
<1>4. ASSUME NEW count \in 0 .. (Arena - src) + 1,
             Called("duplicate", "strndup", [m |-> m, src |-> src, count |-> count],
                    safe_strndup(m, hasDup, src, count, memory))
      PROVE  CopiesStayInBounds'
  <2> DEFINE out == safe_strndup(m, hasDup, src, count, memory)
  <2>1. out.error = 0 => out.dup = Append(BytesAt(m, src, count), 0)
    BY LimitedDuplicateIsExact
  <2>2. call' = [family |-> "duplicate", f |-> "strndup", in |-> [m |-> m, src |-> src, count |-> count], out |-> out]
    BY <1>4 DEF Called
  <2> HIDE DEF out
  <2>3. /\ call'.family = "duplicate" /\ call'.f # "strdup" /\ call'.in.m = m /\ call'.in.src = src
        /\ call'.in.count = count /\ call'.out = out /\ call'.family # "copy" /\ call'.family # "wipe"
    BY <2>2
  <2>4. QED
    BY <2>1, <2>3, Zenon DEF CopiesStayInBounds, Is
<1>5. QED
  BY <1>1, <1>3, <1>4

LEMMA WipingIsCorrect == Wiping => CopiesStayInBounds'
<1> SUFFICES ASSUME Wiping PROVE CopiesStayInBounds'
  OBVIOUS
<1>1. PICK m \in Contents, at \in 0 .. Arena : \E n \in 0 .. Room(at) :
        LET wiped == explicit_zeroes(m, at, n)
        IN Called("wipe", "explicit_zeroes", [m |-> m, at |-> at, n |-> n],
                  [mem |-> wiped.mem, empty |-> is_Empty(wiped.mem, at, n), length |-> safe_strnlen(wiped.mem, at, n)])
  BY Zenon DEF Wiping
<1>2. PICK n \in 0 .. Room(at) :
        LET wiped == explicit_zeroes(m, at, n)
        IN Called("wipe", "explicit_zeroes", [m |-> m, at |-> at, n |-> n],
                  [mem |-> wiped.mem, empty |-> is_Empty(wiped.mem, at, n), length |-> safe_strnlen(wiped.mem, at, n)])
  BY <1>1, Zenon
<1> DEFINE r == explicit_zeroes(m, at, n).mem
           empty == is_Empty(r, at, n)
           length == safe_strnlen(r, at, n)
<1>3. call' = [family |-> "wipe", f |-> "explicit_zeroes", in |-> [m |-> m, at |-> at, n |-> n],
               out |-> [mem |-> r, empty |-> empty, length |-> length]]
  BY <1>2, Zenon DEF Called
<1>4. Ended(m) /\ n \in Nat /\ Fits(at, n)
  <2>1. Ended(m)
    BY ContentsAssumption DEF Ended, Memories, Byte
  <2>2. QED
    BY <2>1, BoundedCopyAssumption DEF Room, Fits
<1>5. n <= RSIZE_MAX =>
      /\ \A a \in 1 .. Arena : r[a] = IF a \in InDest(at, n) THEN 0 ELSE m[a]
      /\ empty = (InDest(at, n) # {}) /\ length = 0
  BY <1>4, WipeIsExact
<1> HIDE DEF r, empty, length
<1>6. /\ call'.family = "wipe" /\ call'.in.m = m /\ call'.in.at = at /\ call'.in.n = n
      /\ call'.out.mem = r /\ call'.out.empty = empty /\ call'.out.length = length
      /\ call'.family # "copy" /\ call'.family # "duplicate"
  BY <1>3
<1>7. InDest(at, n) = IF at = 0 THEN {} ELSE at .. at + n - 1
  BY DEF InDest, Inside
<1>8. QED
  BY <1>5, <1>6, <1>7 DEF CopiesStayInBounds, Is

\* The bounded copies keep to their bounds, for every arena, every content of
\* it and every RSIZE_MAX: what a copy that succeeds leaves is exact, no call
\* writes outside of its destination, a string that is there stays terminated
\* within its size, and a string that fits beside its source is copied.
THEOREM CopiesCorrect == CopySpec => []CopiesStayInBounds
<1> DEFINE Other == OtherThan({"copy", "duplicate", "wipe"})
<1>1. call = Idle => CopiesStayInBounds
  <2>1. SUFFICES ASSUME call = Idle PROVE CopiesStayInBounds
    OBVIOUS
  <2>2. call.family \notin {"copy", "duplicate", "wipe"}
    BY <2>1 DEF Idle
  <2>3. QED
    BY <2>2 DEF CopiesStayInBounds, Is
<1>2. CopiesStayInBounds /\ [CopyStep \/ Other]_call => CopiesStayInBounds'
  <2> SUFFICES ASSUME CopiesStayInBounds, [CopyStep \/ Other]_call PROVE CopiesStayInBounds'
    OBVIOUS
  <2>1. CASE Copying
    BY <2>1, CopyingIsCorrect
  <2>2. CASE Duplicating
    BY <2>2, DuplicatingIsCorrect
  <2>3. CASE Wiping
    BY <2>3, WipingIsCorrect
  <2>4. CASE Other
    BY <2>4 DEF OtherThan, CopiesStayInBounds, Is
  <2>5. CASE UNCHANGED call
    BY <2>5, Zenon DEF CopiesStayInBounds, Is
  <2>6. QED
    BY <2>1, <2>2, <2>3, <2>4, <2>5 DEF CopyStep
<1>3. QED
  BY <1>1, <1>2, PTL DEF CopySpec

-----------------------------------------------------------------------------
(* Moving elements                                                         *)

Element == [key : Int, id : Nat]
TablesOf(n) == [1 .. n -> Element]

\* b has the elements of a, those from lo to hi perhaps in another order.
Permuted(a, b, lo, hi) ==
    /\ \A k \in DOMAIN a : k \notin lo .. hi => b[k] = a[k]
    /\ \A k \in lo .. hi : \E j \in lo .. hi : b[k] = a[j]
    /\ \A j \in lo .. hi : \E k \in lo .. hi : b[k] = a[j]

InOrder(a, lo, hi) == \A j, k \in lo .. hi : j <= k => a[j].key <= a[k].key

LEMMA KeyIsNumber ==
    ASSUME NEW n \in Nat, NEW a \in TablesOf(n), NEW k \in 1 .. n
    PROVE  a[k].key \in Int
BY DEF TablesOf, Element

LEMMA NothingMoved == ASSUME NEW a, NEW lo, NEW hi PROVE Permuted(a, a, lo, hi)
BY DEF Permuted

LEMMA MovedTwice ==
    ASSUME NEW n \in Nat, NEW a \in TablesOf(n), NEW b \in TablesOf(n), NEW c, NEW lo, NEW hi,
           Permuted(a, b, lo, hi), Permuted(b, c, lo, hi)
    PROVE  Permuted(a, c, lo, hi)
<1>1. DOMAIN a = DOMAIN b
  BY DEF TablesOf
<1>2. \A k \in DOMAIN a : k \notin lo .. hi => c[k] = a[k]
  BY <1>1 DEF Permuted
<1>3. \A k \in lo .. hi : \E j \in lo .. hi : c[k] = a[j]
  BY DEF Permuted
<1>4. \A j \in lo .. hi : \E k \in lo .. hi : c[k] = a[j]
  BY DEF Permuted
<1>5. QED
  BY <1>2, <1>3, <1>4 DEF Permuted

LEMMA MovedInside ==
    ASSUME NEW n \in Nat, NEW a \in TablesOf(n), NEW b, NEW lo \in Int, NEW hi \in Int, NEW from \in Int, NEW to \in Int,
           Permuted(a, b, lo, hi), from <= lo, hi <= to, 1 <= from, to <= n
    PROVE  Permuted(a, b, from, to)
<1>1. DOMAIN a = 1 .. n /\ from .. to \subseteq 1 .. n /\ lo .. hi \subseteq from .. to
  BY DEF TablesOf
<1>2. \A k \in DOMAIN a : k \notin from .. to => b[k] = a[k]
  BY <1>1 DEF Permuted
<1>3. \A k \in from .. to : k \in lo .. hi \/ b[k] = a[k]
  BY <1>1 DEF Permuted
<1>4. \A k \in from .. to : \E j \in from .. to : b[k] = a[j]
  BY <1>1, <1>3 DEF Permuted
<1>5. \A j \in from .. to : \E k \in from .. to : b[k] = a[j]
  BY <1>1, <1>3 DEF Permuted
<1>6. QED
  BY <1>2, <1>4, <1>5 DEF Permuted

LEMMA Exchanged ==
    ASSUME NEW n \in Nat, NEW a \in TablesOf(n), NEW i \in 1 .. n, NEW j \in 1 .. n
    PROVE  /\ swapfunc(a, i, j) \in TablesOf(n)
           /\ \A k \in 1 .. n : swapfunc(a, i, j)[k] = IF k = j THEN a[i] ELSE IF k = i THEN a[j] ELSE a[k]
BY DEF swapfunc, TablesOf

LEMMA ExchangeMoves ==
    ASSUME NEW n \in Nat, NEW a \in TablesOf(n), NEW lo \in Int, NEW hi \in Int, 1 <= lo, hi <= n,
           NEW i \in lo .. hi, NEW j \in lo .. hi
    PROVE  Permuted(a, swapfunc(a, i, j), lo, hi)
<1> DEFINE b == swapfunc(a, i, j)
<1>1. i \in 1 .. n /\ j \in 1 .. n /\ DOMAIN a = 1 .. n /\ lo .. hi \subseteq 1 .. n
  BY DEF TablesOf
<1>2. \A k \in 1 .. n : b[k] = IF k = j THEN a[i] ELSE IF k = i THEN a[j] ELSE a[k]
  BY <1>1, Exchanged
<1> HIDE DEF b
<1>3. \A k \in lo .. hi : \E m \in lo .. hi : b[k] = a[m]
  BY <1>1, <1>2
<1>4. ASSUME NEW m \in lo .. hi PROVE \E k \in lo .. hi : b[k] = a[m]
  <2>1. CASE m = i
    BY <1>1, <1>2, <2>1
  <2>2. CASE m = j
    BY <1>1, <1>2, <2>2
  <2>3. CASE m # i /\ m # j
    BY <1>1, <1>2, <2>3
  <2>4. QED
    BY <2>1, <2>2, <2>3
<1>5. QED
  BY <1>1, <1>2, <1>3, <1>4 DEF b, Permuted

LEMMA VectorsExchanged ==
    ASSUME NEW n \in Nat, NEW a \in TablesOf(n), NEW i \in Int, NEW j \in Int, NEW d \in Nat,
           NEW lo \in Int, NEW hi \in Int, 1 <= lo, hi <= n, lo <= i, i + d <= j, j + d <= hi + 1
    PROVE  /\ vecswap(a, i, j, d) \in TablesOf(n)
           /\ \A k \in 1 .. n : vecswap(a, i, j, d)[k] = IF k \in i .. i + d - 1 THEN a[j + (k - i)]
                                                        ELSE IF k \in j .. j + d - 1 THEN a[i + (k - j)] ELSE a[k]
           /\ Permuted(a, vecswap(a, i, j, d), lo, hi)
<1> DEFINE b == vecswap(a, i, j, d)
<1>1. DOMAIN a = 1 .. n /\ lo .. hi \subseteq 1 .. n /\ \A k \in 1 .. n : a[k] \in Element
  BY DEF TablesOf
<1>2. \A k \in 1 .. n : b[k] = IF k \in i .. i + d - 1 THEN a[j + (k - i)]
                               ELSE IF k \in j .. j + d - 1 THEN a[i + (k - j)] ELSE a[k]
  BY <1>1 DEF vecswap
<1>3. /\ \A k \in i .. i + d - 1 : k \in lo .. hi /\ j + (k - i) \in lo .. hi /\ j + (k - i) \in j .. j + d - 1
                                   /\ i + ((j + (k - i)) - j) = k
      /\ \A k \in j .. j + d - 1 : k \in lo .. hi /\ i + (k - j) \in lo .. hi /\ i + (k - j) \in i .. i + d - 1
                                   /\ j + ((i + (k - j)) - i) = k /\ k \notin i .. i + d - 1
  OBVIOUS
<1>4. b = [k \in 1 .. n |-> b[k]]
  BY <1>1 DEF vecswap
<1> HIDE DEF b
<1>5. \A k \in 1 .. n : b[k] \in Element
  BY <1>1, <1>2, <1>3
<1>6. b \in TablesOf(n)
  BY <1>4, <1>5 DEF TablesOf
<1>7. \A k \in lo .. hi : \E m \in lo .. hi : b[k] = a[m]
  BY <1>1, <1>2, <1>3
<1>8. ASSUME NEW m \in lo .. hi PROVE \E k \in lo .. hi : b[k] = a[m]
  <2>1. CASE m \in i .. i + d - 1
    <3>1. b[j + (m - i)] = a[m]
      BY <1>1, <1>2, <1>3, <2>1
    <3>2. QED
      BY <1>3, <2>1, <3>1
  <2>2. CASE m \in j .. j + d - 1
    <3>1. b[i + (m - j)] = a[m]
      BY <1>1, <1>2, <1>3, <2>2
    <3>2. QED
      BY <1>3, <2>2, <3>1
  <2>3. CASE m \notin i .. i + d - 1 /\ m \notin j .. j + d - 1
    BY <1>1, <1>2, <2>3
  <2>4. QED
    BY <2>1, <2>2, <2>3
<1>9. \A k \in 1 .. n : k \notin lo .. hi => b[k] = a[k]
  BY <1>2, <1>3
<1>10. Permuted(a, b, lo, hi)
  BY <1>1, <1>7, <1>8, <1>9 DEF Permuted
<1>11. QED
  BY <1>2, <1>6, <1>10 DEF b

-----------------------------------------------------------------------------
(* The insertion sort                                                      *)

LEMMA SunkInOrder ==
    ASSUME NEW n \in Nat, NEW a \in TablesOf(n), NEW ptr \in Nat \ {0}, NEW pm \in Nat, ptr < pm, pm <= n,
           InOrder(a, ptr, pm - 1)
    PROVE  /\ SinkLeft(a, ptr, pm) \in TablesOf(n) /\ InOrder(SinkLeft(a, ptr, pm), ptr, pm)
           /\ Permuted(a, SinkLeft(a, ptr, pm), ptr, pm)
<1> DEFINE K  == {k \in ptr .. pm : \A j \in k .. pm - 1 : compare(a[j], a[pm]) > 0}
           pl == Min(K)
           b  == SinkLeft(a, ptr, pm)
<1>1. DOMAIN a = 1 .. n /\ ptr .. pm \subseteq 1 .. n /\ \A k \in 1 .. n : a[k] \in Element /\ a[k].key \in Int
  BY DEF TablesOf, Element
<1>2. pm \in K
  OBVIOUS
<1>3. pl \in K /\ \A k \in K : pl <= k
  <2>1. K \subseteq Nat
    OBVIOUS
  <2> HIDE DEF K
  <2>2. QED
    BY <1>2, <2>1, LeastNumber
<1>4. b = [k \in 1 .. n |-> IF k = pl THEN a[pm] ELSE IF k \in pl + 1 .. pm THEN a[k - 1] ELSE a[k]]
  BY <1>1 DEF SinkLeft
<1> HIDE DEF pl, b
<1>5. pl \in ptr .. pm /\ \A j \in pl .. pm - 1 : a[j].key > a[pm].key
  <2>1. pl \in ptr .. pm /\ \A j \in pl .. pm - 1 : compare(a[j], a[pm]) > 0
    BY <1>3
  <2>2. ASSUME NEW j \in pl .. pm - 1 PROVE a[j].key > a[pm].key
    <3>1. compare(a[j], a[pm]) > 0 /\ j \in 1 .. n /\ pm \in 1 .. n
      BY <1>1, <2>1
    <3>2. a[j].key \in Int /\ a[pm].key \in Int
      BY <1>1, <3>1
    <3>3. QED
      BY <3>1, <3>2 DEF compare
  <2>3. QED
    BY <2>1, <2>2
<1>6. pl > ptr => a[pl - 1].key <= a[pm].key
  <2>1. SUFFICES ASSUME pl > ptr, a[pl - 1].key > a[pm].key PROVE FALSE
    <3>1. pl > ptr => a[pl - 1].key \in Int /\ a[pm].key \in Int
      BY <1>1, <1>5
    <3>2. QED
      BY <3>1
  <2>2. ASSUME NEW j \in pl - 1 .. pm - 1 PROVE compare(a[j], a[pm]) > 0
    <3>1. a[j].key > a[pm].key /\ j \in 1 .. n /\ pm \in 1 .. n
      <4>1. j = pl - 1 \/ j \in pl .. pm - 1
        BY <1>5
      <4>2. j \in 1 .. n /\ pm \in 1 .. n
        BY <1>1, <1>5, <2>1
      <4>3. CASE j = pl - 1
        BY <2>1, <4>2, <4>3
      <4>4. CASE j \in pl .. pm - 1
        BY <1>5, <4>2, <4>4
      <4>5. QED
        BY <4>1, <4>3, <4>4
    <3>2. a[j].key \in Int /\ a[pm].key \in Int
      BY <1>1, <3>1
    <3>3. QED
      BY <3>1, <3>2 DEF compare
  <2>3. pl - 1 \in K
    BY <1>5, <2>1, <2>2
  <2> HIDE DEF K
  <2>4. QED
    BY <1>3, <1>5, <2>3
<1> HIDE DEF K
<1>7. \A k \in 1 .. n : b[k] = IF k = pl THEN a[pm] ELSE IF k \in pl + 1 .. pm THEN a[k - 1] ELSE a[k]
  BY <1>4
<1>8. b \in TablesOf(n)
  <2>1. \A k \in 1 .. n : b[k] \in Element
    BY <1>1, <1>5, <1>7
  <2>2. QED
    BY <1>4, <2>1 DEF TablesOf
<1>9. Permuted(a, b, ptr, pm)
  <2>1. \A k \in ptr .. pm : \E j \in ptr .. pm : b[k] = a[j]
    BY <1>1, <1>5, <1>7
  <2>2. ASSUME NEW j \in ptr .. pm PROVE \E k \in ptr .. pm : b[k] = a[j]
    <3>1. CASE j = pm
      BY <1>1, <1>5, <1>7, <3>1
    <3>2. CASE j \in pl .. pm - 1
      <4>1. j + 1 \in ptr .. pm /\ j + 1 \in pl + 1 .. pm /\ j + 1 # pl /\ (j + 1) - 1 = j
        BY <1>5, <3>2
      <4>2. b[j + 1] = a[j]
        BY <1>1, <1>7, <4>1
      <4>3. QED
        BY <4>1, <4>2
    <3>3. CASE j < pl
      BY <1>1, <1>5, <1>7, <3>3
    <3>4. QED
      BY <1>5, <3>1, <3>2, <3>3
  <2>3. \A k \in 1 .. n : k \notin ptr .. pm => b[k] = a[k]
    BY <1>5, <1>7
  <2>4. QED
    BY <1>1, <2>1, <2>2, <2>3 DEF Permuted
<1>10. ASSUME NEW j \in ptr .. pm, NEW k \in ptr .. pm, j < k PROVE b[j].key <= b[k].key
  <2>1. j \in 1 .. n /\ k \in 1 .. n /\ \A i, m \in ptr .. pm - 1 : i <= m => a[i].key <= a[m].key
    BY <1>1 DEF InOrder
  <2>2. CASE k < pl
    <3>1. b[j] = a[j] /\ b[k] = a[k] /\ j \in ptr .. pm - 1 /\ k \in ptr .. pm - 1
      BY <1>5, <1>7, <1>10, <2>1, <2>2
    <3>2. QED
      BY <1>10, <2>1, <3>1
  <2>3. CASE k = pl
    <3>1. b[j] = a[j] /\ b[k] = a[pm] /\ j \in ptr .. pm - 1 /\ pl - 1 \in ptr .. pm - 1 /\ j <= pl - 1 /\ pl > ptr
      BY <1>5, <1>7, <1>10, <2>1, <2>3
    <3>2. a[j].key <= a[pl - 1].key /\ a[pl - 1].key <= a[pm].key
      BY <1>6, <2>1, <3>1
    <3>3. a[j].key \in Int /\ a[pl - 1].key \in Int /\ a[pm].key \in Int
      BY <1>1, <3>1
    <3>4. QED
      BY <3>1, <3>2, <3>3
  <2>4. CASE k > pl /\ j = pl
    <3>1. b[j] = a[pm] /\ b[k] = a[k - 1] /\ k - 1 \in pl .. pm - 1
      BY <1>5, <1>7, <1>10, <2>1, <2>4
    <3>2. a[k - 1].key > a[pm].key /\ a[k - 1].key \in Int /\ a[pm].key \in Int
      BY <1>1, <1>5, <3>1
    <3>3. QED
      BY <3>1, <3>2
  <2>5. CASE k > pl /\ j > pl
    <3>1. b[j] = a[j - 1] /\ b[k] = a[k - 1] /\ j - 1 \in ptr .. pm - 1 /\ k - 1 \in ptr .. pm - 1 /\ j - 1 <= k - 1
      BY <1>5, <1>7, <1>10, <2>1, <2>5
    <3>2. QED
      BY <2>1, <3>1
  <2>6. CASE k > pl /\ j < pl
    <3>1. b[j] = a[j] /\ b[k] = a[k - 1] /\ j \in ptr .. pm - 1 /\ k - 1 \in ptr .. pm - 1 /\ j <= k - 1
      BY <1>5, <1>7, <1>10, <2>1, <2>6
    <3>2. QED
      BY <2>1, <3>1
  <2>7. QED
    BY <1>5, <2>2, <2>3, <2>4, <2>5, <2>6
<1>11. InOrder(b, ptr, pm)
  <2>1. ASSUME NEW j \in ptr .. pm, NEW k \in ptr .. pm, j <= k PROVE b[j].key <= b[k].key
    <3>1. b[j].key \in Int
      BY <1>1, <1>8, KeyIsNumber
    <3>2. QED
      BY <1>10, <2>1, <3>1
  <2>2. QED
    BY <2>1 DEF InOrder
<1>12. QED
  BY <1>8, <1>9, <1>11 DEF b

\* The elements from ptr on are in order, and the others where they were.
LEMMA InsertedInOrder ==
    ASSUME NEW n \in Nat, NEW a \in TablesOf(n), NEW ptr \in Nat \ {0}, NEW count \in Nat \ {0}, ptr + count - 1 <= n
    PROVE  /\ InsertionSort(a, ptr, count) \in TablesOf(n)
           /\ InOrder(InsertionSort(a, ptr, count), ptr, ptr + count - 1)
           /\ Permuted(a, InsertionSort(a, ptr, count), ptr, ptr + count - 1)
<1> DEFINE hi == ptr + count - 1
           S == [i \in 0 .. count - 1 |-> {t \in TablesOf(n) : InOrder(t, ptr, ptr + i) /\ Permuted(a, t, ptr, hi)}]
           next == [i \in 1 .. count - 1 |-> [t \in S[i - 1] |-> SinkLeft(t, ptr, ptr + i)]]
           loop == CHOOSE f : f = [i \in 0 .. count - 1 |-> IF i = 0 THEN a ELSE SinkLeft(f[i - 1], ptr, ptr + i)]
<1>1. a \in S[0]
  <2>1. InOrder(a, ptr, ptr + 0)
    <3>1. a[ptr].key \in Int
      BY KeyIsNumber
    <3>2. QED
      BY <3>1 DEF InOrder
  <2>2. Permuted(a, a, ptr, hi)
    BY NothingMoved, Zenon
  <2>3. QED
    BY <2>1, <2>2
<1>2. ASSUME NEW i \in 1 .. count - 1, NEW t \in S[i - 1] PROVE SinkLeft(t, ptr, ptr + i) \in S[i]
  <2> DEFINE u == SinkLeft(t, ptr, ptr + i)
  <2>1. i - 1 \in 0 .. count - 1 /\ i \in 0 .. count - 1 /\ ptr + i \in Nat /\ ptr < ptr + i /\ ptr + i <= n
        /\ ptr + (i - 1) = (ptr + i) - 1 /\ ptr + i <= hi
    OBVIOUS
  <2>2. t \in TablesOf(n) /\ InOrder(t, ptr, (ptr + i) - 1) /\ Permuted(a, t, ptr, hi)
    BY <2>1
  <2> HIDE DEF S
  <2>3. u \in TablesOf(n) /\ InOrder(u, ptr, ptr + i) /\ Permuted(t, u, ptr, ptr + i)
    BY <2>1, <2>2, SunkInOrder
  <2> HIDE DEF u
  <2>4. Permuted(t, u, ptr, hi)
    BY <2>1, <2>2, <2>3, MovedInside
  <2>5. Permuted(a, u, ptr, hi)
    BY <2>2, <2>3, <2>4, MovedTwice
  <2>6. u \in {t2 \in TablesOf(n) : InOrder(t2, ptr, ptr + i) /\ Permuted(a, t2, ptr, hi)}
    BY <2>3, <2>5
  <2>7. u \in S[i]
    BY <2>1, <2>6 DEF S
  <2>8. QED
    BY <2>7 DEF u
<1>3. count - 1 \in Nat
  OBVIOUS
<1>4. \A i \in 1 .. count - 1 : next[i] \in [S[i - 1] -> S[i]]
  <2> HIDE DEF S
  <2>1. QED
    BY <1>2
<1> HIDE DEF S, next
<1>5. PICK f : Rounds(f, count - 1, a, next) /\ \A i \in 0 .. count - 1 : f[i] \in S[i]
  BY <1>1, <1>3, <1>4, RoundsExist
<1>6. f = [i \in 0 .. count - 1 |-> IF i = 0 THEN a ELSE SinkLeft(f[i - 1], ptr, ptr + i)]
  <2>1. f = [i \in 0 .. count - 1 |-> IF i = 0 THEN a ELSE next[i][f[i - 1]]]
    BY <1>5 DEF Rounds
  <2>2. ASSUME NEW i \in 0 .. count - 1, i # 0 PROVE next[i][f[i - 1]] = SinkLeft(f[i - 1], ptr, ptr + i)
    <3>1. i \in 1 .. count - 1 /\ f[i - 1] \in S[i - 1]
      BY <1>5, <2>2
    <3>2. QED
      BY <3>1 DEF next
  <2>3. \A i \in 0 .. count - 1 : (IF i = 0 THEN a ELSE next[i][f[i - 1]])
                                 = IF i = 0 THEN a ELSE SinkLeft(f[i - 1], ptr, ptr + i)
    BY <2>2
  <2>4. QED
    BY <2>1, <2>3
<1>7. loop = [i \in 0 .. count - 1 |-> IF i = 0 THEN a ELSE SinkLeft(loop[i - 1], ptr, ptr + i)]
  BY <1>6, Zenon
<1>8. InsertionSort(a, ptr, count) = loop[count - 1]
  BY Zenon DEF InsertionSort
<1> HIDE DEF loop
<1>9. loop[0] = a /\ \A i \in 1 .. count - 1 : loop[i] = SinkLeft(loop[i - 1], ptr, ptr + i)
  <2>1. \A i \in 0 .. count - 1 : loop[i] = IF i = 0 THEN a ELSE SinkLeft(loop[i - 1], ptr, ptr + i)
    BY <1>7
  <2>2. QED
    BY <1>3, <2>1
<1>10. \A i \in 1 .. count - 1 : loop[i - 1] \in S[i - 1] => loop[i] \in S[i]
  BY <1>2, <1>9
<1>11. \A i \in 0 .. count - 1 : loop[i] \in S[i]
  BY <1>1, <1>3, <1>9, <1>10, RoundsKeep
<1>12. loop[count - 1] \in S[count - 1]
  BY <1>3, <1>11
<1>13. ptr + (count - 1) = hi
  OBVIOUS
<1> HIDE DEF hi
<1>14. loop[count - 1] \in TablesOf(n) /\ InOrder(loop[count - 1], ptr, hi) /\ Permuted(a, loop[count - 1], ptr, hi)
  BY <1>3, <1>12, <1>13 DEF S
<1>15. QED
  BY <1>8, <1>14 DEF hi

-----------------------------------------------------------------------------
(* The partition                                                           *)

Partings(n) == [a : TablesOf(n), pa : Int, pb : Int, pc : Int, pd : Int, swapped : BOOLEAN]

\* The places of s, a partition of the elements of a from ptr up to pn: what
\* lies where.
Placed(s, ptr, pn) ==
    /\ ptr < s.pa /\ s.pa <= s.pb /\ s.pb <= s.pc + 1 /\ s.pc <= s.pd /\ s.pd < pn
    /\ \A k \in ptr .. s.pa - 1 : s.a[k].key = s.a[ptr].key
    /\ \A k \in s.pa .. s.pb - 1 : s.a[k].key < s.a[ptr].key
    /\ \A k \in s.pc + 1 .. s.pd : s.a[k].key > s.a[ptr].key
    /\ \A k \in s.pd + 1 .. pn - 1 : s.a[k].key = s.a[ptr].key

\* After i rounds as many elements are no longer between pb and pc.
PartedAfter(s, i, a, ptr, count) ==
    /\ Placed(s, ptr, ptr + count) /\ Permuted(a, s.a, ptr, ptr + count - 1)
    /\ s.pb > s.pc \/ s.pc - s.pb < count - 1 - i

LEMMA PartKeeps ==
    ASSUME NEW n \in Nat, NEW a \in TablesOf(n), NEW ptr \in Nat \ {0}, NEW count \in Nat \ {0}, ptr + count - 1 <= n,
           NEW i \in Nat \ {0}, NEW s \in Partings(n), PartedAfter(s, i - 1, a, ptr, count)
    PROVE  Part(s, ptr) \in Partings(n) /\ PartedAfter(Part(s, ptr), i, a, ptr, count)
<1> DEFINE pn == ptr + count
           hi == ptr + count - 1
           up   == compare(s.a[s.pb], s.a[ptr])
           down == compare(s.a[s.pc], s.a[ptr])
           r == Part(s, ptr)
<1>1. /\ s.a \in TablesOf(n) /\ s.pa \in Int /\ s.pb \in Int /\ s.pc \in Int /\ s.pd \in Int
      /\ s = Parting(s.a, s.pa, s.pb, s.pc, s.pd, s.swapped) /\ s.swapped \in BOOLEAN
  BY DEF Partings, Parting
<1>2. Placed(s, ptr, pn) /\ Permuted(a, s.a, ptr, hi) /\ (s.pb > s.pc \/ s.pc - s.pb < count - i)
  BY DEF PartedAfter
<1>3. ptr < s.pa /\ s.pa <= s.pb /\ s.pb <= s.pc + 1 /\ s.pc <= s.pd /\ s.pd < pn /\ pn = hi + 1 /\ hi \in Nat /\ hi <= n
  BY <1>2 DEF Placed
<1>4. \A k \in ptr .. hi : k \in 1 .. n /\ s.a[k].key \in Int
  BY <1>1, <1>3, KeyIsNumber
<1>5. CASE s.pb > s.pc
  <2>1. r = s
    BY <1>5 DEF Part
  <2>2. QED
    BY <1>2, <1>5, <2>1 DEF PartedAfter
<1> SUFFICES ASSUME s.pb <= s.pc PROVE r \in Partings(n) /\ PartedAfter(r, i, a, ptr, count)
  BY <1>1, <1>5 DEF r
<1>6. /\ s.pa \in ptr .. hi /\ s.pb \in ptr .. hi /\ s.pc \in ptr .. hi /\ s.pd \in ptr .. hi /\ ptr \in ptr .. hi
      /\ up = s.a[s.pb].key - s.a[ptr].key /\ down = s.a[s.pc].key - s.a[ptr].key
  BY <1>1, <1>3 DEF compare
<1> DEFINE v == s.a[ptr].key
<1>7. v \in Int /\ s.a[s.pb].key \in Int /\ s.a[s.pc].key \in Int
  BY <1>4, <1>6
<1>8. /\ \A k \in ptr .. s.pa - 1 : s.a[k].key = v
      /\ \A k \in s.pa .. s.pb - 1 : s.a[k].key < v
      /\ \A k \in s.pc + 1 .. s.pd : s.a[k].key > v
      /\ \A k \in s.pd + 1 .. hi : s.a[k].key = v
  BY <1>2, <1>3 DEF Placed
\* What an exchange leaves between ptr and the end.
<1>9. ASSUME NEW x \in ptr .. hi, NEW y \in ptr .. hi
      PROVE  /\ swapfunc(s.a, x, y) \in TablesOf(n) /\ Permuted(a, swapfunc(s.a, x, y), ptr, hi)
             /\ \A k \in ptr .. hi : swapfunc(s.a, x, y)[k] = IF k = y THEN s.a[x] ELSE IF k = x THEN s.a[y] ELSE s.a[k]
  <2>1. x \in 1 .. n /\ y \in 1 .. n
    BY <1>4
  <2>2. swapfunc(s.a, x, y) \in TablesOf(n)
        /\ \A k \in 1 .. n : swapfunc(s.a, x, y)[k] = IF k = y THEN s.a[x] ELSE IF k = x THEN s.a[y] ELSE s.a[k]
    <3>1. \A t \in TablesOf(n), i1, j1 \in 1 .. n :
             /\ swapfunc(t, i1, j1) \in TablesOf(n)
             /\ \A k \in 1 .. n : swapfunc(t, i1, j1)[k] = IF k = j1 THEN t[i1] ELSE IF k = i1 THEN t[j1] ELSE t[k]
      BY Exchanged, Zenon
    <3>2. s.a \in TablesOf(n)
      BY <1>1, Zenon
    <3> DEFINE t == s.a
    <3>3. t \in TablesOf(n)
      BY <3>2
    <3> HIDE DEF t
    <3>4. /\ swapfunc(t, x, y) \in TablesOf(n)
          /\ \A k \in 1 .. n : swapfunc(t, x, y)[k] = IF k = y THEN t[x] ELSE IF k = x THEN t[y] ELSE t[k]
      BY <2>1, <3>1, <3>3
    <3>5. QED
      BY <3>4 DEF t
  <2>3. Permuted(s.a, swapfunc(s.a, x, y), ptr, hi)
    BY <1>1, <1>3, ExchangeMoves
  <2>4. QED
    BY <1>1, <1>2, <1>4, <2>2, <2>3, MovedTwice
<1>16. r = IF up <= 0 THEN ScanUp(s, up = 0) ELSE IF down >= 0 THEN ScanDown(s, down = 0)
           ELSE Parting(swapfunc(s.a, s.pb, s.pc), s.pa, s.pb + 1, s.pc - 1, s.pd, TRUE)
  <2>1. ~(s.pb > s.pc)
    BY <1>1
  <2>2. QED
    BY <2>1, Zenon DEF Part
<1>17. /\ (up < 0 => up <= 0 /\ up # 0) /\ (up = 0 => up <= 0) /\ (up > 0 => ~(up <= 0))
       /\ (down > 0 => down >= 0 /\ down # 0) /\ (down = 0 => down >= 0) /\ (down < 0 => ~(down >= 0))
       /\ (up < 0 \/ up = 0 \/ up > 0) /\ (down < 0 \/ down = 0 \/ down > 0)
  BY <1>6, <1>7
<1>10. CASE up < 0
  <2> DEFINE t == Parting(s.a, s.pa, s.pb + 1, s.pc, s.pd, s.swapped)
  <2>2. r = t
    BY <1>16, <1>17, <1>10, Zenon DEF ScanUp
  <2>3. t \in Partings(n) /\ t.a = s.a /\ t.pa = s.pa /\ t.pb = s.pb + 1 /\ t.pc = s.pc /\ t.pd = s.pd
    BY <1>1 DEF Partings, Parting
  <2> HIDE DEF t
  <2>4. s.a[s.pb].key < v
    BY <1>6, <1>7, <1>10
  <2>5. Placed(t, ptr, pn)
    BY <1>1, <1>3, <1>6, <1>8, <2>3, <2>4 DEF Placed
  <2>6. QED
    BY <1>1, <1>2, <1>3, <2>2, <2>3, <2>5 DEF PartedAfter
<1>11. CASE up = 0
  <2> DEFINE b == swapfunc(s.a, s.pa, s.pb)
             t == Parting(b, s.pa + 1, s.pb + 1, s.pc, s.pd, TRUE)
  <2>1. r = t
    BY <1>16, <1>17, <1>11, Zenon DEF ScanUp
  <2>2. b \in TablesOf(n) /\ Permuted(a, b, ptr, hi)
        /\ \A k \in ptr .. hi : b[k] = IF k = s.pb THEN s.a[s.pa] ELSE IF k = s.pa THEN s.a[s.pb] ELSE s.a[k]
    BY <1>6, <1>9
  <2> HIDE DEF b
  <2>3. t \in Partings(n) /\ t.a = b /\ t.pa = s.pa + 1 /\ t.pb = s.pb + 1 /\ t.pc = s.pc /\ t.pd = s.pd
    BY <1>1, <2>2 DEF Partings, Parting
  <2> HIDE DEF t
  <2>4. s.a[s.pb].key = v
    BY <1>6, <1>7, <1>11
  <2>5. b[ptr] = s.a[ptr]
    BY <1>3, <1>6, <2>2
  <2>6. \A k \in ptr .. s.pa : b[k].key = v
    BY <1>1, <1>3, <1>6, <1>8, <2>2, <2>4
  <2>7. ASSUME NEW k \in s.pa + 1 .. s.pb PROVE b[k].key < v
    <3>1. CASE k = s.pb
      <4>1. b[k] = s.a[s.pa] /\ s.pa \in s.pa .. s.pb - 1
        BY <1>1, <1>3, <1>6, <2>2, <2>7, <3>1
      <4>2. QED
        BY <1>8, <4>1
    <3>2. CASE k # s.pb
      <4>1. b[k] = s.a[k] /\ k \in s.pa .. s.pb - 1
        BY <1>1, <1>3, <1>6, <2>2, <2>7, <3>2
      <4>2. QED
        BY <1>8, <4>1
    <3>3. QED
      BY <3>1, <3>2
  <2>8. \A k \in s.pc + 1 .. hi : b[k] = s.a[k]
    BY <1>1, <1>3, <1>6, <2>2
  <2>9. Placed(t, ptr, pn)
    BY <1>1, <1>3, <1>6, <1>8, <2>3, <2>5, <2>6, <2>7, <2>8 DEF Placed
  <2>10. QED
    BY <1>1, <1>2, <1>3, <2>1, <2>2, <2>3, <2>9 DEF PartedAfter
<1>12. CASE up > 0 /\ down > 0
  <2> DEFINE t == Parting(s.a, s.pa, s.pb, s.pc - 1, s.pd, s.swapped)
  <2>2. r = t
    BY <1>16, <1>17, <1>12, Zenon DEF ScanDown
  <2>3. t \in Partings(n) /\ t.a = s.a /\ t.pa = s.pa /\ t.pb = s.pb /\ t.pc = s.pc - 1 /\ t.pd = s.pd
    BY <1>1 DEF Partings, Parting
  <2> HIDE DEF t
  <2>4. s.a[s.pc].key > v
    BY <1>6, <1>7, <1>12
  <2>5. Placed(t, ptr, pn)
    BY <1>1, <1>3, <1>6, <1>8, <2>3, <2>4 DEF Placed
  <2>6. QED
    BY <1>1, <1>2, <1>3, <2>2, <2>3, <2>5 DEF PartedAfter
<1>13. CASE up > 0 /\ down = 0
  <2> DEFINE b == swapfunc(s.a, s.pc, s.pd)
             t == Parting(b, s.pa, s.pb, s.pc - 1, s.pd - 1, TRUE)
  <2>1. r = t
    BY <1>16, <1>17, <1>13, Zenon DEF ScanDown
  <2>2. b \in TablesOf(n) /\ Permuted(a, b, ptr, hi)
        /\ \A k \in ptr .. hi : b[k] = IF k = s.pd THEN s.a[s.pc] ELSE IF k = s.pc THEN s.a[s.pd] ELSE s.a[k]
    BY <1>6, <1>9
  <2> HIDE DEF b
  <2>3. t \in Partings(n) /\ t.a = b /\ t.pa = s.pa /\ t.pb = s.pb /\ t.pc = s.pc - 1 /\ t.pd = s.pd - 1
    BY <1>1, <2>2 DEF Partings, Parting
  <2> HIDE DEF t
  <2>4. s.a[s.pc].key = v
    BY <1>6, <1>7, <1>13
  <2>5. b[ptr] = s.a[ptr] /\ s.pb < s.pc
    <3>1. s.pb # s.pc
      BY <1>6, <1>13
    <3>2. QED
      BY <1>1, <1>3, <1>6, <2>2, <3>1
  <2>6. \A k \in s.pd .. hi : b[k].key = v
    BY <1>1, <1>3, <1>6, <1>8, <2>2, <2>4
  <2>7. ASSUME NEW k \in s.pc .. s.pd - 1 PROVE b[k].key > v
    <3>1. CASE k = s.pc
      <4>1. b[k] = s.a[s.pd] /\ s.pd \in s.pc + 1 .. s.pd
        BY <1>1, <1>3, <1>6, <2>2, <2>7, <3>1
      <4>2. QED
        BY <1>8, <4>1
    <3>2. CASE k # s.pc
      <4>1. b[k] = s.a[k] /\ k \in s.pc + 1 .. s.pd
        BY <1>1, <1>3, <1>6, <2>2, <2>7, <3>2
      <4>2. QED
        BY <1>8, <4>1
    <3>3. QED
      BY <3>1, <3>2
  <2>8. \A k \in ptr .. s.pb - 1 : b[k] = s.a[k]
    BY <1>1, <1>3, <1>6, <2>2, <2>5
  <2>9. Placed(t, ptr, pn)
    <3>1. (\A k \in ptr .. t.pa - 1 : b[k].key = v) /\ (\A k \in t.pa .. t.pb - 1 : b[k].key < v)
      BY <1>1, <1>3, <1>8, <2>3, <2>8
    <3>2. QED
      BY <1>1, <1>3, <1>6, <2>3, <2>5, <2>6, <2>7, <3>1 DEF Placed
  <2>10. QED
    BY <1>1, <1>2, <1>3, <2>1, <2>2, <2>3, <2>9 DEF PartedAfter
<1>14. CASE up > 0 /\ down < 0
  <2> DEFINE b == swapfunc(s.a, s.pb, s.pc)
             t == Parting(b, s.pa, s.pb + 1, s.pc - 1, s.pd, TRUE)
  <2>1. r = t
    BY <1>16, <1>17, <1>14, Zenon
  <2>2. b \in TablesOf(n) /\ Permuted(a, b, ptr, hi)
        /\ \A k \in ptr .. hi : b[k] = IF k = s.pc THEN s.a[s.pb] ELSE IF k = s.pb THEN s.a[s.pc] ELSE s.a[k]
    BY <1>6, <1>9
  <2> HIDE DEF b
  <2>3. t \in Partings(n) /\ t.a = b /\ t.pa = s.pa /\ t.pb = s.pb + 1 /\ t.pc = s.pc - 1 /\ t.pd = s.pd
    BY <1>1, <2>2 DEF Partings, Parting
  <2> HIDE DEF t
  <2>4. s.a[s.pc].key < v /\ s.a[s.pb].key > v /\ s.pb # s.pc
    BY <1>6, <1>7, <1>14
  <2>5. b[ptr] = s.a[ptr] /\ b[s.pb] = s.a[s.pc] /\ b[s.pc] = s.a[s.pb]
    BY <1>1, <1>3, <1>6, <2>2, <2>4
  <2>6. /\ \A k \in ptr .. s.pb - 1 : b[k] = s.a[k]
        /\ \A k \in s.pc + 1 .. hi : b[k] = s.a[k]
    BY <1>1, <1>3, <1>6, <2>2
  <2>7. \A k \in s.pa .. s.pb : b[k].key < v
    BY <1>1, <1>3, <1>8, <2>4, <2>5, <2>6
  <2>8. \A k \in s.pc .. s.pd : b[k].key > v
    BY <1>1, <1>3, <1>8, <2>4, <2>5, <2>6
  <2>9. (\A k \in ptr .. s.pa - 1 : b[k].key = v) /\ (\A k \in s.pd + 1 .. hi : b[k].key = v)
    BY <1>1, <1>3, <1>8, <2>6
  <2>10. Placed(t, ptr, pn)
    BY <1>1, <1>3, <1>6, <2>3, <2>4, <2>5, <2>7, <2>8, <2>9 DEF Placed
  <2>11. QED
    BY <1>1, <1>2, <1>3, <2>1, <2>2, <2>3, <2>10 DEF PartedAfter
<1>15. QED
  BY <1>17, <1>10, <1>11, <1>12, <1>13, <1>14, Zenon

\* The rounds of Partition leave nothing between pb and pc.
LEMMA PartitionParts ==
    ASSUME NEW n \in Nat, NEW a \in TablesOf(n), NEW ptr \in Nat \ {0}, NEW count \in Nat \ {0}, ptr + count - 1 <= n,
           NEW s \in Partings(n), PartedAfter(s, 0, a, ptr, count)
    PROVE  LET r == Partition(s, ptr, count)
           IN r \in Partings(n) /\ Placed(r, ptr, ptr + count) /\ Permuted(a, r.a, ptr, ptr + count - 1) /\ r.pb = r.pc + 1
<1> DEFINE S == [i \in 0 .. count |-> {t \in Partings(n) : PartedAfter(t, i, a, ptr, count)}]
           next == [i \in 1 .. count |-> [t \in S[i - 1] |-> Part(t, ptr)]]
           loop == CHOOSE f : f = [i \in 0 .. count |-> IF i = 0 THEN s ELSE Part(f[i - 1], ptr)]
<1>1. s \in S[0]
  OBVIOUS
<1>2. ASSUME NEW i \in 1 .. count, NEW t \in S[i - 1] PROVE Part(t, ptr) \in S[i]
  <2> DEFINE u == Part(t, ptr)
  <2>1. i - 1 \in 0 .. count /\ i \in 0 .. count /\ i \in Nat \ {0}
    OBVIOUS
  <2>2. t \in Partings(n) /\ PartedAfter(t, i - 1, a, ptr, count)
    BY <2>1
  <2> HIDE DEF S
  <2>3. u \in Partings(n) /\ PartedAfter(u, i, a, ptr, count)
    BY <2>1, <2>2, PartKeeps
  <2> HIDE DEF u
  <2>4. u \in S[i]
    BY <2>1, <2>3 DEF S
  <2>5. QED
    BY <2>4 DEF u
<1>4. \A i \in 1 .. count : next[i] \in [S[i - 1] -> S[i]]
  <2> HIDE DEF S
  <2>1. QED
    BY <1>2
<1> HIDE DEF S, next
<1>5. PICK f : Rounds(f, count, s, next) /\ \A i \in 0 .. count : f[i] \in S[i]
  BY <1>1, <1>4, RoundsExist
<1>6. f = [i \in 0 .. count |-> IF i = 0 THEN s ELSE Part(f[i - 1], ptr)]
  <2>1. f = [i \in 0 .. count |-> IF i = 0 THEN s ELSE next[i][f[i - 1]]]
    BY <1>5 DEF Rounds
  <2>2. ASSUME NEW i \in 0 .. count, i # 0 PROVE next[i][f[i - 1]] = Part(f[i - 1], ptr)
    <3>1. i \in 1 .. count /\ f[i - 1] \in S[i - 1]
      BY <1>5, <2>2
    <3>2. QED
      BY <3>1 DEF next
  <2>3. \A i \in 0 .. count : (IF i = 0 THEN s ELSE next[i][f[i - 1]]) = IF i = 0 THEN s ELSE Part(f[i - 1], ptr)
    BY <2>2
  <2>4. QED
    BY <2>1, <2>3
<1>7. loop = [i \in 0 .. count |-> IF i = 0 THEN s ELSE Part(loop[i - 1], ptr)]
  BY <1>6, Zenon
<1>8. Partition(s, ptr, count) = loop[count]
  BY Zenon DEF Partition
<1> HIDE DEF loop
<1>9. loop[0] = s /\ \A i \in 1 .. count : loop[i] = Part(loop[i - 1], ptr)
  <2>1. \A i \in 0 .. count : loop[i] = IF i = 0 THEN s ELSE Part(loop[i - 1], ptr)
    BY <1>7
  <2>2. QED
    BY <2>1
<1>10. \A i \in 1 .. count : loop[i - 1] \in S[i - 1] => loop[i] \in S[i]
  BY <1>2, <1>9
<1>11. \A i \in 0 .. count : loop[i] \in S[i]
  BY <1>1, <1>9, <1>10, RoundsKeep
<1> DEFINE r == loop[count]
<1>12. r \in S[count]
  BY <1>11
<1> HIDE DEF r
<1>13. r \in Partings(n) /\ PartedAfter(r, count, a, ptr, count)
  BY <1>12 DEF S
<1>14. r.pb = r.pc + 1
  <2>1. r.pb \in Int /\ r.pc \in Int /\ r.pb <= r.pc + 1 /\ (r.pb > r.pc \/ r.pc - r.pb < count - 1 - count)
    BY <1>13 DEF PartedAfter, Placed, Partings
  <2>2. QED
    BY <2>1
<1>15. r \in Partings(n) /\ Placed(r, ptr, ptr + count) /\ Permuted(a, r.a, ptr, ptr + count - 1) /\ r.pb = r.pc + 1
  BY <1>13, <1>14 DEF PartedAfter
<1>16. QED
  BY <1>8, <1>15 DEF r

\* The elements equal to the first one go between the others.
Divided(b, ptr, pn, smaller, greater, v) ==
    /\ \A k \in ptr .. ptr + smaller - 1 : b[k].key < v
    /\ \A k \in ptr + smaller .. pn - greater - 1 : b[k].key = v
    /\ \A k \in pn - greater .. pn - 1 : b[k].key > v

LEMMA GatheredDivides ==
    ASSUME NEW n \in Nat, NEW ptr \in Nat \ {0}, NEW count \in Nat \ {0}, ptr + count - 1 <= n,
           NEW s \in Partings(n), Placed(s, ptr, ptr + count), s.pb = s.pc + 1
    PROVE  LET b == Gathered(s, ptr, ptr + count)
           IN /\ b \in TablesOf(n) /\ Permuted(s.a, b, ptr, ptr + count - 1)
              /\ Divided(b, ptr, ptr + count, s.pb - s.pa, s.pd - s.pc, s.a[ptr].key)
<1> DEFINE pn == ptr + count
           hi == ptr + count - 1
           d1 == Min({s.pa - ptr, s.pb - s.pa})
           left == vecswap(s.a, ptr, s.pb - d1, d1)
           d2 == Min({s.pd - s.pc, pn - s.pd - 1})
           b == vecswap(left, s.pb, pn - d2, d2)
           v == s.a[ptr].key
<1>1. s.a \in TablesOf(n) /\ s.pa \in Int /\ s.pb \in Int /\ s.pc \in Int /\ s.pd \in Int
  BY DEF Partings
<1>2. ptr < s.pa /\ s.pa <= s.pb /\ s.pc <= s.pd /\ s.pd < pn /\ pn = hi + 1 /\ hi \in Nat /\ hi <= n /\ pn \in Nat
  BY DEF Placed
<1>3. /\ \A k \in ptr .. s.pa - 1 : s.a[k].key = v
      /\ \A k \in s.pa .. s.pb - 1 : s.a[k].key < v
      /\ \A k \in s.pb .. s.pd : s.a[k].key > v
      /\ \A k \in s.pd + 1 .. hi : s.a[k].key = v
  BY <1>2 DEF Placed
<1>4. ASSUME NEW x \in Nat, NEW y \in Nat
      PROVE  Min({x, y}) \in Nat /\ Min({x, y}) <= x /\ Min({x, y}) <= y /\ (Min({x, y}) = x \/ Min({x, y}) = y)
  <2>1. {x, y} \subseteq Nat /\ {x, y} # {}
    OBVIOUS
  <2>2. Min({x, y}) \in {x, y} /\ \A z \in {x, y} : Min({x, y}) <= z
    BY <2>1, LeastNumber
  <2>3. QED
    BY <2>2
<1>5. d1 \in Nat /\ d1 <= s.pa - ptr /\ d1 <= s.pb - s.pa /\ (d1 = s.pa - ptr \/ d1 = s.pb - s.pa)
  <2>1. s.pa - ptr \in Nat /\ s.pb - s.pa \in Nat
    BY <1>1, <1>2
  <2>2. QED
    BY <1>4, <2>1
<1>6. d2 \in Nat /\ d2 <= s.pd - s.pc /\ d2 <= pn - s.pd - 1 /\ (d2 = s.pd - s.pc \/ d2 = pn - s.pd - 1)
  <2>1. s.pd - s.pc \in Nat /\ pn - s.pd - 1 \in Nat
    BY <1>1, <1>2
  <2>2. QED
    BY <1>4, <2>1
<1>7. Gathered(s, ptr, pn) = b
  BY Zenon DEF Gathered
<1> HIDE DEF d1, d2
<1>8. /\ left \in TablesOf(n) /\ Permuted(s.a, left, ptr, hi)
      /\ \A k \in 1 .. n : left[k] = IF k \in ptr .. ptr + d1 - 1 THEN s.a[(s.pb - d1) + (k - ptr)]
                                     ELSE IF k \in s.pb - d1 .. (s.pb - d1) + d1 - 1 THEN s.a[ptr + (k - (s.pb - d1))]
                                     ELSE s.a[k]
  <2>1. s.pb - d1 \in Int /\ ptr + d1 <= s.pb - d1 /\ (s.pb - d1) + d1 <= hi + 1 /\ ptr \in Int /\ hi \in Int /\ 1 <= ptr
    BY <1>1, <1>2, <1>5
  <2> DEFINE i == ptr
             j == s.pb - d1
  <2>2. s.a \in TablesOf(n) /\ i \in Int /\ j \in Int /\ d1 \in Nat /\ ptr \in Int /\ hi \in Int /\ 1 <= ptr /\ hi <= n
        /\ ptr <= i /\ i + d1 <= j /\ j + d1 <= hi + 1
    BY <1>1, <1>2, <1>5, <2>1
  <2> HIDE DEF i, j, hi
  <2>3. /\ vecswap(s.a, i, j, d1) \in TablesOf(n)
        /\ \A k \in 1 .. n : vecswap(s.a, i, j, d1)[k] =
                IF k \in i .. i + d1 - 1 THEN s.a[j + (k - i)]
                ELSE IF k \in j .. j + d1 - 1 THEN s.a[i + (k - j)] ELSE s.a[k]
        /\ Permuted(s.a, vecswap(s.a, i, j, d1), ptr, hi)
    BY <2>2, VectorsExchanged, Zenon
  <2>4. QED
    BY <2>3, Zenon DEF i, j
<1> HIDE DEF left
<1>9. /\ b \in TablesOf(n) /\ Permuted(left, b, ptr, hi)
      /\ \A k \in 1 .. n : b[k] = IF k \in s.pb .. s.pb + d2 - 1 THEN left[(pn - d2) + (k - s.pb)]
                                  ELSE IF k \in pn - d2 .. (pn - d2) + d2 - 1 THEN left[s.pb + (k - (pn - d2))]
                                  ELSE left[k]
  <2>1. pn - d2 \in Int /\ s.pb + d2 <= pn - d2 /\ (pn - d2) + d2 <= hi + 1 /\ ptr \in Int /\ hi \in Int /\ 1 <= ptr
        /\ ptr <= s.pb /\ hi <= n /\ s.pb \in Int /\ d2 \in Nat
    BY <1>1, <1>2, <1>6
  <2> HIDE DEF hi, pn, b
  <2>2. left \in TablesOf(n)
    BY <1>8, Zenon
  <2> DEFINE i == s.pb
             j == pn - d2
  <2>3. i \in Int /\ j \in Int /\ d2 \in Nat /\ ptr \in Int /\ hi \in Int /\ 1 <= ptr /\ hi <= n /\ ptr <= i
        /\ i + d2 <= j /\ j + d2 <= hi + 1
    BY <2>1
  <2> HIDE DEF i, j
  <2>5. /\ vecswap(left, i, j, d2) \in TablesOf(n)
        /\ \A k \in 1 .. n : vecswap(left, i, j, d2)[k] =
                IF k \in i .. i + d2 - 1 THEN left[j + (k - i)]
                ELSE IF k \in j .. j + d2 - 1 THEN left[i + (k - j)] ELSE left[k]
        /\ Permuted(left, vecswap(left, i, j, d2), ptr, hi)
    BY <2>2, <2>3, VectorsExchanged, Zenon
  <2>4. QED
    BY <2>5, Zenon DEF b, i, j
<1> HIDE DEF b
<1> DEFINE lower == ptr + (s.pb - s.pa)
           upper == pn - (s.pd - s.pc)
<1>10. lower \in Int /\ upper \in Int /\ ptr <= lower /\ lower < s.pb /\ s.pb <= upper /\ upper <= pn
  BY <1>1, <1>2
<1>11. \A k \in ptr .. hi : k \in 1 .. n
  BY <1>2
<1>12. ASSUME NEW k \in ptr .. lower - 1 PROVE left[k].key < v
  <2>1. k \in ptr .. hi
    BY <1>1, <1>2
  <2>2. CASE k < ptr + d1
    <3>1. left[k] = s.a[(s.pb - d1) + (k - ptr)]
      BY <1>5, <1>8, <1>11, <2>1, <2>2
    <3>2. (s.pb - d1) + (k - ptr) \in s.pa .. s.pb - 1
      BY <1>1, <1>2, <1>5, <2>2
    <3>3. QED
      BY <1>3, <3>1, <3>2
  <2>3. CASE k >= ptr + d1
    <3>1. k \in s.pa .. s.pb - 1 /\ k \notin s.pb - d1 .. (s.pb - d1) + d1 - 1
      BY <1>1, <1>2, <1>5, <2>3
    <3>2. left[k] = s.a[k]
      BY <1>5, <1>8, <1>11, <2>1, <2>3, <3>1
    <3>3. QED
      BY <1>3, <3>1, <3>2
  <2>4. QED
    BY <1>1, <1>5, <2>2, <2>3
<1>13. ASSUME NEW k \in lower .. s.pb - 1 PROVE left[k].key = v
  <2>1. k \in ptr .. hi /\ k \notin ptr .. ptr + d1 - 1
    BY <1>1, <1>2, <1>5
  <2>2. CASE k >= s.pb - d1
    <3>1. left[k] = s.a[ptr + (k - (s.pb - d1))]
      BY <1>1, <1>5, <1>8, <1>11, <2>1, <2>2
    <3>2. ptr + (k - (s.pb - d1)) \in ptr .. s.pa - 1
      BY <1>1, <1>2, <1>5, <2>2
    <3>3. QED
      BY <1>3, <3>1, <3>2
  <2>3. CASE k < s.pb - d1
    <3>1. k \in ptr .. s.pa - 1 /\ k \notin s.pb - d1 .. (s.pb - d1) + d1 - 1
      BY <1>1, <1>2, <1>5, <2>3
    <3>2. left[k] = s.a[k]
      BY <1>8, <1>11, <2>1, <3>1
    <3>3. QED
      BY <1>3, <3>1, <3>2
  <2>4. QED
    BY <1>1, <1>5, <2>2, <2>3
<1>14. \A k \in s.pb .. hi : left[k] = s.a[k]
  <2>1. \A k \in s.pb .. hi : k \in 1 .. n /\ k \notin ptr .. ptr + d1 - 1 /\ k \notin s.pb - d1 .. (s.pb - d1) + d1 - 1
    BY <1>1, <1>2, <1>5
  <2>2. QED
    BY <1>8, <2>1
<1>15. ASSUME NEW k \in ptr .. s.pb - 1 PROVE b[k] = left[k]
  <2>1. k \in 1 .. n /\ k \notin s.pb .. s.pb + d2 - 1 /\ k \notin pn - d2 .. (pn - d2) + d2 - 1
    BY <1>1, <1>2, <1>6
  <2>2. QED
    BY <1>9, <2>1
<1>16. ASSUME NEW k \in upper .. hi PROVE b[k].key > v
  <2>1. k \in 1 .. n
    BY <1>1, <1>2
  <2>2. CASE k >= pn - d2
    <3>1. s.pb + (k - (pn - d2)) \in s.pb .. s.pd
      BY <1>1, <1>2, <1>6, <2>2
    <3>2. k \notin s.pb .. s.pb + d2 - 1 /\ k \in pn - d2 .. (pn - d2) + d2 - 1
      BY <1>1, <1>2, <1>6, <2>2
    <3>3. b[k] = left[s.pb + (k - (pn - d2))]
      BY <1>9, <2>1, <3>2
    <3>4. s.pb + (k - (pn - d2)) \in s.pb .. hi
      BY <1>1, <1>2, <3>1
    <3>5. QED
      BY <1>3, <1>14, <3>1, <3>3, <3>4
  <2>3. CASE k < pn - d2
    <3>1. k \in s.pb .. s.pd /\ k \in s.pb .. hi /\ k \notin s.pb .. s.pb + d2 - 1 /\ k \notin pn - d2 .. (pn - d2) + d2 - 1
      BY <1>1, <1>2, <1>6, <2>3
    <3>2. b[k] = left[k]
      BY <1>9, <2>1, <3>1
    <3>3. QED
      BY <1>3, <1>14, <3>1, <3>2
  <2>4. QED
    BY <1>1, <1>2, <1>6, <2>2, <2>3
<1>17. ASSUME NEW k \in s.pb .. upper - 1 PROVE b[k].key = v
  <2>1. k \in 1 .. n /\ k \in s.pb .. hi
    BY <1>1, <1>2
  <2>2. CASE k < s.pb + d2
    <3>1. k \in s.pb .. s.pb + d2 - 1 /\ (pn - d2) + (k - s.pb) \in s.pd + 1 .. hi /\ (pn - d2) + (k - s.pb) \in s.pb .. hi
      BY <1>1, <1>2, <1>6, <2>2
    <3>2. b[k] = left[(pn - d2) + (k - s.pb)]
      BY <1>9, <2>1, <3>1
    <3>3. QED
      BY <1>3, <1>14, <3>1, <3>2
  <2>3. CASE k >= s.pb + d2
    <3>1. k \in s.pd + 1 .. hi /\ k \notin s.pb .. s.pb + d2 - 1 /\ k \notin pn - d2 .. (pn - d2) + d2 - 1
      BY <1>1, <1>2, <1>6, <2>3
    <3>2. b[k] = left[k]
      BY <1>9, <2>1, <3>1
    <3>3. QED
      BY <1>3, <1>14, <2>1, <3>1, <3>2
  <2>4. QED
    BY <1>1, <1>2, <1>6, <2>2, <2>3
<1>18. Divided(b, ptr, pn, s.pb - s.pa, s.pd - s.pc, v)
  <2> HIDE DEF v
  <2>1. \A k \in ptr .. lower - 1 : b[k].key < v
    BY <1>1, <1>2, <1>12, <1>15
  <2>2. \A k \in lower .. s.pb - 1 : b[k].key = v
    BY <1>1, <1>10, <1>13, <1>15
  <2>3. \A k \in lower .. upper - 1 : b[k].key = v
    BY <1>1, <1>10, <1>17, <2>2
  <2>4. \A k \in upper .. pn - 1 : b[k].key > v
    BY <1>2, <1>16
  <2> DEFINE x == s.pb - s.pa
             y == s.pd - s.pc
  <2>6. /\ \A k \in ptr .. ptr + x - 1 : b[k].key < v
        /\ \A k \in ptr + x .. pn - y - 1 : b[k].key = v
        /\ \A k \in pn - y .. pn - 1 : b[k].key > v
    <3>1. ptr + x = lower /\ pn - y = upper /\ x \in Int /\ y \in Int /\ lower \in Int /\ upper \in Int /\ pn \in Int
      BY <1>1, <1>2
    <3> HIDE DEF x, y, lower, upper, pn
    <3>2. QED
      BY <2>1, <2>3, <2>4, <3>1
  <2> HIDE DEF x, y, pn
  <2>7. Divided(b, ptr, pn, x, y, v)
    BY <2>6, Zenon DEF Divided
  <2>5. QED
    BY <2>7, Zenon DEF x, y
<1>19. Permuted(s.a, b, ptr, hi)
  BY <1>1, <1>8, <1>9, MovedTwice
<1>20. QED
  BY <1>7, <1>9, <1>18, <1>19

-----------------------------------------------------------------------------
(* Once round the loop                                                     *)

LEMMA PivotInside ==
    ASSUME NEW a, NEW ptr \in Nat \ {0}, NEW count \in Nat, count >= 7
    PROVE  Pivot(a, ptr, count) \in ptr .. ptr + count - 1
<1> DEFINE middle == ptr + (count \div 2)
           last   == ptr + count - 1
           d      == count \div 8
<1>1. middle \in ptr .. last /\ last \in ptr .. last /\ ptr \in ptr .. last
  OBVIOUS
<1>2. count >= 8 => /\ d \in Nat /\ ptr + d \in ptr .. last /\ ptr + 2 * d \in ptr .. last
                    /\ middle - d \in ptr .. last /\ middle + d \in ptr .. last
                    /\ last - 2 * d \in ptr .. last /\ last - d \in ptr .. last
  OBVIOUS
<1>3. \A x, y, z : med3(a, x, y, z) \in {x, y, z}
  BY Zenon DEF med3
<1> HIDE DEF middle, last, d
<1>4. CASE count = 7
  <2>1. Pivot(a, ptr, count) = middle
    BY <1>4 DEF Pivot, middle
  <2>2. QED
    BY <1>1, <2>1 DEF last
<1>5. CASE count > 7 /\ count <= 40
  <2>1. Pivot(a, ptr, count) = med3(a, ptr, middle, last)
    BY <1>5 DEF Pivot, middle, last
  <2>2. QED
    BY <1>1, <1>3, <2>1 DEF last
<1>6. CASE count > 40
  <2>1. Pivot(a, ptr, count) = med3(a, med3(a, ptr, ptr + d, ptr + 2 * d), med3(a, middle - d, middle, middle + d),
                                       med3(a, last - 2 * d, last - d, last))
    BY <1>6 DEF Pivot, middle, last, d
  <2>2. /\ med3(a, ptr, ptr + d, ptr + 2 * d) \in ptr .. last
        /\ med3(a, middle - d, middle, middle + d) \in ptr .. last
        /\ med3(a, last - 2 * d, last - d, last) \in ptr .. last
    <3>1. med3(a, ptr, ptr + d, ptr + 2 * d) \in {ptr, ptr + d, ptr + 2 * d}
      BY <1>3
    <3>2. med3(a, middle - d, middle, middle + d) \in {middle - d, middle, middle + d}
      BY <1>3
    <3>3. med3(a, last - 2 * d, last - d, last) \in {last - 2 * d, last - d, last}
      BY <1>3
    <3>4. count >= 8
      BY <1>6
    <3>5. QED
      BY <1>1, <1>2, <3>1, <3>2, <3>3, <3>4
  <2>3. Pivot(a, ptr, count) \in ptr .. last
    <3> DEFINE x == med3(a, ptr, ptr + d, ptr + 2 * d)
               y == med3(a, middle - d, middle, middle + d)
               z == med3(a, last - 2 * d, last - d, last)
    <3>1. med3(a, x, y, z) \in {x, y, z}
      BY <1>3
    <3>2. x \in ptr .. last /\ y \in ptr .. last /\ z \in ptr .. last /\ Pivot(a, ptr, count) = med3(a, x, y, z)
      BY <2>1, <2>2
    <3> HIDE DEF x, y, z
    <3>3. QED
      BY <3>1, <3>2
  <2>4. QED
    BY <2>3 DEF last
<1>7. QED
  BY <1>4, <1>5, <1>6

\* Of two elements the first is not greater, or they are on the same side.
SidesInOrder(b, ptr, pn, smaller, greater) ==
    \A j, k \in ptr .. pn - 1 : j < k => b[j].key <= b[k].key \/ k < ptr + smaller \/ j >= pn - greater

\* What going once round makes of a and of the other parts.
RoundDone(a, r, rest, n, ptr, count) ==
    /\ r = [a |-> r.a, parts |-> r.parts] /\ r.a \in TablesOf(n) /\ Permuted(a, r.a, ptr, ptr + count - 1)
    /\ \E smaller, greater \in Nat :
          /\ smaller + greater < count
          /\ r.parts = rest \cup ToSort(ptr, smaller) \cup ToSort(ptr + count - greater, greater)
          /\ SidesInOrder(r.a, ptr, ptr + count, smaller, greater)

LEMMA InsertionDone ==
    ASSUME NEW n \in Nat, NEW a \in TablesOf(n), NEW b \in TablesOf(n), NEW rest, NEW ptr \in Nat \ {0},
           NEW count \in Nat \ {0}, ptr + count - 1 <= n, Permuted(a, b, ptr, ptr + count - 1)
    PROVE  RoundDone(a, [a |-> InsertionSort(b, ptr, count), parts |-> rest], rest, n, ptr, count)
<1> DEFINE c == InsertionSort(b, ptr, count)
           r == [a |-> c, parts |-> rest]
<1>1. c \in TablesOf(n) /\ InOrder(c, ptr, ptr + count - 1) /\ Permuted(b, c, ptr, ptr + count - 1)
  BY InsertedInOrder
<1> HIDE DEF c
<1>2. Permuted(a, c, ptr, ptr + count - 1)
  BY <1>1, MovedTwice
<1>3. r.a = c /\ r.parts = rest /\ r = [a |-> r.a, parts |-> r.parts]
  OBVIOUS
<1> HIDE DEF r
<1>4. SidesInOrder(c, ptr, ptr + count, 0, 0)
  BY <1>1 DEF SidesInOrder, InOrder
<1>5. r.parts = rest \cup ToSort(ptr, 0) \cup ToSort(ptr + count - 0, 0)
  BY <1>3 DEF ToSort
<1>6. RoundDone(a, r, rest, n, ptr, count)
  BY <1>1, <1>2, <1>3, <1>4, <1>5 DEF RoundDone
<1>7. QED
  BY <1>6 DEF r, c

LEMMA SortPartDone ==
    ASSUME NEW n \in Nat, NEW a \in TablesOf(n), NEW rest, NEW ptr \in Nat \ {0},
           NEW count \in Nat \ {0}, ptr + count - 1 <= n
    PROVE  RoundDone(a, SortPart(a, rest, ptr, count), rest, n, ptr, count)
<1> DEFINE hi == ptr + count - 1
           pn == ptr + count
           r  == SortPart(a, rest, ptr, count)
<1>1. CASE count < 7
  <2>1. r = [a |-> InsertionSort(a, ptr, count), parts |-> rest]
    BY <1>1, Zenon DEF SortPart
  <2>2. Permuted(a, a, ptr, ptr + count - 1)
    BY NothingMoved
  <2>3. QED
    BY <2>1, <2>2, InsertionDone, Zenon
<1>2. CASE count >= 7
  <2> DEFINE p == Pivot(a, ptr, count)
             b == swapfunc(a, ptr, p)
             s0 == Parting(b, ptr + 1, ptr + 1, ptr + count - 1, ptr + count - 1, FALSE)
             s == Partition(s0, ptr, count)
             smaller == s.pb - s.pa
             greater == s.pd - s.pc
  <2>1. p \in ptr .. hi /\ ptr \in ptr .. hi /\ ptr \in Int /\ hi \in Int /\ 1 <= ptr /\ hi <= n
        /\ p \in 1 .. n /\ ptr \in 1 .. n
    BY <1>2, PivotInside
  <2> HIDE DEF p
  <2>2. b \in TablesOf(n) /\ Permuted(a, b, ptr, hi)
    BY <2>1, Exchanged, ExchangeMoves
  <2> HIDE DEF b
  <2>3. s0 \in Partings(n) /\ s0.a = b /\ s0.pa = ptr + 1 /\ s0.pb = ptr + 1 /\ s0.pc = hi /\ s0.pd = hi
    BY <2>2 DEF Partings, Parting
  <2> HIDE DEF s0
  <2>4. PartedAfter(s0, 0, b, ptr, count)
    <3>1. Permuted(b, b, ptr, hi)
      BY NothingMoved
    <3>2. b[ptr].key \in Int
      BY <2>1, <2>2, KeyIsNumber
    <3>3. Placed(s0, ptr, pn)
      BY <1>2, <2>3, <3>2 DEF Placed
    <3>4. QED
      BY <1>2, <2>3, <3>1, <3>3 DEF PartedAfter
  <2>5. s \in Partings(n) /\ Placed(s, ptr, pn) /\ Permuted(b, s.a, ptr, hi) /\ s.pb = s.pc + 1
    BY <2>2, <2>3, <2>4, PartitionParts
  <2>6. r = IF ~s.swapped THEN [a |-> InsertionSort(s.a, ptr, count), parts |-> rest]
            ELSE [a |-> Gathered(s, ptr, pn),
                  parts |-> rest \cup ToSort(ptr, smaller) \cup ToSort(pn - greater, greater)]
    <3>1. ~(count < 7)
      BY <1>2
    <3>2. QED
      BY <3>1, Zenon DEF SortPart, s0, b, p
  <2> HIDE DEF s
  <2>7. s.a \in TablesOf(n) /\ Permuted(a, s.a, ptr, hi)
    <3> DEFINE t == s.a
    <3>1. t \in TablesOf(n) /\ Permuted(b, t, ptr, hi)
      BY <2>5 DEF Partings
    <3> HIDE DEF t, hi
    <3>2. Permuted(a, t, ptr, hi)
      BY <2>2, <3>1, MovedTwice, Zenon
    <3>3. QED
      BY <3>1, <3>2 DEF t
  <2>8. CASE ~s.swapped
    <3> DEFINE t == s.a
    <3>1. t \in TablesOf(n) /\ Permuted(a, t, ptr, ptr + count - 1)
      BY <2>7
    <3>2. r = [a |-> InsertionSort(t, ptr, count), parts |-> rest]
      BY <2>6, <2>8, Zenon
    <3> HIDE DEF t
    <3>3. QED
      BY <3>1, <3>2, InsertionDone, Zenon
  <2>9. CASE s.swapped
    <3> DEFINE c == Gathered(s, ptr, pn)
               v == s.a[ptr].key
    <3>1. c \in TablesOf(n) /\ Permuted(s.a, c, ptr, hi) /\ Divided(c, ptr, pn, smaller, greater, v)
      BY <2>5, GatheredDivides
    <3>2. r = [a |-> c, parts |-> rest \cup ToSort(ptr, smaller) \cup ToSort(pn - greater, greater)]
      BY <2>6, <2>9, Zenon
    <3>3. v \in Int
      BY <2>1, <2>7, KeyIsNumber
    <3>4. smaller \in Nat /\ greater \in Nat /\ smaller + greater < count
      BY <2>5 DEF Placed, Partings
    <3> HIDE DEF c, v, smaller, greater
    <3>5. /\ r.a = c /\ r.parts = rest \cup ToSort(ptr, smaller) \cup ToSort(pn - greater, greater)
          /\ r = [a |-> r.a, parts |-> r.parts]
      BY <3>2
    <3> HIDE DEF r
    <3>6. Permuted(a, c, ptr, hi)
      <4> DEFINE t == s.a
      <4>1. t \in TablesOf(n) /\ Permuted(a, t, ptr, hi) /\ Permuted(t, c, ptr, hi)
        BY <2>7, <3>1
      <4> HIDE DEF t, hi
      <4>2. QED
        BY <4>1, MovedTwice, Zenon
    <3>7. SidesInOrder(c, ptr, pn, smaller, greater)
      <4>1. ASSUME NEW j \in ptr .. pn - 1, NEW k \in ptr .. pn - 1, j < k, k >= ptr + smaller, j < pn - greater
            PROVE  c[j].key <= c[k].key
        <5>1. c[j].key \in Int /\ c[k].key \in Int
          BY <2>1, <3>1, KeyIsNumber
        <5>2. c[j].key <= v
          BY <3>1, <3>3, <3>4, <4>1, <5>1 DEF Divided
        <5>3. v <= c[k].key
          BY <3>1, <3>3, <3>4, <4>1, <5>1 DEF Divided
        <5>4. QED
          BY <3>3, <5>1, <5>2, <5>3
      <4>2. QED
        BY <3>4, <4>1 DEF SidesInOrder
    <3>8. QED
      BY <3>1, <3>4, <3>5, <3>6, <3>7 DEF RoundDone, r
  <2>10. QED
    BY <2>8, <2>9
<1>3. QED
  BY <1>1, <1>2

-----------------------------------------------------------------------------
(* The sort with a context                                                 *)

PartsOf(n) == {p \in [ptr : Nat \ {0}, count : Nat] : p.count >= 2 /\ p.ptr + p.count - 1 <= n}
Within(p)  == p.ptr .. p.ptr + p.count - 1
Open(parts, n) == {k \in 1 .. n : \E p \in parts : k \in Within(p)}

\* Parts share no place, and two elements that are not in order lie in one part.
PartsApart(parts) == \A p, q \in parts : p # q => Within(p) \cap Within(q) = {}
OrderedButParts(a, parts, n) ==
    \A j, k \in 1 .. n : j < k => a[j].key <= a[k].key \/ \E p \in parts : j \in Within(p) /\ k \in Within(p)
SortsTo(s, a0, n) ==
    /\ s \in [a : TablesOf(n), parts : SUBSET PartsOf(n)]
    /\ Permuted(a0, s.a, 1, n) /\ PartsApart(s.parts) /\ OrderedButParts(s.a, s.parts, n)

\* Two places of one side lie in the part of that side.
PairsIn(side, lo, hi) ==
    \A j, k : j \in lo .. hi /\ k \in lo .. hi /\ j < k => \E q \in side : j \in Within(q) /\ k \in Within(q)
UpperSide(part, greater) == part.ptr + part.count - greater
SidesOf(part, smaller, greater) == ToSort(part.ptr, smaller) \cup ToSort(UpperSide(part, greater), greater)
SidesFit(part, smaller, greater, n) ==
    /\ SidesOf(part, smaller, greater) \subseteq PartsOf(n) /\ PartsApart(SidesOf(part, smaller, greater))
    /\ \A q \in SidesOf(part, smaller, greater) :
          Within(q) \subseteq Within(part) /\ part.ptr + smaller \notin Within(q)
    /\ PairsIn(ToSort(part.ptr, smaller), part.ptr, part.ptr + smaller - 1)
    /\ PairsIn(ToSort(UpperSide(part, greater), greater), UpperSide(part, greater), part.ptr + part.count - 1)

LEMMA SidesToSort ==
    ASSUME NEW n \in Nat, NEW part \in PartsOf(n), NEW smaller \in Nat, NEW greater \in Nat,
           smaller + greater < part.count
    PROVE  SidesFit(part, smaller, greater, n)
<1> DEFINE ptr == part.ptr
           count == part.count
           top == ptr + count - greater
           lower == ToSort(ptr, smaller)
           upper == ToSort(top, greater)
<1>1. ptr \in Nat \ {0} /\ count \in Nat /\ ptr + count - 1 <= n /\ Within(part) = ptr .. ptr + count - 1
  BY DEF PartsOf, Within
<1> HIDE DEF ptr, count
<1>2. top \in Nat \ {0} /\ top = ptr + count - greater /\ ptr + smaller < top
  BY <1>1 DEF ptr, count
<1> HIDE DEF top
<1>3. ASSUME NEW q \in lower
      PROVE  q \in PartsOf(n) /\ Within(q) = ptr .. ptr + smaller - 1 /\ q = Elements(ptr, smaller)
  <2>1. q = [ptr |-> ptr, count |-> smaller] /\ smaller > 1
    BY DEF ToSort, Elements
  <2>2. q.ptr = ptr /\ q.count = smaller
    BY <2>1
  <2>3. Within(q) = ptr .. ptr + smaller - 1
    BY <2>2 DEF Within
  <2>4. q \in [ptr : Nat \ {0}, count : Nat] /\ q.ptr + q.count - 1 <= n /\ q.count >= 2
    BY <1>1, <1>2, <2>1, <2>2
  <2>5. QED
    BY <2>1, <2>3, <2>4 DEF PartsOf, Elements
<1>4. ASSUME NEW q \in upper
      PROVE  q \in PartsOf(n) /\ Within(q) = top .. ptr + count - 1 /\ q = Elements(top, greater)
  <2>1. q = [ptr |-> top, count |-> greater] /\ greater > 1
    BY DEF ToSort, Elements
  <2>2. q.ptr = top /\ q.count = greater
    BY <2>1
  <2>3. Within(q) = top .. ptr + count - 1
    BY <1>1, <1>2, <2>2 DEF Within
  <2>4. q \in [ptr : Nat \ {0}, count : Nat] /\ q.ptr + q.count - 1 <= n /\ q.count >= 2
    BY <1>1, <1>2, <2>1, <2>2
  <2>5. QED
    BY <2>1, <2>3, <2>4 DEF PartsOf, Elements
<1>5. (smaller > 1 => Elements(ptr, smaller) \in lower) /\ (greater > 1 => Elements(top, greater) \in upper)
  BY DEF ToSort
<1> HIDE DEF lower, upper
<1>6. lower \cup upper \subseteq PartsOf(n)
  BY <1>3, <1>4
<1>7. PartsApart(lower \cup upper)
  <2>1. ASSUME NEW p \in lower \cup upper, NEW q \in lower \cup upper, p # q PROVE Within(p) \cap Within(q) = {}
    <3>1. CASE p \in lower /\ q \in upper
      BY <1>1, <1>2, <1>3, <1>4, <3>1
    <3>2. CASE q \in lower /\ p \in upper
      BY <1>1, <1>2, <1>3, <1>4, <3>2
    <3>3. ~(p \in lower /\ q \in lower) /\ ~(p \in upper /\ q \in upper)
      BY <1>3, <1>4, <2>1
    <3>4. QED
      BY <3>1, <3>2, <3>3
  <2>2. QED
    BY <2>1 DEF PartsApart
<1>8. ASSUME NEW q \in lower \cup upper PROVE Within(q) \subseteq Within(part) /\ ptr + smaller \notin Within(q)
  BY <1>1, <1>2, <1>3, <1>4
<1>9. ASSUME NEW j, NEW k, j \in ptr .. ptr + smaller - 1, k \in ptr .. ptr + smaller - 1, j < k
      PROVE  \E q \in lower : j \in Within(q) /\ k \in Within(q)
  <2>1. smaller > 1
    BY <1>1, <1>9
  <2>2. QED
    BY <1>3, <1>5, <1>9, <2>1
<1>10. ASSUME NEW j, NEW k, j \in top .. ptr + count - 1, k \in top .. ptr + count - 1, j < k
       PROVE  \E q \in upper : j \in Within(q) /\ k \in Within(q)
  <2>1. greater > 1
    BY <1>1, <1>2, <1>10
  <2>2. QED
    BY <1>4, <1>5, <1>10, <2>1
<1>11. PairsIn(lower, ptr, ptr + smaller - 1) /\ PairsIn(upper, top, ptr + count - 1)
  BY <1>9, <1>10 DEF PairsIn
<1>12. QED
  BY <1>6, <1>7, <1>8, <1>11 DEF SidesFit, SidesOf, UpperSide, ptr, count, top, lower, upper

\* The part that is sorted next is one of those left.
LEMMA PartTaken ==
    ASSUME NEW n \in Nat, NEW parts, parts \subseteq PartsOf(n), parts # {}
    PROVE  (CHOOSE p \in parts : \A q \in parts : p.ptr <= q.ptr) \in parts
<1> DEFINE P == {p.ptr : p \in parts}
<1>1. P \subseteq Nat /\ P # {}
  BY DEF PartsOf
<1>2. Min(P) \in P /\ \A x \in P : Min(P) <= x
  <2> HIDE DEF P
  <2>1. QED
    BY <1>1, LeastNumber
<1>3. PICK p \in parts : p.ptr = Min(P)
  BY <1>2
<1>4. \A q \in parts : p.ptr <= q.ptr
  BY <1>2, <1>3
<1>5. QED
  BY <1>4, Zenon

\* The order after a round, from that before and that of the sides.
LEMMA RoundOrders ==
    ASSUME NEW n \in Nat, NEW a \in TablesOf(n), NEW parts, parts \subseteq PartsOf(n), PartsApart(parts),
           OrderedButParts(a, parts, n), NEW part \in parts, NEW b \in TablesOf(n),
           Permuted(a, b, part.ptr, part.ptr + part.count - 1),
           NEW smaller \in Nat, NEW greater \in Nat, smaller + greater < part.count,
           SidesInOrder(b, part.ptr, part.ptr + part.count, smaller, greater)
    PROVE  OrderedButParts(b, (parts \ {part}) \cup ToSort(part.ptr, smaller)
                                                \cup ToSort(part.ptr + part.count - greater, greater), n)
<1> DEFINE lo == part.ptr
           hi == part.ptr + part.count - 1
           pn == part.ptr + part.count
           lower == ToSort(part.ptr, smaller)
           upper == ToSort(part.ptr + part.count - greater, greater)
           left == (parts \ {part}) \cup lower \cup upper
<1>1. lo \in Nat \ {0} /\ hi \in Nat /\ hi <= n /\ Within(part) = lo .. hi /\ lo .. hi \subseteq 1 .. n /\ pn = hi + 1
      /\ part \in PartsOf(n) /\ lo <= hi /\ DOMAIN a = 1 .. n
  BY DEF PartsOf, Within, TablesOf
<1>2. PairsIn(lower, lo, lo + smaller - 1) /\ PairsIn(upper, pn - greater, pn - 1)
  <2>1. part \in PartsOf(n)
    BY <1>1
  <2>2. SidesFit(part, smaller, greater, n)
    BY <2>1, SidesToSort
  <2>3. PairsIn(lower, lo, lo + smaller - 1) /\ PairsIn(upper, UpperSide(part, greater), hi)
    BY <2>2, Zenon DEF SidesFit, UpperSide
  <2>4. UpperSide(part, greater) = pn - greater /\ hi = pn - 1
    BY <2>1 DEF UpperSide, PartsOf
  <2>5. QED
    BY <2>3, <2>4, Zenon
<1>3. /\ \A k \in 1 .. n : k \notin lo .. hi => b[k] = a[k]
      /\ \A k \in lo .. hi : \E j \in lo .. hi : b[k] = a[j]
  BY <1>1 DEF Permuted
<1>4. \A j, k \in lo .. pn - 1 : j < k => b[j].key <= b[k].key \/ k < lo + smaller \/ j >= pn - greater
  BY DEF SidesInOrder
<1>5. \A j, k \in 1 .. n : j < k => a[j].key <= a[k].key \/ \E p \in parts : j \in Within(p) /\ k \in Within(p)
  BY DEF OrderedButParts
<1>6. \A p \in parts, k \in lo .. hi : k \in Within(p) => p = part
  BY <1>1 DEF PartsApart
<1> HIDE DEF lo, hi, pn, lower, upper
<1>7. ASSUME NEW j \in 1 .. n, NEW k \in 1 .. n, j < k
      PROVE  b[j].key <= b[k].key \/ \E p \in left : j \in Within(p) /\ k \in Within(p)
  <2>1. CASE j \notin lo .. hi /\ k \notin lo .. hi
    <3>1. b[j] = a[j] /\ b[k] = a[k]
      BY <1>3, <2>1
    <3>2. CASE a[j].key <= a[k].key
      BY <3>1, <3>2
    <3>3. CASE \E p \in parts : j \in Within(p) /\ k \in Within(p)
      <4>1. PICK p \in parts : j \in Within(p) /\ k \in Within(p)
        BY <3>3
      <4>2. p # part
        BY <1>1, <2>1, <4>1
      <4>3. QED
        BY <4>1, <4>2
    <3>4. QED
      BY <1>5, <1>7, <3>2, <3>3
  <2>2. CASE j \in lo .. hi /\ k \in lo .. hi
    <3>1. b[j].key <= b[k].key \/ k < lo + smaller \/ j >= pn - greater
      BY <1>1, <1>4, <1>7, <2>2
    <3>2. CASE k < lo + smaller
      <4>1. j \in lo .. lo + smaller - 1 /\ k \in lo .. lo + smaller - 1
        BY <1>1, <1>7, <2>2, <3>2
      <4>2. QED
        BY <1>2, <1>7, <4>1 DEF PairsIn
    <3>3. CASE j >= pn - greater
      <4>1. j \in pn - greater .. pn - 1 /\ k \in pn - greater .. pn - 1
        BY <1>1, <1>7, <2>2, <3>3
      <4>2. QED
        BY <1>2, <1>7, <4>1 DEF PairsIn
    <3>4. QED
      BY <3>1, <3>2, <3>3
  <2>3. CASE j \in lo .. hi /\ k \notin lo .. hi
    <3>1. PICK m \in lo .. hi : b[j] = a[m]
      BY <1>3, <2>3
    <3>2. b[k] = a[k] /\ m \in 1 .. n /\ m < k
      BY <1>1, <1>3, <1>7, <2>3
    <3>3. ~\E p \in parts : m \in Within(p) /\ k \in Within(p)
      BY <1>1, <1>6, <2>3
    <3>4. a[m].key <= a[k].key
      BY <1>5, <3>2, <3>3
    <3>5. QED
      BY <3>1, <3>2, <3>4
  <2>4. CASE j \notin lo .. hi /\ k \in lo .. hi
    <3>1. PICK m \in lo .. hi : b[k] = a[m]
      BY <1>3, <2>4
    <3>2. b[j] = a[j] /\ m \in 1 .. n /\ j < m
      BY <1>1, <1>3, <1>7, <2>4
    <3>3. ~\E p \in parts : j \in Within(p) /\ m \in Within(p)
      BY <1>1, <1>6, <2>4
    <3>4. a[j].key <= a[m].key
      BY <1>5, <3>2, <3>3
    <3>5. QED
      BY <3>1, <3>2, <3>4
  <2>5. QED
    BY <2>1, <2>2, <2>3, <2>4
<1>8. QED
  BY <1>7 DEF OrderedButParts, lower, upper

LEMMA RoundSorts ==
    ASSUME NEW n \in Nat, NEW a0 \in TablesOf(n), NEW s, SortsTo(s, a0, n), s.parts # {}
    PROVE  /\ SortsTo(SortNext(s), a0, n)
           /\ Cardinality(Open(SortNext(s).parts, n)) < Cardinality(Open(s.parts, n))
<1> DEFINE a == s.a
           parts == s.parts
           part == CHOOSE p \in parts : \A q \in parts : p.ptr <= q.ptr
           r == SortNext(s)
           rest == parts \ {part}
<1>1. a \in TablesOf(n) /\ parts \subseteq PartsOf(n) /\ Permuted(a0, a, 1, n) /\ PartsApart(parts)
      /\ OrderedButParts(a, parts, n) /\ parts # {}
  BY DEF SortsTo
<1>2. part \in parts
  <2> HIDE DEF parts
  <2>1. QED
    BY <1>1, PartTaken
<1>3. r = SortPart(a, rest, part.ptr, part.count)
  BY Zenon DEF SortNext
<1> HIDE DEF part, a, parts
<1> DEFINE ptr == part.ptr
           count == part.count
<1>4. part \in PartsOf(n) /\ ptr \in Nat \ {0} /\ count \in Nat \ {0} /\ ptr + count - 1 <= n
  BY <1>1, <1>2 DEF PartsOf
<1>5. RoundDone(a, r, rest, n, ptr, count)
  <2> HIDE DEF r, rest, ptr, count
  <2>1. RoundDone(a, SortPart(a, rest, ptr, count), rest, n, ptr, count)
    BY <1>1, <1>4, SortPartDone, Zenon
  <2>2. QED
    BY <1>3, <2>1, Zenon DEF ptr, count
<1> HIDE DEF r
<1>6. PICK smaller \in Nat, greater \in Nat :
          /\ smaller + greater < count
          /\ r.parts = rest \cup ToSort(ptr, smaller) \cup ToSort(ptr + count - greater, greater)
          /\ SidesInOrder(r.a, ptr, ptr + count, smaller, greater)
  BY <1>5, Zenon DEF RoundDone
<1>7. r = [a |-> r.a, parts |-> r.parts] /\ r.a \in TablesOf(n) /\ Permuted(a, r.a, ptr, ptr + count - 1)
  BY <1>5, Zenon DEF RoundDone
<1> DEFINE sides == ToSort(ptr, smaller) \cup ToSort(ptr + count - greater, greater)
<1>8. /\ sides \subseteq PartsOf(n) /\ PartsApart(sides)
      /\ \A q \in sides : Within(q) \subseteq Within(part) /\ ptr + smaller \notin Within(q)
  <2>1. SidesFit(part, smaller, greater, n)
    BY <1>4, <1>6, SidesToSort
  <2>2. QED
    BY <2>1, Zenon DEF SidesFit, SidesOf, UpperSide
<1>9. r.parts = rest \cup sides
  BY <1>6
<1>10. OrderedButParts(r.a, r.parts, n)
  <2> DEFINE b == r.a
  <2>1. b \in TablesOf(n) /\ Permuted(a, b, part.ptr, part.ptr + part.count - 1)
        /\ SidesInOrder(b, part.ptr, part.ptr + part.count, smaller, greater)
    BY <1>6, <1>7
  <2> HIDE DEF b
  <2>2. OrderedButParts(b, (parts \ {part}) \cup ToSort(part.ptr, smaller)
                                             \cup ToSort(part.ptr + part.count - greater, greater), n)
    BY <1>1, <1>2, <1>6, <2>1, RoundOrders
  <2>3. QED
    BY <1>6, <2>2, Zenon DEF b
<1> HIDE DEF sides
<1>11. r.parts \subseteq PartsOf(n)
  BY <1>1, <1>8, <1>9
<1>12. PartsApart(r.parts)
  <2>1. ASSUME NEW p \in rest, NEW q \in sides PROVE Within(p) \cap Within(q) = {} /\ Within(q) \cap Within(p) = {}
    <3>1. Within(p) \cap Within(part) = {} /\ Within(q) \subseteq Within(part)
      BY <1>1, <1>2, <1>8 DEF PartsApart
    <3>2. QED
      BY <3>1
  <2>2. \A p, q \in rest : p # q => Within(p) \cap Within(q) = {}
    BY <1>1 DEF PartsApart
  <2>3. \A p, q \in sides : p # q => Within(p) \cap Within(q) = {}
    BY <1>8 DEF PartsApart
  <2> HIDE DEF rest
  <2>4. QED
    BY <1>9, <2>1, <2>2, <2>3 DEF PartsApart
<1>13. Permuted(a0, r.a, 1, n)
  <2> DEFINE b == r.a
             hi == ptr + count - 1
  <2>1. b \in TablesOf(n) /\ Permuted(a, b, ptr, hi) /\ ptr \in Int /\ hi \in Int /\ 1 \in Int /\ n \in Int
        /\ 1 <= ptr /\ hi <= n /\ 1 <= 1 /\ n <= n
    BY <1>4, <1>7
  <2> HIDE DEF b, hi, ptr
  <2>2. Permuted(a, b, 1, n)
    BY <1>1, <2>1, MovedInside, Zenon
  <2>3. Permuted(a0, b, 1, n)
    BY <1>1, <2>1, <2>2, MovedTwice, Zenon
  <2>4. QED
    BY <2>3 DEF b
<1>14. SortsTo(r, a0, n)
  BY <1>7, <1>10, <1>11, <1>12, <1>13 DEF SortsTo
<1>15. Cardinality(Open(r.parts, n)) < Cardinality(Open(parts, n))
  <2>1. Open(r.parts, n) \subseteq Open(parts, n)
    BY <1>2, <1>8, <1>9 DEF Open
  <2> DEFINE x == ptr + smaller
  <2>2. x \in Within(part) /\ x \in 1 .. n
    BY <1>4, <1>6 DEF Within
  <2>3. x \in Open(parts, n)
    BY <1>2, <2>2 DEF Open
  <2>4. x \notin Open(r.parts, n)
    <3>1. \A p \in rest : x \notin Within(p)
      BY <1>1, <1>2, <2>2 DEF PartsApart
    <3>2. \A p \in sides : x \notin Within(p)
      BY <1>8
    <3> HIDE DEF x, rest
    <3>3. QED
      BY <1>9, <3>1, <3>2 DEF Open
  <2>5. IsFiniteSet(Open(parts, n))
    <3>1. IsFiniteSet(1 .. n) /\ Open(parts, n) \subseteq 1 .. n
      BY FS_Interval DEF Open
    <3>2. QED
      BY <3>1, FS_Subset
  <2>6. /\ Cardinality(Open(r.parts, n)) \in Nat /\ Cardinality(Open(parts, n)) \in Nat
        /\ Cardinality(Open(r.parts, n)) <= Cardinality(Open(parts, n))
        /\ (Cardinality(Open(r.parts, n)) = Cardinality(Open(parts, n)) => Open(r.parts, n) = Open(parts, n))
    BY <2>1, <2>5, FS_Subset, FS_CardinalityType
  <2>7. QED
    BY <2>3, <2>4, <2>6
<1>16. QED
  BY <1>14, <1>15 DEF r, parts

\* The rounds come to an end in time, and the table is in order then.
LEMMA QuickSorted ==
    ASSUME NEW n \in Nat \ {0}, NEW a \in TablesOf(n)
    PROVE  QuickSort(a, n) \in TablesOf(n) /\ InOrder(QuickSort(a, n), 1, n) /\ Permuted(a, QuickSort(a, n), 1, n)
<1> DEFINE X == [a : TablesOf(n), parts : SUBSET PartsOf(n)]
           S == [i \in 0 .. n |->
                    {s \in X : SortsTo(s, a, n) /\ (s.parts = {} \/ Cardinality(Open(s.parts, n)) <= n - i)}]
           s0 == [a |-> a, parts |-> ToSort(1, n)]
           next == [i \in 1 .. n |-> [s \in S[i - 1] |-> SortNext(s)]]
           loop == CHOOSE f : f = [i \in 0 .. n |-> IF i = 0 THEN s0 ELSE SortNext(f[i - 1])]
<1>1. \A parts : IsFiniteSet(Open(parts, n)) /\ Cardinality(Open(parts, n)) \in Nat /\ Cardinality(Open(parts, n)) <= n
  <2>1. ASSUME NEW parts
        PROVE IsFiniteSet(Open(parts, n)) /\ Cardinality(Open(parts, n)) \in Nat /\ Cardinality(Open(parts, n)) <= n
    <3>1. IsFiniteSet(1 .. n) /\ Open(parts, n) \subseteq 1 .. n /\ Cardinality(1 .. n) = n
      BY FS_Interval DEF Open
    <3>2. IsFiniteSet(Open(parts, n)) /\ Cardinality(Open(parts, n)) <= n
      BY <3>1, FS_Subset
    <3>3. QED
      BY <3>2, FS_CardinalityType
  <2>2. QED
    BY <2>1
<1>2. s0 \in S[0]
  <2>1. ASSUME NEW q \in ToSort(1, n) PROVE q = Elements(1, n) /\ q \in PartsOf(n) /\ Within(q) = 1 .. n
    <3>1. q = [ptr |-> 1, count |-> n] /\ n > 1
      BY DEF ToSort, Elements
    <3>2. q \in [ptr : Nat \ {0}, count : Nat] /\ q.ptr = 1 /\ q.count = n
      BY <3>1
    <3>3. QED
      BY <3>1, <3>2 DEF PartsOf, Within, Elements
  <2>2. ToSort(1, n) \subseteq PartsOf(n) /\ PartsApart(ToSort(1, n))
    BY <2>1 DEF PartsApart
  <2>3. OrderedButParts(a, ToSort(1, n), n)
    <3>1. ASSUME NEW j \in 1 .. n, NEW k \in 1 .. n, j < k
          PROVE  \E p \in ToSort(1, n) : j \in Within(p) /\ k \in Within(p)
      <4>1. n > 1
        BY <3>1
      <4>2. Elements(1, n) \in ToSort(1, n)
        BY <4>1 DEF ToSort
      <4>3. QED
        BY <2>1, <4>2
    <3>2. QED
      BY <3>1 DEF OrderedButParts
  <2>4. s0.a = a /\ s0.parts = ToSort(1, n) /\ s0 \in X
    BY <2>2
  <2> HIDE DEF s0, X
  <2>5. SortsTo(s0, a, n)
    BY <2>2, <2>3, <2>4, NothingMoved DEF SortsTo, X
  <2>6. Cardinality(Open(s0.parts, n)) <= n - 0
    BY <1>1
  <2>7. QED
    BY <2>4, <2>5, <2>6
<1>3. ASSUME NEW i \in 1 .. n, NEW s \in S[i - 1] PROVE SortNext(s) \in S[i]
  <2>1. i - 1 \in 0 .. n /\ i \in 0 .. n
    OBVIOUS
  <2>2. s \in X /\ SortsTo(s, a, n) /\ (s.parts = {} \/ Cardinality(Open(s.parts, n)) <= n - (i - 1))
    BY <2>1
  <2> DEFINE r == SortNext(s)
  <2> HIDE DEF S, X, r
  <2>3. CASE s.parts = {}
    <3>1. r = s
      BY <2>3 DEF SortNext, r
    <3>2. QED
      BY <2>1, <2>2, <2>3, <3>1 DEF S, r
  <2>4. CASE s.parts # {}
    <3>1. SortsTo(r, a, n) /\ Cardinality(Open(r.parts, n)) < Cardinality(Open(s.parts, n))
      BY <2>2, <2>4, RoundSorts DEF r
    <3>2. Cardinality(Open(r.parts, n)) <= n - i
      <4> DEFINE x == Cardinality(Open(r.parts, n))
                 y == Cardinality(Open(s.parts, n))
      <4>1. x \in Nat /\ y \in Nat /\ y <= n - (i - 1) /\ x < y
        BY <1>1, <2>2, <2>4, <3>1
      <4> HIDE DEF x, y
      <4>2. x <= n - i
        BY <4>1
      <4>3. QED
        BY <4>2 DEF x
    <3>3. r \in X
      BY <3>1 DEF SortsTo, X
    <3>4. QED
      BY <2>1, <3>1, <3>2, <3>3 DEF S, r
  <2>5. QED
    BY <2>3, <2>4
<1>4. \A i \in 1 .. n : next[i] \in [S[i - 1] -> S[i]]
  <2> HIDE DEF S
  <2>1. QED
    BY <1>3
<1> HIDE DEF S, next, s0
<1>5. PICK f : Rounds(f, n, s0, next) /\ \A i \in 0 .. n : f[i] \in S[i]
  BY <1>2, <1>4, RoundsExist
<1>6. f = [i \in 0 .. n |-> IF i = 0 THEN s0 ELSE SortNext(f[i - 1])]
  <2>1. f = [i \in 0 .. n |-> IF i = 0 THEN s0 ELSE next[i][f[i - 1]]]
    BY <1>5 DEF Rounds
  <2>2. ASSUME NEW i \in 0 .. n, i # 0 PROVE next[i][f[i - 1]] = SortNext(f[i - 1])
    <3>1. i \in 1 .. n /\ f[i - 1] \in S[i - 1]
      BY <1>5, <2>2
    <3>2. QED
      BY <3>1 DEF next
  <2>3. \A i \in 0 .. n : (IF i = 0 THEN s0 ELSE next[i][f[i - 1]]) = IF i = 0 THEN s0 ELSE SortNext(f[i - 1])
    BY <2>2
  <2>4. QED
    BY <2>1, <2>3
<1>7. loop = [i \in 0 .. n |-> IF i = 0 THEN s0 ELSE SortNext(loop[i - 1])]
  BY <1>6, Zenon
<1>8. QuickSort(a, n) = loop[n].a
  BY Zenon DEF QuickSort, s0
<1> HIDE DEF loop
<1>9. loop[0] = s0 /\ \A i \in 1 .. n : loop[i] = SortNext(loop[i - 1])
  <2>1. \A i \in 0 .. n : loop[i] = IF i = 0 THEN s0 ELSE SortNext(loop[i - 1])
    BY <1>7
  <2>2. QED
    BY <2>1
<1>10. \A i \in 1 .. n : loop[i - 1] \in S[i - 1] => loop[i] \in S[i]
  BY <1>3, <1>9
<1>11. \A i \in 0 .. n : loop[i] \in S[i]
  BY <1>2, <1>9, <1>10, RoundsKeep
<1> DEFINE r == loop[n]
<1>12. r \in S[n]
  BY <1>11
<1> HIDE DEF r
<1>13. SortsTo(r, a, n) /\ (r.parts = {} \/ Cardinality(Open(r.parts, n)) <= n - n)
  BY <1>12 DEF S
<1>14. r.a \in TablesOf(n) /\ r.parts \subseteq PartsOf(n) /\ Permuted(a, r.a, 1, n) /\ OrderedButParts(r.a, r.parts, n)
  BY <1>13 DEF SortsTo
<1>15. r.parts = {}
  <2>1. SUFFICES ASSUME r.parts # {} PROVE FALSE
    OBVIOUS
  <2>2. Cardinality(Open(r.parts, n)) = 0
    BY <1>1, <1>13, <2>1
  <2>3. Open(r.parts, n) = {}
    BY <1>1, <2>2, FS_EmptySet
  <2>4. PICK p \in r.parts : TRUE
    BY <2>1
  <2>5. p.ptr \in 1 .. n /\ p.ptr \in Within(p)
    BY <1>14, <2>4 DEF PartsOf, Within
  <2>6. QED
    BY <2>3, <2>4, <2>5 DEF Open
<1>16. InOrder(r.a, 1, n)
  <2>1. ASSUME NEW j \in 1 .. n, NEW k \in 1 .. n, j <= k PROVE r.a[j].key <= r.a[k].key
    <3>1. r.a[j].key \in Int
      BY <1>14, KeyIsNumber
    <3>2. j < k => r.a[j].key <= r.a[k].key
      BY <1>14, <1>15 DEF OrderedButParts
    <3>3. QED
      BY <2>1, <3>1, <3>2
  <2>2. QED
    BY <2>1 DEF InOrder
<1>17. QED
  BY <1>8, <1>14, <1>16 DEF r

-----------------------------------------------------------------------------
(* The search by halves                                                    *)

\* Neighbours in order are enough.
LEMMA NeighboursInOrder ==
    ASSUME NEW n \in Nat, NEW a \in TablesOf(n), \A i \in 1 .. n - 1 : a[i].key <= a[i + 1].key
    PROVE  InOrder(a, 1, n)
<1>1. \A i \in 1 .. n : a[i].key \in Int
  BY KeyIsNumber
<1>2. ASSUME NEW j \in 1 .. n PROVE \A k \in 1 .. n : j <= k => a[j].key <= a[k].key
  <2> DEFINE Wrong == {k \in 1 .. n : j <= k /\ a[j].key > a[k].key}
  <2>1. SUFFICES ASSUME Wrong # {} PROVE FALSE
    BY <1>1
  <2>2. Wrong \subseteq Nat
    OBVIOUS
  <2> DEFINE k == Min(Wrong)
  <2>3. k \in Wrong /\ \A y \in Wrong : k <= y
    <3> HIDE DEF Wrong
    <3>1. QED
      BY <2>1, <2>2, LeastNumber
  <2> HIDE DEF k
  <2>4. k \in 1 .. n /\ j < k /\ a[j].key > a[k].key
    BY <1>1, <2>3
  <2>5. k - 1 \in 1 .. n - 1 /\ k - 1 \in 1 .. n /\ (k - 1) + 1 = k /\ j <= k - 1
    BY <2>4
  <2>6. k - 1 \notin Wrong
    BY <2>3, <2>4
  <2>7. a[j].key <= a[k - 1].key
    BY <1>1, <2>5, <2>6
  <2>8. a[k - 1].key <= a[k].key
    BY <2>5
  <2>9. a[j].key \in Int /\ a[k - 1].key \in Int /\ a[k].key \in Int
    BY <1>1, <2>4, <2>5
  <2>10. QED
    BY <2>4, <2>7, <2>8, <2>9
<1>3. QED
  BY <1>2 DEF InOrder

Equal(key, a, n) == {k \in 1 .. n : a[k].key = key.key}
Halvings == [base : Int, lim : Nat, at : Nat]

\* The equal elements left are those of the lim elements from base on, which
\* get fewer with every round, until one is found.
HalvedAfter(h, i, key, a, n) ==
    /\ h.at # 0 => h.at \in Equal(key, a, n)
    /\ h.at = 0 => /\ 1 <= h.base /\ h.base + h.lim <= n + 1 /\ h.lim <= n - i
                   /\ \A k \in Equal(key, a, n) : h.base <= k /\ k < h.base + h.lim

LEMMA HalfKeeps ==
    ASSUME NEW n \in Nat \ {0}, NEW a \in TablesOf(n), InOrder(a, 1, n), NEW key \in Element,
           NEW i \in 1 .. n, NEW h \in Halvings, HalvedAfter(h, i - 1, key, a, n)
    PROVE  Halve(key, a, h) \in Halvings /\ HalvedAfter(Halve(key, a, h), i, key, a, n)
<1> DEFINE r == Halve(key, a, h)
           base == h.base
           lim == h.lim
           at == h.at
           p == base + (lim \div 2)
           cmp == compare(key, a[p])
<1>1. base \in Int /\ lim \in Nat /\ at \in Nat /\ h = Halving(base, lim, at)
  BY DEF Halvings, Halving
<1>2. /\ at # 0 => at \in Equal(key, a, n)
      /\ at = 0 => /\ 1 <= base /\ base + lim <= n + 1 /\ lim <= n - (i - 1)
                   /\ \A k \in Equal(key, a, n) : base <= k /\ k < base + lim
  BY DEF HalvedAfter
<1>3. r = IF lim = 0 \/ at # 0 THEN h ELSE IF cmp = 0 THEN Halving(base, lim, p)
          ELSE IF cmp > 0 THEN Halving(p + 1, (lim - 1) \div 2, 0) ELSE Halving(base, lim \div 2, 0)
  BY Zenon DEF Halve
<1>4. CASE lim = 0 \/ at # 0
  <2>1. r = h
    BY <1>3, <1>4, Zenon
  <2>2. at = 0 => lim <= n - i
    BY <1>4
  <2>3. HalvedAfter(h, i, key, a, n)
    BY <1>1, <1>2, <2>2 DEF HalvedAfter
  <2>4. QED
    BY <2>1, <2>3
<1>5. CASE ~(lim = 0 \/ at # 0)
  <2>1. lim \in Nat \ {0} /\ 1 <= base /\ base + lim <= n + 1 /\ lim <= n - i + 1
        /\ \A k \in Equal(key, a, n) : base <= k /\ k < base + lim
    BY <1>1, <1>2, <1>5
  <2>2. p \in 1 .. n /\ base <= p /\ p < base + lim /\ p \in Nat /\ p # 0
    BY <1>1, <2>1
  <2>3. /\ lim \div 2 \in Nat /\ lim \div 2 <= n - i /\ base + (lim \div 2) = p
        /\ (lim - 1) \div 2 \in Nat /\ (lim - 1) \div 2 <= n - i
        /\ (p + 1) + ((lim - 1) \div 2) = base + lim
    <3> HIDE DEF lim, base
    <3>1. QED
      BY <1>1, <2>1
  <2>4. r = IF cmp = 0 THEN Halving(base, lim, p)
          ELSE IF cmp > 0 THEN Halving(p + 1, (lim - 1) \div 2, 0) ELSE Halving(base, lim \div 2, 0)
    BY <1>3, <1>5, Zenon
  <2> HIDE DEF p
  <2>5. cmp = key.key - a[p].key /\ key.key \in Int /\ a[p].key \in Int
    BY <2>2, KeyIsNumber DEF compare, Element
  <2>6. \A k \in 1 .. n : a[k].key \in Int /\ (k <= p => a[k].key <= a[p].key) /\ (p <= k => a[p].key <= a[k].key)
    BY <2>2, KeyIsNumber DEF InOrder
  <2> HIDE DEF base, lim, at, r, cmp
  <2>7. CASE cmp = 0
    <3> DEFINE t == Halving(base, lim, p)
    <3>1. r = t
      BY <2>4, <2>7, Zenon
    <3>2. t \in Halvings /\ t.at = p
      BY <1>1, <2>2 DEF Halving, Halvings
    <3>3. p \in Equal(key, a, n)
      BY <2>2, <2>5, <2>7 DEF Equal
    <3> HIDE DEF t
    <3>4. HalvedAfter(t, i, key, a, n)
      BY <2>2, <3>2, <3>3 DEF HalvedAfter
    <3>5. QED
      BY <3>1, <3>2, <3>4 DEF r
  <2>8. CASE cmp > 0
    <3> DEFINE t == Halving(p + 1, (lim - 1) \div 2, 0)
    <3>1. r = t
      <4>1. cmp # 0
        BY <2>8
      <4>2. QED
        BY <2>4, <2>8, <4>1, Zenon
    <3>2. t \in Halvings /\ t.at = 0 /\ t.base = p + 1 /\ t.lim = (lim - 1) \div 2
      BY <2>2, <2>3 DEF Halving, Halvings
    <3>3. \A k \in Equal(key, a, n) : k \in 1 .. n /\ p < k
      BY <2>2, <2>5, <2>6, <2>8 DEF Equal
    <3> HIDE DEF t
    <3>4. HalvedAfter(t, i, key, a, n)
      BY <1>1, <2>1, <2>2, <2>3, <3>2, <3>3 DEF HalvedAfter
    <3>5. QED
      BY <3>1, <3>2, <3>4 DEF r
  <2>9. CASE cmp < 0
    <3> DEFINE t == Halving(base, lim \div 2, 0)
    <3>1. r = t
      <4>1. cmp # 0 /\ ~(cmp > 0)
        BY <2>5, <2>9
      <4>2. QED
        BY <2>4, <4>1, Zenon
    <3>2. t \in Halvings /\ t.at = 0 /\ t.base = base /\ t.lim = lim \div 2
      BY <1>1, <2>2, <2>3 DEF Halving, Halvings
    <3>3. \A k \in Equal(key, a, n) : k \in 1 .. n /\ k < p
      BY <2>2, <2>5, <2>6, <2>9 DEF Equal
    <3> HIDE DEF t
    <3>4. HalvedAfter(t, i, key, a, n)
      BY <1>1, <2>1, <2>2, <2>3, <3>2, <3>3 DEF HalvedAfter
    <3>5. QED
      BY <3>1, <3>2, <3>4 DEF r
  <2>10. QED
    BY <2>5, <2>7, <2>8, <2>9
<1>6. QED
  BY <1>4, <1>5

\* An element that is equal is found, and only such an element.
LEMMA HalvedFinds ==
    ASSUME NEW n \in Nat, NEW a \in TablesOf(n), InOrder(a, 1, n), NEW key \in Element
    PROVE  IF Equal(key, a, n) # {} THEN Halved(key, a, n) \in Equal(key, a, n) ELSE Halved(key, a, n) = 0
<1> DEFINE S == [i \in 0 .. n |-> {h \in Halvings : HalvedAfter(h, i, key, a, n)}]
           h0 == Halving(1, n, 0)
           next == [i \in 1 .. n |-> [h \in S[i - 1] |-> Halve(key, a, h)]]
           loop == CHOOSE f : f = [i \in 0 .. n |-> IF i = 0 THEN h0 ELSE Halve(key, a, f[i - 1])]
<1>1. h0 \in S[0]
  <2>1. h0 \in Halvings /\ h0.at = 0 /\ h0.base = 1 /\ h0.lim = n
    BY DEF Halving, Halvings
  <2> HIDE DEF h0
  <2>2. HalvedAfter(h0, 0, key, a, n)
    BY <2>1 DEF HalvedAfter, Equal
  <2>3. QED
    BY <2>1, <2>2
<1>2. ASSUME NEW i \in 1 .. n, NEW h \in S[i - 1] PROVE Halve(key, a, h) \in S[i]
  <2> DEFINE u == Halve(key, a, h)
  <2>1. i - 1 \in 0 .. n /\ i \in 0 .. n
    OBVIOUS
  <2>2. h \in Halvings /\ HalvedAfter(h, i - 1, key, a, n)
    BY <2>1
  <2> HIDE DEF S
  <2>3. u \in Halvings /\ HalvedAfter(u, i, key, a, n)
    BY <2>2, HalfKeeps
  <2> HIDE DEF u
  <2>4. u \in S[i]
    BY <2>1, <2>3 DEF S
  <2>5. QED
    BY <2>4 DEF u
<1>3. \A i \in 1 .. n : next[i] \in [S[i - 1] -> S[i]]
  <2> HIDE DEF S
  <2>1. QED
    BY <1>2
<1> HIDE DEF S, next, h0
<1>4. PICK f : Rounds(f, n, h0, next) /\ \A i \in 0 .. n : f[i] \in S[i]
  BY <1>1, <1>3, RoundsExist
<1>5. f = [i \in 0 .. n |-> IF i = 0 THEN h0 ELSE Halve(key, a, f[i - 1])]
  <2>1. f = [i \in 0 .. n |-> IF i = 0 THEN h0 ELSE next[i][f[i - 1]]]
    BY <1>4 DEF Rounds
  <2>2. ASSUME NEW i \in 0 .. n, i # 0 PROVE next[i][f[i - 1]] = Halve(key, a, f[i - 1])
    <3>1. i \in 1 .. n /\ f[i - 1] \in S[i - 1]
      BY <1>4, <2>2
    <3>2. QED
      BY <3>1 DEF next
  <2>3. \A i \in 0 .. n : (IF i = 0 THEN h0 ELSE next[i][f[i - 1]]) = IF i = 0 THEN h0 ELSE Halve(key, a, f[i - 1])
    BY <2>2
  <2>4. QED
    BY <2>1, <2>3
<1>6. loop = [i \in 0 .. n |-> IF i = 0 THEN h0 ELSE Halve(key, a, loop[i - 1])]
  BY <1>5, Zenon
<1>7. Halved(key, a, n) = loop[n].at
  BY Zenon DEF Halved, h0
<1> HIDE DEF loop
<1>8. loop[0] = h0 /\ \A i \in 1 .. n : loop[i] = Halve(key, a, loop[i - 1])
  <2>1. \A i \in 0 .. n : loop[i] = IF i = 0 THEN h0 ELSE Halve(key, a, loop[i - 1])
    BY <1>6
  <2>2. QED
    BY <2>1
<1>9. \A i \in 1 .. n : loop[i - 1] \in S[i - 1] => loop[i] \in S[i]
  BY <1>2, <1>8
<1>10. \A i \in 0 .. n : loop[i] \in S[i]
  BY <1>1, <1>8, <1>9, RoundsKeep
<1> DEFINE r == loop[n]
<1>11. r \in S[n]
  BY <1>10
<1> HIDE DEF r
<1>12. r \in Halvings /\ HalvedAfter(r, n, key, a, n)
  BY <1>11 DEF S
<1>13. IF Equal(key, a, n) # {} THEN r.at \in Equal(key, a, n) ELSE r.at = 0
  BY <1>12 DEF HalvedAfter, Halvings, Equal
<1>14. QED
  BY <1>7, <1>13 DEF r

-----------------------------------------------------------------------------
(* The checks of the arguments                                             *)

LEMMA SortChecksPass ==
    ASSUME NEW null, NEW count \in Nat, NEW size \in Nat
    PROVE  SortChecks(Arguments(null, count, size)) = 0
           <=> /\ count > 0 => "ptr" \notin null /\ "compare" \notin null
               /\ count <= SEARCH_RSIZE_MAX /\ size <= SEARCH_RSIZE_MAX
<1> DEFINE tests == << <<count > 0 /\ "ptr" \in null, EINVAL>>, <<count > 0 /\ "compare" \in null, EINVAL>>,
                       <<count > SEARCH_RSIZE_MAX, ERANGE>>, <<size > SEARCH_RSIZE_MAX, ERANGE>> >>
<1>1. SortChecks(Arguments(null, count, size)) = FirstFailing(tests)
  BY DEF SortChecks, Arguments
<1>2. DOMAIN tests = 1 .. 4 /\ \A i \in DOMAIN tests : tests[i][2] # 0
  BY DEF EINVAL, ERANGE
<1>3. (\A i \in DOMAIN tests : ~tests[i][1])
      <=> ~tests[1][1] /\ ~tests[2][1] /\ ~tests[3][1] /\ ~tests[4][1]
  <2> HIDE DEF tests
  <2>1. 1 .. 4 = {1, 2, 3, 4}
    OBVIOUS
  <2>2. QED
    BY <1>2, <2>1
<1>4. FirstFailing(tests) = 0 <=> \A i \in DOMAIN tests : ~tests[i][1]
  <2> HIDE DEF tests
  <2>1. QED
    BY <1>2, NoTestFails
<1>5. /\ (tests[1][1] <=> count > 0 /\ "ptr" \in null) /\ (tests[2][1] <=> count > 0 /\ "compare" \in null)
      /\ (tests[3][1] <=> count > SEARCH_RSIZE_MAX) /\ (tests[4][1] <=> size > SEARCH_RSIZE_MAX)
  OBVIOUS
<1> HIDE DEF tests
<1>6. (count > SEARCH_RSIZE_MAX <=> ~(count <= SEARCH_RSIZE_MAX)) /\ (size > SEARCH_RSIZE_MAX <=> ~(size <= SEARCH_RSIZE_MAX))
  BY TablesAssumption
<1>7. QED
  BY <1>1, <1>3, <1>4, <1>5, <1>6, Zenon

LEMMA SearchChecksPass ==
    ASSUME NEW null, NEW count \in Nat, NEW size \in Nat
    PROVE  SearchChecks(Arguments(null, count, size)) = 0
           <=> /\ count > 0 => "ptr" \notin null /\ "compare" \notin null /\ "key" \notin null
               /\ count <= SEARCH_RSIZE_MAX /\ size <= SEARCH_RSIZE_MAX
<1> DEFINE tests == << <<count > 0 /\ "ptr" \in null, EINVAL>>, <<count > 0 /\ "compare" \in null, EINVAL>>,
                       <<count > 0 /\ "key" \in null, EINVAL>>,
                       <<count > SEARCH_RSIZE_MAX, ERANGE>>, <<size > SEARCH_RSIZE_MAX, ERANGE>> >>
<1>1. SearchChecks(Arguments(null, count, size)) = FirstFailing(tests)
  BY DEF SearchChecks, Arguments
<1>2. DOMAIN tests = 1 .. 5 /\ \A i \in DOMAIN tests : tests[i][2] # 0
  BY DEF EINVAL, ERANGE
<1>3. (\A i \in DOMAIN tests : ~tests[i][1])
      <=> ~tests[1][1] /\ ~tests[2][1] /\ ~tests[3][1] /\ ~tests[4][1] /\ ~tests[5][1]
  <2> HIDE DEF tests
  <2>1. 1 .. 5 = {1, 2, 3, 4, 5}
    OBVIOUS
  <2>2. QED
    BY <1>2, <2>1
<1>4. FirstFailing(tests) = 0 <=> \A i \in DOMAIN tests : ~tests[i][1]
  <2> HIDE DEF tests
  <2>1. QED
    BY <1>2, NoTestFails
<1>5. /\ (tests[1][1] <=> count > 0 /\ "ptr" \in null) /\ (tests[2][1] <=> count > 0 /\ "compare" \in null)
      /\ (tests[3][1] <=> count > 0 /\ "key" \in null)
      /\ (tests[4][1] <=> count > SEARCH_RSIZE_MAX) /\ (tests[5][1] <=> size > SEARCH_RSIZE_MAX)
  OBVIOUS
<1> HIDE DEF tests
<1>6. (count > SEARCH_RSIZE_MAX <=> ~(count <= SEARCH_RSIZE_MAX)) /\ (size > SEARCH_RSIZE_MAX <=> ~(size <= SEARCH_RSIZE_MAX))
  BY TablesAssumption
<1>7. QED
  BY <1>1, <1>3, <1>4, <1>5, <1>6, Zenon

LEMMA LinearChecksPass ==
    ASSUME NEW null, NEW count \in Nat, NEW size \in Nat
    PROVE  LinearChecks(Arguments(null, count, size)) = 0
           <=> /\ "nelp" \notin null
               /\ count > 0 => "ptr" \notin null /\ "compare" \notin null /\ "key" \notin null
               /\ count <= SEARCH_RSIZE_MAX /\ size <= SEARCH_RSIZE_MAX /\ size # 0
<1> DEFINE tests == << <<"nelp" \in null, EINVAL>>,
                       <<count > 0 /\ "ptr" \in null, EINVAL>>, <<count > 0 /\ "compare" \in null, EINVAL>>,
                       <<count > 0 /\ "key" \in null, EINVAL>>,
                       <<count > SEARCH_RSIZE_MAX, ERANGE>>, <<size > SEARCH_RSIZE_MAX, ERANGE>>, <<size = 0, ERANGE>> >>
<1>1. LinearChecks(Arguments(null, count, size)) = FirstFailing(tests)
  BY DEF LinearChecks, Arguments
<1>2. DOMAIN tests = 1 .. 7 /\ \A i \in DOMAIN tests : tests[i][2] # 0
  BY DEF EINVAL, ERANGE
<1>3. (\A i \in DOMAIN tests : ~tests[i][1])
      <=> /\ ~tests[1][1] /\ ~tests[2][1] /\ ~tests[3][1] /\ ~tests[4][1] /\ ~tests[5][1]
          /\ ~tests[6][1] /\ ~tests[7][1]
  <2> HIDE DEF tests
  <2>1. 1 .. 7 = {1, 2, 3, 4, 5, 6, 7}
    OBVIOUS
  <2>2. QED
    BY <1>2, <2>1
<1>4. FirstFailing(tests) = 0 <=> \A i \in DOMAIN tests : ~tests[i][1]
  <2> HIDE DEF tests
  <2>1. QED
    BY <1>2, NoTestFails
<1>5. /\ (tests[1][1] <=> "nelp" \in null)
      /\ (tests[2][1] <=> count > 0 /\ "ptr" \in null) /\ (tests[3][1] <=> count > 0 /\ "compare" \in null)
      /\ (tests[4][1] <=> count > 0 /\ "key" \in null)
      /\ (tests[5][1] <=> count > SEARCH_RSIZE_MAX) /\ (tests[6][1] <=> size > SEARCH_RSIZE_MAX) /\ (tests[7][1] <=> size = 0)
  OBVIOUS
<1> HIDE DEF tests
<1>6. (count > SEARCH_RSIZE_MAX <=> ~(count <= SEARCH_RSIZE_MAX)) /\ (size > SEARCH_RSIZE_MAX <=> ~(size <= SEARCH_RSIZE_MAX))
  BY TablesAssumption
<1>7. QED
  BY <1>1, <1>3, <1>4, <1>5, <1>6, Zenon

\* Arguments that the code takes pass every check.
LEMMA GoodPasses ==
    ASSUME NEW n \in Nat, n <= SEARCH_RSIZE_MAX
    PROVE  SortChecks(Good(n)) = 0 /\ SearchChecks(Good(n)) = 0 /\ LinearChecks(Good(n)) = 0
<1>1. SEARCH_RSIZE_MAX \in Nat /\ 1 <= SEARCH_RSIZE_MAX /\ 1 \in Nat
  BY TablesAssumption
<1>2. QED
  BY <1>1, SortChecksPass, SearchChecksPass, LinearChecksPass DEF Good

LEMMA FaultyFails ==
    /\ \A args \in Faulty : SortChecks(args) # 0
    /\ \A args \in Faulty \cup {Arguments({"key"}, 2, 1)} : SearchChecks(args) # 0 /\ LinearChecks(args) # 0
<1> DEFINE max == SEARCH_RSIZE_MAX
<1>1. /\ max \in Nat /\ max + 1 \in Nat /\ 2 \in Nat /\ 1 \in Nat /\ 2 > 0 /\ ~(max + 1 <= max)
  BY TablesAssumption
<1>2. \A null, count, size :
         count \in Nat /\ size \in Nat =>
         /\ SortChecks(Arguments(null, count, size)) = 0
            => (count > 0 => "ptr" \notin null /\ "compare" \notin null) /\ count <= max /\ size <= max
         /\ SearchChecks(Arguments(null, count, size)) = 0
            => /\ count > 0 => "ptr" \notin null /\ "compare" \notin null /\ "key" \notin null
               /\ count <= max /\ size <= max
         /\ LinearChecks(Arguments(null, count, size)) = 0
            => /\ count > 0 => "ptr" \notin null /\ "compare" \notin null /\ "key" \notin null
               /\ count <= max /\ size <= max
  BY SortChecksPass, SearchChecksPass, LinearChecksPass, Zenon
<1>3. Faulty = {Arguments({"ptr"}, 2, 1), Arguments({"compare"}, 2, 1), Arguments({}, max + 1, 1), Arguments({}, 2, max + 1)}
  BY DEF Faulty
<1> HIDE DEF max
<1> DEFINE Declined(args) == SearchChecks(args) # 0 /\ LinearChecks(args) # 0
<1>4. SortChecks(Arguments({"ptr"}, 2, 1)) # 0 /\ Declined(Arguments({"ptr"}, 2, 1))
  BY <1>1, <1>2, Zenon
<1>5. SortChecks(Arguments({"compare"}, 2, 1)) # 0 /\ Declined(Arguments({"compare"}, 2, 1))
  BY <1>1, <1>2, Zenon
<1>6. Declined(Arguments({"key"}, 2, 1))
  BY <1>1, <1>2, Zenon
<1>7. SortChecks(Arguments({}, max + 1, 1)) # 0 /\ Declined(Arguments({}, max + 1, 1))
  BY <1>1, <1>2, Zenon
<1>8. SortChecks(Arguments({}, 2, max + 1)) # 0 /\ Declined(Arguments({}, 2, max + 1))
  BY <1>1, <1>2, Zenon
<1>9. QED
  BY <1>3, <1>4, <1>5, <1>6, <1>7, <1>8, Zenon

-----------------------------------------------------------------------------
(* The calls                                                               *)

LEMMA TableIsSequence ==
    ASSUME NEW n \in Nat, NEW a \in TablesOf(n)
    PROVE  a \in Seq(Element) /\ Len(a) = n /\ DOMAIN a = 1 .. n
<1>1. a \in Seq(Element)
  BY SeqDef DEF TablesOf
<1>2. QED
  BY <1>1, LenProperties DEF TablesOf

LEMMA TableOfKeys ==
    ASSUME NEW keys \in Tables
    PROVE  /\ Len(keys) \in Nat /\ Len(keys) <= SEARCH_RSIZE_MAX /\ Table(keys) \in TablesOf(Len(keys))
           /\ Len(Table(keys)) = Len(keys) /\ DOMAIN Table(keys) = 1 .. Len(keys)
<1>1. keys \in Seq(Int) /\ Len(keys) <= SEARCH_RSIZE_MAX
  BY TablesAssumption
<1>2. Len(keys) \in Nat /\ DOMAIN keys = 1 .. Len(keys) /\ \A i \in 1 .. Len(keys) : keys[i] \in Int
  BY <1>1, LenProperties, ElementOfSeq
<1>3. Table(keys) \in TablesOf(Len(keys))
  BY <1>2 DEF Table, TablesOf, Element
<1>4. QED
  BY <1>1, <1>2, <1>3, TableIsSequence

SortMeets(a, args, out) ==
    IF args = Good(Len(a))
    THEN /\ out.errno = 0 /\ Ascending(out.table) /\ Len(out.table) = Len(a)
         /\ {out.table[i] : i \in DOMAIN out.table} = {a[i] : i \in DOMAIN a}
    ELSE out.errno # 0 /\ out.table = a

\* A table in order that has the elements of another is what a sort gives.
LEMMA InOrderMeets ==
    ASSUME NEW n \in Nat, NEW a \in TablesOf(n), NEW t \in TablesOf(n), InOrder(t, 1, n), Permuted(a, t, 1, n)
    PROVE  SortMeets(a, Good(n), Sorted(0, t))
<1>1. Len(a) = n /\ Len(t) = n /\ DOMAIN a = 1 .. n /\ DOMAIN t = 1 .. n
  BY TableIsSequence
<1>2. Ascending(t)
  BY <1>1 DEF Ascending, InOrder
<1>3. {t[i] : i \in DOMAIN t} = {a[i] : i \in DOMAIN a}
  <2>1. \A k \in 1 .. n : \E j \in 1 .. n : t[k] = a[j]
    BY DEF Permuted
  <2>2. \A j \in 1 .. n : \E k \in 1 .. n : t[k] = a[j]
    BY DEF Permuted
  <2>3. {t[i] : i \in 1 .. n} \subseteq {a[i] : i \in 1 .. n}
    BY <2>1
  <2>4. {a[i] : i \in 1 .. n} \subseteq {t[i] : i \in 1 .. n}
    BY <2>2
  <2>5. {t[i] : i \in 1 .. n} = {a[i] : i \in 1 .. n}
    BY <2>3, <2>4, Zenon
  <2>6. QED
    BY <1>1, <2>5, Zenon
<1>4. Sorted(0, t).errno = 0 /\ Sorted(0, t).table = t
  BY DEF Sorted
<1> HIDE DEF Sorted
<1>5. QED
  BY <1>1, <1>2, <1>3, <1>4, Zenon DEF SortMeets

LEMMA SortsMeet ==
    ASSUME NEW n \in Nat, n <= SEARCH_RSIZE_MAX, NEW a \in TablesOf(n), NEW f \in {"qsort", "qsort_context"},
           NEW args \in {Good(n)} \cup Faulty, args \in Faulty => n = 2
    PROVE  SortMeets(a, args, SortOut(f, args, a))
<1>1. Len(a) = n /\ DOMAIN a = 1 .. n
  BY TableIsSequence
<1>2. CASE args = Good(n)
  <2>1. SortChecks(args) = 0 /\ args.count = n
    BY <1>2, GoodPasses DEF Good, Arguments
  <2>2. CASE n = 0
    <3>1. SortOut(f, args, a) = Sorted(0, a)
      BY <2>1, <2>2 DEF SortOut, safe_qsort_impl, safe_qsort_context_impl
    <3>2. InOrder(a, 1, n) /\ Permuted(a, a, 1, n)
      BY <2>2, NothingMoved DEF InOrder
    <3>3. SortMeets(a, Good(n), Sorted(0, a))
      BY <3>2, InOrderMeets
    <3>4. QED
      BY <1>2, <3>1, <3>3, Zenon
  <2>3. CASE n # 0
    <3>1. n \in Nat \ {0} /\ args.count > 0 /\ 1 \in Nat \ {0} /\ 1 + n - 1 = n /\ 1 + n - 1 <= n
      BY <2>1, <2>3
    <3>2. CASE f = "qsort"
      <4>1. SortOut(f, args, a) = Sorted(0, InsertionSort(a, 1, n))
        BY <1>1, <2>1, <3>1, <3>2 DEF SortOut, safe_qsort_impl, qsort
      <4> DEFINE t == InsertionSort(a, 1, n)
      <4>2. t \in TablesOf(n) /\ InOrder(t, 1, n) /\ Permuted(a, t, 1, n)
        <5>1. t \in TablesOf(n) /\ InOrder(t, 1, 1 + n - 1) /\ Permuted(a, t, 1, 1 + n - 1)
          BY <3>1, InsertedInOrder
        <5>2. QED
          BY <3>1, <5>1
      <4> HIDE DEF t
      <4>3. SortMeets(a, Good(n), Sorted(0, t))
        BY <4>2, InOrderMeets
      <4>4. QED
        BY <1>2, <4>1, <4>3, Zenon DEF t
    <3>3. CASE f = "qsort_context"
      <4>1. SortOut(f, args, a) = Sorted(0, QuickSort(a, n))
        BY <1>1, <2>1, <3>1, <3>3 DEF SortOut, safe_qsort_context_impl
      <4> DEFINE t == QuickSort(a, n)
      <4>2. t \in TablesOf(n) /\ InOrder(t, 1, n) /\ Permuted(a, t, 1, n)
        BY <3>1, QuickSorted
      <4> HIDE DEF t
      <4>3. SortMeets(a, Good(n), Sorted(0, t))
        BY <4>2, InOrderMeets
      <4>4. QED
        BY <1>2, <4>1, <4>3, Zenon DEF t
    <3>4. QED
      BY <3>2, <3>3
  <2>4. QED
    BY <2>2, <2>3
<1>3. CASE args # Good(n)
  <2>1. SortChecks(args) # 0
    BY <1>3, FaultyFails
  <2>2. SortOut(f, args, a) = Sorted(SortChecks(args), a)
    BY <2>1, Zenon DEF SortOut, safe_qsort_impl, safe_qsort_context_impl
  <2> DEFINE errno == SortChecks(args)
  <2>3. Sorted(errno, a).errno = errno /\ Sorted(errno, a).table = a
    BY DEF Sorted
  <2>4. QED
    BY <1>1, <1>3, <2>1, <2>2, <2>3, Zenon DEF SortMeets
<1>4. QED
  BY <1>2, <1>3

SearchMeets(a, key, args, f, out) ==
    LET equal  == {i \in DOMAIN a : a[i].key = key.key}
        adding == f \in {"lsearch", "lsearch_context"}
    IN IF args # Good(Len(a)) THEN out.errno # 0 /\ out.at = 0
       ELSE /\ out.errno = 0
            /\ IF equal # {} THEN out.at \in equal ELSE out.at = IF adding THEN Len(a) + 1 ELSE 0
            /\ adding => out.table = IF equal = {} THEN Append(a, key) ELSE a

LEMMA LinearMeets ==
    ASSUME NEW n \in Nat, n <= SEARCH_RSIZE_MAX, NEW a \in TablesOf(n), NEW key \in Element,
           NEW f \in {"lfind", "lfind_context", "lsearch", "lsearch_context"},
           NEW args \in {Good(n), Arguments({"key"}, 2, 1)} \cup Faulty
    PROVE  SearchMeets(a, key, args, f, SearchOut(f, args, key, a))
<1> DEFINE equal == Equal(key, a, n)
           adding == f \in {"lsearch", "lsearch_context"}
           out == SearchOut(f, args, key, a)
           checked == LinearChecks(args)
<1>1. Len(a) = n /\ DOMAIN a = 1 .. n
  BY TableIsSequence
<1>2. FirstEqual(key, a) = equal /\ equal = {i \in DOMAIN a : a[i].key = key.key}
  <2>1. \A i \in 1 .. n : compare(key, a[i]) = 0 <=> a[i].key = key.key
    <3>1. key.key \in Int /\ \A i \in 1 .. n : a[i].key \in Int
      BY KeyIsNumber DEF Element
    <3>2. QED
      BY <3>1 DEF compare
  <2>2. QED
    BY <1>1, <2>1 DEF FirstEqual, Equal
<1>3. out = safe_lwork(args, key, a, adding, FALSE) \/ out = safe_lwork_context(args, key, a, adding, FALSE)
  <2>1. /\ SearchOut("lfind", args, key, a) = safe_lwork(args, key, a, FALSE, FALSE)
        /\ SearchOut("lfind_context", args, key, a) = safe_lwork_context(args, key, a, FALSE, FALSE)
        /\ SearchOut("lsearch", args, key, a) = safe_lwork(args, key, a, TRUE, FALSE)
        /\ SearchOut("lsearch_context", args, key, a) = safe_lwork_context(args, key, a, TRUE, FALSE)
    BY Zenon DEF SearchOut, safe_lfind_impl, safe_lfind_context_impl, safe_lsearch_impl, safe_lsearch_context_impl
  <2>3. (f = "lfind" \/ f = "lfind_context") => adding = FALSE
    OBVIOUS
  <2>4. (f = "lsearch" \/ f = "lsearch_context") => adding = TRUE
    OBVIOUS
  <2> HIDE DEF adding
  <2>5. QED
    BY <2>1, <2>3, <2>4
<1>4. CASE args = Good(n)
  <2>1. checked = 0 /\ CopyError(args, FALSE) = 0
    BY <1>4, GoodPasses DEF Good, Arguments, CopyError
  <2>2. out = safe_lwork(args, key, a, adding, FALSE)
    BY <1>3, <2>1, Zenon DEF safe_lwork_context
  <2> HIDE DEF out
  <2>3. CASE equal # {}
    <3>1. out = Worked(0, Min(equal), a)
      BY <1>2, <2>1, <2>2, <2>3 DEF safe_lwork
    <3>2. Min(equal) \in equal
      <4>1. equal \subseteq Nat
        BY DEF Equal
      <4> HIDE DEF equal
      <4>2. QED
        BY <2>3, <4>1, LeastNumber
    <3>3. out.errno = 0 /\ out.at \in equal /\ out.table = a
      BY <3>1, <3>2 DEF Worked
    <3>4. QED
      BY <1>1, <1>2, <1>4, <2>3, <3>3, Zenon DEF SearchMeets, out
  <2>4. CASE equal = {} /\ adding
    <3>1. out = Worked(0, Len(a) + 1, Append(a, key))
      BY <1>2, <2>1, <2>2, <2>4 DEF safe_lwork
    <3>2. out.errno = 0 /\ out.at = Len(a) + 1 /\ out.table = Append(a, key)
      BY <3>1 DEF Worked
    <3>3. QED
      BY <1>1, <1>2, <1>4, <2>4, <3>2, Zenon DEF SearchMeets, out
  <2>5. CASE equal = {} /\ ~adding
    <3>1. out = Worked(0, 0, a)
      BY <1>2, <2>1, <2>2, <2>5 DEF safe_lwork
    <3>2. out.errno = 0 /\ out.at = 0
      BY <3>1 DEF Worked
    <3>3. QED
      BY <1>1, <1>2, <1>4, <2>5, <3>2, Zenon DEF SearchMeets, out
  <2>6. QED
    BY <2>3, <2>4, <2>5
<1>5. CASE args # Good(n)
  <2>1. checked # 0
    BY <1>5, FaultyFails
  <2>2. out = safe_lwork(args, key, a, adding, FALSE)
    BY <1>3, <2>1, Zenon DEF safe_lwork_context
  <2>3. out = Worked(checked, 0, a)
    BY <2>1, <2>2 DEF safe_lwork
  <2> HIDE DEF checked, out
  <2>4. out.errno # 0 /\ out.at = 0
    BY <2>1, <2>3 DEF Worked
  <2>5. QED
    BY <1>1, <1>5, <2>4, Zenon DEF SearchMeets, out
<1>6. QED
  BY <1>4, <1>5

LEMMA HalvingMeets ==
    ASSUME NEW n \in Nat, n <= SEARCH_RSIZE_MAX, NEW a \in TablesOf(n), Ascending(a), NEW key \in Element,
           NEW f \in {"bsearch", "bsearch_context"},
           NEW args \in {Good(n), Arguments({"key"}, 2, 1)} \cup Faulty
    PROVE  SearchMeets(a, key, args, f, SearchOut(f, args, key, a))
<1> DEFINE equal == Equal(key, a, n)
           out == SearchOut(f, args, key, a)
           checked == SearchChecks(args)
<1>1. Len(a) = n /\ DOMAIN a = 1 .. n
  BY TableIsSequence
<1>2. {i \in DOMAIN a : compare(key, a[i]) = 0} = equal /\ equal = {i \in DOMAIN a : a[i].key = key.key}
  <2>1. \A i \in 1 .. n : compare(key, a[i]) = 0 <=> a[i].key = key.key
    <3>1. key.key \in Int /\ \A i \in 1 .. n : a[i].key \in Int
      BY KeyIsNumber DEF Element
    <3>2. QED
      BY <3>1 DEF compare
  <2>2. QED
    BY <1>1, <2>1 DEF Equal
<1>3. InOrder(a, 1, n)
  BY <1>1, NeighboursInOrder DEF Ascending
<1>4. f \notin {"lsearch", "lsearch_context"}
  OBVIOUS
<1>5. CASE args = Good(n)
  <2>1. checked = 0 /\ args.count = n
    BY <1>5, GoodPasses DEF Good, Arguments
  <2>2. \E at : out = Found(0, at) /\ IF equal # {} THEN at \in equal ELSE at = 0
    <3>1. CASE f = "bsearch"
      <4>1. out = Found(0, IF args.count > 0 THEN bsearch(key, a) ELSE 0)
        BY <2>1, <3>1 DEF SearchOut, safe_bsearch_impl
      <4>2. bsearch(key, a) = IF equal = {} THEN 0 ELSE Min(equal)
        BY <1>2, Zenon DEF bsearch
      <4>3. equal # {} => Min(equal) \in equal
        <5>1. equal \subseteq Nat
          BY DEF Equal
        <5> HIDE DEF equal
        <5>2. QED
          BY <5>1, LeastNumber
      <4>4. args.count > 0 \/ equal = {}
        BY <2>1 DEF Equal
      <4> HIDE DEF out, equal
      <4> DEFINE at == IF args.count > 0 THEN bsearch(key, a) ELSE 0
      <4>5. IF equal # {} THEN at \in equal ELSE at = 0
        BY <4>2, <4>3, <4>4
      <4>6. out = Found(0, at)
        BY <4>1
      <4> HIDE DEF at
      <4>7. QED
        BY <4>5, <4>6
    <3>2. CASE f = "bsearch_context"
      <4>1. out = Found(0, Halved(key, a, n))
        BY <2>1, <3>2 DEF SearchOut, safe_bsearch_context_impl
      <4>2. IF equal # {} THEN Halved(key, a, n) \in equal ELSE Halved(key, a, n) = 0
        BY <1>3, HalvedFinds
      <4> HIDE DEF out, equal
      <4>3. QED
        BY <4>1, <4>2
    <3>3. QED
      BY <3>1, <3>2
  <2> HIDE DEF out
  <2>3. PICK at : out = Found(0, at) /\ IF equal # {} THEN at \in equal ELSE at = 0
    BY <2>2
  <2>4. out.errno = 0 /\ out.at = at
    BY <2>3 DEF Found
  <2> HIDE DEF equal
  <2>5. QED
    BY <1>1, <1>2, <1>4, <1>5, <2>3, <2>4, Zenon DEF SearchMeets, out
<1>6. CASE args # Good(n)
  <2>1. checked # 0
    BY <1>6, FaultyFails
  <2>2. out = Found(checked, 0)
    BY <2>1 DEF SearchOut, safe_bsearch_impl, safe_bsearch_context_impl
  <2> HIDE DEF checked, out
  <2>3. out.errno # 0 /\ out.at = 0
    BY <2>1, <2>2 DEF Found
  <2>4. QED
    BY <1>1, <1>6, <2>3, Zenon DEF SearchMeets, out
<1>7. QED
  BY <1>5, <1>6

LEMMA SortingIsCorrect == Sorting => SortedAndFound'
<1>1. SUFFICES ASSUME Sorting PROVE SortedAndFound'
  OBVIOUS
<1>2. PICK keys \in Tables, f \in {"qsort", "qsort_context"} : \E args \in {Good(Len(keys))} \cup Faulty :
        /\ args \in Faulty => Len(keys) = 2
        /\ Called("sort", f, [a |-> Table(keys), args |-> args], SortOut(f, args, Table(keys)))
  BY <1>1, Zenon DEF Sorting
<1>3. PICK args \in {Good(Len(keys))} \cup Faulty :
        /\ args \in Faulty => Len(keys) = 2
        /\ Called("sort", f, [a |-> Table(keys), args |-> args], SortOut(f, args, Table(keys)))
  BY <1>2, Zenon
<1> DEFINE a == Table(keys)
           n == Len(keys)
           out == SortOut(f, args, a)
<1>4. SortMeets(a, args, out)
  <2>1. n \in Nat /\ n <= SEARCH_RSIZE_MAX /\ a \in TablesOf(n)
    BY TableOfKeys
  <2> HIDE DEF a, out
  <2>2. QED
    BY <1>3, <2>1, SortsMeet DEF out
<1>5. call' = [family |-> "sort", f |-> f, in |-> [a |-> a, args |-> args], out |-> out]
  BY <1>3, Zenon DEF Called
<1> HIDE DEF a, out, n
<1>6. /\ call'.family = "sort" /\ call'.in.a = a /\ call'.in.args = args /\ call'.out = out /\ call'.family # "search"
  BY <1>5
<1>7. QED
  BY <1>4, <1>6, Zenon DEF SortedAndFound, Is, SortMeets

LEMMA SearchingIsCorrect == Searching => SortedAndFound'
<1>1. SUFFICES ASSUME Searching PROVE SortedAndFound'
  OBVIOUS
<1> DEFINE Functions(keys) == {"lfind", "lfind_context", "lsearch", "lsearch_context"}
                              \cup (IF Ascending(Table(keys)) THEN {"bsearch", "bsearch_context"} ELSE {})
           Used(args, keys) == IF args = Good(0) THEN Good(Len(keys)) ELSE args
<1>2. PICK keys \in Tables, k \in 0 .. 3, args \in {Good(0), Arguments({"key"}, 2, 1)} \cup Faulty :
        \E f \in Functions(keys) :
           Called("search", f, [a |-> Table(keys), key |-> [key |-> k, id |-> 0], args |-> Used(args, keys)],
                  SearchOut(f, Used(args, keys), [key |-> k, id |-> 0], Table(keys)))
  BY <1>1, Zenon DEF Searching
<1>3. PICK f \in Functions(keys) :
           Called("search", f, [a |-> Table(keys), key |-> [key |-> k, id |-> 0], args |-> Used(args, keys)],
                  SearchOut(f, Used(args, keys), [key |-> k, id |-> 0], Table(keys)))
  BY <1>2, Zenon
<1> DEFINE a == Table(keys)
           n == Len(keys)
           key == [key |-> k, id |-> 0]
           used == Used(args, keys)
           out == SearchOut(f, used, key, a)
<1>4. n \in Nat /\ n <= SEARCH_RSIZE_MAX /\ a \in TablesOf(n)
  BY TableOfKeys
<1>5. key \in Element
  BY <1>2 DEF Element
<1>6. used \in {Good(n), Arguments({"key"}, 2, 1)} \cup Faulty
  BY DEF used
<1>7. f \in {"lfind", "lfind_context", "lsearch", "lsearch_context"}
      \/ (Ascending(a) /\ f \in {"bsearch", "bsearch_context"})
  BY <1>3
<1>8. call' = [family |-> "search", f |-> f, in |-> [a |-> a, key |-> key, args |-> used], out |-> out]
  BY <1>3, Zenon DEF Called
<1> HIDE DEF a, n, key, used, out
<1>9. SearchMeets(a, key, used, f, out)
  BY <1>4, <1>5, <1>6, <1>7, LinearMeets, HalvingMeets DEF out
<1>10. /\ call'.family = "search" /\ call'.f = f /\ call'.in.a = a /\ call'.in.key = key /\ call'.in.args = used
       /\ call'.out = out /\ call'.family # "sort"
  BY <1>8
<1>11. QED
  BY <1>9, <1>10, Zenon DEF SortedAndFound, Is, SearchMeets

\* The sorts give the elements of the table in order, and the searches find an
\* equal element exactly if there is one, for every table and every number of
\* elements the checks let pass; a refused call changes nothing.
THEOREM SortedCorrect == SortSpec => []SortedAndFound
<1> DEFINE Other == OtherThan({"sort", "search"})
<1>1. call = Idle => SortedAndFound
  <2>1. SUFFICES ASSUME call = Idle PROVE SortedAndFound
    OBVIOUS
  <2>2. call.family \notin {"sort", "search"}
    BY <2>1 DEF Idle
  <2>3. QED
    BY <2>2 DEF SortedAndFound, Is
<1>2. SortedAndFound /\ [Sorting \/ Searching \/ Other]_call => SortedAndFound'
  <2> SUFFICES ASSUME SortedAndFound, [Sorting \/ Searching \/ Other]_call PROVE SortedAndFound'
    OBVIOUS
  <2>1. CASE Sorting
    BY <2>1, SortingIsCorrect
  <2>2. CASE Searching
    BY <2>2, SearchingIsCorrect
  <2>3. CASE Other
    BY <2>3 DEF OtherThan, SortedAndFound, Is
  <2>4. CASE UNCHANGED call
    <3> DEFINE Agrees(c) == /\ c.family = "sort" => SortMeets(c.in.a, c.in.args, c.out)
                            /\ c.family = "search" => SearchMeets(c.in.a, c.in.key, c.in.args, c.f, c.out)
    <3>1. SortedAndFound <=> Agrees(call)
      BY Zenon DEF SortedAndFound, Is, SortMeets, SearchMeets
    <3>2. SortedAndFound' <=> Agrees(call')
      BY Zenon DEF SortedAndFound, Is, SortMeets, SearchMeets
    <3> HIDE DEF Agrees
    <3>3. QED
      BY <2>4, <3>1, <3>2
  <2>5. QED
    BY <2>1, <2>2, <2>3, <2>4
<1>3. QED
  BY <1>1, <1>2, PTL DEF SortSpec

-----------------------------------------------------------------------------
(* One call                                                                *)

Texts(n) == [1 .. n -> Nat \ {0}]
Buffers(n) == [1 .. n + 1 -> Nat]

\* From p on the buffer still holds the string, and its terminator.
Unread(b, s, n, p) == b[n + 1] = 0 /\ \A k \in p .. n : b[k] = s[k]

LEMMA TextLength ==
    ASSUME NEW n \in Nat, NEW s \in Texts(n)
    PROVE  s \in Seq(Nat) /\ Len(s) = n /\ DOMAIN s = 1 .. n /\ \A k \in 1 .. n : s[k] \in Nat \ {0}
BY DEF Texts

LEMMA FirstIs ==
    ASSUME NEW S, S \subseteq Nat, NEW m \in S, \A y \in S : m <= y
    PROVE  Min(S) = m
<1>1. Min(S) \in S /\ \A y \in S : Min(S) <= y
  BY LeastNumber
<1> DEFINE k == Min(S)
<1>2. k \in S /\ k <= m /\ m <= k
  BY <1>1
<1> HIDE DEF k
<1>3. k = m
  BY <1>2
<1>4. QED
  BY <1>3 DEF k

LEMMA ScanFinds ==
    ASSUME NEW b, NEW str \in Nat, NEW strmax \in Nat, NEW stops, NEW first \in str .. str + strmax - 1,
           b[first] \in stops, \A i \in str .. first - 1 : b[i] \notin stops
    PROVE  Scan(b, str, strmax, stops) = first
<1> DEFINE at == {i \in str .. str + strmax - 1 : b[i] \in stops}
<1>1. at \subseteq Nat /\ first \in at /\ \A y \in at : first <= y
  OBVIOUS
<1>2. Scan(b, str, strmax, stops) = IF at = {} THEN 0 ELSE Min(at)
  BY Zenon DEF Scan
<1> HIDE DEF at
<1>3. Min(at) = first /\ at # {}
  BY <1>1, FirstIs
<1>4. QED
  BY <1>2, <1>3

\* What a buffer holds besides its delimiters: the first byte that is none.
LEMMA FirstKept ==
    ASSUME NEW n \in Nat, NEW s \in Texts(n), NEW b \in Buffers(n), NEW p \in 1 .. n + 1, Unread(b, s, n, p),
           NEW d, d \subseteq Nat \ {0}, NEW f \in p .. n + 1, f = n + 1 \/ s[f] \notin d, \A i \in p .. f - 1 : s[i] \in d
    PROVE  Scan(b, p, n + 2 - p, Range(b) \ d) = f
<1>1. DOMAIN b = 1 .. n + 1
  BY DEF Buffers
<1>2. f \in 1 .. n + 1 /\ f \in DOMAIN b
  BY <1>1
<1>3. b[f] \in Range(b)
  BY <1>2 DEF Range
<1>4. b[f] \notin d
  <2>1. CASE f = n + 1
    BY <2>1 DEF Unread
  <2>2. CASE f # n + 1
    <3>1. f \in p .. n
      BY <2>2
    <3>2. QED
      BY <2>2, <3>1 DEF Unread
  <2>3. QED
    BY <2>1, <2>2
<1>5. \A i \in p .. f - 1 : b[i] \notin Range(b) \ d
  <2>1. \A i \in p .. f - 1 : i \in p .. n
    OBVIOUS
  <2>2. QED
    BY <2>1 DEF Unread
<1>6. n + 2 - p \in Nat /\ f \in p .. p + (n + 2 - p) - 1 /\ p \in Nat
  OBVIOUS
<1>7. QED
  BY <1>3, <1>4, <1>5, <1>6, ScanFinds

\* Where only delimiters are left there is no token, and that is no error.
LEMMA NoTokenLeft ==
    ASSUME NEW n \in Nat, NEW s \in Texts(n), NEW b \in Buffers(n), NEW p \in 1 .. n + 1, Unread(b, s, n, p),
           NEW d, d \subseteq Nat \ {0}, \A i \in p .. n : s[i] \in d
    PROVE  Tokenize(b, p, n + 2 - p, d) = Failed(0, b, 0)
<1> DEFINE strmax == n + 2 - p
           first == Scan(b, p, strmax, Range(b) \ d)
<1>1. first = n + 1
  <2> DEFINE f == n + 1
  <2>1. f \in p .. n + 1 /\ f = n + 1 /\ \A i \in p .. f - 1 : s[i] \in d
    OBVIOUS
  <2> HIDE DEF f
  <2>2. Scan(b, p, n + 2 - p, Range(b) \ d) = f
    BY <2>1, FirstKept
  <2>3. QED
    BY <2>1, <2>2
<1>2. strmax # 0 /\ n + 1 # 0
  OBVIOUS
<1>3. b[n + 1] = 0
  BY DEF Unread
<1> HIDE DEF strmax
<1>4. first # 0 /\ b[first] = 0
  BY <1>1, <1>2, <1>3
<1>5. Tokenize(b, p, strmax, d) = Failed(0, b, 0)
  BY <1>2, <1>4, Zenon DEF Tokenize
<1>6. QED
  BY <1>5 DEF strmax

\* The next token from p on is the one from f to e.
NextToken(s, n, p, d, f, e) ==
    /\ \A i \in p .. f - 1 : s[i] \in d
    /\ \A i \in f .. e : s[i] \notin d
    /\ e = n \/ s[e + 1] \in d

\* The step that takes the token from f to e: it leaves a terminator behind it,
\* and what is behind that for the next call.
TakenStep(b, n, f, e) ==
    IF e = n THEN Step(0, f, b, 0, 0) ELSE Step(0, f, [b EXCEPT ![e + 1] = 0], e + 2, n - e)

TakesToken(b, s, n, p, d, f, e) ==
    /\ n \in Nat /\ s \in Texts(n) /\ b \in Buffers(n) /\ p \in 1 .. n + 1 /\ Unread(b, s, n, p)
    /\ d \subseteq Nat \ {0} /\ f \in p .. n /\ e \in f .. n /\ NextToken(s, n, p, d, f, e)

LEMMA TokenTaken ==
    ASSUME NEW n, NEW s, NEW b, NEW p, NEW d, NEW f, NEW e, TakesToken(b, s, n, p, d, f, e)
    PROVE  Tokenize(b, p, n + 2 - p, d) = TakenStep(b, n, f, e)
<1> DEFINE strmax == n + 2 - p
           first == Scan(b, p, strmax, Range(b) \ d)
           left == strmax - (first - p) - 1
           next == Scan(b, first + 1, left, {0} \cup d)
           rest == left - (next - first)
<1>0. /\ n \in Nat /\ s \in Texts(n) /\ b \in Buffers(n) /\ p \in 1 .. n + 1 /\ Unread(b, s, n, p)
      /\ d \subseteq Nat \ {0} /\ f \in p .. n /\ e \in f .. n /\ NextToken(s, n, p, d, f, e)
  BY DEF TakesToken
<1> USE <1>0
<1>1. first = f
  <2>1. f \in p .. n + 1 /\ s[f] \notin d /\ \A i \in p .. f - 1 : s[i] \in d
    BY DEF NextToken
  <2>2. QED
    BY <2>1, FirstKept
<1>2. left = n + 1 - f /\ n + 1 - f \in Nat
  <2>1. left = strmax - (f - p) - 1
    BY <1>1
  <2>2. QED
    BY <2>1
<1>3. next = e + 1
  <2>1. b[e + 1] \in {0} \cup d
    <3>1. CASE e = n
      BY <3>1 DEF Unread
    <3>2. CASE e # n
      <4>1. e + 1 \in p .. n /\ s[e + 1] \in d
        BY <3>2 DEF NextToken
      <4>2. QED
        BY <4>1 DEF Unread
    <3>3. QED
      BY <3>1, <3>2
  <2>2. \A i \in f + 1 .. e : b[i] \notin {0} \cup d
    <3>1. \A i \in f + 1 .. e : i \in p .. n /\ i \in f .. e /\ i \in 1 .. n
      OBVIOUS
    <3>2. \A i \in f + 1 .. e : b[i] = s[i] /\ s[i] # 0 /\ s[i] \notin d
      BY <3>1, TextLength DEF Unread, NextToken
    <3>3. QED
      BY <3>2
  <2>3. f + 1 \in Nat /\ e + 1 \in f + 1 .. (f + 1) + (n + 1 - f) - 1 /\ \A i \in f + 1 .. (e + 1) - 1 : i \in f + 1 .. e
    OBVIOUS
  <2>4. \A i \in f + 1 .. (e + 1) - 1 : b[i] \notin {0} \cup d
    BY <2>2, <2>3
  <2>5. Scan(b, f + 1, n + 1 - f, {0} \cup d) = e + 1
    BY <1>2, <2>1, <2>3, <2>4, ScanFinds
  <2>6. QED
    BY <1>1, <1>2, <2>5
<1>4. rest = n - e
  BY <1>1, <1>2, <1>3
<1>5. strmax # 0 /\ first # 0 /\ left # 0 /\ next # 0
  BY <1>1, <1>2, <1>3
<1>6. b[first] # 0
  <2>1. b[f] = s[f] /\ f \in 1 .. n
    BY DEF Unread
  <2>2. QED
    BY <1>1, <2>1, TextLength
<1>7. Tokenize(b, p, strmax, d) = CASE next = 0 -> Failed(ERANGE, b, 0)
                  [] next # 0 /\ b[next] = 0 -> Step(0, first, b, 0, rest)
                  [] next # 0 /\ b[next] # 0 -> Step(0, first, [b EXCEPT ![next] = 0], next + 1, rest)
  BY <1>5, <1>6, Zenon DEF Tokenize
<1> HIDE DEF strmax, first, left, next, rest
<1>8. CASE e = n
  <2>1. b[next] = 0 /\ rest = 0
    BY <1>3, <1>4, <1>8 DEF Unread
  <2>2. Tokenize(b, p, strmax, d) = Step(0, first, b, 0, rest)
    BY <1>5, <1>7, <2>1, Zenon
  <2>3. TakenStep(b, n, f, e) = Step(0, f, b, 0, 0)
    BY <1>8, Zenon DEF TakenStep
  <2>4. QED
    BY <1>1, <2>1, <2>2, <2>3, Zenon DEF strmax
<1>9. CASE e # n
  <2>1. e + 1 \in p .. n /\ e + 1 \in 1 .. n
    BY <1>9
  <2>2. b[next] # 0
    BY <1>3, <2>1, TextLength DEF Unread
  <2>3. Tokenize(b, p, strmax, d) = Step(0, first, [b EXCEPT ![next] = 0], next + 1, rest)
    BY <1>5, <1>7, <2>2, Zenon
  <2>4. TakenStep(b, n, f, e) = Step(0, f, [b EXCEPT ![e + 1] = 0], e + 2, n - e)
    BY <1>9, Zenon DEF TakenStep
  <2>5. next + 1 = e + 2
    BY <1>3
  <2>6. QED
    BY <1>1, <1>3, <1>4, <2>3, <2>4, <2>5, Zenon DEF strmax
<1>10. QED
  BY <1>8, <1>9

-----------------------------------------------------------------------------
(* The token that is read                                                  *)

TokenSteps(n) == [errno : Nat, tok : Nat, buffer : Buffers(n), saveptr : Nat, strmax : Nat]

\* What is saved lets the next call go on at p, or find nothing at n + 2.
Saved(step, s, n, p) ==
    IF p = n + 2 THEN step.saveptr = 0 /\ step.strmax = 0
    ELSE step.saveptr = p /\ step.strmax = n + 2 - p /\ Unread(step.buffer, s, n, p)

TakenBuffer(b, n, e) == IF e = n THEN b ELSE [b EXCEPT ![e + 1] = 0]

LEMMA BufferTaken ==
    ASSUME NEW n \in Nat, NEW s \in Texts(n), NEW b \in Buffers(n), NEW p \in 1 .. n + 1, Unread(b, s, n, p),
           NEW f \in p .. n, NEW e \in f .. n
    PROVE  LET c == TakenBuffer(b, n, e)
           IN /\ c \in Buffers(n) /\ c[e + 1] = 0 /\ \A i \in f .. e : c[i] = s[i]
              /\ e # n => Unread(c, s, n, e + 2)
<1> DEFINE c == TakenBuffer(b, n, e)
<1>1. CASE e = n
  <2>1. c = b
    BY <1>1 DEF TakenBuffer
  <2>2. b[e + 1] = 0 /\ \A i \in f .. e : b[i] = s[i]
    BY <1>1 DEF Unread
  <2> HIDE DEF c
  <2>3. QED
    BY <1>1, <2>1, <2>2 DEF c
<1>2. CASE e # n
  <2>1. c = [b EXCEPT ![e + 1] = 0]
    BY <1>2 DEF TakenBuffer
  <2>2. e + 1 \in 1 .. n + 1 /\ e + 1 # n + 1
    BY <1>2
  <2>3. c \in Buffers(n)
    BY <2>1, <2>2 DEF Buffers
  <2>4. \A i \in 1 .. n + 1 : c[i] = IF i = e + 1 THEN 0 ELSE b[i]
    BY <2>1, <2>2 DEF Buffers
  <2> HIDE DEF c
  <2>5. c[e + 1] = 0 /\ c[n + 1] = 0
    BY <2>2, <2>4 DEF Unread
  <2>6. \A i \in f .. e : i \in 1 .. n + 1 /\ i # e + 1 /\ i \in p .. n
    OBVIOUS
  <2>7. \A i \in f .. e : c[i] = s[i]
    BY <2>4, <2>6 DEF Unread
  <2>8. \A i \in e + 2 .. n : i \in 1 .. n + 1 /\ i # e + 1 /\ i \in p .. n
    OBVIOUS
  <2>9. \A i \in e + 2 .. n : c[i] = s[i]
    BY <2>4, <2>8 DEF Unread
  <2>10. Unread(c, s, n, e + 2)
    BY <2>5, <2>9 DEF Unread
  <2>11. QED
    BY <2>3, <2>5, <2>7, <2>10 DEF c
<1>3. QED
  BY <1>1, <1>2

LEMMA StepTaken ==
    ASSUME NEW n \in Nat, NEW s \in Texts(n), NEW b \in Buffers(n), NEW p \in 1 .. n + 1, Unread(b, s, n, p),
           NEW f \in p .. n, NEW e \in f .. n
    PROVE  LET step == TakenStep(b, n, f, e)
           IN /\ step \in TokenSteps(n) /\ step.errno = 0 /\ step.tok = f /\ step.buffer = TakenBuffer(b, n, e)
              /\ Saved(step, s, n, e + 2)
<1>1. /\ TakenBuffer(b, n, e) \in Buffers(n)
      /\ e # n => Unread(TakenBuffer(b, n, e), s, n, e + 2)
  BY BufferTaken
<1> DEFINE step == TakenStep(b, n, f, e)
<1>2. CASE e = n
  <2>1. step = Step(0, f, b, 0, 0) /\ TakenBuffer(b, n, e) = b
    BY <1>2 DEF TakenStep, TakenBuffer
  <2>2. /\ step.errno = 0 /\ step.tok = f /\ step.buffer = b /\ step.saveptr = 0 /\ step.strmax = 0
        /\ step \in TokenSteps(n)
    BY <2>1 DEF Step, TokenSteps
  <2> HIDE DEF step
  <2>3. e + 2 = n + 2
    BY <1>2
  <2>4. Saved(step, s, n, e + 2)
    BY <2>2, <2>3 DEF Saved
  <2>5. QED
    BY <2>1, <2>2, <2>4 DEF step
<1>3. CASE e # n
  <2> DEFINE c == [b EXCEPT ![e + 1] = 0]
  <2>1. step = Step(0, f, c, e + 2, n - e) /\ TakenBuffer(b, n, e) = c
    BY <1>3, Zenon DEF TakenStep, TakenBuffer
  <2>2. c \in Buffers(n) /\ Unread(c, s, n, e + 2)
    BY <1>1, <1>3, <2>1
  <2> HIDE DEF c
  <2>3. e + 2 \in Nat /\ n - e \in Nat /\ n - e = n + 2 - (e + 2) /\ e + 2 # n + 2
    BY <1>3
  <2>4. /\ step.errno = 0 /\ step.tok = f /\ step.buffer = c /\ step.saveptr = e + 2 /\ step.strmax = n - e
        /\ step \in TokenSteps(n)
    BY <2>1, <2>2, <2>3 DEF Step, TokenSteps
  <2> HIDE DEF step
  <2>5. Saved(step, s, n, e + 2)
    BY <2>2, <2>3, <2>4 DEF Saved
  <2>6. QED
    BY <2>1, <2>4, <2>5 DEF step
<1>4. QED
  BY <1>2, <1>3

\* The caller reads the bytes from f to e of the string.
LEMMA TextOfToken ==
    ASSUME NEW n \in Nat, NEW s \in Texts(n), NEW b \in Buffers(n), NEW p \in 1 .. n + 1, Unread(b, s, n, p),
           NEW f \in p .. n, NEW e \in f .. n
    PROVE  TokenText(TakenStep(b, n, f, e)) = SubSeq(s, f, e)
<1> DEFINE step == TakenStep(b, n, f, e)
           c == TakenBuffer(b, n, e)
           ends == {i \in f .. n + 1 : c[i] = 0}
<1>1. step.tok = f /\ step.buffer = c
  BY StepTaken
<1>2. c \in Buffers(n) /\ c[e + 1] = 0 /\ \A i \in f .. e : c[i] = s[i]
  BY BufferTaken
<1> HIDE DEF c, step
<1>3. Len(c) = n + 1
  BY <1>2 DEF Buffers
<1>4. ends \subseteq Nat /\ e + 1 \in ends /\ \A y \in ends : e + 1 <= y
  <2>1. \A i \in f .. e : c[i] # 0
    BY <1>2, TextLength
  <2>2. e + 1 \in f .. n + 1
    OBVIOUS
  <2>3. QED
    BY <1>2, <2>1, <2>2
<1>5. TokenText(step) = SubSeq(c, f, Min(ends) - 1)
  BY <1>1, <1>3, Zenon DEF TokenText
<1> HIDE DEF ends
<1>6. Min(ends) = e + 1
  BY <1>4, FirstIs
<1>7. Min(ends) - 1 = e
  BY <1>6
<1>8. TokenText(step) = SubSeq(c, f, e)
  BY <1>5, <1>7
<1>9. \A i \in f .. e : c[i] \in Nat /\ s[i] \in Nat
  BY <1>2, TextLength
<1>10. /\ SubSeq(c, f, e) \in Seq(Nat) /\ Len(SubSeq(c, f, e)) = e - f + 1
       /\ \A i \in 1 .. e - f + 1 : SubSeq(c, f, e)[i] = c[f + i - 1]
  BY <1>9, SubSeqProperties
<1>11. /\ SubSeq(s, f, e) \in Seq(Nat) /\ Len(SubSeq(s, f, e)) = e - f + 1
       /\ \A i \in 1 .. e - f + 1 : SubSeq(s, f, e)[i] = s[f + i - 1]
  BY <1>9, SubSeqProperties
<1>12. \A i \in 1 .. e - f + 1 : SubSeq(c, f, e)[i] = SubSeq(s, f, e)[i]
  <2>1. \A i \in 1 .. e - f + 1 : f + i - 1 \in f .. e
    OBVIOUS
  <2>2. QED
    BY <1>2, <1>10, <1>11, <2>1
<1>13. SubSeq(c, f, e) = SubSeq(s, f, e)
  BY <1>10, <1>11, <1>12, SeqEqual
<1>14. QED
  BY <1>8, <1>13 DEF step

\* ... and that is the part without a delimiter which starts at f.
LEMMA PartOfToken ==
    ASSUME NEW n \in Nat, NEW s \in Texts(n), NEW p \in Nat, NEW d, NEW f \in 1 .. n, NEW e \in f .. n, NextToken(s, n, p, d, f, e)
    PROVE  PartAt(s, f, d) = SubSeq(s, f, e) /\ SubSeq(s, f, e) \in Seq(Nat) /\ Len(SubSeq(s, f, e)) = e - f + 1
<1> DEFINE ends == {j \in f .. n : j = n \/ s[j + 1] \in d}
<1>1. ends \subseteq Nat /\ e \in ends
  BY DEF NextToken
<1>2. ASSUME NEW y \in ends PROVE e <= y
  <2>1. SUFFICES ASSUME y < e PROVE FALSE
    BY <1>1
  <2>2. y # n /\ y + 1 \in f .. e
    BY <2>1
  <2>3. QED
    BY <2>2 DEF NextToken
<1>3. PartAt(s, f, d) = SubSeq(s, f, Min(ends))
  BY TextLength, Zenon DEF PartAt
<1> HIDE DEF ends
<1>4. Min(ends) = e
  BY <1>1, <1>2, FirstIs
<1>5. \A i \in f .. e : s[i] \in Nat
  BY TextLength
<1>6. SubSeq(s, f, e) \in Seq(Nat) /\ Len(SubSeq(s, f, e)) = e - f + 1
  BY <1>5, SubSeqProperties
<1>7. QED
  BY <1>3, <1>4, <1>6

\* Where something other than delimiters is left there is a next token.
LEMMA TokenExists ==
    ASSUME NEW n \in Nat, NEW s \in Texts(n), NEW p \in Nat, NEW d, ~\A i \in p .. n : s[i] \in d
    PROVE  LET f == Min({i \in p .. n : s[i] \notin d})
           IN f \in p .. n /\ \E e \in f .. n : NextToken(s, n, p, d, f, e)
<1> DEFINE kept == {i \in p .. n : s[i] \notin d}
           f == Min(kept)
           ends == {j \in f .. n : j = n \/ s[j + 1] \in d}
           e == Min(ends)
<1>1. kept # {} /\ kept \subseteq Nat
  OBVIOUS
<1>2. f \in kept /\ \A y \in kept : f <= y
  <2> HIDE DEF kept
  <2>1. QED
    BY <1>1, LeastNumber
<1>3. f \in p .. n /\ s[f] \notin d /\ \A i \in p .. f - 1 : s[i] \in d
  <2> HIDE DEF f
  <2>1. QED
    BY <1>2
<1> HIDE DEF f, kept
<1>4. ends \subseteq Nat /\ n \in ends
  BY <1>3
<1>5. e \in ends /\ \A y \in ends : e <= y
  <2> HIDE DEF ends
  <2>1. QED
    BY <1>4, LeastNumber
<1> HIDE DEF e
<1>6. e \in f .. n /\ (e = n \/ s[e + 1] \in d)
  BY <1>5
<1>7. ASSUME NEW i \in f .. e PROVE s[i] \notin d
  <2>1. CASE i = f
    BY <1>3, <2>1
  <2>2. CASE i # f
    <3>1. i - 1 \in f .. n /\ ~(e <= i - 1) /\ (i - 1) + 1 = i
      BY <1>3, <1>6, <2>2
    <3>2. i - 1 \notin ends
      BY <1>5, <3>1
    <3>3. QED
      BY <3>1, <3>2
  <2>3. QED
    BY <2>1, <2>2
<1>8. NextToken(s, n, p, d, f, e)
  BY <1>3, <1>6, <1>7 DEF NextToken
<1>9. QED
  BY <1>3, <1>6, <1>8 DEF f, kept

\* A later call finds no token, or takes the next one.
LaterOutcome(out, b, s, n, p, d) ==
    IF \A i \in p .. n : s[i] \in d THEN out = Failed(0, b, 0)
    ELSE /\ p \in 1 .. n + 1 /\ Unread(b, s, n, p)
         /\ \E f \in p .. n : \E e \in f .. n : NextToken(s, n, p, d, f, e) /\ out = TakenStep(b, n, f, e)

LEMMA LaterCall ==
    ASSUME NEW n \in Nat, NEW s \in Texts(n), NEW step \in TokenSteps(n), NEW p \in 1 .. n + 2, Saved(step, s, n, p),
           NEW d, d \subseteq Nat \ {0}
    PROVE  LaterOutcome(safe_strtok_impl({}, step.buffer, 0, step.saveptr, step.strmax, d), step.buffer, s, n, p, d)
<1> DEFINE b == step.buffer
           save == step.saveptr
           left == step.strmax
           out == safe_strtok_impl({}, b, 0, save, left, d)
<1>1. b \in Buffers(n) /\ save \in Nat /\ left \in Nat
  BY DEF TokenSteps
<1>2. {} \cap {"strmax", "delim", "saveptr"} = {}
  OBVIOUS
<1>3. CASE p = n + 2
  <2>1. save = 0 /\ left = 0 /\ \A i \in p .. n : s[i] \in d
    BY <1>3 DEF Saved
  <2> HIDE DEF b, save, left
  <2>2. out = Failed(IF left # 0 THEN EINVAL ELSE 0, b, left)
    BY <1>2, <2>1, Zenon DEF safe_strtok_impl
  <2>3. out = Failed(0, b, 0)
    BY <2>1, <2>2, Zenon
  <2> HIDE DEF out
  <2>4. QED
    BY <2>1, <2>3 DEF out, b, save, left, LaterOutcome
<1>4. CASE p # n + 2
  <2>1. p \in 1 .. n + 1 /\ p # 0
    BY <1>4
  <2>2. save = p /\ left = n + 2 - p /\ Unread(b, s, n, p)
    BY <1>4 DEF Saved
  <2> HIDE DEF b, save, left
  <2>3. out = Tokenize(b, p, n + 2 - p, d)
    BY <1>2, <2>1, <2>2, Zenon DEF safe_strtok_impl
  <2> HIDE DEF out
  <2>4. CASE \A i \in p .. n : s[i] \in d
    <3>1. b \in Buffers(n) /\ p \in 1 .. n + 1 /\ Unread(b, s, n, p)
      BY <1>1, <2>1, <2>2
    <3>2. Tokenize(b, p, n + 2 - p, d) = Failed(0, b, 0)
      BY <2>4, <3>1, NoTokenLeft
    <3>3. QED
      BY <2>3, <2>4, <3>2 DEF out, b, save, left, LaterOutcome
  <2>5. CASE ~\A i \in p .. n : s[i] \in d
    <3> DEFINE f == Min({i \in p .. n : s[i] \notin d})
    <3>1. p \in Nat
      BY <2>1
    <3>2. f \in p .. n /\ \E e \in f .. n : NextToken(s, n, p, d, f, e)
      BY <2>5, <3>1, TokenExists, Zenon
    <3>3. PICK e \in f .. n : NextToken(s, n, p, d, f, e)
      BY <3>2
    <3> HIDE DEF f
    <3>5. b \in Buffers(n) /\ p \in 1 .. n + 1 /\ Unread(b, s, n, p) /\ f \in p .. n /\ e \in f .. n
      BY <1>1, <2>1, <2>2, <3>2
    <3>6. Tokenize(b, p, n + 2 - p, d) = TakenStep(b, n, f, e)
      <4>1. TakesToken(b, s, n, p, d, f, e)
        BY <3>3, <3>5 DEF TakesToken
      <4>2. QED
        BY <4>1, TokenTaken, SMT
    <3>7. QED
      BY <2>1, <2>2, <2>3, <2>5, <3>2, <3>3, <3>6 DEF out, b, save, left, LaterOutcome
  <2>6. QED
    BY <2>4, <2>5
<1>5. QED
  BY <1>3, <1>4

-----------------------------------------------------------------------------
(* The calls that follow                                                   *)

Parts == Seq(Seq(Nat))

\* The parts of the string that start before p.
PartsBelow(parts, s, from, p, d) ==
    \E at \in [1 .. Len(parts) -> PartStarts(s, from, d)] :
        /\ \A k, l \in 1 .. Len(parts) : k < l => at[k] < at[l]
        /\ \A i \in PartStarts(s, from, d) : i < p => \E k \in 1 .. Len(parts) : at[k] = i
        /\ \A k \in 1 .. Len(parts) : at[k] < p /\ parts[k] = PartAt(s, at[k], d)

\* A call may go on at p: a part that starts there starts behind a delimiter.
Behind(s, n, from, p, d) == p \in from .. n + 2 /\ (p = from \/ p = n + 2 \/ s[p - 1] \in d)

LEMMA NoPartsYet ==
    ASSUME NEW n \in Nat, NEW s \in Texts(n), NEW from \in 1 .. n + 2, NEW d
    PROVE  PartsBelow(<<>>, s, from, from, d)
<1> DEFINE at == [k \in 1 .. 0 |-> 0]
           starts == PartStarts(s, from, d)
<1>1. Len(<<>>) = 0 /\ 1 .. 0 = {}
  OBVIOUS
<1>2. at \in [1 .. 0 -> starts]
  BY <1>1
<1>3. \A i \in starts : ~(i < from)
  BY TextLength DEF PartStarts
<1> HIDE DEF starts, at
<1>4. /\ at \in [1 .. Len(<<>>) -> starts]
      /\ \A k, l \in 1 .. Len(<<>>) : k < l => at[k] < at[l]
      /\ \A i \in starts : i < from => \E k \in 1 .. Len(<<>>) : at[k] = i
      /\ \A k \in 1 .. Len(<<>>) : at[k] < from /\ <<>>[k] = PartAt(s, at[k], d)
  BY <1>1, <1>2, <1>3
<1>5. QED
  BY <1>4 DEF PartsBelow, starts

LEMMA StartsBetween ==
    ASSUME NEW n \in Nat, NEW s \in Texts(n), NEW from \in 1 .. n + 2, NEW d, NEW p \in 1 .. n + 1, Behind(s, n, from, p, d),
           NEW f \in p .. n, NEW e \in f .. n, NextToken(s, n, p, d, f, e)
    PROVE  /\ f \in PartStarts(s, from, d)
           /\ \A i \in PartStarts(s, from, d) : i < e + 2 => i < p \/ i = f
<1>1. Len(s) = n
  BY TextLength
<1>2. f \in from .. n /\ s[f] \notin d
  BY DEF Behind, NextToken
<1>3. f = from \/ s[f - 1] \in d
  <2>1. CASE f = p
    BY <2>1 DEF Behind
  <2>2. CASE f # p
    <3>1. f - 1 \in p .. f - 1
      BY <2>2
    <3>2. QED
      BY <3>1 DEF NextToken
  <2>3. QED
    BY <2>1, <2>2
<1>4. f \in PartStarts(s, from, d)
  BY <1>1, <1>2, <1>3 DEF PartStarts
<1>5. ASSUME NEW i \in PartStarts(s, from, d), i < e + 2, ~(i < p), i # f PROVE FALSE
  <2>1. i \in from .. n /\ s[i] \notin d /\ (i = from \/ s[i - 1] \in d)
    BY <1>1 DEF PartStarts
  <2>2. CASE i < f
    <3>1. i \in p .. f - 1
      BY <1>5, <2>1, <2>2
    <3>2. QED
      BY <2>1, <3>1 DEF NextToken
  <2>3. CASE f < i /\ i <= e + 1 /\ i # e + 1
    <3>1. i # from /\ i - 1 \in f .. e
      BY <1>2, <2>1, <2>3
    <3>2. QED
      BY <2>1, <3>1 DEF NextToken
  <2>4. CASE i = e + 1
    <3>1. e # n
      BY <2>1, <2>4
    <3>2. QED
      BY <2>1, <2>4, <3>1 DEF NextToken
  <2>5. QED
    BY <1>5, <2>1, <2>2, <2>3, <2>4
<1>6. QED
  BY <1>4, <1>5

\* With the next token the parts are those that start before what is behind it.
LEMMA PartsGrow ==
    ASSUME NEW n \in Nat, NEW s \in Texts(n), NEW from \in 1 .. n + 2, NEW d, NEW p \in 1 .. n + 1, Behind(s, n, from, p, d),
           NEW f \in p .. n, NEW e \in f .. n, NextToken(s, n, p, d, f, e),
           NEW parts \in Parts, PartsBelow(parts, s, from, p, d)
    PROVE  PartsBelow(Append(parts, SubSeq(s, f, e)), s, from, e + 2, d)
<1> DEFINE starts == PartStarts(s, from, d)
           m == Len(parts)
           text == SubSeq(s, f, e)
           more == Append(parts, text)
<1>1. m \in Nat
  BY LenProperties DEF Parts
<1>2. /\ f \in starts
      /\ \A i \in starts : i < e + 2 => i < p \/ i = f
  BY StartsBetween
<1>3. text = PartAt(s, f, d) /\ text \in Seq(Nat)
  BY PartOfToken
<1> HIDE DEF text, starts
<1>4. Len(more) = m + 1 /\ more[m + 1] = text /\ \A k \in 1 .. m : more[k] = parts[k]
  BY <1>3, AppendProperties DEF Parts
<1>5. PICK at \in [1 .. m -> starts] :
        /\ \A k, l \in 1 .. m : k < l => at[k] < at[l]
        /\ \A i \in starts : i < p => \E k \in 1 .. m : at[k] = i
        /\ \A k \in 1 .. m : at[k] < p /\ parts[k] = PartAt(s, at[k], d)
  BY DEF PartsBelow, starts
<1> HIDE DEF m, more
<1>6. starts \subseteq Nat
  BY TextLength DEF starts, PartStarts
<1> DEFINE now == [k \in 1 .. m + 1 |-> IF k = m + 1 THEN f ELSE at[k]]
<1>7. \A k \in 1 .. m + 1 : k = m + 1 \/ k \in 1 .. m
  BY <1>1
<1>8. now \in [1 .. m + 1 -> starts]
  BY <1>2, <1>5, <1>7
<1>9. now[m + 1] = f /\ \A k \in 1 .. m : now[k] = at[k]
  BY <1>1
<1> HIDE DEF now
<1>10. \A k \in 1 .. m : at[k] \in Nat /\ at[k] < p /\ at[k] < f /\ at[k] < e + 2
  <2>1. \A k \in 1 .. m : at[k] \in Nat /\ at[k] < p
    BY <1>5, <1>6
  <2>2. \A x \in Nat : x < p => x < f /\ x < e + 2
    OBVIOUS
  <2>3. QED
    BY <2>1, <2>2
<1>11. ASSUME NEW k \in 1 .. m + 1, NEW l \in 1 .. m + 1, k < l PROVE now[k] < now[l]
  <2>1. k \in 1 .. m
    BY <1>1, <1>11
  <2>2. CASE l = m + 1
    BY <1>9, <1>10, <2>1, <2>2
  <2>3. CASE l # m + 1
    BY <1>5, <1>7, <1>9, <1>11, <2>1, <2>3
  <2>4. QED
    BY <2>2, <2>3
<1>12. ASSUME NEW i \in starts, i < e + 2 PROVE \E k \in 1 .. m + 1 : now[k] = i
  <2>1. CASE i < p
    <3>1. PICK k \in 1 .. m : at[k] = i
      BY <1>5, <2>1
    <3>2. k \in 1 .. m + 1
      BY <1>1, <3>1
    <3>3. QED
      BY <1>9, <3>1, <3>2
  <2>2. CASE i = f
    <3>1. m + 1 \in 1 .. m + 1
      BY <1>1
    <3>2. QED
      BY <1>9, <2>2, <3>1
  <2>3. QED
    BY <1>2, <1>12, <2>1, <2>2
<1>13. ASSUME NEW k \in 1 .. m + 1 PROVE now[k] < e + 2 /\ more[k] = PartAt(s, now[k], d)
  <2>1. CASE k = m + 1
    <3>1. f < e + 2
      OBVIOUS
    <3>2. QED
      BY <1>3, <1>4, <1>9, <2>1, <3>1
  <2>2. CASE k # m + 1
    BY <1>4, <1>5, <1>7, <1>9, <1>10, <2>2
  <2>3. QED
    BY <2>1, <2>2
<1>14. /\ now \in [1 .. Len(more) -> starts]
       /\ \A k, l \in 1 .. Len(more) : k < l => now[k] < now[l]
       /\ \A i \in starts : i < e + 2 => \E k \in 1 .. Len(more) : now[k] = i
       /\ \A k \in 1 .. Len(more) : now[k] < e + 2 /\ more[k] = PartAt(s, now[k], d)
  BY <1>4, <1>8, <1>11, <1>12, <1>13
<1>15. PartsBelow(more, s, from, e + 2, d)
  BY <1>14 DEF PartsBelow, starts
<1>16. QED
  BY <1>15 DEF more, text

\* Where only delimiters follow, the parts are all there are.
LEMMA PartsDone ==
    ASSUME NEW n \in Nat, NEW s \in Texts(n), NEW from \in 1 .. n + 2, NEW d, NEW p \in 1 .. n + 2,
           \A i \in p .. n : s[i] \in d, NEW parts \in Parts, PartsBelow(parts, s, from, p, d)
    PROVE  AreTheParts(parts, s, from, d)
<1> DEFINE starts == PartStarts(s, from, d)
           m == Len(parts)
<1>1. DOMAIN parts = 1 .. m
  BY LenProperties DEF Parts
<1>2. PICK at \in [1 .. m -> starts] :
        /\ \A k, l \in 1 .. m : k < l => at[k] < at[l]
        /\ \A i \in starts : i < p => \E k \in 1 .. m : at[k] = i
        /\ \A k \in 1 .. m : at[k] < p /\ parts[k] = PartAt(s, at[k], d)
  BY DEF PartsBelow
<1>3. \A i \in starts : i < p
  <2>1. ASSUME NEW i \in starts PROVE i < p
    <3>1. i \in from .. n /\ s[i] \notin d
      BY TextLength DEF PartStarts
    <3>2. QED
      BY <3>1
  <2>2. QED
    BY <2>1
<1> HIDE DEF starts, m
<1>4. /\ at \in [DOMAIN parts -> starts]
      /\ \A k, l \in DOMAIN parts : k < l => at[k] < at[l]
      /\ \A i \in starts : \E k \in DOMAIN parts : at[k] = i
      /\ \A k \in DOMAIN parts : parts[k] = PartAt(s, at[k], d)
  BY <1>1, <1>2, <1>3
<1>5. QED
  BY <1>4 DEF AreTheParts, starts

-----------------------------------------------------------------------------
(* All the calls                                                           *)

Takings(n) == [step : TokenSteps(n), tokens : Parts]

\* After k later calls: the first token, then the parts up to where the next
\* call goes on; when there was no token any more, all the parts and no error.
TakenAfter(t, k, s, n, head, from, d) ==
    \E parts \in Parts :
        /\ t.tokens = <<head>> \o parts
        /\ t.step.tok = 0 => t.step.errno = 0 /\ AreTheParts(parts, s, from, d)
        /\ t.step.tok # 0 =>
              /\ t.step.tok \in k + 1 .. n
              /\ \E p \in 1 .. n + 2 :
                    t.step.tok < p /\ Behind(s, n, from, p, d) /\ Saved(t.step, s, n, p) /\ PartsBelow(parts, s, from, p, d)

LEMMA OneInFront ==
    ASSUME NEW T, NEW one \in Seq(T), Len(one) = 1, NEW parts \in Seq(T)
    PROVE  /\ one \o parts \in Seq(T) /\ Len(one \o parts) = 1 + Len(parts)
           /\ \A i \in 1 .. 1 + Len(parts) : (one \o parts)[i] = IF i <= 1 THEN one[i] ELSE parts[i - 1]
<1>1. /\ one \o parts \in Seq(T)
      /\ Len(one \o parts) = Len(one) + Len(parts)
      /\ \A i \in 1 .. Len(one) + Len(parts) : (one \o parts)[i] = IF i <= Len(one) THEN one[i] ELSE parts[i - Len(one)]
  BY ConcatProperties
<1>2. QED
  BY <1>1

LEMMA OneMore ==
    ASSUME NEW head \in Seq(Nat), NEW parts \in Parts, NEW text \in Seq(Nat)
    PROVE  Append(<<head>> \o parts, text) = <<head>> \o Append(parts, text)
<1> DEFINE T == Seq(Nat)
           one == <<head>>
           l == Append(one \o parts, text)
           r == one \o Append(parts, text)
           m == Len(parts)
<1>1. one \in Seq(T) /\ Len(one) = 1 /\ one[1] = head /\ parts \in Seq(T) /\ head \in T /\ text \in T
  BY DEF Parts
<1> HIDE DEF T, one
<1>2. m \in Nat
  BY <1>1, LenProperties
<1>3. /\ one \o parts \in Seq(T) /\ Len(one \o parts) = 1 + m
      /\ \A i \in 1 .. 1 + m : (one \o parts)[i] = IF i <= 1 THEN one[i] ELSE parts[i - 1]
  BY <1>1, OneInFront
<1>4. /\ Append(parts, text) \in Seq(T) /\ Len(Append(parts, text)) = m + 1
      /\ \A i \in 1 .. m : Append(parts, text)[i] = parts[i]
      /\ Append(parts, text)[m + 1] = text
  BY <1>1, AppendProperties
<1> DEFINE c == one \o parts
           q == Append(parts, text)
<1> HIDE DEF m, c, q
<1>5. /\ l \in Seq(T) /\ Len(l) = (1 + m) + 1
      /\ \A i \in 1 .. 1 + m : l[i] = c[i]
      /\ l[(1 + m) + 1] = text
  BY <1>1, <1>3, AppendProperties DEF c
<1>6. /\ r \in Seq(T) /\ Len(r) = 1 + (m + 1)
      /\ \A i \in 1 .. 1 + (m + 1) : r[i] = IF i <= 1 THEN one[i] ELSE q[i - 1]
  <2>1. q \in Seq(T) /\ Len(q) = m + 1
    BY <1>4 DEF q
  <2>2. /\ one \o q \in Seq(T) /\ Len(one \o q) = 1 + (m + 1)
        /\ \A i \in 1 .. 1 + (m + 1) : (one \o q)[i] = IF i <= 1 THEN one[i] ELSE q[i - 1]
    <3>1. /\ one \o q \in Seq(T) /\ Len(one \o q) = 1 + Len(q)
          /\ \A i \in 1 .. 1 + Len(q) : (one \o q)[i] = IF i <= 1 THEN one[i] ELSE q[i - 1]
      BY <1>1, <2>1, OneInFront
    <3>2. QED
      BY <2>1, <3>1
  <2>3. QED
    BY <2>2 DEF q
<1> HIDE DEF l, r
<1>7. ASSUME NEW i \in 1 .. m + 2 PROVE l[i] = r[i]
  <2>1. CASE i = m + 2
    <3>1. i = (1 + m) + 1 /\ i \in 1 .. 1 + (m + 1) /\ ~(i <= 1) /\ i - 1 = m + 1
      BY <1>2, <2>1
    <3>2. l[i] = text /\ r[i] = q[m + 1]
      BY <1>5, <1>6, <3>1
    <3>3. QED
      BY <1>4, <3>2 DEF q
  <2>2. CASE i # m + 2 /\ i # 1
    <3>1. i \in 1 .. 1 + m /\ i \in 1 .. 1 + (m + 1) /\ ~(i <= 1) /\ i - 1 \in 1 .. m
      BY <1>2, <2>2
    <3>2. l[i] = c[i] /\ r[i] = q[i - 1]
      BY <1>5, <1>6, <3>1
    <3>3. c[i] = parts[i - 1] /\ q[i - 1] = parts[i - 1]
      BY <1>3, <1>4, <3>1 DEF c, q
    <3>4. QED
      BY <3>2, <3>3
  <2>3. CASE i = 1
    <3>1. i \in 1 .. 1 + m /\ i \in 1 .. 1 + (m + 1) /\ i <= 1
      BY <1>2, <2>3
    <3>2. l[i] = c[i] /\ r[i] = one[i]
      BY <1>5, <1>6, <3>1
    <3>3. c[i] = one[i]
      BY <1>3, <3>1 DEF c
    <3>4. QED
      BY <3>2, <3>3
  <2>4. QED
    BY <2>1, <2>2, <2>3
<1>8. Len(l) = m + 2 /\ Len(r) = m + 2
  BY <1>2, <1>5, <1>6
<1>9. l = r
  BY <1>5, <1>6, <1>7, <1>8, SeqEqual
<1>10. QED
  BY <1>9 DEF l, r, one

LEMMA HeadAndTail ==
    ASSUME NEW head \in Seq(Nat), NEW parts \in Parts
    PROVE  LET all == <<head>> \o parts
           IN all \in Parts /\ all # <<>> /\ Head(all) = head /\ Tail(all) = parts
<1> DEFINE T == Seq(Nat)
           one == <<head>>
           all == one \o parts
           m == Len(parts)
<1>1. one \in Seq(T) /\ Len(one) = 1 /\ one[1] = head /\ parts \in Seq(T)
  BY DEF Parts
<1> HIDE DEF T, one
<1>2. m \in Nat
  BY <1>1, LenProperties
<1>3. /\ all \in Seq(T) /\ Len(all) = 1 + m
      /\ \A i \in 1 .. 1 + m : all[i] = IF i <= 1 THEN one[i] ELSE parts[i - 1]
  BY <1>1, OneInFront
<1> HIDE DEF all, m
<1>4. all # <<>>
  BY <1>2, <1>3
<1>5. Head(all) = all[1]
  BY <1>3, <1>4
<1>6. all[1] = head
  BY <1>1, <1>2, <1>3
<1>7. /\ Tail(all) \in Seq(T) /\ Len(Tail(all)) = Len(all) - 1
      /\ \A i \in 1 .. Len(Tail(all)) : Tail(all)[i] = all[i + 1]
  BY <1>3, <1>4, HeadTailProperties
<1> DEFINE rest == Tail(all)
<1> HIDE DEF rest
<1>8. rest \in Seq(T) /\ Len(rest) = m /\ \A i \in 1 .. m : rest[i] = all[i + 1]
  BY <1>2, <1>3, <1>7 DEF rest
<1>9. ASSUME NEW i \in 1 .. m PROVE rest[i] = parts[i]
  <2>1. i + 1 \in 1 .. 1 + m /\ ~(i + 1 <= 1) /\ (i + 1) - 1 = i
    BY <1>2
  <2>2. QED
    BY <1>3, <1>8, <2>1
<1>10. rest = parts
  BY <1>1, <1>8, <1>9, SeqEqual DEF m
<1>11. QED
  BY <1>3, <1>4, <1>5, <1>6, <1>10 DEF all, one, rest, T, Parts

LEMMA NothingFailed ==
    ASSUME NEW n \in Nat, NEW b \in Buffers(n), NEW t \in [step : TokenSteps(n), tokens : Parts], NEW out, out = Failed(0, b, 0)
    PROVE  /\ out.tok = 0 /\ out.errno = 0 /\ out \in TokenSteps(n)
           /\ Took(out, t.tokens) \in Takings(n) /\ Took(out, t.tokens).step = out /\ Took(out, t.tokens).tokens = t.tokens
<1>1. out.tok = 0 /\ out.errno = 0 /\ out \in TokenSteps(n)
  BY DEF Failed, Step, TokenSteps
<1>2. Took(out, t.tokens) = [step |-> out, tokens |-> t.tokens]
  BY <1>1, Zenon DEF Took
<1>3. t.tokens \in Parts
  OBVIOUS
<1>4. QED
  BY <1>1, <1>2, <1>3 DEF Takings

\* A call that finds a token adds it to the parts.
LEMMA TokenAdded ==
    ASSUME NEW n \in Nat, NEW s \in Texts(n), NEW from \in 1 .. n + 2, NEW d, NEW p \in 1 .. n + 1, Behind(s, n, from, p, d),
           NEW f \in p .. n, NEW e \in f .. n, NextToken(s, n, p, d, f, e),
           NEW b \in Buffers(n), Unread(b, s, n, p), NEW head \in Seq(Nat),
           NEW parts \in Parts, PartsBelow(parts, s, from, p, d), NEW k \in Nat, k + 1 < p
    PROVE  LET u == Took(TakenStep(b, n, f, e), <<head>> \o parts)
           IN u \in Takings(n) /\ TakenAfter(u, k + 1, s, n, head, from, d)
<1> DEFINE out == TakenStep(b, n, f, e)
           tokens == <<head>> \o parts
           u == Took(out, tokens)
           text == SubSeq(s, f, e)
           more == Append(parts, text)
<1>1. out \in TokenSteps(n) /\ out.errno = 0 /\ out.tok = f /\ Saved(out, s, n, e + 2)
  BY StepTaken
<1>2. TokenText(out) = text
  BY TextOfToken
<1>3. text \in Seq(Nat)
  <2>1. p \in Nat /\ f \in 1 .. n
    OBVIOUS
  <2>2. QED
    BY <2>1, PartOfToken
<1>4. PartsBelow(more, s, from, e + 2, d)
  BY PartsGrow
<1> HIDE DEF text, out
<1>5. Append(tokens, text) = <<head>> \o more /\ more \in Parts
  BY <1>3, OneMore, AppendProperties DEF Parts
<1> HIDE DEF more
<1>6. Append(tokens, text) \in Parts
  BY <1>5, HeadAndTail
<1> HIDE DEF tokens
<1>7. u = [step |-> out, tokens |-> Append(tokens, text)]
  <2>1. out.tok # 0
    BY <1>1
  <2>2. QED
    BY <1>2, <2>1, Zenon DEF Took
<1>8. u \in Takings(n) /\ u.step = out /\ u.tokens = <<head>> \o more
  BY <1>1, <1>5, <1>6, <1>7 DEF Takings
<1> HIDE DEF u
<1>9. Behind(s, n, from, e + 2, d)
  <2>1. e + 2 \in from .. n + 2 /\ (e + 2) - 1 = e + 1
    BY DEF Behind
  <2>2. e = n \/ s[e + 1] \in d
    BY DEF NextToken
  <2>3. e + 2 = n + 2 \/ s[(e + 2) - 1] \in d
    BY <2>1, <2>2
  <2>4. QED
    BY <2>1, <2>3 DEF Behind
<1>10. f \in (k + 1) + 1 .. n /\ f < e + 2 /\ f # 0 /\ e + 2 \in 1 .. n + 2
  OBVIOUS
<1>11. \E q \in 1 .. n + 2 :
          f < q /\ Behind(s, n, from, q, d) /\ Saved(out, s, n, q) /\ PartsBelow(more, s, from, q, d)
  BY <1>1, <1>4, <1>9, <1>10
<1>12. TakenAfter(u, k + 1, s, n, head, from, d)
  BY <1>1, <1>5, <1>8, <1>10, <1>11 DEF TakenAfter
<1>13. QED
  BY <1>8, <1>12 DEF u, out, tokens

\* Each later call keeps what the calls before it found.
LEMMA LaterTaking ==
    ASSUME NEW n \in Nat, NEW s \in Texts(n), NEW from \in 1 .. n + 2, NEW d, d \subseteq Nat \ {0},
           NEW head \in Seq(Nat), NEW k \in Nat, NEW t \in Takings(n), TakenAfter(t, k, s, n, head, from, d)
    PROVE  LaterToken(t, d) \in Takings(n) /\ TakenAfter(LaterToken(t, d), k + 1, s, n, head, from, d)
<1> DEFINE step == t.step
           out == safe_strtok_impl({}, step.buffer, 0, step.saveptr, step.strmax, d)
<1>1. PICK parts \in Parts :
        /\ t.tokens = <<head>> \o parts
        /\ step.tok = 0 => step.errno = 0 /\ AreTheParts(parts, s, from, d)
        /\ step.tok # 0 =>
              /\ step.tok \in k + 1 .. n
              /\ \E p \in 1 .. n + 2 :
                    step.tok < p /\ Behind(s, n, from, p, d) /\ Saved(step, s, n, p) /\ PartsBelow(parts, s, from, p, d)
  BY DEF TakenAfter
<1>2. CASE step.tok = 0
  <2>1. LaterToken(t, d) = t
    BY <1>2, Zenon DEF LaterToken
  <2>2. TakenAfter(t, k + 1, s, n, head, from, d)
    BY <1>1, <1>2 DEF TakenAfter
  <2>3. QED
    BY <2>1, <2>2
<1>3. CASE step.tok # 0
  <2>1. LaterToken(t, d) = Took(out, t.tokens)
    BY <1>3, Zenon DEF LaterToken
  <2>2. PICK p \in 1 .. n + 2 :
          step.tok < p /\ Behind(s, n, from, p, d) /\ Saved(step, s, n, p) /\ PartsBelow(parts, s, from, p, d)
    BY <1>1, <1>3
  <2>3. step \in TokenSteps(n) /\ step.tok \in Nat /\ step.buffer \in Buffers(n)
    BY DEF Takings, TokenSteps
  <2> DEFINE b == step.buffer
  <2> HIDE DEF step
  <2>4. LaterOutcome(out, b, s, n, p, d)
    BY <2>2, <2>3, LaterCall
  <2> HIDE DEF out, b
  <2>5. CASE \A i \in p .. n : s[i] \in d
    <3>1. out = Failed(0, b, 0) /\ b \in Buffers(n) /\ t \in [step : TokenSteps(n), tokens : Parts]
      BY <2>3, <2>4, <2>5 DEF b, Takings, LaterOutcome
    <3> DEFINE u == Took(out, t.tokens)
    <3>2. out.tok = 0 /\ out.errno = 0 /\ u \in Takings(n) /\ u.step = out /\ u.tokens = t.tokens
      BY <3>1, NothingFailed
    <3> HIDE DEF u
    <3>3. AreTheParts(parts, s, from, d)
      BY <2>2, <2>5, PartsDone
    <3>4. TakenAfter(u, k + 1, s, n, head, from, d)
      BY <1>1, <3>2, <3>3 DEF TakenAfter
    <3>5. QED
      BY <2>1, <3>2, <3>4 DEF u
  <2>6. CASE ~\A i \in p .. n : s[i] \in d
    <3>1. p \in 1 .. n + 1 /\ Unread(b, s, n, p) /\ b \in Buffers(n)
      BY <2>3, <2>4, <2>6 DEF b, LaterOutcome
    <3>2. PICK f \in p .. n : \E e \in f .. n : NextToken(s, n, p, d, f, e) /\ out = TakenStep(b, n, f, e)
      BY <2>4, <2>6 DEF LaterOutcome
    <3>3. PICK e \in f .. n : NextToken(s, n, p, d, f, e) /\ out = TakenStep(b, n, f, e)
      BY <3>2
    <3>4. k + 1 < p
      BY <1>1, <1>3, <2>2, <2>3
    <3> DEFINE u == Took(TakenStep(b, n, f, e), <<head>> \o parts)
    <3>5. u \in Takings(n) /\ TakenAfter(u, k + 1, s, n, head, from, d)
      BY <2>2, <3>1, <3>3, <3>4, TokenAdded
    <3>6. LaterToken(t, d) = u
      BY <1>1, <2>1, <3>3
    <3> HIDE DEF u
    <3>7. QED
      BY <3>5, <3>6
  <2>7. QED
    BY <2>5, <2>6
<1>4. QED
  BY <1>2, <1>3

\* What the first call leaves: nothing, or the first token and where to go on.
LEMMA FirstTaking ==
    ASSUME NEW n \in 1 .. TOKEN_RSIZE_MAX - 1, NEW s \in Texts(n), NEW d, d \subseteq Nat \ {0}, NEW d2
    PROVE  LET t    == Took(safe_strtok_impl({}, Append(s, 0), 1, 0, 0, d), <<>>)
               f    == Min({i \in 1 .. n : s[i] \notin d})
               head == PartAt(s, f, d)
               from == f + Len(head) + 1
           IN IF {i \in 1 .. n : s[i] \notin d} = {} THEN t.step.tok = 0 /\ t.step.errno = 0 /\ t.tokens = <<>>
              ELSE /\ head \in Seq(Nat) /\ from \in 1 .. n + 2
                   /\ t \in Takings(n) /\ TakenAfter(t, 0, s, n, head, from, d2)
<1> DEFINE b == Append(s, 0)
           out == safe_strtok_impl({}, b, 1, 0, 0, d)
           t == Took(out, <<>>)
           kept == {i \in 1 .. n : s[i] \notin d}
           f == Min(kept)
           head == PartAt(s, f, d)
           from == f + Len(head) + 1
<1>1. n \in Nat /\ TOKEN_RSIZE_MAX \in Nat /\ n < TOKEN_RSIZE_MAX /\ n # 0
  BY TokenAssumption
<1>2. /\ s \in Seq(Nat) /\ Len(s) = n /\ DOMAIN s = 1 .. n
      /\ \A k \in 1 .. n : s[k] \in Nat \ {0}
  BY <1>1, TextLength
<1>3. /\ b \in Seq(Nat) /\ Len(b) = n + 1
      /\ \A k \in 1 .. n : b[k] = s[k]
      /\ b[n + 1] = 0
  BY <1>2, AppendProperties
<1> HIDE DEF b
<1>4. b \in Buffers(n) /\ DOMAIN b = 1 .. n + 1
  BY <1>3, LenProperties DEF Buffers
<1>5. Unread(b, s, n, 1) /\ 1 \in 1 .. n + 1
  BY <1>1, <1>3 DEF Unread
<1>6. Terminator(b) = n + 1
  <2> DEFINE zeros == {i \in DOMAIN b : b[i] = 0}
  <2>1. zeros \subseteq Nat /\ n + 1 \in zeros
    BY <1>1, <1>3, <1>4
  <2>2. \A y \in zeros : n + 1 <= y
    BY <1>1, <1>2, <1>3, <1>4
  <2> HIDE DEF zeros
  <2>3. Min(zeros) = n + 1
    BY <2>1, <2>2, FirstIs
  <2>4. QED
    BY <2>3 DEF zeros, Terminator
<1>7. Min({Terminator(b) - 1, TOKEN_RSIZE_MAX}) = n
  <2> DEFINE both == {Terminator(b) - 1, TOKEN_RSIZE_MAX}
  <2>1. both \subseteq Nat /\ n \in both /\ \A y \in both : n <= y
    BY <1>1, <1>6
  <2> HIDE DEF both
  <2>2. Min(both) = n
    BY <2>1, FirstIs
  <2>3. QED
    BY <2>2 DEF both
<1>8. out = Tokenize(b, 1, n + 1, d)
  <2>1. {} \cap {"strmax", "delim", "saveptr"} = {} /\ 1 # 0 /\ ~(n \in {0, TOKEN_RSIZE_MAX}) /\ n \in 1 .. TOKEN_RSIZE_MAX - 1
    BY <1>1
  <2>2. QED
    BY <1>7, <2>1, Zenon DEF safe_strtok_impl
<1>9. n + 2 - 1 = n + 1
  BY <1>1
<1>10. CASE kept = {}
  <2>1. \A i \in 1 .. n : s[i] \in d
    BY <1>10
  <2>2. Tokenize(b, 1, n + 2 - 1, d) = Failed(0, b, 0)
    BY <1>1, <1>4, <1>5, <2>1, NoTokenLeft
  <2>3. out = Failed(0, b, 0)
    BY <1>8, <1>9, <2>2
  <2> HIDE DEF out
  <2>4. out.tok = 0 /\ out.errno = 0
    BY <2>3 DEF Failed, Step
  <2>5. t = [step |-> out, tokens |-> <<>>]
    BY <2>4, Zenon DEF Took
  <2>6. t.step.tok = 0 /\ t.step.errno = 0 /\ t.tokens = <<>>
    BY <2>4, <2>5
  <2>7. QED
    BY <1>10, <2>6 DEF out, b
<1>11. CASE kept # {}
  <2>1. ~\A i \in 1 .. n : s[i] \in d
    BY <1>11
  <2>2. f \in 1 .. n /\ \E e \in f .. n : NextToken(s, n, 1, d, f, e)
    <3>1. 1 \in Nat
      OBVIOUS
    <3>2. QED
      BY <1>1, <2>1, <3>1, TokenExists, Zenon
  <2> HIDE DEF f, kept
  <2>3. PICK e \in f .. n : NextToken(s, n, 1, d, f, e)
    BY <2>2
  <2> DEFINE text == SubSeq(s, f, e)
  <2>4. head = text /\ text \in Seq(Nat) /\ Len(text) = e - f + 1
    BY <1>1, <2>2, <2>3, PartOfToken
  <2>5. TakesToken(b, s, n, 1, d, f, e)
    BY <1>1, <1>4, <1>5, <2>2, <2>3 DEF TakesToken
  <2>6. Tokenize(b, 1, n + 2 - 1, d) = TakenStep(b, n, f, e)
    BY <2>5, TokenTaken, SMT
  <2>7. out = TakenStep(b, n, f, e)
    BY <1>8, <1>9, <2>6
  <2> HIDE DEF out
  <2>8. out \in TokenSteps(n) /\ out.errno = 0 /\ out.tok = f /\ Saved(out, s, n, e + 2)
    BY <1>1, <1>4, <1>5, <2>2, <2>3, <2>7, StepTaken
  <2>9. TokenText(out) = text
    BY <1>1, <1>4, <1>5, <2>2, <2>3, <2>7, TextOfToken
  <2> HIDE DEF text, head
  <2>10. from = e + 2 /\ from \in 1 .. n + 2
    BY <1>1, <2>2, <2>3, <2>4
  <2>11. t = [step |-> out, tokens |-> Append(<<>>, text)]
    <3>1. out.tok # 0
      BY <2>2, <2>8
    <3>2. QED
      BY <2>9, <3>1, Zenon DEF Took
  <2>12. Append(<<>>, text) = <<text>> \o <<>> /\ <<>> \in Parts
    BY <2>4 DEF Parts
  <2>13. <<text>> \o <<>> \in Parts
    BY <2>4, <2>12, HeadAndTail
  <2> HIDE DEF t
  <2>14. t \in Takings(n) /\ t.step = out /\ t.tokens = <<head>> \o <<>>
    BY <2>4, <2>8, <2>11, <2>12, <2>13 DEF Takings
  <2>15. PartsBelow(<<>>, s, from, from, d2)
    BY <1>1, <2>10, NoPartsYet
  <2> HIDE DEF from
  <2>16. Behind(s, n, from, from, d2) /\ Saved(out, s, n, from) /\ f < from /\ f \in 0 + 1 .. n /\ f # 0
    BY <1>1, <2>2, <2>3, <2>8, <2>10 DEF Behind
  <2>17. TakenAfter(t, 0, s, n, head, from, d2)
    BY <2>8, <2>10, <2>12, <2>14, <2>15, <2>16 DEF TakenAfter
  <2>18. head \in Seq(Nat)
    BY <2>4
  <2>19. QED
    BY <1>11, <2>10, <2>14, <2>17, <2>18 DEF t, out, b, from, head, f, kept
<1>12. QED
  BY <1>10, <1>11

TakingLoop(s, x, d) == CHOOSE f : f = [k \in 0 .. Len(s) |-> IF k = 0 THEN x ELSE LaterToken(f[k - 1], d)]

\* What holds after the first call and is kept by each later one holds at last.
LEMMA LoopTakes ==
    ASSUME NEW n \in Nat, NEW s, Len(s) = n, NEW d, NEW S, NEW x \in S[0],
           \A k \in 1 .. n : \A t \in S[k - 1] : LaterToken(t, d) \in S[k]
    PROVE  TakingLoop(s, x, d)[n] \in S[n]
<1> DEFINE next == [k \in 1 .. n |-> [t \in S[k - 1] |-> LaterToken(t, d)]]
           loop == CHOOSE f : f = [k \in 0 .. n |-> IF k = 0 THEN x ELSE LaterToken(f[k - 1], d)]
<1>1. \A k \in 1 .. n : next[k] \in [S[k - 1] -> S[k]]
  OBVIOUS
<1> HIDE DEF next
<1>2. PICK f : Rounds(f, n, x, next) /\ \A k \in 0 .. n : f[k] \in S[k]
  BY <1>1, RoundsExist
<1>3. f = [k \in 0 .. n |-> IF k = 0 THEN x ELSE LaterToken(f[k - 1], d)]
  <2>1. f = [k \in 0 .. n |-> IF k = 0 THEN x ELSE next[k][f[k - 1]]]
    BY <1>2 DEF Rounds
  <2>2. ASSUME NEW k \in 0 .. n, k # 0 PROVE next[k][f[k - 1]] = LaterToken(f[k - 1], d)
    <3>1. k \in 1 .. n /\ f[k - 1] \in S[k - 1]
      BY <1>2, <2>2
    <3>2. QED
      BY <3>1 DEF next
  <2>3. \A k \in 0 .. n : (IF k = 0 THEN x ELSE next[k][f[k - 1]]) = IF k = 0 THEN x ELSE LaterToken(f[k - 1], d)
    BY <2>2
  <2>4. QED
    BY <2>1, <2>3
<1>4. loop = [k \in 0 .. n |-> IF k = 0 THEN x ELSE LaterToken(loop[k - 1], d)]
  BY <1>3, Zenon
<1>5. TakingLoop(s, x, d) = loop
  BY DEF TakingLoop
<1> HIDE DEF loop
<1>6. loop[0] = x /\ \A k \in 1 .. n : loop[k] = LaterToken(loop[k - 1], d)
  <2>1. \A k \in 0 .. n : loop[k] = IF k = 0 THEN x ELSE LaterToken(loop[k - 1], d)
    BY <1>4
  <2>2. QED
    BY <2>1
<1>7. \A k \in 1 .. n : loop[k - 1] \in S[k - 1] => loop[k] \in S[k]
  BY <1>6
<1>8. \A k \in 0 .. n : loop[k] \in S[k]
  BY <1>6, <1>7, RoundsKeep
<1>9. loop[n] \in S[n]
  BY <1>8
<1>10. QED
  BY <1>5, <1>9

\* Without a token at first there are no later calls.
LEMMA NoLaterCalls ==
    ASSUME NEW n \in Nat, NEW s, Len(s) = n, NEW d, NEW x, x.step.tok = 0
    PROVE  TakingLoop(s, x, d)[n] = x
<1> DEFINE S == [k \in 0 .. n |-> {x}]
<1>1. LaterToken(x, d) = x
  BY Zenon DEF LaterToken
<1>2. x \in S[0] /\ \A k \in 1 .. n : \A t \in S[k - 1] : LaterToken(t, d) \in S[k]
  BY <1>1
<1>3. S[n] = {x}
  OBVIOUS
<1> HIDE DEF S
<1>4. TakingLoop(s, x, d)[n] \in S[n]
  BY <1>2, LoopTakes
<1>5. QED
  BY <1>3, <1>4

TokensMeet(null, s, d1, d2, out) ==
    LET kept == {i \in DOMAIN s : s[i] \notin d1}
    IN IF null # {} THEN out.errno = EINVAL /\ out.tokens = <<>>
       ELSE IF Len(s) \in {0, TOKEN_RSIZE_MAX} THEN out.errno = ERANGE /\ out.tokens = <<>>
       ELSE /\ out.errno = 0
            /\ IF kept = {} THEN out.tokens = <<>>
               ELSE /\ out.tokens # <<>> /\ Head(out.tokens) = PartAt(s, Min(kept), d1)
                    /\ AreTheParts(Tail(out.tokens), s, Min(kept) + Len(Head(out.tokens)) + 1, d2)

\* The result is what the loop left.
LEMMA TokensAre ==
    ASSUME NEW null, NEW s, NEW d1, NEW d2, NEW n, Len(s) = n, NEW last,
           last = TakingLoop(s, Took(safe_strtok_impl(null, Append(s, 0), 1, 0, 0, d1), <<>>), d2)[n]
    PROVE  Tokens(null, s, d1, d2) = [tokens |-> last.tokens, errno |-> last.step.errno]
BY Zenon DEF Tokens, TakingLoop

\* A call that is refused gives no token, and so do those that would follow.
LEMMA CallRefused ==
    ASSUME NEW n \in Nat, NEW s, Len(s) = n, NEW null, NEW d1, NEW d2, NEW error,
           safe_strtok_impl(null, Append(s, 0), 1, 0, 0, d1).tok = 0,
           safe_strtok_impl(null, Append(s, 0), 1, 0, 0, d1).errno = error
    PROVE  Tokens(null, s, d1, d2).tokens = <<>> /\ Tokens(null, s, d1, d2).errno = error
<1> DEFINE out == safe_strtok_impl(null, Append(s, 0), 1, 0, 0, d1)
           x == Took(out, <<>>)
<1>1. x = [step |-> out, tokens |-> <<>>]
  BY Zenon DEF Took
<1>2. x.step.tok = 0 /\ x.step.errno = error /\ x.tokens = <<>>
  BY <1>1
<1>3. TakingLoop(s, x, d2)[n] = x
  <2> HIDE DEF x
  <2>1. QED
    BY <1>2, NoLaterCalls
<1>4. Tokens(null, s, d1, d2) = [tokens |-> x.tokens, errno |-> x.step.errno]
  BY <1>3, TokensAre
<1>5. QED
  BY <1>2, <1>4

LEMMA NullIsRefused ==
    ASSUME NEW n \in 0 .. TOKEN_RSIZE_MAX, NEW s \in Texts(n), NEW null \in {{"strmax"}, {"delim"}, {"saveptr"}}, NEW d1, NEW d2
    PROVE  TokensMeet(null, s, d1, d2, Tokens(null, s, d1, d2))
<1>1. n \in Nat
  BY TokenAssumption
<1>2. Len(s) = n
  BY <1>1, TextLength
<1>3. null \cap {"strmax", "delim", "saveptr"} # {} /\ null # {}
  OBVIOUS
<1> DEFINE out == safe_strtok_impl(null, Append(s, 0), 1, 0, 0, d1)
<1>4. out = Step(EINVAL, 0, Append(s, 0), 0, 0)
  BY <1>3, Zenon DEF safe_strtok_impl
<1>5. out.tok = 0 /\ out.errno = EINVAL
  BY <1>4 DEF Step
<1>6. Tokens(null, s, d1, d2).tokens = <<>> /\ Tokens(null, s, d1, d2).errno = EINVAL
  BY <1>1, <1>2, <1>5, CallRefused
<1>7. QED
  BY <1>3, <1>6, Zenon DEF TokensMeet

\* So is a string that is empty or fills the limit.
LEMMA LengthIsRefused ==
    ASSUME NEW n \in {0, TOKEN_RSIZE_MAX}, NEW s \in Texts(n), NEW d1, NEW d2
    PROVE  TokensMeet({}, s, d1, d2, Tokens({}, s, d1, d2))
<1>1. n \in Nat /\ TOKEN_RSIZE_MAX \in Nat \ {0}
  BY TokenAssumption
<1>2. s \in Seq(Nat) /\ Len(s) = n /\ DOMAIN s = 1 .. n /\ \A k \in 1 .. n : s[k] \in Nat \ {0}
  BY <1>1, TextLength
<1> DEFINE b == Append(s, 0)
           out == safe_strtok_impl({}, b, 1, 0, 0, d1)
           zeros == {i \in DOMAIN b : b[i] = 0}
<1>3. /\ b \in Seq(Nat) /\ Len(b) = n + 1
      /\ \A k \in 1 .. n : b[k] = s[k]
      /\ b[n + 1] = 0
  BY <1>2, AppendProperties
<1> HIDE DEF b
<1>4. DOMAIN b = 1 .. n + 1
  BY <1>3, LenProperties
<1>5. zeros \subseteq Nat /\ n + 1 \in zeros /\ \A y \in zeros : n + 1 <= y
  BY <1>1, <1>2, <1>3, <1>4
<1>6. Terminator(b) = n + 1
  <2>1. Min(zeros) = n + 1
    <3> HIDE DEF zeros
    <3>1. QED
      BY <1>5, FirstIs
  <2>2. QED
    BY <2>1 DEF Terminator
<1> DEFINE both == {Terminator(b) - 1, TOKEN_RSIZE_MAX}
<1>7. Min(both) = n
  <2>1. both \subseteq Nat /\ n \in both /\ \A y \in both : n <= y
    BY <1>1, <1>6
  <2> HIDE DEF both
  <2>2. QED
    BY <2>1, FirstIs
<1>8. Min({Terminator(b) - 1, TOKEN_RSIZE_MAX}) = n
  BY <1>7
<1>9. {} \cap {"strmax", "delim", "saveptr"} = {} /\ 1 # 0
  OBVIOUS
<1>10. out = Failed(ERANGE, b, n)
  <2>1. n \in {0, TOKEN_RSIZE_MAX} /\ ~(n \in 1 .. TOKEN_RSIZE_MAX - 1)
    BY <1>1
  <2>2. QED
    BY <1>8, <1>9, <2>1, Zenon DEF safe_strtok_impl
<1>11. out.tok = 0 /\ out.errno = ERANGE
  BY <1>10 DEF Failed, Step
<1>12. Tokens({}, s, d1, d2).tokens = <<>> /\ Tokens({}, s, d1, d2).errno = ERANGE
  BY <1>1, <1>2, <1>11, CallRefused DEF b
<1>13. Len(s) \in {0, TOKEN_RSIZE_MAX}
  BY <1>2
<1>14. QED
  BY <1>12, <1>13, Zenon DEF TokensMeet

\* Of any other string the tokens are its parts.
LEMMA PartsAreTaken ==
    ASSUME NEW n \in 1 .. TOKEN_RSIZE_MAX - 1, NEW s \in Texts(n),
           NEW d1, d1 \subseteq Nat \ {0}, NEW d2, d2 \subseteq Nat \ {0}
    PROVE  TokensMeet({}, s, d1, d2, Tokens({}, s, d1, d2))
<1> DEFINE out == safe_strtok_impl({}, Append(s, 0), 1, 0, 0, d1)
           x == Took(out, <<>>)
           kept == {i \in 1 .. n : s[i] \notin d1}
           f == Min(kept)
           head == PartAt(s, f, d1)
           from == f + Len(head) + 1
           last == TakingLoop(s, x, d2)[n]
           all == Tokens({}, s, d1, d2)
<1>1. n \in Nat /\ ~(n \in {0, TOKEN_RSIZE_MAX})
  BY TokenAssumption
<1>2. Len(s) = n /\ DOMAIN s = 1 .. n
  BY <1>1, TextLength
<1>3. IF kept = {} THEN x.step.tok = 0 /\ x.step.errno = 0 /\ x.tokens = <<>>
      ELSE /\ head \in Seq(Nat) /\ from \in 1 .. n + 2
           /\ x \in Takings(n) /\ TakenAfter(x, 0, s, n, head, from, d2)
  BY FirstTaking, Zenon
<1>4. all = [tokens |-> last.tokens, errno |-> last.step.errno]
  BY <1>2, Zenon DEF Tokens, TakingLoop
<1> HIDE DEF out, x, head, from
<1>5. CASE kept = {}
  <2>1. last = x
    BY <1>1, <1>2, <1>3, <1>5, NoLaterCalls
  <2> HIDE DEF last
  <2>2. all.tokens = <<>> /\ all.errno = 0
    BY <1>3, <1>4, <1>5, <2>1
  <2> HIDE DEF all
  <2>3. QED
    BY <1>1, <1>2, <1>5, <2>2, Zenon DEF TokensMeet, all
<1>6. CASE kept # {}
  <2> DEFINE S == [k \in 0 .. n |-> {t \in Takings(n) : TakenAfter(t, k, s, n, head, from, d2)}]
  <2>1. head \in Seq(Nat) /\ from \in 1 .. n + 2
    BY <1>3, <1>6
  <2>2. x \in S[0]
    BY <1>1, <1>3, <1>6
  <2>3. ASSUME NEW k \in 1 .. n, NEW t \in S[k - 1] PROVE LaterToken(t, d2) \in S[k]
    <3>1. k - 1 \in 0 .. n /\ k \in 0 .. n /\ k - 1 \in Nat /\ (k - 1) + 1 = k
      BY <1>1
    <3> DEFINE j == k - 1
    <3>2. t \in Takings(n) /\ TakenAfter(t, j, s, n, head, from, d2)
      BY <3>1
    <3> HIDE DEF S, j
    <3>3. j \in Nat /\ j + 1 = k
      BY <3>1 DEF j
    <3>4. LaterToken(t, d2) \in Takings(n) /\ TakenAfter(LaterToken(t, d2), j + 1, s, n, head, from, d2)
      BY <1>1, <2>1, <3>2, <3>3, LaterTaking
    <3>5. QED
      BY <3>1, <3>3, <3>4 DEF S
  <2>4. last \in S[n]
    <3> HIDE DEF S
    <3>1. QED
      BY <1>1, <1>2, <2>2, <2>3, LoopTakes
  <2> HIDE DEF last
  <2>5. last \in Takings(n) /\ TakenAfter(last, n, s, n, head, from, d2)
    BY <1>1, <2>4
  <2>6. PICK parts \in Parts :
          /\ last.tokens = <<head>> \o parts
          /\ last.step.tok = 0 => last.step.errno = 0 /\ AreTheParts(parts, s, from, d2)
          /\ last.step.tok # 0 => last.step.tok \in n + 1 .. n
    BY <2>5 DEF TakenAfter
  <2>7. last.step.tok = 0
    BY <1>1, <2>6
  <2>8. all.errno = 0 /\ all.tokens = <<head>> \o parts
    BY <1>4, <2>6, <2>7
  <2>9. all.tokens # <<>> /\ Head(all.tokens) = head /\ Tail(all.tokens) = parts
    BY <2>1, <2>8, HeadAndTail
  <2> HIDE DEF all
  <2>10. AreTheParts(Tail(all.tokens), s, from, d2)
    BY <2>6, <2>7, <2>9
  <2>11. AreTheParts(Tail(all.tokens), s, f + Len(Head(all.tokens)) + 1, d2)
    BY <2>9, <2>10, Zenon DEF from
  <2>12. QED
    BY <1>1, <1>2, <1>6, <2>8, <2>9, <2>11, Zenon DEF TokensMeet, all, head
<1>7. QED
  BY <1>5, <1>6

LEMMA SplittingIsCorrect == Splitting => TokensAreTheParts'
<1>1. SUFFICES ASSUME Splitting PROVE TokensAreTheParts'
  OBVIOUS
<1>2. PICK n \in 0 .. TOKEN_RSIZE_MAX : \E s \in [1 .. n -> Characters], d1, d2 \in Delimiters,
           null \in {{}, {"strmax"}, {"delim"}, {"saveptr"}} :
        Called("tokens", "strtok", [s |-> s, d1 |-> d1, d2 |-> d2, null |-> null], Tokens(null, s, d1, d2))
  BY <1>1, Zenon DEF Splitting
<1>3. PICK s \in [1 .. n -> Characters], d1 \in Delimiters, d2 \in Delimiters,
           null \in {{}, {"strmax"}, {"delim"}, {"saveptr"}} :
        Called("tokens", "strtok", [s |-> s, d1 |-> d1, d2 |-> d2, null |-> null], Tokens(null, s, d1, d2))
  BY <1>2, Zenon
<1> DEFINE out == Tokens(null, s, d1, d2)
<1>4. d1 \subseteq Nat \ {0} /\ d2 \subseteq Nat \ {0}
  BY TokenAssumption
<1>5. s \in Texts(n)
  BY TokenAssumption DEF Texts
<1>6. TokensMeet(null, s, d1, d2, out)
  <2>1. CASE null # {}
    <3>1. null \in {{"strmax"}, {"delim"}, {"saveptr"}}
      BY <1>3, <2>1
    <3>2. QED
      BY <1>5, <3>1, NullIsRefused
  <2>2. CASE null = {} /\ n \in {0, TOKEN_RSIZE_MAX}
    BY <1>5, <2>2, LengthIsRefused
  <2>3. CASE null = {} /\ ~(n \in {0, TOKEN_RSIZE_MAX})
    <3>1. n \in 1 .. TOKEN_RSIZE_MAX - 1
      BY <2>3, TokenAssumption
    <3>2. TokensMeet({}, s, d1, d2, Tokens({}, s, d1, d2))
      BY <1>4, <1>5, <3>1, PartsAreTaken
    <3>3. QED
      BY <2>3, <3>2
  <2>4. QED
    BY <2>1, <2>2, <2>3
<1>7. call' = [family |-> "tokens", f |-> "strtok", in |-> [s |-> s, d1 |-> d1, d2 |-> d2, null |-> null], out |-> out]
  BY <1>3, Zenon DEF Called
<1> HIDE DEF out
<1>8. /\ call'.in.s = s /\ call'.in.d1 = d1 /\ call'.in.d2 = d2 /\ call'.in.null = null
      /\ call'.out = out
  BY <1>7
<1>9. QED
  BY <1>6, <1>8, Zenon DEF TokensAreTheParts, Is, TokensMeet

\* The calls that take a string apart give the parts between its delimiters,
\* for every string, every two sets of delimiters and every limit.
THEOREM TokensCorrect == TokenSpec => []TokensAreTheParts
<1> DEFINE Other == OtherThan({"tokens"})
<1>1. call = Idle => TokensAreTheParts
  <2>1. SUFFICES ASSUME call = Idle PROVE TokensAreTheParts
    OBVIOUS
  <2>2. call.family # "tokens"
    BY <2>1 DEF Idle
  <2>3. QED
    BY <2>2 DEF TokensAreTheParts, Is
<1>2. TokensAreTheParts /\ [Splitting \/ Other]_call => TokensAreTheParts'
  <2> SUFFICES ASSUME TokensAreTheParts, [Splitting \/ Other]_call PROVE TokensAreTheParts'
    OBVIOUS
  <2>1. CASE Splitting
    BY <2>1, SplittingIsCorrect
  <2>2. CASE Other
    BY <2>2 DEF OtherThan, TokensAreTheParts, Is
  <2>3. CASE UNCHANGED call
    <3> DEFINE Agrees(c) == c.family = "tokens" => TokensMeet(c.in.null, c.in.s, c.in.d1, c.in.d2, c.out)
    <3>1. TokensAreTheParts <=> Agrees(call)
      BY Zenon DEF TokensAreTheParts, Is, TokensMeet
    <3>2. TokensAreTheParts' <=> Agrees(call')
      BY Zenon DEF TokensAreTheParts, Is, TokensMeet
    <3> HIDE DEF Agrees
    <3>3. QED
      BY <2>3, <3>1, <3>2
  <2>4. QED
    BY <2>1, <2>2, <2>3
<1>3. QED
  BY <1>1, <1>2, PTL DEF TokenSpec
===============================================================================
