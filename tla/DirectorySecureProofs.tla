----------------------- MODULE DirectorySecureProofs -----------------------
(***************************************************************************)
(* Proofs about DirectorySecure, for any directory tree, any limits on the *)
(* links and whatever the other users do: the check is bounded, and a path *)
(* that it accepts is protected and stays where it leads.                  *)
(***************************************************************************)
EXTENDS DirectorySecure, SequenceTheorems, WellFoundedInduction, TLAPS

\* num_symlinks counts the calls below the first, and a call that has begun to
\* look at directories is within the limit.
DepthInv ==
    /\ \A k \in 1..Len(stack) : stack[k].links = k - 1
    /\ at \in {"lstat", "readlink"} => Len(stack) <= MaxSymlinks + 1
    /\ Len(stack) <= MaxSymlinks + 2

-----------------------------------------------------------------------------
(* Sequences of frames                                                     *)

\* What the library defines as the front of a sequence.
LEMMA FrontOf ==
    ASSUME NEW S, NEW s \in Seq(S), s # <<>>
    PROVE  /\ Front(s) \in Seq(S)
           /\ Len(Front(s)) = Len(s) - 1
           /\ \A k \in 1..Len(s) - 1 : Front(s)[k] = s[k]
<1> DEFINE n == Len(s) - 1
<1>1. Len(s) \in Nat \ {0} /\ n \in Nat
  BY EmptySeq
<1>2. \A k \in 1..n : s[k] \in S
  BY <1>1
<1>3. /\ SubSeq(s, 1, n) \in Seq(S)
      /\ Len(SubSeq(s, 1, n)) = IF 1 <= n THEN n - 1 + 1 ELSE 0
      /\ \A k \in 1..n - 1 + 1 : SubSeq(s, 1, n)[k] = s[1 + k - 1]
  <2> HIDE DEF n
  <2>1. QED
    BY <1>1, <1>2, SubSeqProperties
<1>4. Len(SubSeq(s, 1, n)) = n /\ \A k \in 1..n : SubSeq(s, 1, n)[k] = s[k]
  <2> HIDE DEF n
  <2>1. n - 1 + 1 = n /\ \A k \in 1..n : 1 + k - 1 = k
    BY <1>1
  <2>2. QED
    BY <1>1, <1>3, <2>1
<1>5. QED
  BY <1>3, <1>4 DEF Front

\* A frame with its index moved on is a frame.
LEMMA NextElement ==
    ASSUME NEW f \in Frame
    PROVE  [f EXCEPT !.i = f.i + 1] \in Frame /\ [f EXCEPT !.i = f.i + 1].links = f.links
BY DEF Frame

\* Replacing one element of a sequence.
LEMMA Replaced ==
    ASSUME NEW S, NEW s \in Seq(S), NEW n \in 1..Len(s), NEW e \in S
    PROVE  /\ [s EXCEPT ![n] = e] \in Seq(S)
           /\ Len([s EXCEPT ![n] = e]) = Len(s)
           /\ \A k \in 1..Len(s) : [s EXCEPT ![n] = e][k] = IF k = n THEN e ELSE s[k]
OBVIOUS

\* The types that only the walk, or only the other users, can disturb.
WalkType ==
    /\ stack \in Seq(Frame)
    /\ at \in {"enter", "lstat", "readlink", "done"}
    /\ verdict \in Verdicts
    /\ stack = <<>> <=> verdict # "none"

WalkInv == WalkType /\ DepthInv

\* While the walk runs its topmost frame is a frame.
LEMMA TopFrame ==
    ASSUME WalkType, stack # <<>>
    PROVE  /\ Len(stack) \in Nat \ {0}
           /\ Top \in Frame
           /\ Top = stack[Len(stack)]
           /\ verdict = "none"
BY DEF WalkType, Top

\* Refusing empties the stack.
LEMMA StopOK ==
    ASSUME WalkInv, stack' = <<>>, at' = "done", verdict' \in Verdicts \ {"none"}
    PROVE  WalkInv'
<1>1. Len(stack') = 0
  OBVIOUS
<1>2. <<>> \in Seq(Frame)
  OBVIOUS
<1>3. WalkType'
  BY <1>2 DEF WalkType
<1>4. DepthInv'
  BY <1>1, LimitAssumption DEF DepthInv
<1>5. QED
  BY <1>3, <1>4 DEF WalkInv

\* A step that puts a frame with one more directory behind it in the place of
\* frame n, and keeps the frames below.
LEMMA AdvanceOK ==
    ASSUME WalkInv, stack # <<>>, NEW n \in 1..Len(stack), n <= MaxSymlinks + 1,
           NEW s \in Seq(Frame), Len(s) = n, \A k \in 1..n : s[k] = stack[k],
           stack' = [s EXCEPT ![n].i = @ + 1], at' = "lstat", UNCHANGED verdict
    PROVE  WalkInv'
<1> DEFINE e == [s[n] EXCEPT !.i = @ + 1]
<1>1. n \in Nat \ {0} /\ n \in 1..Len(s)
  BY TopFrame DEF WalkInv
<1>2. s[n] \in Frame
  BY <1>1
<1>3. e \in Frame /\ e.links = s[n].links
  BY <1>2, NextElement
<1>4. stack' = [s EXCEPT ![n] = e]
  OBVIOUS
<1> HIDE DEF e
<1>5. /\ stack' \in Seq(Frame)
      /\ Len(stack') = n
      /\ \A k \in 1..n : stack'[k] = IF k = n THEN e ELSE s[k]
  BY <1>1, <1>3, <1>4, Replaced
<1>6. WalkType'
  <2>1. verdict' = "none" /\ stack' # <<>>
    BY <1>1, <1>5, TopFrame DEF WalkInv
  <2>2. QED
    BY <1>5, <2>1 DEF WalkType, Verdicts
<1>7. \A k \in 1..n : stack'[k].links = k - 1
  <2>1. \A k \in 1..n : k \in 1..Len(stack) /\ stack[k].links = k - 1
    BY TopFrame DEF WalkInv, DepthInv
  <2>2. QED
    BY <1>1, <1>3, <1>5, <2>1
<1>8. DepthInv'
  BY <1>1, <1>5, <1>7, LimitAssumption DEF DepthInv
<1>9. QED
  BY <1>6, <1>8 DEF WalkInv

\* Following a link puts a frame on top that counts one link more.
LEMMA PushOK ==
    ASSUME WalkInv, stack # <<>>, at = "readlink", NEW f \in Frame,
           f.links = Top.links + 1,
           stack' = Append(stack, f), at' = "enter", UNCHANGED verdict
    PROVE  WalkInv'
<1>1. stack \in Seq(Frame) /\ Len(stack) \in Nat \ {0} /\ verdict = "none"
  BY TopFrame DEF WalkInv, WalkType
<1>2. /\ stack' \in Seq(Frame)
      /\ Len(stack') = Len(stack) + 1
      /\ \A k \in 1..Len(stack) : stack'[k] = stack[k]
      /\ stack'[Len(stack) + 1] = f
  BY <1>1
<1>3. Top.links = Len(stack) - 1 /\ Len(stack) <= MaxSymlinks + 1
  BY <1>1, TopFrame DEF WalkInv, DepthInv
<1>4. \A k \in 1..Len(stack) + 1 : stack'[k].links = k - 1
  <2>1. \A k \in 1..Len(stack) : stack'[k].links = k - 1
    BY <1>2 DEF WalkInv, DepthInv
  <2>2. stack'[Len(stack) + 1].links = Len(stack) + 1 - 1
    BY <1>1, <1>2, <1>3
  <2>3. QED
    BY <1>1, <2>1, <2>2
<1>5. WalkType'
  <2>1. stack' # <<>>
    BY <1>1, <1>2
  <2>2. QED
    BY <1>1, <1>2, <2>1 DEF WalkType, Verdicts
<1>6. DepthInv'
  BY <1>1, <1>2, <1>3, <1>4, LimitAssumption DEF DepthInv
<1>7. QED
  BY <1>5, <1>6 DEF WalkInv

-----------------------------------------------------------------------------
(* The steps of the walk                                                   *)

\* What every state of the walk satisfies besides its types: "done" is the end.
EndInv == at = "done" <=> stack = <<>>

\* Every step of the walk keeps its types and its depth.
LEMMA WalkStep ==
    ASSUME WalkInv, EndInv, target \in [Links -> Targets], os_Is_Directory_Secure
    PROVE  WalkInv' /\ EndInv'
<1>1. at \in {"enter", "lstat", "readlink"} /\ stack # <<>>
  BY DEF os_Is_Directory_Secure, Enter, Check, Readlink, Return, EndInv
<1>2. /\ Len(stack) \in Nat \ {0} /\ Top \in Frame /\ Top = stack[Len(stack)]
      /\ stack \in Seq(Frame) /\ verdict = "none"
  BY <1>1, TopFrame DEF WalkInv, WalkType
<1>3. Top.links = Len(stack) - 1
  <2>1. Len(stack) \in 1..Len(stack)
    BY <1>2
  <2>2. \A k \in 1..Len(stack) : stack[k].links = k - 1
    BY DEF WalkInv, DepthInv
  <2>3. stack[Len(stack)].links = Len(stack) - 1
    BY <2>1, <2>2
  <2>4. QED
    BY <1>2, <2>3
<1>4. ASSUME Refuse PROVE WalkInv' /\ EndInv'
  <2>1. stack' = <<>> /\ at' = "done" /\ verdict' \in Verdicts \ {"none"}
    BY <1>4 DEF Refuse, Verdicts
  <2>2. QED
    BY <2>1, StopOK DEF EndInv
<1>5. CASE Enter
  <2>1. CASE Top.links <= MaxSymlinks /\ Step("lstat") /\ UNCHANGED stack
    <3>1. Top.links = Len(stack) - 1
      BY <1>3
    <3>2. Len(stack) <= MaxSymlinks + 1
      BY <1>2, <2>1, <3>1, LimitAssumption
    <3>3. DepthInv'
      BY <2>1, <3>2 DEF Step, WalkInv, DepthInv
    <3>4. QED
      BY <1>1, <2>1, <3>3 DEF Step, WalkInv, WalkType, EndInv
  <2>2. CASE stack' = <<>> /\ at' = "done" /\ verdict' = "crashed"
    BY <2>2, StopOK DEF EndInv, Verdicts
  <2>3. QED
    BY <1>4, <1>5, <2>1, <2>2 DEF Enter
<1>6. CASE Check
  <2>1. CASE Step("readlink") /\ UNCHANGED stack
    <3>1. at = "lstat"
      BY <1>6 DEF Check
    <3>2. QED
      BY <1>1, <2>1, <3>1 DEF Step, WalkInv, WalkType, DepthInv, EndInv
  <2>2. CASE stack' = [stack EXCEPT ![Len(stack)].i = @ + 1] /\ Step("lstat")
    <3>1. Len(stack) \in 1..Len(stack) /\ Len(stack) <= MaxSymlinks + 1
      BY <1>2, <1>6 DEF Check, WalkInv, DepthInv
    <3>2. WalkInv'
      BY <1>1, <1>2, <2>2, <3>1, AdvanceOK DEF Step
    <3>3. stack' # <<>> /\ at' = "lstat"
      BY <1>2, <2>2 DEF Step
    <3>4. QED
      BY <3>2, <3>3 DEF EndInv
  <2>3. QED
    BY <1>4, <1>6, <2>1, <2>2 DEF Check
<1>7. CASE Readlink
  <2>1. ASSUME NEW inode \in Links,
               stack' = Append(stack, [absolute |-> target[inode].absolute,
                                       path |-> target[inode].names, i |-> 0,
                                       links |-> Top.links + 1]),
               Step("enter")
        PROVE  WalkInv' /\ EndInv'
    <3> DEFINE f == [absolute |-> target[inode].absolute, path |-> target[inode].names,
                     i |-> 0, links |-> Top.links + 1]
    <3>1. at = "readlink"
      BY <1>7 DEF Readlink
    <3>2. Top.links = Len(stack) - 1 /\ Len(stack) <= MaxSymlinks + 1
      BY <1>3, <3>1 DEF WalkInv, DepthInv
    <3>3. Top.links + 1 \in 0..MaxSymlinks + 1
      BY <1>2, <3>2, LimitAssumption
    <3>4. target[inode] \in [absolute : BOOLEAN, names : Seq(Names)]
      BY TargetsAssumption
    <3>5. f \in Frame /\ f.links = Top.links + 1
      BY <3>3, <3>4 DEF Frame
    <3>6. stack' = Append(stack, f) /\ stack' # <<>>
      BY <1>2, <2>1
    <3>7. WalkInv'
      <4> HIDE DEF f
      <4>1. QED
        BY <1>1, <2>1, <3>1, <3>5, <3>6, PushOK DEF Step
    <3>8. QED
      BY <2>1, <3>6, <3>7 DEF Step, EndInv
  <2>2. QED
    BY <1>4, <1>7, <2>1 DEF Readlink
<1>8. CASE Return
  <2>1. CASE stack' = <<>> /\ at' = "done" /\ verdict' = "secure"
    BY <2>1, StopOK DEF EndInv, Verdicts
  <2>2. CASE /\ Len(stack) > 1
             /\ stack' = [Front(stack) EXCEPT ![Len(stack) - 1].i = @ + 1]
             /\ Step("lstat")
    <3>1. /\ Front(stack) \in Seq(Frame)
          /\ Len(Front(stack)) = Len(stack) - 1
          /\ \A k \in 1..Len(stack) - 1 : Front(stack)[k] = stack[k]
      BY <1>1, <1>2, FrontOf
    <3>2. Len(stack) - 1 \in 1..Len(stack) /\ Len(stack) - 1 <= MaxSymlinks + 1
      BY <1>2, <2>2, LimitAssumption DEF WalkInv, DepthInv
    <3>3. WalkInv'
      BY <1>1, <2>2, <3>1, <3>2, AdvanceOK DEF Step
    <3>4. stack' # <<>> /\ at' = "lstat"
      BY <1>2, <2>2, <3>1 DEF Step
    <3>5. QED
      BY <3>3, <3>4 DEF EndInv
  <2>3. QED
    BY <1>8, <2>1, <2>2 DEF Return
<1>9. QED
  BY <1>5, <1>6, <1>7, <1>8 DEF os_Is_Directory_Secure

-----------------------------------------------------------------------------
(* The specification                                                       *)

\* The types that only the other users can disturb.
TreeType ==
    /\ entry \in [Dirs -> [Names -> Inodes \cup {NoInode}]]
    /\ owner \in [Dirs -> Users]
    /\ open \subseteq Dirs
    /\ target \in [Links -> Targets]
    /\ euid \in {"root", "user"}
    /\ sudouid \in {"root", "user"}
    /\ asked \in Paths

IInv == TreeType /\ WalkInv /\ EndInv

\* The first call begins at the root, behind no link.
LEMMA InitInv == Init => IInv
<1> SUFFICES ASSUME Init PROVE IInv
  OBVIOUS
<1> DEFINE f == [absolute |-> TRUE, path |-> asked, i |-> 0, links |-> 0]
<1>1. TreeType
  BY TreesAssumption, OwnersAssumption DEF Init, TreeType
<1>2. f \in Frame
  BY <1>1, PathsAssumption, LimitAssumption DEF TreeType, Frame
<1>3. stack = <<f>> /\ f.links = 0 /\ at = "enter" /\ verdict = "none"
  BY DEF Init
<1> HIDE DEF f
<1>4. stack \in Seq(Frame) /\ Len(stack) = 1 /\ stack[1] = f /\ stack # <<>>
  BY <1>2, <1>3
<1>5. WalkType /\ EndInv
  BY <1>3, <1>4 DEF WalkType, Verdicts, EndInv
<1>6. DepthInv
  BY <1>3, <1>4, LimitAssumption DEF DepthInv
<1>7. QED
  BY <1>1, <1>5, <1>6 DEF IInv, WalkInv

\* The other users leave a tree behind.
LEMMA OthersStep ==
    ASSUME TreeType, OtherUsers
    PROVE  TreeType'
<1>1. UNCHANGED idVars
  BY DEF OtherUsers
<1>2. PICK d \in Dirs : \/ \E n \in Names : Detach(d, n)
                        \/ \E n \in Names, inode \in Inodes : Place(d, n, inode)
                        \/ Chmod(d)
                        \/ Tighten(d)
  BY DEF OtherUsers
<1>3. CASE \E n \in Names : Detach(d, n)
  BY <1>1, <1>3 DEF Detach, TreeType, idVars
<1>4. CASE \E n \in Names, inode \in Inodes : Place(d, n, inode)
  BY <1>1, <1>4 DEF Place, TreeType, idVars
<1>5. CASE Chmod(d)
  BY <1>1, <1>5 DEF Chmod, TreeType, idVars
<1>6. CASE Tighten(d)
  BY <1>1, <1>6 DEF Tighten, TreeType, idVars
<1>7. QED
  BY <1>2, <1>3, <1>4, <1>5, <1>6

\* The walk only looks at the tree.
LEMMA WalkReads ==
    ASSUME TreeType, os_Is_Directory_Secure
    PROVE  TreeType'
<1>1. UNCHANGED treeVars /\ UNCHANGED idVars
  BY DEF os_Is_Directory_Secure, Enter, Check, Readlink, Return
<1>2. QED
  BY <1>1 DEF TreeType, treeVars, idVars

\* A step of the walk keeps all of it, a step of the others does not touch the
\* walk.
LEMMA NextInv == IInv /\ [Next]_vars => IInv'
<1> SUFFICES ASSUME IInv, [Next]_vars PROVE IInv'
  OBVIOUS
<1>1. CASE os_Is_Directory_Secure
  <2>1. target \in [Links -> Targets]
    BY DEF IInv, TreeType
  <2>2. QED
    BY <1>1, <2>1, WalkReads, WalkStep DEF IInv
<1>2. ASSUME UNCHANGED walkVars PROVE (WalkInv /\ EndInv)'
  BY <1>2 DEF IInv, WalkInv, WalkType, DepthInv, EndInv, walkVars
<1>3. CASE OtherUsers
  <2>1. UNCHANGED walkVars
    BY <1>3 DEF OtherUsers
  <2>2. QED
    BY <1>2, <1>3, <2>1, OthersStep DEF IInv
<1>4. CASE UNCHANGED vars
  <2>1. UNCHANGED walkVars /\ TreeType'
    BY <1>4 DEF vars, walkVars, IInv, TreeType
  <2>2. QED
    BY <1>2, <2>1 DEF IInv
<1>5. QED
  BY <1>1, <1>3, <1>4 DEF Next

\* os_Is_Directory_Secure's calls and what they look at stay well formed, for any
\* tree and any other users.
THEOREM TypeCorrect == Spec => []TypeOK
<1>1. IInv => TypeOK
  BY DEF IInv, TreeType, WalkInv, WalkType, TypeOK
<1>2. QED
  BY <1>1, InitInv, NextInv, PTL DEF Spec

\* internal_OS_Is_Directory_Secure never recurses deeper than MAX_SYMLINKS_IN_PATH
\* + 1 below its first call, however the others rearrange the links it follows.
THEOREM RecursionCorrect == Spec => []RecursionIsBounded
<1>1. IInv => RecursionIsBounded
  BY DEF IInv, WalkInv, DepthInv, RecursionIsBounded
<1>2. QED
  BY <1>1, InitInv, NextInv, PTL DEF Spec


-----------------------------------------------------------------------------
(* The kernel's walk                                                       *)

\* A non-empty set of numbers has a least one.
LEMMA LeastNumber ==
    ASSUME NEW S, S \subseteq Nat, S # {}
    PROVE  \E x \in S : \A y \in S : x <= y
<1>1. PICK x \in S : \A y \in S : ~(<<y, x>> \in OpToRel(<, Nat))
  BY WFMin, NatLessThanWellFounded, Zenon
<1>2. \A y \in S : ~(y < x)
  BY <1>1, Zenon DEF OpToRel
<1>3. QED
  BY <1>2

\* The elements of S that iterating step from x comes to, up to the first in T.
Comes(S, step, T, x, y) ==
    \A C \in SUBSET S : x \in C /\ (\A z \in C \ T : step[z] \in C) => y \in C

\* f is out on T, and elsewhere what it is one step on.
Iterates(f, S, step, T, out) == f = [x \in S |-> IF x \in T THEN out[x] ELSE f[step[x]]]

\* A function that only calls itself last exists, whether it ends or not.
LEMMA TailRecursion ==
    ASSUME NEW S, NEW step \in [S -> S], NEW T, NEW out
    PROVE  \E f : Iterates(f, S, step, T, out)
<1> DEFINE Ends(x) == {y \in T : Comes(S, step, T, x, y)}
           f == [x \in S |-> out[CHOOSE y \in Ends(x) : TRUE]]
<1>1. ASSUME NEW x \in S, x \in T
      PROVE  Ends(x) = {x}
  <2>1. Comes(S, step, T, x, x)
    BY DEF Comes
  <2>2. ASSUME NEW y, Comes(S, step, T, x, y) PROVE y = x
    <3>1. {x} \in SUBSET S /\ x \in {x} /\ \A z \in {x} \ T : step[z] \in {x}
      BY <1>1
    <3>2. y \in {x}
      BY <2>2, <3>1, Zenon DEF Comes
    <3>3. QED
      BY <3>2
  <2>3. QED
    BY <1>1, <2>1, <2>2
<1>2. ASSUME NEW x \in S, x \notin T
      PROVE  Ends(x) = Ends(step[x]) /\ step[x] \in S
  <2>1. ASSUME NEW y, Comes(S, step, T, step[x], y) PROVE Comes(S, step, T, x, y)
    <3>1. SUFFICES ASSUME NEW C \in SUBSET S, x \in C, \A z \in C \ T : step[z] \in C
                   PROVE  y \in C
      BY DEF Comes
    <3>2. step[x] \in C
      BY <1>2, <3>1
    <3>3. QED
      BY <2>1, <3>1, <3>2, Zenon DEF Comes
  <2>2. ASSUME NEW y \in T, Comes(S, step, T, x, y) PROVE Comes(S, step, T, step[x], y)
    <3>1. SUFFICES ASSUME NEW C \in SUBSET S, step[x] \in C, \A z \in C \ T : step[z] \in C
                   PROVE  y \in C
      BY DEF Comes
    <3>2. C \cup {x} \in SUBSET S /\ x \in C \cup {x}
      OBVIOUS
    <3>3. \A z \in (C \cup {x}) \ T : step[z] \in C \cup {x}
      BY <3>1
    <3>4. y \in C \cup {x}
      BY <2>2, <3>2, <3>3, Zenon DEF Comes
    <3>5. QED
      BY <1>2, <3>4
  <2>3. QED
    BY <2>1, <2>2
<1>3. \A x \in S : f[x] = out[CHOOSE y \in Ends(x) : TRUE]
  OBVIOUS
<1>4. ASSUME NEW x \in S, x \in T PROVE f[x] = out[x]
  <2>1. (CHOOSE y \in {x} : TRUE) = x
    OBVIOUS
  <2>2. QED
    BY <1>1, <1>3, <1>4, <2>1
<1>5. ASSUME NEW x \in S, x \notin T PROVE f[x] = f[step[x]]
  BY <1>2, <1>3, <1>5
<1>6. f = [x \in S |-> f[x]]
  OBVIOUS
<1> HIDE DEF f
<1>7. f = [x \in S |-> IF x \in T THEN out[x] ELSE f[step[x]]]
  BY <1>4, <1>5, <1>6
<1>8. QED
  BY <1>7 DEF Iterates

\* A tree and the targets of its links.
Tree(e, t) ==
    /\ e \in [Dirs -> [Names -> Inodes \cup {NoInode}]]
    /\ t \in [Links -> Targets]

\* One step of the kernel's walk comes to a point of a walk, with a name less or a link
\* less ahead.
LEMMA OnwardType ==
    ASSUME NEW e, NEW t, Tree(e, t), NEW w \in Ways, ~Ended(e, w)
    PROVE  /\ Onward(e, t, w) \in Ways
           /\ Onward(e, t, w).through = w.through \cup {Onward(e, t, w).dir}
           /\ \/ Found(e, w) \in Dirs /\ Onward(e, t, w).left = w.left
                 /\ Onward(e, t, w).rest = Tail(w.rest)
              \/ Found(e, w) \notin Dirs /\ Onward(e, t, w).left = w.left - 1 /\ w.left # 0
<1> DEFINE next == Found(e, w)
<1>1. /\ w.dir \in Dirs /\ w.rest \in Seq(Names) /\ w.left \in 0..KernelLinks
      /\ w.through \in SUBSET Dirs
  BY DEF Ways
<1>2. w.rest # <<>> /\ next \in Inodes /\ (next \in Links => w.left # 0)
  BY DEF Ended
<1>3. Tail(w.rest) \in Seq(Names)
  BY <1>1, <1>2
<1> HIDE DEF next
<1>4. CASE next \in Dirs
  <2>1. Onward(e, t, w) = [dir |-> next, rest |-> Tail(w.rest), left |-> w.left,
                           through |-> w.through \cup {next}]
    BY <1>4 DEF Onward, Into, next
  <2>2. QED
    BY <1>1, <1>3, <1>4, <2>1 DEF Ways, next
<1>5. CASE next \notin Dirs
  <2>1. next \in Links /\ w.left - 1 \in 0..KernelLinks
    BY <1>1, <1>2, <1>5, LimitAssumption DEF Inodes
  <2> DEFINE d == IF t[next].absolute THEN Root ELSE w.dir
             r == t[next].names \o Tail(w.rest)
  <2>2. d \in Dirs
    BY <1>1, RootAssumption
  <2>3. r \in Seq(Names)
    BY <1>3, <2>1, TargetsAssumption DEF Tree
  <2>4. Onward(e, t, w) = [dir |-> d, rest |-> r, left |-> w.left - 1,
                           through |-> w.through \cup {d}]
    BY <1>5 DEF Onward, Into, next
  <2> HIDE DEF d, r
  <2>5. QED
    BY <1>1, <1>2, <1>5, <2>1, <2>2, <2>3, <2>4 DEF Ways, next
<1>6. QED
  BY <1>4, <1>5

\* The kernel's walk from a point is its walk from the next.
LEMMA WalkIs ==
    ASSUME NEW e, NEW t, Tree(e, t), NEW w \in Ways
    PROVE  Walk(e, t)[w] = IF Ended(e, w) THEN Outcome(e, w) ELSE Walk(e, t)[Onward(e, t, w)]
<1> DEFINE T == {x \in Ways : Ended(e, x)}
           step == [x \in Ways |-> IF Ended(e, x) THEN x ELSE Onward(e, t, x)]
           out == [x \in Ways |-> Outcome(e, x)]
<1>1. step \in [Ways -> Ways]
  BY OnwardType
<1>2. PICK f : Iterates(f, Ways, step, T, out)
  <2> HIDE DEF T, step, out
  <2>1. QED
    BY <1>1, TailRecursion, Zenon
<1>3. f = [x \in Ways |-> IF Ended(e, x) THEN Outcome(e, x) ELSE f[Onward(e, t, x)]]
  <2>1. \A x \in Ways : (IF x \in T THEN out[x] ELSE f[step[x]]) =
                        (IF Ended(e, x) THEN Outcome(e, x) ELSE f[Onward(e, t, x)])
    OBVIOUS
  <2> HIDE DEF T, step, out
  <2>2. QED
    BY <1>2, <2>1 DEF Iterates
<1>4. Walk(e, t) = [x \in Ways |-> IF Ended(e, x) THEN Outcome(e, x)
                                ELSE Walk(e, t)[Onward(e, t, x)]]
  BY <1>3 DEF Walk
<1>5. QED
  BY <1>4

\* A set of points that the walk does not leave.
Closed(e, t, C) == C \subseteq Ways /\ \A w \in C : Ended(e, w) \/ Onward(e, t, w) \in C

\* The walk from w ends at v, and does not leave any closed set on the way.
EndsAt(e, t, w, v) ==
    /\ Ended(e, v) /\ Walk(e, t)[w] = Outcome(e, v)
    /\ \A C : Closed(e, t, C) /\ w \in C => v \in C

\* Every walk ends: each link leaves fewer to follow, each directory fewer names.
LEMMA WalkEnding ==
    ASSUME NEW e, NEW t, Tree(e, t), NEW w \in Ways
    PROVE  \E v \in Ways : EndsAt(e, t, w, v)
<1> DEFINE Lost == {x \in Ways : ~\E v \in Ways : EndsAt(e, t, x, v)}
           Lefts == {x.left : x \in Lost}
<1>1. SUFFICES ASSUME Lost # {} PROVE FALSE
  OBVIOUS
<1>2. \A x \in Ways : x.left \in Nat /\ x.rest \in Seq(Names) /\ Len(x.rest) \in Nat
  BY LimitAssumption DEF Ways
<1>3. PICK x0 \in Lost : \A y \in Lost : x0.left <= y.left
  <2>1. Lefts # {} /\ Lefts \subseteq Nat
    BY <1>1, <1>2
  <2>2. PICK n \in Lefts : \A m \in Lefts : n <= m
    BY <2>1, LeastNumber
  <2>3. QED
    BY <2>2
<1> DEFINE Fewest == {z \in Lost : z.left = x0.left}
           Lengths == {Len(z.rest) : z \in Fewest}
<1>4. PICK x \in Fewest : \A z \in Fewest : Len(x.rest) <= Len(z.rest)
  <2>1. Lengths # {} /\ Lengths \subseteq Nat
    BY <1>2, <1>3
  <2>2. PICK n \in Lengths : \A m \in Lengths : n <= m
    BY <2>1, LeastNumber
  <2>3. QED
    BY <2>2
<1>5. ~Ended(e, x)
  <2>1. SUFFICES ASSUME Ended(e, x) PROVE EndsAt(e, t, x, x)
    BY <1>4
  <2>2. Walk(e, t)[x] = Outcome(e, x)
    BY <1>4, <2>1, WalkIs
  <2>3. QED
    BY <2>1, <2>2 DEF EndsAt
<1> DEFINE y == Onward(e, t, x)
<1>6. y \in Ways /\ \/ y.left = x.left /\ y.rest = Tail(x.rest)
                    \/ y.left = x.left - 1
  BY <1>4, <1>5, OnwardType
<1>7. y \notin Lost
  <2>1. CASE y.left = x.left /\ y.rest = Tail(x.rest)
    <3>1. Len(Tail(x.rest)) < Len(x.rest)
      <4>1. x.rest \in Seq(Names) /\ x.rest # <<>>
        BY <1>2, <1>4, <1>5 DEF Ended
      <4>2. QED
        BY <4>1
    <3>2. Len(x.rest) \in Nat /\ Len(y.rest) \in Nat
      BY <1>2, <1>4, <1>6
    <3> HIDE DEF y
    <3>3. y \notin Fewest
      <4>1. Len(y.rest) < Len(x.rest)
        BY <2>1, <3>1
      <4> HIDE DEF Fewest
      <4>2. QED
        BY <1>4, <3>2, <4>1
    <3>4. QED
      BY <1>4, <2>1, <3>3
  <2>2. CASE y.left = x.left - 1
    <3>1. x.left \in Nat /\ y.left \in Nat /\ x0.left = x.left
      BY <1>2, <1>4, <1>6
    <3> HIDE DEF y
    <3>2. QED
      BY <1>3, <2>2, <3>1
  <2>3. QED
    BY <1>6, <2>1, <2>2
<1>8. PICK v \in Ways : EndsAt(e, t, y, v)
  BY <1>6, <1>7
<1>9. EndsAt(e, t, x, v)
  <2>1. Walk(e, t)[x] = Walk(e, t)[y]
    BY <1>4, <1>5, WalkIs
  <2>2. ASSUME NEW C, Closed(e, t, C), x \in C PROVE v \in C
    <3>1. y \in C
      BY <1>5, <2>2 DEF Closed
    <3>2. QED
      BY <1>8, <2>2, <3>1 DEF EndsAt
  <2>3. QED
    BY <1>8, <2>1, <2>2 DEF EndsAt
<1>10. QED
  BY <1>4, <1>9

\* The parts of an outcome.
LEMMA OutcomeIs ==
    ASSUME NEW e, NEW w
    PROVE  /\ Outcome(e, w).to = IF w.rest = <<>> THEN w.dir ELSE NoInode
           /\ Outcome(e, w).through = w.through
           /\ Outcome(e, w).loop = (w.rest # <<>> /\ Found(e, w) \in Links)
  BY DEF Outcome

\* The walk keeps the directories it has looked into.
LEMMA WalkThrough ==
    ASSUME NEW e, NEW t, Tree(e, t), NEW w \in Ways
    PROVE  /\ w.through \subseteq Walk(e, t)[w].through
           /\ Walk(e, t)[w].through \subseteq Dirs
           /\ Walk(e, t)[w].to \in Dirs \cup {NoInode}
<1> DEFINE C == {x \in Ways : w.through \subseteq x.through}
<1>1. PICK v \in Ways : EndsAt(e, t, w, v)
  BY WalkEnding
<1>2. Closed(e, t, C)
  BY OnwardType DEF Closed
<1>3. v \in C
  BY <1>1, <1>2 DEF EndsAt
<1>4. v.through \in SUBSET Dirs /\ v.dir \in Dirs
  BY DEF Ways
<1>5. QED
  BY <1>1, <1>3, <1>4, OutcomeIs DEF EndsAt

\* Where the directories looked into are the same in two trees, the walks are.
LEMMA SameWalk ==
    ASSUME NEW e, NEW g, NEW t, Tree(e, t), Tree(g, t), NEW w \in Ways, w.dir \in w.through,
           \A d \in Walk(e, t)[w].through : g[d] = e[d]
    PROVE  Walk(g, t)[w] = Walk(e, t)[w]
<1> DEFINE C == {x \in Ways : /\ x.dir \in x.through
                              /\ Walk(e, t)[x] = Walk(e, t)[w]
                              /\ Walk(g, t)[x] = Walk(g, t)[w]}
<1>1. PICK v \in Ways : EndsAt(e, t, w, v)
  BY WalkEnding
<1>2. ASSUME NEW x \in C
      PROVE  /\ Found(g, x) = Found(e, x) /\ (Ended(g, x) <=> Ended(e, x))
             /\ Onward(g, t, x) = Onward(e, t, x) /\ Outcome(g, x) = Outcome(e, x)
  <2>1. x.dir \in Walk(e, t)[x].through
    BY WalkThrough
  <2>2. Found(g, x) = Found(e, x)
    BY <2>1 DEF Found
  <2>3. QED
    BY <2>2 DEF Ended, Onward, Outcome
<1>3. Closed(e, t, C)
  <2>1. SUFFICES ASSUME NEW x \in C, ~Ended(e, x) PROVE Onward(e, t, x) \in C
    BY DEF Closed
  <2> DEFINE y == Onward(e, t, x)
  <2>2. y \in Ways /\ y.dir \in y.through
    BY <2>1, OnwardType
  <2>3. Walk(e, t)[x] = Walk(e, t)[y]
    BY <2>1, WalkIs
  <2>4. Walk(g, t)[x] = Walk(g, t)[y]
    BY <1>2, <2>1, WalkIs
  <2> HIDE DEF y
  <2>5. y \in C
    BY <2>2, <2>3, <2>4
  <2>6. QED
    BY <2>5 DEF y
<1>4. v \in C
  BY <1>1, <1>3 DEF EndsAt
<1>5. Ended(g, v) /\ Outcome(g, v) = Outcome(e, v)
  BY <1>1, <1>2, <1>4 DEF EndsAt
<1>6. Walk(g, t)[v] = Outcome(e, v)
  BY <1>5, WalkIs
<1>7. QED
  BY <1>1, <1>4, <1>6 DEF EndsAt

-----------------------------------------------------------------------------
(* Paths put together                                                      *)

Longer(w, r) ==
    [dir |-> w.dir, rest |-> w.rest \o r, left |-> w.left, through |-> w.through]

\* A point with more names ahead is a point.
LEMMA LongerIs ==
    ASSUME NEW w \in Ways, NEW r \in Seq(Names)
    PROVE  /\ Longer(w, r) \in Ways /\ Longer(w, r).rest = w.rest \o r
           /\ Longer(w, r).dir = w.dir /\ Longer(w, r).left = w.left
           /\ Longer(w, r).through = w.through
<1>1. w.rest \o r \in Seq(Names)
  BY DEF Ways
<1>2. QED
  BY <1>1 DEF Longer, Ways

\* Taking the first name of two paths put together.
LEMMA Concatenated ==
    ASSUME NEW q \in Seq(Names), q # <<>>, NEW r \in Seq(Names)
    PROVE  /\ q \o r # <<>> /\ Head(q \o r) = Head(q)
           /\ Tail(q \o r) = Tail(q) \o r
           /\ \A b \in Seq(Names) : (b \o Tail(q)) \o r = b \o Tail(q \o r)
<1>1. q \o r \in Seq(Names) /\ Len(q) \in Nat \ {0} /\ Len(q \o r) = Len(q) + Len(r)
  BY EmptySeq
<1>2. q \o r # <<>> /\ Head(q \o r) = Head(q)
  BY <1>1
<1>3. Tail(q \o r) = Tail(q) \o r
  BY <1>1, HeadTailProperties
<1>4. \A b \in Seq(Names) : (b \o Tail(q)) \o r = b \o (Tail(q) \o r)
  BY ConcatAssociative, HeadTailProperties
<1>5. QED
  BY <1>2, <1>3, <1>4

\* A step with more names ahead.
LEMMA OnwardLonger ==
    ASSUME NEW e, NEW t, Tree(e, t), NEW w \in Ways, ~Ended(e, w), NEW r \in Seq(Names)
    PROVE  /\ ~Ended(e, Longer(w, r))
           /\ Onward(e, t, Longer(w, r)) = Longer(Onward(e, t, w), r)
<1> DEFINE x == Longer(w, r)
           next == Found(e, w)
<1>1. /\ x \in Ways /\ x.rest = w.rest \o r /\ x.dir = w.dir /\ x.left = w.left
      /\ x.through = w.through
  BY LongerIs
<1> HIDE DEF x
<1>2. w.rest \in Seq(Names) /\ w.rest # <<>>
  BY DEF Ways, Ended
<1>3. /\ x.rest # <<>> /\ Head(x.rest) = Head(w.rest) /\ Tail(x.rest) = Tail(w.rest) \o r
      /\ \A b \in Seq(Names) : (b \o Tail(w.rest)) \o r = b \o Tail(x.rest)
  <2>1. /\ w.rest \o r # <<>> /\ Head(w.rest \o r) = Head(w.rest)
        /\ Tail(w.rest \o r) = Tail(w.rest) \o r
        /\ \A b \in Seq(Names) : (b \o Tail(w.rest)) \o r = b \o Tail(w.rest \o r)
    BY <1>2, Concatenated, Zenon
  <2>2. QED
    BY <1>1, <2>1
<1>4. Found(e, x) = next
  BY <1>1, <1>3 DEF Found
<1>5. ~Ended(e, x)
  BY <1>1, <1>3, <1>4 DEF Ended
<1>6. ASSUME NEW d, NEW rest, NEW left
      PROVE  Longer(Into(w, d, rest, left), r) = Into(x, d, rest \o r, left)
  BY <1>1 DEF Longer, Into
<1>7. CASE next \in Dirs
  <2>1. Onward(e, t, w) = Into(w, next, Tail(w.rest), w.left)
    BY <1>7 DEF Onward
  <2>2. Onward(e, t, x) = Into(x, next, Tail(w.rest) \o r, w.left)
    BY <1>1, <1>3, <1>4, <1>7 DEF Onward
  <2> HIDE DEF next
  <2>3. Onward(e, t, x) = Longer(Onward(e, t, w), r)
    BY <1>6, <2>1, <2>2
  <2>4. QED
    BY <1>5, <2>3 DEF x
<1>8. CASE next \notin Dirs
  <2>1. next \in Links
    BY <1>8 DEF Ended, Inodes
  <2>2. t[next].names \in Seq(Names)
    BY <2>1, TargetsAssumption DEF Tree
  <2>3. (t[next].names \o Tail(w.rest)) \o r = t[next].names \o Tail(x.rest)
    BY <1>3, <2>2
  <2> DEFINE d == IF t[next].absolute THEN Root ELSE w.dir
             ahead == t[next].names \o Tail(w.rest)
  <2>4. Onward(e, t, w) = Into(w, d, ahead, w.left - 1)
    BY <1>8 DEF Onward
  <2>5. Onward(e, t, x) = Into(x, d, ahead \o r, w.left - 1)
    <3>1. Onward(e, t, x) = Into(x, IF t[next].absolute THEN Root ELSE x.dir,
                                 t[next].names \o Tail(x.rest), x.left - 1)
      BY <1>4, <1>8 DEF Onward
    <3>2. ahead \o r = t[next].names \o Tail(x.rest)
      BY <2>3
    <3> HIDE DEF ahead, next
    <3>3. QED
      BY <1>1, <3>1, <3>2
  <2> HIDE DEF d, next, ahead
  <2>6. Longer(Into(w, d, ahead, w.left - 1), r) = Into(x, d, ahead \o r, w.left - 1)
    BY <1>6
  <2>7. Onward(e, t, x) = Longer(Onward(e, t, w), r)
    BY <2>4, <2>5, <2>6
  <2>8. QED
    BY <1>5, <2>7 DEF x
<1>9. QED
  BY <1>5, <1>7, <1>8 DEF x

\* Where a walk goes on from with the names of r ahead.
OnFrom(outcome, r, n) ==
    [dir |-> outcome.to, rest |-> r, left |-> n, through |-> outcome.through]

\* The walk over a path in two parts: over the first part, and on from there.
LEMMA WalkOverParts ==
    ASSUME NEW e, NEW t, Tree(e, t), NEW w \in Ways, NEW r \in Seq(Names),
           Walk(e, t)[w].to \in Dirs
    PROVE  \E n \in 0..KernelLinks :
              /\ OnFrom(Walk(e, t)[w], r, n) \in Ways
              /\ Walk(e, t)[Longer(w, r)] = Walk(e, t)[OnFrom(Walk(e, t)[w], r, n)]
<1> DEFINE C == {x \in Ways : Walk(e, t)[Longer(x, r)] = Walk(e, t)[Longer(w, r)]}
<1>1. PICK v \in Ways : EndsAt(e, t, w, v)
  BY WalkEnding
<1>2. Closed(e, t, C)
  <2>1. SUFFICES ASSUME NEW x \in C, ~Ended(e, x) PROVE Onward(e, t, x) \in C
    BY DEF Closed
  <2>2. Onward(e, t, x) \in Ways /\ Longer(x, r) \in Ways
    BY <2>1, OnwardType, LongerIs
  <2>3. Walk(e, t)[Longer(x, r)] = Walk(e, t)[Longer(Onward(e, t, x), r)]
    BY <2>1, <2>2, OnwardLonger, WalkIs
  <2>4. QED
    BY <2>2, <2>3
<1>3. v \in C
  BY <1>1, <1>2 DEF EndsAt
<1>4. v.rest = <<>> /\ v.dir = Walk(e, t)[w].to /\ v.through = Walk(e, t)[w].through
  BY <1>1, OutcomeIs, InodesAssumption DEF EndsAt
<1>5. v.left \in 0..KernelLinks /\ v.rest \o r = r
  BY <1>4 DEF Ways
<1>6. Longer(v, r) = OnFrom(Walk(e, t)[w], r, v.left)
  BY <1>4, <1>5 DEF Longer, OnFrom
<1>7. Longer(v, r) \in Ways
  BY LongerIs
<1>8. QED
  BY <1>3, <1>4, <1>5, <1>6, <1>7

\* The walk x is at the same point as y, with the directories of A behind it and
\* no more links to follow.
Trails(A, x, y) ==
    /\ x.dir = y.dir /\ x.rest = y.rest /\ x.left <= y.left
    /\ x.through = A \cup y.through

\* It comes to the same end, or to the limit on the links before.
LEMMA WalkTrails ==
    ASSUME NEW e, NEW t, Tree(e, t), NEW w \in Ways, NEW u \in Ways, NEW A, Trails(A, w, u)
    PROVE  /\ Walk(e, t)[w].through \subseteq A \cup Walk(e, t)[u].through
           /\ \/ Walk(e, t)[w].loop
              \/ /\ Walk(e, t)[w].to = Walk(e, t)[u].to
                 /\ Walk(e, t)[w].loop = Walk(e, t)[u].loop
<1> DEFINE C == {x \in Ways : \E y \in Ways : Trails(A, x, y) /\ Walk(e, t)[y] = Walk(e, t)[u]}
<1>1. PICK v \in Ways : EndsAt(e, t, w, v)
  BY WalkEnding
<1>2. ASSUME NEW x \in Ways, NEW y \in Ways, Trails(A, x, y), ~Ended(e, x)
      PROVE  ~Ended(e, y) /\ Trails(A, Onward(e, t, x), Onward(e, t, y))
  <2>1. Found(e, x) = Found(e, y) /\ x.left \in Nat /\ y.left \in Nat
    BY <1>2, LimitAssumption DEF Trails, Found, Ways
  <2>2. ~Ended(e, y)
    BY <1>2, <2>1 DEF Trails, Ended
  <2>3. ASSUME NEW d, NEW rest, NEW i \in Int, NEW j \in Int, i <= j
        PROVE  Trails(A, Into(x, d, rest, i), Into(y, d, rest, j))
    BY <1>2, <2>3 DEF Trails, Into
  <2>4. x.left - 1 <= y.left - 1 /\ x.left <= y.left
    BY <1>2, <2>1 DEF Trails
  <2>5. CASE Found(e, x) \in Dirs
    <3> DEFINE l == Found(e, x)
               rest == Tail(x.rest)
    <3>1. Onward(e, t, x) = Into(x, l, rest, x.left)
      BY <2>5 DEF Onward
    <3>2. Onward(e, t, y) = Into(y, l, rest, y.left)
      BY <1>2, <2>1, <2>5 DEF Onward, Trails
    <3>3. x.left \in Int /\ y.left \in Int
      BY <2>1
    <3> HIDE DEF l, rest
    <3>4. QED
      BY <2>2, <2>3, <2>4, <3>1, <3>2, <3>3
  <2>6. CASE Found(e, x) \notin Dirs
    <3> DEFINE l == Found(e, x)
               d == IF t[l].absolute THEN Root ELSE x.dir
               rest == t[l].names \o Tail(x.rest)
    <3>1. Onward(e, t, x) = Into(x, d, rest, x.left - 1)
      BY <2>6 DEF Onward
    <3>2. Onward(e, t, y) = Into(y, d, rest, y.left - 1)
      BY <1>2, <2>1, <2>6 DEF Onward, Trails
    <3>3. x.left - 1 \in Int /\ y.left - 1 \in Int
      BY <2>1
    <3> HIDE DEF l, d, rest
    <3>4. QED
      BY <2>2, <2>3, <2>4, <3>1, <3>2, <3>3
  <2>7. QED
    BY <2>2, <2>5, <2>6
<1>3. Closed(e, t, C)
  <2>1. SUFFICES ASSUME NEW x \in C, ~Ended(e, x) PROVE Onward(e, t, x) \in C
    BY DEF Closed
  <2>2. PICK y \in Ways : Trails(A, x, y) /\ Walk(e, t)[y] = Walk(e, t)[u]
    OBVIOUS
  <2>3. ~Ended(e, y) /\ Trails(A, Onward(e, t, x), Onward(e, t, y))
    BY <1>2, <2>1, <2>2
  <2>4. Walk(e, t)[y] = Walk(e, t)[Onward(e, t, y)]
    BY <2>3, WalkIs
  <2>5. Onward(e, t, x) \in Ways /\ Onward(e, t, y) \in Ways
    BY <2>1, <2>3, OnwardType
  <2>6. QED
    BY <2>2, <2>3, <2>4, <2>5
<1>4. w \in C
  OBVIOUS
<1>5. PICK y \in Ways : Trails(A, v, y) /\ Walk(e, t)[y] = Walk(e, t)[u]
  BY <1>1, <1>3, <1>4 DEF EndsAt
<1>6. Walk(e, t)[w] = Outcome(e, v) /\ Ended(e, v) /\ Found(e, v) = Found(e, y)
  BY <1>1, <1>5 DEF EndsAt, Found, Trails
<1>7. Walk(e, t)[w].through \subseteq A \cup Walk(e, t)[u].through
  BY <1>5, <1>6, WalkThrough, OutcomeIs DEF Trails
<1>8. CASE v.rest # <<>> /\ Found(e, v) \in Links
  BY <1>6, <1>7, <1>8, OutcomeIs
<1>9. CASE ~(v.rest # <<>> /\ Found(e, v) \in Links)
  <2>1. Ended(e, y)
    BY <1>5, <1>6, <1>9 DEF Ended, Trails
  <2>2. Walk(e, t)[y] = Outcome(e, y)
    BY <2>1, WalkIs
  <2>3. /\ Outcome(e, v).to = Outcome(e, y).to
        /\ Outcome(e, v).loop = Outcome(e, y).loop
    BY <1>5, <1>6, OutcomeIs DEF Trails
  <2>4. QED
    BY <1>5, <1>6, <1>7, <2>2, <2>3
<1>10. QED
  BY <1>8, <1>9

-----------------------------------------------------------------------------
(* Paths the walk has been over                                            *)

\* The kernel comes to a directory, or to its limit, and only directories that the
\* check accepts are looked into on the way.
Fine(path) ==
    /\ Resolve(path).to \in Dirs \/ Resolve(path).loop
    /\ \A d \in Resolve(path).through : Acceptable(d)

\* The beginning of a path is a point of a walk.
LEMMA BeginIs ==
    ASSUME NEW p \in Seq(Names)
    PROVE  /\ Begin(p) \in Ways
           /\ Begin(p).dir = Root /\ Begin(p).rest = p /\ Begin(p).left = KernelLinks
           /\ Begin(p).through = {Root}
           /\ \A r : Longer(Begin(p), r) = Begin(p \o r)
<1>1. KernelLinks \in 0..KernelLinks
  BY LimitAssumption
<1>2. QED
  BY <1>1, RootAssumption DEF Begin, Ways, Longer

\* A path ends in a directory it has looked into, if in any.
LEMMA EndIsSeen ==
    ASSUME NEW e, NEW t, Tree(e, t), NEW w \in Ways, w.dir \in w.through,
           Walk(e, t)[w].to \in Dirs
    PROVE  Walk(e, t)[w].to \in Walk(e, t)[w].through
<1> DEFINE C == {x \in Ways : x.dir \in x.through}
<1>1. PICK v \in Ways : EndsAt(e, t, w, v)
  BY WalkEnding
<1>2. Closed(e, t, C)
  BY OnwardType DEF Closed
<1>3. v \in C
  BY <1>1, <1>2 DEF EndsAt
<1>4. Walk(e, t)[w].to = v.dir
  BY <1>1, OutcomeIs, InodesAssumption DEF EndsAt
<1>5. QED
  BY <1>1, <1>3, <1>4, OutcomeIs DEF EndsAt

\* Resolving a path only looks into directories, the root first and the one it leads
\* to last.
LEMMA ResolveType ==
    ASSUME Tree(entry, target), NEW p \in Seq(Names)
    PROVE  /\ Root \in Resolve(p).through /\ Resolve(p).through \subseteq Dirs
           /\ Resolve(p).to \in Dirs => Resolve(p).to \in Resolve(p).through
<1>1. Begin(p) \in Ways /\ Begin(p).dir = Root /\ Begin(p).through = {Root}
  BY BeginIs
<1>2. QED
  BY <1>1, WalkThrough, EndIsSeen DEF Resolve

\* The root alone.
LEMMA ResolveRoot ==
    ASSUME Tree(entry, target)
    PROVE  Resolve(<<>>).to = Root /\ Resolve(<<>>).through = {Root}
<1>1. <<>> \in Seq(Names)
  OBVIOUS
<1>2. /\ Begin(<<>>) \in Ways /\ Begin(<<>>).rest = <<>> /\ Begin(<<>>).dir = Root
      /\ Begin(<<>>).through = {Root}
  BY <1>1, BeginIs
<1>3. Walk(entry, target)[Begin(<<>>)] = Outcome(entry, Begin(<<>>))
  BY <1>2, WalkIs DEF Ended
<1>4. QED
  BY <1>2, <1>3, OutcomeIs DEF Resolve

\* The last name of a path: the kernel goes on with it from where the rest leads.
After(p, x, n) == OnFrom(Resolve(p), <<x>>, n)

\* Resolving a path is resolving all but its last name, and then that name.
LEMMA OneMore ==
    ASSUME Tree(entry, target), NEW p \in Seq(Names), NEW x \in Names, Resolve(p).to \in Dirs
    PROVE  \E n \in 0..KernelLinks :
              /\ After(p, x, n) \in Ways
              /\ Resolve(p \o <<x>>) = Walk(entry, target)[After(p, x, n)]
<1>1. Begin(p) \in Ways /\ Longer(Begin(p), <<x>>) = Begin(p \o <<x>>)
  BY BeginIs
<1>2. Walk(entry, target)[Begin(p)].to \in Dirs /\ <<x>> \in Seq(Names)
  BY DEF Resolve
<1> DEFINE r == <<x>>
           b == Begin(p)
<1>3. \E n \in 0..KernelLinks :
         /\ OnFrom(Walk(entry, target)[b], r, n) \in Ways
         /\ Walk(entry, target)[Longer(b, r)] =
              Walk(entry, target)[OnFrom(Walk(entry, target)[b], r, n)]
  <2>1. b \in Ways /\ r \in Seq(Names) /\ Walk(entry, target)[b].to \in Dirs
    BY <1>1, <1>2
  <2> HIDE DEF r, b
  <2>2. QED
    BY <2>1, WalkOverParts
<1>4. QED
  BY <1>1, <1>3 DEF Resolve, After

\* The point before the last name.
LEMMA AfterIs ==
    ASSUME NEW p, NEW x \in Names, NEW n
    PROVE  /\ After(p, x, n).rest = <<x>> /\ After(p, x, n).rest # <<>>
           /\ Head(After(p, x, n).rest) = x /\ Tail(After(p, x, n).rest) = <<>>
           /\ After(p, x, n).left = n /\ After(p, x, n).through = Resolve(p).through
           /\ After(p, x, n).dir = Resolve(p).to
           /\ Found(entry, After(p, x, n)) = entry[Resolve(p).to][x]
<1>1. After(p, x, n) = [dir |-> Resolve(p).to, rest |-> <<x>>, left |-> n,
                        through |-> Resolve(p).through]
  BY DEF After, OnFrom
<1>2. <<x>> # <<>> /\ Head(<<x>>) = x /\ Tail(<<x>>) = <<>>
  OBVIOUS
<1>3. QED
  BY <1>1, <1>2 DEF Found

\* It names a directory.
LEMMA OverDirectory ==
    ASSUME Tree(entry, target), NEW p \in Seq(Names), NEW x \in Names,
           Resolve(p).to \in Dirs, entry[Resolve(p).to][x] \in Dirs
    PROVE  /\ Resolve(p \o <<x>>).to = entry[Resolve(p).to][x]
           /\ Resolve(p \o <<x>>).through = Resolve(p).through \cup {entry[Resolve(p).to][x]}
<1>1. PICK n \in 0..KernelLinks :
              /\ After(p, x, n) \in Ways
              /\ Resolve(p \o <<x>>) = Walk(entry, target)[After(p, x, n)]
  BY OneMore
<1> DEFINE w == After(p, x, n)
           d == entry[Resolve(p).to][x]
<1>2. /\ w \in Ways /\ w.rest # <<>> /\ Tail(w.rest) = <<>> /\ w.through = Resolve(p).through
      /\ Found(entry, w) = d
  <2> HIDE DEF d
  <2>1. QED
    BY <1>1, AfterIs DEF d
<1> HIDE DEF w
<1>3. ~Ended(entry, w)
  BY <1>2, InodesAssumption DEF Ended, Inodes
<1> DEFINE v == Onward(entry, target, w)
<1>4. v \in Ways /\ v.dir = d /\ v.rest = <<>> /\ v.through = w.through \cup {d}
  <2>1. v \in Ways
    BY <1>2, <1>3, OnwardType
  <2>2. v = [dir |-> d, rest |-> <<>>, left |-> w.left, through |-> w.through \cup {d}]
    BY <1>2 DEF Onward, Into
  <2>3. QED
    BY <2>1, <2>2
<1> HIDE DEF v
<1>5. Walk(entry, target)[w] = Walk(entry, target)[v]
  BY <1>2, <1>3, WalkIs DEF v
<1>6. Walk(entry, target)[v] = Outcome(entry, v)
  BY <1>4, WalkIs DEF Ended
<1>7. QED
  BY <1>1, <1>2, <1>4, <1>5, <1>6, OutcomeIs DEF w

\* It names a link that holds an absolute path: the kernel comes to the end of that
\* path, or to its limit on the way.
LEMMA OverLink ==
    ASSUME Tree(entry, target), NEW p \in Seq(Names), NEW x \in Names,
           Resolve(p).to \in Dirs, NEW l \in Links, entry[Resolve(p).to][x] = l,
           target[l].absolute
    PROVE  /\ Resolve(p \o <<x>>).through \subseteq
                  Resolve(p).through \cup Resolve(target[l].names).through
           /\ \/ Resolve(p \o <<x>>).loop
              \/ /\ Resolve(p \o <<x>>).to = Resolve(target[l].names).to
                 /\ Resolve(p \o <<x>>).loop = Resolve(target[l].names).loop
<1>1. PICK n \in 0..KernelLinks :
              /\ After(p, x, n) \in Ways
              /\ Resolve(p \o <<x>>) = Walk(entry, target)[After(p, x, n)]
  BY OneMore
<1> DEFINE w == After(p, x, n)
           q == target[l].names
           u == Begin(q)
<1>2. /\ w \in Ways /\ w.rest # <<>> /\ Tail(w.rest) = <<>> /\ w.through = Resolve(p).through
      /\ Found(entry, w) = l /\ w.left = n
  <2>1. /\ w.rest # <<>> /\ Tail(w.rest) = <<>> /\ w.through = Resolve(p).through
        /\ Found(entry, w) = entry[Resolve(p).to][x] /\ w.left = n
    BY AfterIs
  <2> HIDE DEF w, q, u
  <2>2. QED
    BY <1>1, <2>1 DEF w
<1>3. q \in Seq(Names)
  BY TargetsAssumption DEF Tree
<1>4. /\ u \in Ways /\ u.dir = Root /\ u.rest = q /\ u.left = KernelLinks
      /\ u.through = {Root} /\ Resolve(q) = Walk(entry, target)[u]
  BY <1>3, BeginIs DEF Resolve
<1>5. Resolve(p \o <<x>>) = Walk(entry, target)[w]
  BY <1>1
<1> HIDE DEF w, u
<1>6. CASE n = 0
  <2>1. Ended(entry, w)
    BY <1>2, <1>6 DEF Ended
  <2>2. Walk(entry, target)[w] = Outcome(entry, w)
    BY <1>2, <2>1, WalkIs
  <2>3. Outcome(entry, w).loop /\ Outcome(entry, w).through = w.through
    BY <1>2, OutcomeIs
  <2>4. QED
    BY <1>2, <1>5, <2>2, <2>3
<1>7. CASE n # 0
  <2>1. ~Ended(entry, w)
    BY <1>2, <1>7 DEF Ended, Inodes
  <2> DEFINE v == Onward(entry, target, w)
  <2>2. v \in Ways /\ Walk(entry, target)[w] = Walk(entry, target)[v]
    BY <1>2, <2>1, OnwardType, WalkIs
  <2>3. Trails(w.through, v, u)
    <3>1. q \o <<>> = q
      BY <1>3
    <3>2. v = [dir |-> Root, rest |-> q \o <<>>, left |-> n - 1,
               through |-> w.through \cup {Root}]
      BY <1>2, InodesAssumption DEF Onward, Into
    <3> HIDE DEF v, q
    <3>3. n - 1 <= KernelLinks
      BY LimitAssumption
    <3>4. QED
      BY <1>4, <3>1, <3>2, <3>3 DEF Trails
  <2> HIDE DEF v, q
  <2>4. /\ Walk(entry, target)[v].through \subseteq w.through \cup Walk(entry, target)[u].through
        /\ \/ Walk(entry, target)[v].loop
           \/ /\ Walk(entry, target)[v].to = Walk(entry, target)[u].to
              /\ Walk(entry, target)[v].loop = Walk(entry, target)[u].loop
    BY <1>2, <1>4, <2>2, <2>3, WalkTrails
  <2>5. QED
    BY <1>2, <1>4, <1>5, <2>2, <2>4 DEF q
<1>8. QED
  BY <1>6, <1>7

-----------------------------------------------------------------------------
(* What the walk has been over, while it is under way                      *)

\* The paths that are fine, and what lstat says of each path.
FinePaths == {p \in Seq(Names) : Fine(p)}

Lstats == [p \in Seq(Names) |-> Lstat(p)]

\* The first i names of a path.
LEMMA PrefixOf ==
    ASSUME NEW p \in Seq(Names), NEW i \in 0..Len(p)
    PROVE  /\ SubSeq(p, 1, i) \in Seq(Names)
           /\ i = 0 => SubSeq(p, 1, i) = <<>>
           /\ i = Len(p) => SubSeq(p, 1, i) = p
           /\ i >= 1 => /\ p[i] \in Names
                        /\ SubSeq(p, 1, i) # <<>>
                        /\ Last(SubSeq(p, 1, i)) = p[i]
                        /\ SubSeq(p, 1, i - 1) \in Seq(Names)
                        /\ Front(SubSeq(p, 1, i)) = SubSeq(p, 1, i - 1)
                        /\ SubSeq(p, 1, i) = SubSeq(p, 1, i - 1) \o <<p[i]>>
<1> DEFINE q == SubSeq(p, 1, i)
           b == SubSeq(p, 1, i - 1)
<1>1. /\ q \in Seq(Names) /\ Len(q) = i /\ \A k \in 1..i : q[k] = p[k]
  OBVIOUS
<1>2. i = Len(p) => q = p
  BY <1>1
<1>3. i = 0 => q = <<>>
  BY <1>1
<1>4. CASE i >= 1
  <2>1. i - 1 \in Nat /\ i - 1 <= Len(p) /\ p[i] \in Names
    BY <1>4
  <2>2. b \in Seq(Names) /\ Len(b) = i - 1 /\ \A k \in 1..i - 1 : b[k] = p[k]
    BY <2>1
  <2> HIDE DEF q, b
  <2>3. q # <<>> /\ Last(q) = p[i]
    BY <1>1, <1>4 DEF Last
  <2>4. Front(q) = b
    <3>1. /\ Front(q) \in Seq(Names) /\ Len(Front(q)) = Len(q) - 1
          /\ \A k \in 1..Len(q) - 1 : Front(q)[k] = q[k]
      BY <1>1, <2>3, FrontOf
    <3>2. \A k \in 1..i - 1 : Front(q)[k] = b[k]
      BY <1>1, <2>2, <3>1
    <3>3. QED
      BY <1>1, <2>2, <3>1, <3>2
  <2>5. q = b \o <<p[i]>>
    <3>1. /\ b \o <<p[i]>> \in Seq(Names) /\ Len(b \o <<p[i]>>) = i
      BY <2>1, <2>2
    <3>2. \A k \in 1..i : (b \o <<p[i]>>)[k] = q[k]
      BY <1>1, <2>1, <2>2
    <3>3. QED
      BY <1>1, <3>1, <3>2
  <2>6. QED
    BY <1>1, <1>2, <1>4, <2>1, <2>2, <2>3, <2>4, <2>5 DEF q, b
<1>5. QED
  BY <1>1, <1>2, <1>3, <1>4

\* lstat of the first i names: the i-th name in the directory of those before it.
LEMMA LstatIs ==
    ASSUME NEW p \in Seq(Names), NEW i \in 0..Len(p)
    PROVE  /\ i = 0 => Lstat(SubSeq(p, 1, i)) = Root
           /\ i >= 1 /\ Resolve(SubSeq(p, 1, i - 1)).to \in Dirs =>
                 Lstat(SubSeq(p, 1, i)) = entry[Resolve(SubSeq(p, 1, i - 1)).to][p[i]]
           /\ i >= 1 /\ Resolve(SubSeq(p, 1, i - 1)).to \notin Dirs =>
                 Lstat(SubSeq(p, 1, i)) = NoInode
BY PrefixOf DEF Lstat

\* What the check of one element takes for granted of those before it.
Behind(p, i, fine) == i >= 1 => SubSeq(p, 1, i - 1) \in fine

\* A directory that is accepted adds itself to a path that is fine.
LEMMA DirectoryPassed ==
    ASSUME Tree(entry, target), NEW p \in Seq(Names), NEW i \in 0..Len(p),
           Behind(p, i, FinePaths), Lstat(SubSeq(p, 1, i)) \in Dirs,
           Acceptable(Lstat(SubSeq(p, 1, i)))
    PROVE  SubSeq(p, 1, i) \in FinePaths
<1> DEFINE q == SubSeq(p, 1, i)
           b == SubSeq(p, 1, i - 1)
<1>1. CASE i = 0
  <2>1. q = <<>> /\ q \in Seq(Names) /\ Acceptable(Root)
    BY <1>1, PrefixOf, LstatIs
  <2> HIDE DEF q
  <2>2. Fine(q)
    BY <2>1, ResolveRoot, RootAssumption DEF Fine
  <2>3. QED
    BY <2>1, <2>2 DEF FinePaths, q
<1>2. CASE i >= 1
  <2> DEFINE x == p[i]
  <2>1. /\ q \in Seq(Names) /\ b \in Seq(Names) /\ x \in Names /\ q = b \o <<x>>
        /\ Fine(b)
    BY <1>2, PrefixOf DEF Behind, FinePaths
  <2>2. Resolve(b).to \in Dirs
    BY <1>2, LstatIs, InodesAssumption
  <2>3. Lstat(q) = entry[Resolve(b).to][x]
    BY <1>2, <2>2, LstatIs
  <2>4. Lstat(q) \in Dirs /\ Acceptable(Lstat(q))
    OBVIOUS
  <2> HIDE DEF q, b, x
  <2>5. /\ Resolve(q).to = Lstat(q)
        /\ Resolve(q).through = Resolve(b).through \cup {Lstat(q)}
    BY <2>1, <2>2, <2>3, <2>4, OverDirectory
  <2>6. Fine(q)
    BY <2>1, <2>4, <2>5 DEF Fine
  <2>7. QED
    BY <2>1, <2>6 DEF FinePaths, q
<1>3. QED
  BY <1>1, <1>2

\* So does a link whose target is fine.
LEMMA LinkPassed ==
    ASSUME Tree(entry, target), NEW p \in Seq(Names), NEW i \in 0..Len(p),
           Behind(p, i, FinePaths), Lstat(SubSeq(p, 1, i)) \in Links,
           target[Lstat(SubSeq(p, 1, i))].absolute,
           target[Lstat(SubSeq(p, 1, i))].names \in FinePaths
    PROVE  SubSeq(p, 1, i) \in FinePaths
<1> DEFINE q == SubSeq(p, 1, i)
           b == SubSeq(p, 1, i - 1)
           x == p[i]
           l == Lstat(q)
<1>1. i >= 1
  BY LstatIs, RootAssumption, InodesAssumption
<1>2. /\ q \in Seq(Names) /\ b \in Seq(Names) /\ x \in Names /\ q = b \o <<x>>
      /\ Fine(b)
  BY <1>1, PrefixOf DEF Behind, FinePaths
<1>3. Resolve(b).to \in Dirs
  BY <1>1, LstatIs, InodesAssumption
<1>4. l = entry[Resolve(b).to][x]
  BY <1>1, <1>3, LstatIs
<1>5. l \in Links /\ target[l].absolute /\ Fine(target[l].names)
  BY DEF FinePaths
<1> HIDE DEF q, b, x, l
<1>6. /\ Resolve(q).through \subseteq Resolve(b).through \cup Resolve(target[l].names).through
      /\ \/ Resolve(q).loop
         \/ /\ Resolve(q).to = Resolve(target[l].names).to
            /\ Resolve(q).loop = Resolve(target[l].names).loop
  BY <1>2, <1>3, <1>4, <1>5, OverLink
<1>7. Fine(q)
  BY <1>2, <1>5, <1>6 DEF Fine
<1>8. QED
  BY <1>2, <1>7 DEF FinePaths, q

-----------------------------------------------------------------------------
(* What the other users cannot change                                      *)

\* The entries of a directory that is accepted, and that it is.
LEMMA AcceptedKept ==
    ASSUME TreeType, OtherUsers, NEW d \in Dirs, Acceptable(d)
    PROVE  Acceptable(d)' /\ entry'[d] = entry[d]
<1>1. euid' = euid /\ sudouid' = sudouid
  BY DEF OtherUsers, idVars
<1>2. Trusted' = Trusted
  BY <1>1 DEF Trusted
<1>3. owner[d] \in Trusted /\ d \notin open /\ ~Writable(d)
  BY DEF Acceptable, Writable
<1>4. PICK c \in Dirs : \/ \E n \in Names : Detach(c, n)
                        \/ \E n \in Names, inode \in Inodes : Place(c, n, inode)
                        \/ Chmod(c)
                        \/ Tighten(c)
  BY DEF OtherUsers
<1> HIDE DEF Trusted
<1>5. CASE \E n \in Names : Detach(c, n)
  <2>1. c # d
    BY <1>3, <1>5 DEF Detach
  <2>2. owner' = owner /\ open' = open /\ entry'[d] = entry[d]
    BY <1>5, <2>1 DEF Detach, TreeType
  <2>3. QED
    BY <1>2, <1>3, <2>2 DEF Acceptable
<1>6. CASE \E n \in Names, inode \in Inodes : Place(c, n, inode)
  <2>1. c # d
    BY <1>3, <1>6 DEF Place
  <2>2. owner' = owner /\ open' = open /\ entry'[d] = entry[d]
    BY <1>6, <2>1 DEF Place, TreeType
  <2>3. QED
    BY <1>2, <1>3, <2>2 DEF Acceptable
<1>7. CASE Chmod(c)
  <2>1. c # d
    BY <1>3, <1>7 DEF Chmod
  <2>2. owner' = owner /\ d \notin open' /\ entry' = entry
    BY <1>3, <1>7, <2>1 DEF Chmod
  <2>3. QED
    BY <1>2, <1>3, <2>2 DEF Acceptable
<1>8. CASE Tighten(c)
  <2>1. owner' = owner /\ d \notin open' /\ entry' = entry
    BY <1>3, <1>8 DEF Tighten
  <2>2. QED
    BY <1>2, <1>3, <2>1 DEF Acceptable
<1>9. QED
  BY <1>4, <1>5, <1>6, <1>7, <1>8

\* A path that is fine keeps leading where it leads, and stays fine.
LEMMA FineKept ==
    ASSUME TreeType, OtherUsers, NEW p \in FinePaths
    PROVE  Resolve(p)' = Resolve(p) /\ p \in FinePaths'
<1>1. p \in Seq(Names) /\ Fine(p)
  BY DEF FinePaths
<1>2. Tree(entry, target) /\ Tree(entry', target') /\ target' = target
  BY OthersStep DEF TreeType, Tree, OtherUsers, idVars
<1>3. Resolve(p).through \subseteq Dirs
  BY <1>1, <1>2, ResolveType
<1>4. \A d \in Resolve(p).through : Acceptable(d)' /\ entry'[d] = entry[d]
  BY <1>1, <1>3, AcceptedKept DEF Fine
<1>5. Resolve(p)' = Resolve(p)
  <2>1. Begin(p) \in Ways /\ Begin(p).dir \in Begin(p).through
    BY <1>1, BeginIs
  <2>2. \A d \in Walk(entry, target)[Begin(p)].through : entry'[d] = entry[d]
    BY <1>4 DEF Resolve
  <2>3. Walk(entry', target)[Begin(p)] = Walk(entry, target)[Begin(p)]
    BY <1>2, <2>1, <2>2, SameWalk
  <2>4. QED
    BY <1>2, <2>3 DEF Resolve
<1>6. Fine(p)'
  BY <1>1, <1>4, <1>5 DEF Fine
<1>7. QED
  BY <1>1, <1>5, <1>6 DEF FinePaths

-----------------------------------------------------------------------------
(* The invariant of the verdict                                            *)

\* The frame g checks the target of the link that the frame f has come to.
Leads(f, g, lstat, links) ==
    /\ f.absolute
    /\ f.i <= Len(f.path)
    /\ lstat[dirs(f)] \in Links
    /\ g.absolute = links[lstat[dirs(f)]].absolute
    /\ g.path = links[lstat[dirs(f)]].names

\* Behind every call is a path that is fine, each call but the first is for the
\* link that the one below it stands at, and a path that was accepted is fine.
FineInv ==
    /\ \A k \in 1..Len(stack) : /\ stack[k].i <= Len(stack[k].path) + 1
                                /\ Behind(stack[k].path, stack[k].i, FinePaths)
    /\ \A k \in 1..Len(stack) - 1 : Leads(stack[k], stack[k + 1], Lstats, target)
    /\ stack # <<>> => stack[1].path = asked /\ stack[1].absolute
    /\ at \in {"lstat", "readlink"} => Top.absolute
    /\ at = "readlink" => Top.i <= Len(Top.path)
    /\ verdict = "secure" => asked \in FinePaths

\* The parts of a frame.
LEMMA FrameIs ==
    ASSUME NEW f \in Frame
    PROVE  f.path \in Seq(Names) /\ f.i \in Nat /\ Len(f.path) \in Nat
BY DEF Frame

\* The walk changes nothing of what it looks at.
LEMMA WalkSeesTheSame ==
    ASSUME os_Is_Directory_Secure
    PROVE  /\ UNCHANGED treeVars /\ UNCHANGED idVars
           /\ FinePaths' = FinePaths /\ Lstats' = Lstats
           /\ target' = target /\ asked' = asked
<1>1. UNCHANGED treeVars /\ UNCHANGED idVars
  BY DEF os_Is_Directory_Secure, Enter, Check, Readlink, Return
<1>2. \A p : Resolve(p)' = Resolve(p)
  BY <1>1 DEF Resolve, treeVars, idVars
<1>3. \A d : Acceptable(d)' = Acceptable(d)
  BY <1>1 DEF Acceptable, Trusted, treeVars, idVars
<1>4. \A p : Fine(p)' = Fine(p)
  BY <1>2, <1>3 DEF Fine
<1>5. FinePaths' = FinePaths
  BY <1>4 DEF FinePaths
<1>6. \A p : Lstat(p)' = Lstat(p)
  BY <1>1, <1>2 DEF Lstat, treeVars
<1>7. Lstats' = Lstats
  BY <1>6 DEF Lstats
<1>8. QED
  BY <1>1, <1>5, <1>7 DEF idVars

\* The first call has nothing behind it.
LEMMA InitFine == Init => FineInv
<1> SUFFICES ASSUME Init PROVE FineInv
  OBVIOUS
<1> DEFINE f == [absolute |-> TRUE, path |-> asked, i |-> 0, links |-> 0]
<1>1. stack = <<f>> /\ at = "enter" /\ verdict = "none" /\ asked \in Seq(Names)
  BY PathsAssumption DEF Init
<1>2. f.absolute = TRUE /\ f.path = asked /\ f.i = 0 /\ Len(asked) \in Nat
  BY <1>1
<1> HIDE DEF f
<1>3. Len(stack) = 1 /\ stack[1] = f
  BY <1>1
<1>4. QED
  BY <1>1, <1>2, <1>3 DEF FineInv, Behind

\* A walk that has ended without accepting the path promises nothing.
LEMMA FineStop ==
    ASSUME stack' = <<>>, at' = "done", verdict' # "secure"
    PROVE  FineInv'
<1>1. Len(stack') = 0
  OBVIOUS
<1>2. QED
  BY <1>1 DEF FineInv

\* z is s with its n-th and last frame moved on.
MovedOn(s, n, z) ==
    /\ z \in Seq(Frame) /\ Len(z) = n
    /\ \E f \in Frame :
          /\ f.path = s[n].path /\ f.i = s[n].i + 1 /\ f.absolute = s[n].absolute
          /\ \A k \in 1..n : z[k] = IF k = n THEN f ELSE s[k]

\* Moving it on gives such a sequence.
LEMMA Advanced ==
    ASSUME NEW s \in Seq(Frame), NEW n \in Nat \ {0}, Len(s) = n
    PROVE  MovedOn(s, n, [s EXCEPT ![n].i = @ + 1])
<1> DEFINE g == s[n]
           f == [g EXCEPT !.i = g.i + 1]
<1>1. n \in 1..Len(s) /\ g \in Frame
  OBVIOUS
<1>2. f \in Frame
  <2> HIDE DEF g
  <2>1. QED
    BY <1>1, NextElement
<1>3. f.path = g.path /\ f.i = g.i + 1 /\ f.absolute = g.absolute
  <2> HIDE DEF g
  <2>1. QED
    BY <1>1 DEF Frame
<1>4. [s EXCEPT ![n].i = @ + 1] = [s EXCEPT ![n] = f]
  OBVIOUS
<1> HIDE DEF f
<1>5. /\ [s EXCEPT ![n] = f] \in Seq(Frame)
      /\ Len([s EXCEPT ![n] = f]) = n
      /\ \A k \in 1..n : [s EXCEPT ![n] = f][k] = IF k = n THEN f ELSE s[k]
  BY <1>1, <1>2, Replaced
<1>6. MovedOn(s, n, [s EXCEPT ![n] = f])
  BY <1>2, <1>3, <1>5 DEF MovedOn
<1>7. QED
  BY <1>4, <1>6

\* The call n, on top or returned to, moves on past an element.
LEMMA FineAdvance ==
    ASSUME WalkInv, FineInv, os_Is_Directory_Secure, stack # <<>>, NEW n \in 1..Len(stack),
           NEW s \in Seq(Frame), Len(s) = n, \A k \in 1..n : s[k] = stack[k],
           stack' = [s EXCEPT ![n].i = @ + 1], at' = "lstat", UNCHANGED verdict,
           stack[n].absolute, stack[n].i <= Len(stack[n].path),
           SubSeq(stack[n].path, 1, stack[n].i) \in FinePaths
    PROVE  FineInv'
<1>1. n \in Nat \ {0} /\ n \in 1..Len(s) /\ stack \in Seq(Frame) /\ verdict = "none"
      /\ Len(stack) \in Nat
  BY TopFrame DEF WalkInv, WalkType
<1>2. s[n] \in Frame /\ s[n] = stack[n]
  BY <1>1
<1>3. PICK f \in Frame :
         /\ f.path = s[n].path /\ f.i = s[n].i + 1 /\ f.absolute = s[n].absolute
         /\ stack' \in Seq(Frame) /\ Len(stack') = n
         /\ \A k \in 1..n : stack'[k] = IF k = n THEN f ELSE s[k]
  <2>1. MovedOn(s, n, [s EXCEPT ![n].i = @ + 1])
    BY <1>1, Advanced
  <2>2. MovedOn(s, n, stack')
    BY <2>1
  <2>3. QED
    BY <2>2 DEF MovedOn
<1>4. f.path = stack[n].path /\ f.i = stack[n].i + 1 /\ f.absolute = stack[n].absolute
  BY <1>2, <1>3
<1>5. Len(stack') = n /\ \A k \in 1..n : stack'[k] = IF k = n THEN f ELSE s[k]
  BY <1>3
<1>6. /\ FinePaths' = FinePaths /\ Lstats' = Lstats /\ target' = target /\ asked' = asked
  BY WalkSeesTheSame
<1>7. \A k \in 1..n - 1 : /\ k \in 1..Len(stack) /\ stack'[k] = stack[k]
                          /\ k # n /\ k \in 1..Len(stack) - 1
  BY <1>1, <1>5
<1>8. /\ f.i <= Len(f.path) + 1 /\ Behind(f.path, f.i, FinePaths)
  <2>1. stack[n].i \in Nat /\ Len(f.path) \in Nat /\ stack[n].i + 1 - 1 = stack[n].i
    BY <1>2, <1>4, FrameIs
  <2>2. QED
    BY <1>4, <2>1 DEF Behind
<1>9. \A k \in 1..n : /\ stack'[k].i <= Len(stack'[k].path) + 1
                      /\ Behind(stack'[k].path, stack'[k].i, FinePaths)
  <2> SUFFICES ASSUME NEW k \in 1..n
               PROVE  /\ stack'[k].i <= Len(stack'[k].path) + 1
                      /\ Behind(stack'[k].path, stack'[k].i, FinePaths)
    OBVIOUS
  <2>1. CASE k = n
    BY <1>1, <1>5, <1>8, <2>1
  <2>2. CASE k # n
    <3>1. k \in 1..n - 1
      BY <1>1, <2>2
    <3>2. QED
      BY <1>7, <3>1 DEF FineInv
  <2>3. QED
    BY <2>1, <2>2
<1>10. \A k \in 1..n - 1 : Leads(stack'[k], stack'[k + 1], Lstats, target)
  <2> SUFFICES ASSUME NEW k \in 1..n - 1
               PROVE  Leads(stack'[k], stack'[k + 1], Lstats, target)
    OBVIOUS
  <2>1. /\ Leads(stack[k], stack[k + 1], Lstats, target) /\ stack'[k] = stack[k]
    BY <1>7 DEF FineInv
  <2>2. k + 1 \in 1..n
    BY <1>1
  <2>3. stack'[k + 1].path = stack[k + 1].path /\ stack'[k + 1].absolute = stack[k + 1].absolute
    BY <1>4, <1>5, <2>2
  <2>4. QED
    BY <2>1, <2>3 DEF Leads
<1>11. stack'[1].path = asked /\ stack'[1].absolute
  BY <1>1, <1>4, <1>5 DEF FineInv
<1>12. Top'.absolute /\ Top' = stack'[n]
  BY <1>1, <1>4, <1>5 DEF Top
<1>13. QED
  BY <1>1, <1>5, <1>6, <1>9, <1>10, <1>11, <1>12 DEF FineInv

\* The topmost call has looked at its element.
LEMMA FineCheck ==
    ASSUME WalkInv, EndInv, FineInv, Tree(entry, target), Check
    PROVE  FineInv'
<1>1. at = "lstat" /\ stack # <<>> /\ os_Is_Directory_Secure
  BY DEF Check, EndInv, os_Is_Directory_Secure
<1>2. /\ Len(stack) \in Nat \ {0} /\ Top \in Frame /\ Top = stack[Len(stack)]
      /\ stack \in Seq(Frame) /\ verdict = "none"
  BY <1>1, TopFrame DEF WalkInv, WalkType
<1>3. /\ Top.path \in Seq(Names) /\ Top.i \in 0..Len(Top.path) /\ Top.absolute
      /\ Behind(Top.path, Top.i, FinePaths)
  <2>1. Top.path \in Seq(Names) /\ Top.i \in Nat /\ Len(Top.path) \in Nat
    BY <1>2, FrameIs
  <2>2. Top.i <= Len(Top.path)
    BY DEF Check
  <2>3. Len(stack) \in 1..Len(stack)
    BY <1>2
  <2>4. QED
    BY <1>1, <1>2, <2>1, <2>2, <2>3 DEF FineInv
<1>4. CASE Step("readlink") /\ UNCHANGED stack
  <2>1. FinePaths' = FinePaths /\ Lstats' = Lstats /\ target' = target /\ asked' = asked
    BY <1>1, WalkSeesTheSame
  <2>2. stack' = stack /\ verdict' = verdict /\ Top' = Top
    BY <1>4 DEF Step, Top
  <2>3. Top.absolute /\ Top.i <= Len(Top.path)
    BY <1>3
  <2>4. QED
    BY <2>1, <2>2, <2>3 DEF FineInv
<1>5. CASE /\ Lstat(dirs(Top)) \in Dirs
           /\ Acceptable(Lstat(dirs(Top)))
           /\ stack' = [stack EXCEPT ![Len(stack)].i = @ + 1]
           /\ Step("lstat")
  <2>1. SubSeq(Top.path, 1, Top.i) \in FinePaths
    BY <1>3, <1>5, DirectoryPassed DEF dirs
  <2> DEFINE n == Len(stack)
  <2>2. n \in 1..Len(stack) /\ Len(stack) = n /\ at' = "lstat" /\ UNCHANGED verdict
    BY <1>2, <1>5 DEF Step
  <2>3. stack[n] = Top /\ stack[n].i <= Len(stack[n].path)
    BY <1>2, <1>3
  <2>4. stack' = [stack EXCEPT ![n].i = @ + 1] /\ \A k \in 1..n : stack[k] = stack[k]
    BY <1>5
  <2> HIDE DEF n
  <2>5. QED
    BY <1>1, <1>2, <1>3, <2>1, <2>2, <2>3, <2>4, FineAdvance
<1>6. CASE Refuse
  BY <1>6, FineStop DEF Refuse
<1>7. QED
  BY <1>4, <1>5, <1>6 DEF Check

\* The topmost call follows a link.
LEMMA FineReadlink ==
    ASSUME WalkInv, EndInv, FineInv, Tree(entry, target), Readlink
    PROVE  FineInv'
<1>1. at = "readlink" /\ stack # <<>> /\ os_Is_Directory_Secure
  BY DEF Readlink, EndInv, os_Is_Directory_Secure
<1>2. /\ Len(stack) \in Nat \ {0} /\ Top \in Frame /\ Top = stack[Len(stack)]
      /\ stack \in Seq(Frame) /\ verdict = "none"
  BY <1>1, TopFrame DEF WalkInv, WalkType
<1>3. /\ Top.path \in Seq(Names) /\ Top.i \in 0..Len(Top.path) /\ Top.absolute
      /\ dirs(Top) \in Seq(Names)
  <2>1. Top.path \in Seq(Names) /\ Top.i \in Nat /\ Len(Top.path) \in Nat
    BY <1>2, FrameIs
  <2>2. Top.i <= Len(Top.path) /\ Top.absolute
    BY <1>1 DEF FineInv
  <2>3. QED
    BY <2>1, <2>2, PrefixOf DEF dirs
<1>4. ASSUME NEW l \in Links, l = Lstat(dirs(Top)),
             stack' = Append(stack, [absolute |-> target[l].absolute,
                                     path |-> target[l].names, i |-> 0,
                                     links |-> Top.links + 1]),
             Step("enter")
      PROVE  FineInv'
  <2> DEFINE f == [absolute |-> target[l].absolute, path |-> target[l].names, i |-> 0,
                   links |-> Top.links + 1]
             n == Len(stack)
  <2>1. FinePaths' = FinePaths /\ Lstats' = Lstats /\ target' = target /\ asked' = asked
    BY <1>1, WalkSeesTheSame
  <2>2. /\ f.absolute = target[l].absolute /\ f.path = target[l].names /\ f.i = 0
        /\ stack' = Append(stack, f)
    BY <1>4
  <2>3. Len(target[l].names) \in Nat
    <3>1. target[l].names \in Seq(Names)
      BY TargetsAssumption DEF Tree
    <3>2. QED
      BY <3>1
  <2> HIDE DEF f
  <2>4. /\ Len(stack') = n + 1 /\ stack'[n + 1] = f
        /\ \A k \in 1..n : stack'[k] = stack[k]
    BY <1>2, <2>2
  <2>5. \A k \in 1..n + 1 : /\ stack'[k].i <= Len(stack'[k].path) + 1
                            /\ Behind(stack'[k].path, stack'[k].i, FinePaths)
    <3>1. f.i <= Len(f.path) + 1 /\ Behind(f.path, f.i, FinePaths)
      BY <2>2, <2>3 DEF Behind
    <3>2. SUFFICES ASSUME NEW k \in 1..n + 1
                   PROVE  /\ stack'[k].i <= Len(stack'[k].path) + 1
                          /\ Behind(stack'[k].path, stack'[k].i, FinePaths)
      OBVIOUS
    <3>3. CASE k = n + 1
      BY <2>4, <3>1, <3>3
    <3>4. CASE k # n + 1
      <4>1. k \in 1..n
        BY <1>2, <3>4
      <4>2. QED
        BY <2>4, <4>1 DEF FineInv
    <3>5. QED
      BY <3>3, <3>4
  <2>6. \A k \in 1..n : Leads(stack'[k], stack'[k + 1], Lstats, target)
    <3>1. SUFFICES ASSUME NEW k \in 1..n
                   PROVE  Leads(stack'[k], stack'[k + 1], Lstats, target)
      OBVIOUS
    <3>2. CASE k = n
      <4>1. Lstats[dirs(Top)] = l
        BY <1>3, <1>4 DEF Lstats
      <4>2. Leads(Top, f, Lstats, target)
        BY <1>3, <2>2, <4>1 DEF Leads
      <4>3. QED
        BY <1>2, <2>4, <3>2, <4>2
    <3>3. CASE k # n
      <4>1. k \in 1..n - 1 /\ k \in 1..n /\ k + 1 \in 1..n
        BY <1>2, <3>3
      <4>2. Leads(stack[k], stack[k + 1], Lstats, target)
        BY <4>1 DEF FineInv
      <4>3. QED
        BY <2>4, <4>1, <4>2
    <3>4. QED
      BY <3>2, <3>3
  <2>7. stack'[1] = stack[1] /\ n + 1 - 1 = n /\ n \in Nat
    BY <1>2, <2>4
  <2>8. at' = "enter" /\ verdict' = "none"
    BY <1>2, <1>4 DEF Step
  <2> HIDE DEF n
  <2>9. QED
    BY <1>1, <2>1, <2>4, <2>5, <2>6, <2>7, <2>8 DEF FineInv
<1>5. CASE Refuse
  BY <1>5, FineStop DEF Refuse
<1>6. QED
  BY <1>4, <1>5 DEF Readlink

\* The topmost call has been through its path.
LEMMA FineReturn ==
    ASSUME WalkInv, EndInv, FineInv, Tree(entry, target), Return
    PROVE  FineInv'
<1>1. at = "lstat" /\ stack # <<>> /\ os_Is_Directory_Secure
  BY DEF Return, EndInv, os_Is_Directory_Secure
<1>2. /\ Len(stack) \in Nat \ {0} /\ Top \in Frame /\ Top = stack[Len(stack)]
      /\ stack \in Seq(Frame) /\ verdict = "none"
  BY <1>1, TopFrame DEF WalkInv, WalkType
<1>3. /\ Top.absolute /\ Top.path \in FinePaths
  <2>1. Top.path \in Seq(Names) /\ Top.i \in Nat /\ Len(Top.path) \in Nat
    BY <1>2, FrameIs
  <2>2. Top.i > Len(Top.path)
    BY DEF Return
  <2>3. Len(stack) \in 1..Len(stack)
    BY <1>2
  <2>4. Top.absolute /\ Top.i <= Len(Top.path) + 1 /\ Behind(Top.path, Top.i, FinePaths)
    BY <1>1, <1>2, <2>3 DEF FineInv
  <2>5. Top.i - 1 = Len(Top.path) /\ Top.i >= 1
    BY <2>1, <2>2, <2>4
  <2>6. SubSeq(Top.path, 1, Len(Top.path)) \in FinePaths
    BY <2>4, <2>5 DEF Behind
  <2>7. SubSeq(Top.path, 1, Len(Top.path)) = Top.path
    BY <2>1, PrefixOf
  <2>8. QED
    BY <2>4, <2>6, <2>7
<1>4. CASE Len(stack) = 1 /\ stack' = <<>> /\ at' = "done" /\ verdict' = "secure"
  <2>1. asked \in FinePaths
    BY <1>1, <1>2, <1>3, <1>4 DEF FineInv
  <2>2. FinePaths' = FinePaths /\ asked' = asked
    BY <1>1, WalkSeesTheSame
  <2>3. Len(stack') = 0
    BY <1>4
  <2>4. QED
    BY <1>4, <2>1, <2>2, <2>3 DEF FineInv
<1>5. CASE /\ Len(stack) > 1
           /\ stack' = [Front(stack) EXCEPT ![Len(stack) - 1].i = @ + 1]
           /\ Step("lstat")
  <2> DEFINE n == Len(stack) - 1
             f == stack[n]
  <2>1. n \in 1..Len(stack) /\ n \in 1..Len(stack) - 1 /\ n + 1 = Len(stack)
    BY <1>2, <1>5
  <2>2. /\ Front(stack) \in Seq(Frame) /\ Len(Front(stack)) = n
        /\ \A k \in 1..n : Front(stack)[k] = stack[k]
    BY <1>1, <1>2, FrontOf
  <2>3. Leads(f, Top, Lstats, target) /\ Behind(f.path, f.i, FinePaths)
    BY <1>2, <2>1 DEF FineInv
  <2>4. f \in Frame
    BY <1>2, <2>1
  <2> HIDE DEF f, n
  <2>5. f.path \in Seq(Names) /\ f.i \in 0..Len(f.path)
    <3>1. f.path \in Seq(Names) /\ f.i \in Nat /\ Len(f.path) \in Nat
      BY <2>4, FrameIs
    <3>2. QED
      BY <2>3, <3>1 DEF Leads
  <2>6. dirs(f) \in Seq(Names) /\ dirs(f) = SubSeq(f.path, 1, f.i)
    BY <2>5, PrefixOf DEF dirs
  <2>7. Lstats[dirs(f)] = Lstat(dirs(f))
    BY <2>6 DEF Lstats
  <2>8. /\ Lstat(SubSeq(f.path, 1, f.i)) \in Links
        /\ target[Lstat(SubSeq(f.path, 1, f.i))].absolute
        /\ target[Lstat(SubSeq(f.path, 1, f.i))].names \in FinePaths
    BY <1>3, <2>3, <2>6, <2>7 DEF Leads
  <2>9. SubSeq(f.path, 1, f.i) \in FinePaths
    BY <2>3, <2>5, <2>8, LinkPassed
  <2>10. f.absolute /\ f.i <= Len(f.path)
    BY <2>3 DEF Leads
  <2>11. at' = "lstat" /\ UNCHANGED verdict
    BY <1>5 DEF Step
  <2>12. stack' = [Front(stack) EXCEPT ![n].i = @ + 1]
    BY <1>5 DEF n
  <2>13. QED
    BY <1>1, <2>1, <2>2, <2>9, <2>10, <2>11, <2>12, FineAdvance DEF f
<1>6. QED
  BY <1>4, <1>5 DEF Return

\* A call begins, or is refused.
LEMMA FineEnter ==
    ASSUME FineInv, Enter
    PROVE  FineInv'
<1>1. os_Is_Directory_Secure
  BY DEF os_Is_Directory_Secure
<1>2. CASE Top.absolute /\ Step("lstat") /\ UNCHANGED stack
  <2>1. FinePaths' = FinePaths /\ Lstats' = Lstats /\ target' = target /\ asked' = asked
    BY <1>1, WalkSeesTheSame
  <2>2. stack' = stack /\ verdict' = verdict /\ Top' = Top /\ at' = "lstat"
    BY <1>2 DEF Step, Top
  <2>3. QED
    BY <1>2, <2>1, <2>2 DEF FineInv
<1>3. CASE stack' = <<>> /\ at' = "done" /\ verdict' = "crashed"
  BY <1>3, FineStop
<1>4. CASE Refuse
  BY <1>4, FineStop DEF Refuse
<1>5. QED
  BY <1>2, <1>3, <1>4 DEF Enter

\* What lstat finds behind a path that is fine stays there.
LEMMA LstatKept ==
    ASSUME TreeType, OtherUsers, NEW p \in Seq(Names), NEW i \in 0..Len(p),
           Behind(p, i, FinePaths), Lstats[SubSeq(p, 1, i)] \in Links
    PROVE  Lstats'[SubSeq(p, 1, i)] = Lstats[SubSeq(p, 1, i)]
<1> DEFINE q == SubSeq(p, 1, i)
           b == SubSeq(p, 1, i - 1)
<1>1. q \in Seq(Names)
  BY PrefixOf
<1>2. Lstats[q] = Lstat(q) /\ Lstats'[q] = Lstat(q)'
  BY <1>1 DEF Lstats
<1>3. i >= 1
  BY <1>2, LstatIs, RootAssumption, InodesAssumption
<1>4. b \in FinePaths /\ q # <<>> /\ Front(q) = b /\ Last(q) = p[i]
  BY <1>3, PrefixOf DEF Behind
<1> HIDE DEF q, b
<1>5. Resolve(b)' = Resolve(b)
  BY <1>4, FineKept
<1>6. Resolve(b).to \in Dirs
  BY <1>2, <1>4, InodesAssumption DEF Lstat, q
<1>7. entry'[Resolve(b).to] = entry[Resolve(b).to]
  <2>1. Tree(entry, target) /\ b \in Seq(Names) /\ Fine(b)
    BY <1>4 DEF TreeType, Tree, FinePaths
  <2>2. Resolve(b).to \in Resolve(b).through
    BY <1>6, <2>1, ResolveType
  <2>3. Acceptable(Resolve(b).to)
    BY <2>1, <2>2 DEF Fine
  <2>4. QED
    BY <1>6, <2>3, AcceptedKept
<1>8. Lstat(q)' = Lstat(q)
  BY <1>4, <1>5, <1>6, <1>7 DEF Lstat
<1>9. QED
  BY <1>2, <1>8 DEF q

\* The other users leave what is behind the walk as it is.
LEMMA FineOthers ==
    ASSUME TreeType, WalkInv, FineInv, OtherUsers
    PROVE  FineInv'
<1>1. /\ stack' = stack /\ at' = at /\ verdict' = verdict /\ asked' = asked
      /\ target' = target /\ Top' = Top
  BY DEF OtherUsers, walkVars, idVars, Top
<1>2. FinePaths \subseteq FinePaths'
  BY FineKept
<1>3. stack \in Seq(Frame)
  BY DEF WalkInv, WalkType
<1>4. \A k \in 1..Len(stack) : Behind(stack[k].path, stack[k].i, FinePaths')
  BY <1>2 DEF FineInv, Behind
<1>5. \A k \in 1..Len(stack) - 1 : Leads(stack[k], stack[k + 1], Lstats', target)
  <2>1. SUFFICES ASSUME NEW k \in 1..Len(stack) - 1
                 PROVE  Leads(stack[k], stack[k + 1], Lstats', target)
    OBVIOUS
  <2> DEFINE f == stack[k]
  <2>2. k \in 1..Len(stack) /\ f \in Frame
    BY <1>3
  <2>3. Leads(f, stack[k + 1], Lstats, target) /\ Behind(f.path, f.i, FinePaths)
    BY <2>2 DEF FineInv
  <2> HIDE DEF f
  <2>4. f.path \in Seq(Names) /\ f.i \in 0..Len(f.path)
    <3>1. f.path \in Seq(Names) /\ f.i \in Nat /\ Len(f.path) \in Nat
      BY <2>2, FrameIs
    <3>2. QED
      BY <2>3, <3>1 DEF Leads
  <2>5. Lstats[SubSeq(f.path, 1, f.i)] \in Links /\ dirs(f) = SubSeq(f.path, 1, f.i)
    BY <2>3 DEF Leads, dirs
  <2>6. Lstats'[dirs(f)] = Lstats[dirs(f)]
    BY <2>3, <2>4, <2>5, LstatKept
  <2>7. Leads(f, stack[k + 1], Lstats', target)
    BY <2>3, <2>6 DEF Leads
  <2>8. QED
    BY <2>7 DEF f
<1>6. QED
  BY <1>1, <1>2, <1>4, <1>5 DEF FineInv

VerdictInv == IInv /\ FineInv

\* Every step keeps what is behind the walk fine.
LEMMA NextFine == VerdictInv /\ [Next]_vars => VerdictInv'
<1> SUFFICES ASSUME VerdictInv, [Next]_vars PROVE VerdictInv'
  OBVIOUS
<1>1. IInv'
  BY NextInv DEF VerdictInv
<1>2. TreeType /\ WalkInv /\ EndInv /\ FineInv /\ Tree(entry, target)
  BY DEF VerdictInv, IInv, TreeType, Tree
<1>3. CASE os_Is_Directory_Secure
  BY <1>1, <1>2, <1>3, FineEnter, FineCheck, FineReadlink, FineReturn
     DEF os_Is_Directory_Secure, VerdictInv
<1>4. CASE OtherUsers
  BY <1>1, <1>2, <1>4, FineOthers DEF VerdictInv
<1>5. CASE UNCHANGED vars
  <2>1. FineInv'
    <3>1. \A p : Resolve(p)' = Resolve(p)
      BY <1>5 DEF Resolve, vars
    <3>2. \A d : Acceptable(d)' = Acceptable(d)
      BY <1>5 DEF Acceptable, Trusted, vars
    <3>3. FinePaths' = FinePaths
      BY <3>1, <3>2 DEF FinePaths, Fine
    <3>4. \A p : Lstat(p)' = Lstat(p)
      BY <1>5, <3>1 DEF Lstat, vars
    <3>5. Lstats' = Lstats
      BY <3>4 DEF Lstats
    <3>6. QED
      BY <1>2, <1>5, <3>3, <3>5 DEF FineInv, Top, vars
  <2>2. QED
    BY <1>1, <2>1 DEF VerdictInv
<1>6. QED
  BY <1>3, <1>4, <1>5 DEF Next

\* An accepted path is fine, whatever the others have done since the walk was over
\* its first directories.
THEOREM AcceptedPathCorrect == Spec => []AcceptedPathIsProtected
<1>1. VerdictInv => AcceptedPathIsProtected
  BY DEF VerdictInv, FineInv, FinePaths, Fine, AcceptedPathIsProtected
<1>2. Init => VerdictInv
  BY InitInv, InitFine DEF VerdictInv
<1>3. QED
  BY <1>1, <1>2, NextFine, PTL DEF Spec

\* Once os_Is_Directory_Secure has accepted a path, no other user can make it lead
\* anywhere else.
THEOREM AcceptedPathStaysPutCorrect == Spec => AcceptedPathStaysPut
<1>1. VerdictInv /\ [Next]_vars =>
          [verdict = "secure" => Resolve(asked)' = Resolve(asked)]_vars
  <2> SUFFICES ASSUME VerdictInv, Next, verdict = "secure"
               PROVE  Resolve(asked)' = Resolve(asked)
    OBVIOUS
  <2>1. asked' = asked
    BY WalkSeesTheSame DEF Next, OtherUsers, idVars
  <2>2. asked \in FinePaths /\ stack = <<>> /\ TreeType
    BY DEF VerdictInv, IInv, FineInv, WalkInv, WalkType
  <2>3. OtherUsers
    BY <2>2 DEF Next, os_Is_Directory_Secure, Enter, Check, Readlink, Return, VerdictInv,
                IInv, EndInv
  <2>4. QED
    BY <2>1, <2>2, <2>3, FineKept
<1>2. Init => VerdictInv
  BY InitInv, InitFine DEF VerdictInv
<1>3. QED
  BY <1>1, <1>2, NextFine, PTL DEF Spec, AcceptedPathStaysPut

=============================================================================
