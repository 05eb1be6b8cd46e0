---------------------------- MODULE LineInputProofs ----------------------------
(***************************************************************************)
(* What is proved of LineInput, for every content of the stream, every     *)
(* block of a caller and every size of a page: the block always has room   *)
(* for what is written next, a line that ends with its delimiter is in the *)
(* block whole, and the terminal is given back as it was found.            *)
(***************************************************************************)
EXTENDS LineInput, SequenceTheorems, TLAPS

(***************************************************************************)
(* The inductive invariant: between the calls the caller's block has the   *)
(* size it is said to have, or there is none; a call is only in progress   *)
(* where its caller waits for it; and what has been read is in the block.  *)
(***************************************************************************)
BlockIsKept == pc # "reading" /\ user # "first" /\ line # <<>> => size = Len(line) /\ size >= 2

CallerWaits ==
    /\ pc = "returned" => user = "second"
    /\ user \in {"opened", "silent", "first"} => pc = "idle"

ReadIsInBlock == pc = "reading" => Len(got) = cur /\ \A i \in 1 .. cur : line[i] = got[i]

IInv == TypeOK /\ RoomForTheNext /\ BlockIsKept /\ CallerWaits /\ ReadIsInBlock

\* Writing a byte into a block changes that byte and nothing else.
LEMMA PutBlock ==
    ASSUME NEW block \in Seq(Bytes), NEW at \in Nat, at < Len(block), NEW byte \in Bytes
    PROVE  /\ Put(block, at, byte) \in Seq(Bytes)
           /\ Len(Put(block, at, byte)) = Len(block)
           /\ \A j \in 1 .. Len(block) : Put(block, at, byte)[j] = IF j = at + 1 THEN byte ELSE block[j]
<1>1. at + 1 \in 1 .. Len(block)
  OBVIOUS
<1>2. QED
  BY <1>1, ExceptSeq DEF Put

LEMMA NewBlock ==
    ASSUME NEW n \in Nat, NEW byte \in Bytes
    PROVE  Block(n, byte) \in Seq(Bytes) /\ Len(Block(n, byte)) = n
BY DEF Block

LEMMA Sizes ==
    PAGE \in Nat /\ PAGE >= 2 /\ BUFSIZ \in Nat /\ BUFSIZ >= 2 /\ RSIZE_MAX \in Nat /\ SSIZE_MAX \in Nat
BY LineInputAssumption

LEMMA InitIInv == Init => IInv
<1> SUFFICES ASSUME Init PROVE IInv
  OBVIOUS
<1>1. TypeOK
  BY LineInputAssumption DEF Init, TypeOK, Answered
<1>2. BlockIsKept
  <2>1. line \in Seq(Bytes) /\ Len(line) # 1
    BY LineInputAssumption DEF Init
  <2>2. line # <<>> => Len(line) \in Nat \ {0}
    BY <2>1, EmptySeq
  <2>3. QED
    BY <2>1, <2>2 DEF Init, BlockIsKept
<1>3. QED
  BY <1>1, <1>2 DEF Init, IInv, RoomForTheNext, CallerWaits, ReadIsInBlock

\* What a call answers has its type, and leaves the reading.
LEMMA ReturnLeaves ==
    ASSUME NEW a, Return(a)
    PROVE  answer' = a /\ pc' \in {"idle", "returned"} /\ (pc' = "returned" <=> user # "out")
BY DEF Return

Errors == {0, EINVAL, ENOMEM, EOVERFLOW}
AnswerOK(a) == a.error \in Errors /\ a.read \in Nat /\ a.ended \in {"none", "error", "delimiter", "end"}

LEMMA FailureOK == \A error \in Errors : AnswerOK(Failure(error))
BY DEF AnswerOK, Errors, Failure, Answered

LEMMA EndOK == \A read \in Nat, ended \in {"delimiter", "end"} : AnswerOK(Answered(0, read, ended))
BY DEF AnswerOK, Errors, Answered

(***************************************************************************)
(* The start of a call: a block of its own, or the caller's.               *)
(***************************************************************************)
LEMMA BeginKeeps ==
    ASSUME IInv, NEW name \in {"safe_getdelim", "getdelim"}, NEW hadSize, Begin(name, hadSize),
           \/ hadSize = size /\ user = "out" /\ pc = "idle" /\ UNCHANGED user
           \/ hadSize = 0 /\ user' = "second" /\ user = "first",
           UNCHANGED <<echo, saved, first, ret>>
    PROVE  IInv'
<1> USE DEF IInv
<1>1. hadSize \in Nat /\ (line # <<>> /\ hadSize # 0 => hadSize = Len(line) /\ hadSize >= 2)
  BY DEF TypeOK, BlockIsKept
<1>2. got' = <<>> /\ cur' = 0 /\ fn' \in {"safe_getdelim", "getdelim"} /\ input' = input
  BY DEF Begin
<1>3. got' \in Seq(Bytes) /\ Len(got') = 0
  BY <1>2
<1>4. CASE Return(Failure(EINVAL)) /\ size' = hadSize /\ UNCHANGED line /\ hadSize > RSIZE_MAX
  <2>0. user = "out" /\ user' = user
    <3>1. hadSize # 0
      BY <1>4, Sizes
    <3>2. QED
      BY <3>1
  <2>1. AnswerOK(answer') /\ pc' = "idle"
    BY <1>4, <2>0, FailureOK DEF Return, Errors
  <2>2. QED
    BY <2>0, <2>1, <1>4, <1>1, <1>2, <1>3
       DEF TypeOK, RoomForTheNext, BlockIsKept, CallerWaits, ReadIsInBlock, AnswerOK, Errors
<1>5. CASE size' \in {BUFSIZ, PAGE} /\ pc' = "reading" /\ UNCHANGED answer
           /\ \E byte \in {GARBAGE, NUL} : line' = Block(size', byte)
  <2>0. size' \in Nat /\ size' >= 2 /\ GARBAGE \in Bytes /\ NUL \in Bytes
    BY <1>5, Sizes DEF GARBAGE, NUL, Bytes
  <2>1. line' \in Seq(Bytes) /\ Len(line') = size'
    BY <2>0, <1>5, NewBlock
  <2>2. QED
    BY <2>0, <2>1, <1>5, <1>2, <1>3
       DEF TypeOK, RoomForTheNext, BlockIsKept, CallerWaits, ReadIsInBlock
<1>6. CASE size' \in {BUFSIZ, PAGE} /\ line' = <<>> /\ Return(Failure(ENOMEM))
  <2>1. AnswerOK(answer') /\ pc' \in {"idle", "returned"} /\ size' \in Nat /\ line' \in Seq(Bytes)
    BY <1>6, FailureOK, Sizes, EmptySeq DEF Return, Errors
  <2>2. pc' = "returned" => user' = "second"
    BY <1>6 DEF Return
  <2>3. user' \in {"out", "second"}
    OBVIOUS
  <2>4. QED
    BY <2>1, <2>2, <2>3, <1>6, <1>2, <1>3
       DEF TypeOK, RoomForTheNext, BlockIsKept, CallerWaits, ReadIsInBlock, AnswerOK, Errors
<1>7. CASE line # <<>> /\ hadSize # 0 /\ pc' = "reading" /\ size' = hadSize /\ UNCHANGED <<line, answer>>
  BY <1>7, <1>1, <1>2, <1>3
     DEF TypeOK, RoomForTheNext, BlockIsKept, CallerWaits, ReadIsInBlock
<1>8. QED
  BY <1>4, <1>5, <1>6, <1>7 DEF Begin

(***************************************************************************)
(* A character goes into the block, and the block grows in time.           *)
(***************************************************************************)
LEMMA GrownBlock ==
    ASSUME NEW block \in Seq(Bytes), NEW n \in Nat, NEW byte \in Bytes
    PROVE  /\ block \o Block(n, byte) \in Seq(Bytes)
           /\ Len(block \o Block(n, byte)) = Len(block) + n
           /\ \A i \in 1 .. Len(block) : (block \o Block(n, byte))[i] = block[i]
<1>1. Block(n, byte) \in Seq(Bytes) /\ Len(Block(n, byte)) = n
  BY NewBlock
<1> DEFINE new == Block(n, byte)
<1>2. /\ block \o new \in Seq(Bytes) /\ Len(block \o new) = Len(block) + Len(new)
      /\ \A i \in 1 .. Len(block) + Len(new) :
           (block \o new)[i] = IF i <= Len(block) THEN block[i] ELSE new[i - Len(block)]
  <2> HIDE DEF new
  <2>1. new \in Seq(Bytes)
    BY <1>1 DEF new
  <2>2. QED
    BY <2>1, ConcatProperties
<1>3. Len(block) \in Nat
  OBVIOUS
<1> HIDE DEF new
<1>4. \A i \in 1 .. Len(block) : (block \o new)[i] = block[i]
  BY <1>1, <1>2, <1>3 DEF new
<1>5. QED
  BY <1>1, <1>2, <1>4 DEF new

LEMMA AppendByte ==
    ASSUME NEW s \in Seq(Bytes), NEW byte \in Bytes
    PROVE  /\ Append(s, byte) \in Seq(Bytes)
           /\ Len(Append(s, byte)) = Len(s) + 1
           /\ \A i \in 1 .. Len(s) : Append(s, byte)[i] = s[i]
           /\ Append(s, byte)[Len(s) + 1] = byte
OBVIOUS

\* The shape a character leaves: it stands at its place in the block, the
\* terminator has room, and the answer of the call is one of its own.
Taken(written) ==
    /\ written \in Seq(Bytes) /\ Len(written) = size
    /\ \A i \in 1 .. cur' : written[i] = got'[i]

LEMMA CharacterTaken ==
    ASSUME IInv, ReadCharacter
    PROVE  /\ Taken(Put(line, cur, Head(input)))
           /\ cur' = cur + 1 /\ cur' < size /\ size = Len(line) /\ size >= 2
           /\ Len(got') = cur' /\ got' \in Seq(Bytes) /\ input' \in Seq(Bytes)
<1> DEFINE c == Head(input)
<1>1. /\ line \in Seq(Bytes) /\ got \in Seq(Bytes) /\ input \in Seq(Bytes) /\ input # <<>> /\ cur \in Nat
      /\ size = Len(line) /\ cur + 1 < Len(line) /\ Len(got) = cur /\ \A i \in 1 .. cur : line[i] = got[i]
  BY DEF IInv, TypeOK, RoomForTheNext, ReadIsInBlock, ReadCharacter
<1>2. c \in Bytes /\ Tail(input) \in Seq(Bytes)
  BY <1>1, HeadTailProperties
<1>3. cur' = cur + 1 /\ got' = Append(got, c) /\ input' = Tail(input)
  BY DEF ReadCharacter
<1> HIDE DEF c
<1>4. /\ Put(line, cur, c) \in Seq(Bytes) /\ Len(Put(line, cur, c)) = Len(line)
      /\ \A j \in 1 .. Len(line) : Put(line, cur, c)[j] = IF j = cur + 1 THEN c ELSE line[j]
  <2>1. Len(line) \in Nat /\ cur < Len(line)
    BY <1>1
  <2>2. QED
    BY <2>1, <1>1, <1>2, PutBlock
<1>5. /\ got' \in Seq(Bytes) /\ Len(got') = cur + 1
      /\ \A i \in 1 .. cur : got'[i] = got[i]
      /\ got'[cur + 1] = c
  BY <1>1, <1>2, <1>3, AppendByte
<1>6. \A i \in 1 .. cur' : Put(line, cur, c)[i] = got'[i]
  <2> SUFFICES ASSUME NEW i \in 1 .. cur' PROVE Put(line, cur, c)[i] = got'[i]
    OBVIOUS
  <2>1. i \in 1 .. Len(line) /\ (i = cur + 1 \/ i \in 1 .. cur)
    BY <1>1, <1>3
  <2>2. QED
    BY <2>1, <1>1, <1>4, <1>5
<1>7. Taken(Put(line, cur, c))
  BY <1>1, <1>4, <1>6 DEF Taken
<1>8. QED
  BY <1>1, <1>2, <1>3, <1>5, <1>7 DEF c

LEMMA CharacterKeeps ==
    ASSUME IInv, ReadCharacter
    PROVE  IInv'
<1> DEFINE c == Head(input)
           written == Put(line, cur, c)
<1>1. /\ Taken(written)
      /\ cur' = cur + 1 /\ cur' < size /\ size = Len(line) /\ size >= 2
      /\ Len(got') = cur' /\ got' \in Seq(Bytes) /\ input' \in Seq(Bytes)
  BY CharacterTaken
<1>2. /\ pc = "reading" /\ fn \in {"safe_getdelim", "getdelim"} /\ user \in {"out", "second"}
      /\ cur \in Nat /\ size \in Nat /\ answer.error \in Errors /\ AnswerOK(answer)
      /\ UNCHANGED <<fn, user, echo, saved, first, ret>>
  BY DEF ReadCharacter, IInv, TypeOK, CallerWaits, AnswerOK, Errors, userVars
<1>3. \/ /\ line' = Put(written, cur + 1, NUL) /\ Return(Answered(0, cur + 1, "delimiter")) /\ UNCHANGED size
      \/ MustGrow(cur + 1) /\ Grow(written)
      \/ /\ ~MustGrow(cur + 1) /\ line' = written /\ UNCHANGED size
         /\ \/ Return(Failure(EOVERFLOW))
            \/ UNCHANGED <<pc, answer>>
  BY DEF ReadCharacter
<1> HIDE DEF written, c
<1> DEFINE Kept == /\ line' \in Seq(Bytes) /\ size' \in Nat /\ size' = Len(line') /\ size' >= 2
                   /\ \A i \in 1 .. cur' : line'[i] = got'[i]
           Back == pc' \in {"idle", "returned"} /\ (pc' = "returned" => user = "second") /\ AnswerOK(answer')
<1>4. ASSUME Kept, Back PROVE IInv'
  BY <1>1, <1>2, <1>4
     DEF IInv, TypeOK, RoomForTheNext, BlockIsKept, CallerWaits, ReadIsInBlock, AnswerOK, Errors
<1>5. ASSUME Kept, UNCHANGED <<pc, answer>>, cur' + 1 < size' PROVE IInv'
  BY <1>1, <1>2, <1>5
     DEF IInv, TypeOK, RoomForTheNext, BlockIsKept, CallerWaits, ReadIsInBlock, AnswerOK, Errors
<1>6. ASSUME NEW error \in Errors, Return(Failure(error)) PROVE Back
  BY <1>2, <1>6, FailureOK DEF Return
<1>7. CASE line' = Put(written, cur + 1, NUL) /\ Return(Answered(0, cur + 1, "delimiter")) /\ UNCHANGED size
  <2>1. NUL \in Bytes /\ cur + 1 \in Nat /\ cur + 1 < Len(written) /\ written \in Seq(Bytes) /\ Len(written) = size
    BY <1>1, <1>2 DEF Taken, NUL, Bytes
  <2>2. /\ line' \in Seq(Bytes) /\ Len(line') = Len(written)
        /\ \A j \in 1 .. Len(written) : line'[j] = IF j = cur + 1 + 1 THEN NUL ELSE written[j]
    BY <1>7, <2>1, PutBlock
  <2>3. Kept
    <3>1. \A i \in 1 .. cur' : i \in 1 .. Len(written) /\ i # cur + 1 + 1
      BY <1>1, <1>2, <2>1
    <3>2. \A i \in 1 .. cur' : line'[i] = got'[i]
      BY <3>1, <2>2, <1>1 DEF Taken
    <3>3. QED
      BY <1>1, <1>2, <1>7, <2>1, <2>2, <3>2
  <2>4. Back
    BY <1>2, <1>7, <2>1, EndOK DEF Return
  <2>5. QED
    BY <2>3, <2>4, <1>4
<1>8. CASE MustGrow(cur + 1) /\ Grow(written)
  <2>1. CASE line' = written /\ size' = size /\ Return(Failure(EOVERFLOW))
    <3>1. Kept
      BY <1>1, <1>2, <2>1 DEF Taken
    <3>2. QED
      BY <3>1, <2>1, <1>4, <1>6 DEF Errors
  <2>2. CASE line' = <<>> /\ size' = size /\ Return(Failure(ENOMEM))
    <3>1. Back /\ line' \in Seq(Bytes)
      BY <2>2, <1>6, EmptySeq DEF Errors
    <3>2. QED
      BY <3>1, <1>1, <1>2, <2>2
         DEF IInv, TypeOK, RoomForTheNext, BlockIsKept, CallerWaits, ReadIsInBlock, AnswerOK, Errors
  <2>3. CASE /\ \E byte \in {GARBAGE, NUL} : line' = written \o Block(NewSize - size, byte)
             /\ size' = NewSize
             /\ Return(Failure(EOVERFLOW)) \/ UNCHANGED <<pc, answer>>
    <3>1. NewSize \in Nat /\ NewSize >= size + 2 /\ GARBAGE \in Bytes /\ NUL \in Bytes
      BY <1>1, <1>2, Sizes DEF NewSize, GARBAGE, NUL, Bytes
    <3>2. NewSize - size \in Nat /\ written \in Seq(Bytes) /\ Len(written) = size
      BY <3>1, <1>1, <1>2 DEF Taken
    <3>3. /\ line' \in Seq(Bytes) /\ Len(line') = Len(written) + (NewSize - size)
          /\ \A i \in 1 .. Len(written) : line'[i] = written[i]
      <4>1. PICK byte \in Bytes : line' = written \o Block(NewSize - size, byte)
        BY <2>3, <3>1
      <4>2. QED
        BY <4>1, <3>2, GrownBlock
    <3>4. Kept /\ cur' + 1 < size'
      <4>1. cur' \in Nat /\ cur' < size /\ size \in Nat /\ size >= 2 /\ size' = NewSize
        BY <1>1, <1>2, <2>3
      <4>2. size' \in Nat /\ size' >= size + 2 /\ Len(line') = size + (size' - size)
        BY <4>1, <3>1, <3>2, <3>3
      <4>3. size' >= 2 /\ cur' + 1 < size'
        <5>1. \A k, m, n \in Nat : k < m /\ m >= 2 /\ n >= m + 2 => n >= 2 /\ k + 1 < n
          OBVIOUS
        <5>2. cur' \in Nat /\ size \in Nat /\ size' \in Nat /\ cur' < size /\ size >= 2 /\ size' >= size + 2
          BY <4>1, <4>2
        <5>3. QED
          BY <5>1, <5>2
      <4>4. Len(line') = size'
        <5>1. \A m, n \in Nat : m + (n - m) = n
          OBVIOUS
        <5>2. QED
          BY <4>1, <4>2, <5>1
      <4>5. \A i \in 1 .. cur' : i \in 1 .. Len(written) /\ written[i] = got'[i]
        BY <4>1, <3>2, <1>1 DEF Taken
      <4>6. \A i \in 1 .. cur' : line'[i] = got'[i]
        BY <4>5, <3>3
      <4>7. QED
        BY <4>2, <4>3, <4>4, <4>6, <3>3
    <3>5. QED
      BY <2>3, <3>4, <1>4, <1>5, <1>6 DEF Errors
  <2>4. QED
    BY <1>8, <2>1, <2>2, <2>3 DEF Grow
<1>9. CASE /\ ~MustGrow(cur + 1) /\ line' = written /\ UNCHANGED size
           /\ Return(Failure(EOVERFLOW)) \/ UNCHANGED <<pc, answer>>
  <2>1. Kept /\ cur' + 1 < size'
    BY <1>1, <1>2, <1>9 DEF Taken, MustGrow
  <2>2. QED
    BY <1>9, <2>1, <1>4, <1>5, <1>6 DEF Errors
<1>10. QED
  BY <1>3, <1>7, <1>8, <1>9

(***************************************************************************)
(* The end of a call without a delimiter, and get_Secure_User_Input.       *)
(***************************************************************************)
LEMMA EndKeeps ==
    ASSUME IInv, ReadEnd \/ ReadError
    PROVE  IInv'
<1>1. /\ line \in Seq(Bytes) /\ size \in Nat /\ size = Len(line) /\ cur \in Nat /\ cur + 1 < Len(line)
      /\ pc = "reading" /\ user \in {"out", "second"} /\ got \in Seq(Bytes)
      /\ UNCHANGED <<input, size, got, fn, user, echo, saved, first, ret>>
  BY DEF IInv, TypeOK, RoomForTheNext, CallerWaits, ReadEnd, ReadError, userVars
<1>2. line' \in Seq(Bytes) /\ Len(line') = Len(line) /\ cur' \in Nat
  <2>1. CASE line' = Put(line, cur + 1, NUL) /\ cur' = cur + 1
    <3>1. NUL \in Bytes /\ cur + 1 \in Nat
      BY <1>1 DEF NUL, Bytes
    <3>2. QED
      BY <3>1, <2>1, <1>1, PutBlock
  <2>2. CASE UNCHANGED <<line, cur>>
    BY <2>2, <1>1
  <2>3. QED
    BY <2>1, <2>2 DEF ReadEnd, ReadError
<1>3. AnswerOK(answer') /\ pc' \in {"idle", "returned"} /\ (pc' = "returned" => user = "second")
  BY <1>1, EndOK, FailureOK DEF ReadEnd, ReadError, Return, Errors
<1>4. QED
  BY <1>1, <1>2, <1>3
     DEF IInv, TypeOK, RoomForTheNext, BlockIsKept, CallerWaits, ReadIsInBlock, AnswerOK, Errors

LEMMA TerminalKeeps ==
    ASSUME IInv, OpenTerminal \/ DisableEcho
    PROVE  IInv'
BY DEF IInv, TypeOK, RoomForTheNext, BlockIsKept, CallerWaits, ReadIsInBlock,
       OpenTerminal, DisableEcho, Leave, readVars

LEMMA FirstLineKeeps ==
    ASSUME IInv, FirstLine
    PROVE  IInv'
<1>1. input \in Seq(Bytes) /\ line \in Seq(Bytes) /\ NUL \in Bytes /\ pc = "idle"
  BY DEF IInv, TypeOK, CallerWaits, FirstLine, NUL, Bytes
<1>2. first' \in Int /\ line' \in Seq(Bytes) /\ input' \in Seq(Bytes)
  <2>1. CASE first' = 0 - 1 /\ UNCHANGED <<line, input>>
    BY <2>1, <1>1
  <2>2. ASSUME NEW n \in 1 .. Len(input), first' = n, line' = SubSeq(input, 1, n) \o <<NUL>>,
               input' = SubSeq(input, n + 1, Len(input))
        PROVE  first' \in Int /\ line' \in Seq(Bytes) /\ input' \in Seq(Bytes)
    BY <2>2, <1>1
  <2>3. QED
    BY <2>1, <2>2 DEF FirstLine
<1>3. QED
  BY <1>1, <1>2
     DEF IInv, TypeOK, RoomForTheNext, BlockIsKept, CallerWaits, ReadIsInBlock, FirstLine

LEMMA RestoreEchoKeeps ==
    ASSUME IInv, RestoreEcho
    PROVE  IInv'
<1>1. /\ user = "second" /\ pc = "returned" /\ pc' = "idle" /\ user' = "out" /\ ret' \in {"SUCCESS", "FAILURE"}
      /\ line \in Seq(Bytes) /\ size \in Nat /\ (line # <<>> => size = Len(line) /\ size >= 2)
      /\ echo' \in BOOLEAN /\ UNCHANGED <<input, cur, got, fn, answer, saved, first>>
  BY DEF IInv, TypeOK, BlockIsKept, RestoreEcho, LinesTaken, SetEcho, Leave
<1>2. \/ line' = <<>> /\ size' \in {0, size}
      \/ line # <<>> /\ size' = size /\ line' = line
      \/ /\ line # <<>> /\ size' = size
         /\ first \in DOMAIN line /\ line' = Put(line, first - 1, NUL)
  BY DEF RestoreEcho
<1>3. line' \in Seq(Bytes) /\ size' \in Nat /\ (line' # <<>> => size' = Len(line') /\ size' >= 2)
  <2>1. CASE line' = <<>> /\ size' \in {0, size}
    BY <2>1, <1>1
  <2>2. CASE line # <<>> /\ size' = size /\ line' = line
    BY <2>2, <1>1
  <2>3. CASE line # <<>> /\ size' = size /\ first \in DOMAIN line /\ line' = Put(line, first - 1, NUL)
    <3>1. first - 1 \in Nat /\ first - 1 < Len(line) /\ NUL \in Bytes
      BY <2>3, <1>1 DEF NUL, Bytes
    <3>2. QED
      BY <3>1, <2>3, <1>1, PutBlock
  <2>4. QED
    BY <1>2, <2>1, <2>2, <2>3
<1>4. QED
  BY <1>1, <1>3
     DEF IInv, TypeOK, RoomForTheNext, BlockIsKept, CallerWaits, ReadIsInBlock

LEMMA NextIInv == IInv /\ [Next]_vars => IInv'
<1> SUFFICES ASSUME IInv, [Next]_vars PROVE IInv'
  OBVIOUS
<1>1. CASE UNCHANGED vars
  BY <1>1 DEF vars, IInv, TypeOK, RoomForTheNext, BlockIsKept, CallerWaits, ReadIsInBlock
<1>2. CASE CallLine
  <2>1. PICK name \in {"safe_getdelim", "getdelim"} : Begin(name, size)
    BY <1>2 DEF CallLine, safe_getline, safe_getdelim, getdelim
  <2>2. user = "out" /\ pc = "idle" /\ UNCHANGED <<user, echo, saved, first, ret>>
    BY <1>2 DEF CallLine, userVars
  <2>3. QED
    BY <2>1, <2>2, BeginKeeps
<1>3. CASE ReadCharacter
  BY <1>3, CharacterKeeps
<1>4. CASE ReadEnd \/ ReadError
  BY <1>4, EndKeeps
<1>5. CASE OpenTerminal \/ DisableEcho
  BY <1>5, TerminalKeeps
<1>6. CASE FirstLine
  BY <1>6, FirstLineKeeps
<1>7. CASE SecondLine
  <2>1. /\ Begin("safe_getdelim", 0) /\ user = "first" /\ user' = "second"
        /\ UNCHANGED <<echo, saved, first, ret>>
    BY <1>7 DEF SecondLine, safe_getdelim
  <2>2. QED
    BY <2>1, BeginKeeps
<1>8. CASE RestoreEcho
  BY <1>8, RestoreEchoKeeps
<1>9. QED
  BY <1>1, <1>2, <1>3, <1>4, <1>5, <1>6, <1>7, <1>8 DEF Next, Read, SecureUserInput

LEMMA Inductive == Spec => []IInv
BY InitIInv, NextIInv, PTL DEF Spec

\* Every variable has its type.
THEOREM TypeCorrect == Spec => []TypeOK
<1>1. IInv => TypeOK
  BY DEF IInv
<1>2. QED
  BY <1>1, Inductive, PTL

\* While a line is read there is room for the next character and for the
\* terminator behind it, for every page size and every block of a caller.
THEOREM BlockHasRoom == Spec => []RoomForTheNext
<1>1. IInv => RoomForTheNext
  BY DEF IInv
<1>2. QED
  BY <1>1, Inductive, PTL

\* get_Secure_User_Input answers SUCCESS only with the terminal as it was.
THEOREM TerminalComesBack == Spec => []TerminalIsRestored
<1>1. Init => TerminalIsRestored
  BY DEF Init, TerminalIsRestored
<1>2. TerminalIsRestored /\ [Next]_vars => TerminalIsRestored'
  <2> SUFFICES ASSUME TerminalIsRestored, [Next]_vars PROVE TerminalIsRestored'
    OBVIOUS
  <2>1. CASE UNCHANGED userVars
    BY <2>1 DEF TerminalIsRestored, userVars
  <2>2. CASE SecureUserInput
    BY <2>2 DEF SecureUserInput, OpenTerminal, DisableEcho, FirstLine, SecondLine, RestoreEcho, SetEcho, Leave,
                TerminalIsRestored
  <2>3. QED
    BY <2>1, <2>2 DEF Next, CallLine, Read, ReadCharacter, ReadEnd, ReadError, vars, userVars
<1>3. QED
  BY <1>1, <1>2, PTL DEF Spec

(***************************************************************************)
(* The line in the block is the one that was read.                         *)
(***************************************************************************)
WholeLine ==
    /\ answer'.read = Len(got') /\ answer'.read < Len(line')
    /\ SubSeq(line', 1, answer'.read) = got' /\ line'[answer'.read + 1] = NUL

LEMMA DelimiterStep ==
    ASSUME IInv, ReadCharacter,
           line' = Put(Put(line, cur, Head(input)), cur + 1, NUL),
           answer' = Answered(0, cur + 1, "delimiter")
    PROVE  WholeLine
<1> DEFINE written == Put(line, cur, Head(input))
<1>1. /\ Taken(written)
      /\ cur' = cur + 1 /\ cur' < size /\ size = Len(line)
      /\ Len(got') = cur' /\ got' \in Seq(Bytes)
  BY CharacterTaken
<1>2. cur \in Nat /\ size \in Nat /\ NUL \in Bytes /\ line' = Put(written, cur + 1, NUL) /\ answer'.read = cur + 1
  BY DEF IInv, TypeOK, NUL, Bytes, Answered
<1> HIDE DEF written
<1>3. /\ line' \in Seq(Bytes) /\ Len(line') = size
      /\ \A j \in 1 .. size : line'[j] = IF j = cur + 1 + 1 THEN NUL ELSE written[j]
  <2>1. written \in Seq(Bytes) /\ Len(written) = size /\ cur + 1 \in Nat /\ cur + 1 < Len(written)
    BY <1>1, <1>2 DEF Taken
  <2>2. /\ Put(written, cur + 1, NUL) \in Seq(Bytes) /\ Len(Put(written, cur + 1, NUL)) = Len(written)
        /\ \A j \in 1 .. Len(written) :
             Put(written, cur + 1, NUL)[j] = IF j = cur + 1 + 1 THEN NUL ELSE written[j]
    BY <2>1, <1>2, PutBlock
  <2>3. QED
    BY <2>1, <2>2, <1>2
<1>4. \A i \in 1 .. cur + 1 : line'[i] = got'[i] /\ line'[i] \in Bytes
  <2> SUFFICES ASSUME NEW i \in 1 .. cur + 1 PROVE line'[i] = got'[i] /\ line'[i] \in Bytes
    OBVIOUS
  <2>1. i \in 1 .. size /\ i # cur + 1 + 1 /\ i \in 1 .. Len(got')
    BY <1>1, <1>2
  <2>2. line'[i] = got'[i]
    BY <2>1, <1>1, <1>3 DEF Taken
  <2>3. QED
    BY <2>1, <2>2, <1>1, ElementOfSeq
<1>5. SubSeq(line', 1, cur + 1) = got'
  <2> DEFINE part == SubSeq(line', 1, cur + 1)
  <2>1. part \in Seq(Bytes) /\ Len(part) = cur + 1 /\ \A i \in 1 .. cur + 1 : part[i] = line'[i]
    <3>1. /\ part \in Seq(Bytes) /\ Len(part) = IF 1 <= cur + 1 THEN cur + 1 - 1 + 1 ELSE 0
          /\ \A i \in 1 .. cur + 1 - 1 + 1 : part[i] = line'[1 + i - 1]
      BY <1>2, <1>4, SubSeqProperties
    <3> HIDE DEF part
    <3>2. QED
      BY <3>1, <1>2
  <2> HIDE DEF part
  <2>2. part = got'
    BY <2>1, <1>1, <1>4, SeqEqual
  <2>3. QED
    BY <2>2 DEF part
<1>6. line'[cur + 1 + 1] = NUL /\ cur + 1 < Len(line')
  BY <1>1, <1>2, <1>3
<1>7. QED
  BY <1>1, <1>2, <1>5, <1>6 DEF WholeLine

\* A line that ended with its delimiter is in the block, whole, in order and
\* terminated, however often the block was grown.
THEOREM LineIsWhole == Spec => LineHoldsWhatWasRead
<1>1. IInv /\ [Next]_vars
      => [pc = "reading" /\ pc' # "reading" /\ answer'.ended = "delimiter" => WholeLine]_vars
  <2> SUFFICES ASSUME IInv, Next, pc = "reading", pc' # "reading", answer'.ended = "delimiter"
               PROVE  WholeLine
    BY DEF vars
  <2>1. ReadCharacter \/ ReadEnd \/ ReadError
    BY DEF Next, Read, SecureUserInput, CallLine, OpenTerminal, DisableEcho, FirstLine, SecondLine, RestoreEcho,
           LinesTaken, readVars, IInv, CallerWaits
  <2>2. ReadCharacter
    BY <2>1 DEF ReadEnd, ReadError, Return, Answered, Failure
  <2>3. \/ /\ line' = Put(Put(line, cur, Head(input)), cur + 1, NUL)
           /\ answer' = Answered(0, cur + 1, "delimiter")
        \/ answer' \in {Failure(EOVERFLOW), Failure(ENOMEM)}
    BY <2>2 DEF ReadCharacter, Grow, Return
  <2>4. answer' \notin {Failure(EOVERFLOW), Failure(ENOMEM)}
    BY DEF Failure, Answered
  <2>5. QED
    BY <2>2, <2>3, <2>4, DelimiterStep
<1>2. QED
  BY <1>1, Inductive, PTL DEF Spec, LineHoldsWhatWasRead, WholeLine
===============================================================================
