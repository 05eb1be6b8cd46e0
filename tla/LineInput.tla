------------------------------- MODULE LineInput -------------------------------
(* Reading lines: safe_getdelim_impl and safe_getline_impl of io_utils.c, the   *)
(* getdelim for C libraries without one, and get_Secure_User_Input, which reads *)
(* a line from the terminal with the echo turned off.  The caller keeps the     *)
(* block and its size from call to call, as it does for getline.  The memory is *)
(* followed byte by byte: a block is a sequence, <<>> is M_NULLPTR.             *)
EXTENDS ErrorCodes

CONSTANTS
    Texts,          \* what the stream may hold: a set of sequences of bytes
    FirstBlocks,    \* the blocks a caller may bring, <<>> among them
    PAGE,           \* get_System_Pagesize()
    BUFSIZ,
    RSIZE_MAX,
    SSIZE_MAX

Bytes == 0 .. 255

(* A block of the caller is large enough for a character and its terminator.    *)
ASSUME LineInputAssumption ==
    /\ PAGE \in Nat \ {0, 1} /\ BUFSIZ \in Nat \ {0, 1}
    /\ RSIZE_MAX \in Nat /\ SSIZE_MAX \in Nat
    /\ \A text \in Texts : text \in Seq(Bytes)
    /\ \A block \in FirstBlocks : block \in Seq(Bytes) /\ Len(block) # 1

NUL == 0
NEWLINE == 10
GARBAGE == 255      \* what malloc and realloc leave in a block

VARIABLES
    input,      \* what is left in the stream
    line,       \* *lineptr
    size,       \* *lineptrAllocedSize, *n
    cur,        \* currentptr - *lineptr
    got,        \* the characters taken by the call: charsReadCount is its length
    pc,         \* "idle", "reading", or "returned" to get_Secure_User_Input
    fn,         \* the function called: "safe_getdelim" or "getdelim"
    answer,     \* what the last call returned: [error, read, ended]
    user,       \* where get_Secure_User_Input is, "out" of it
    echo,       \* whether the terminal shows what is typed
    saved,      \* defaultterm: what it did when the function was called
    first,      \* inputRes: what its getline returned
    ret         \* what it returned

vars == <<input, line, size, cur, got, pc, fn, answer, user, echo, saved, first, ret>>
readVars == <<line, size, cur, got, pc, fn, answer>>
userVars == <<user, echo, saved, first, ret>>

Block(n, byte) == [i \in 1 .. n |-> byte]
Answered(error, read, ended) == [error |-> error, read |-> read, ended |-> ended]

(* Mutant: a failed call counts -1 characters. *)
FailureOfMinusOne(error) == Answered(error, 0 - 1, "error")
Failure(error) == Answered(error, 0, "error")

Init ==
    /\ input \in Texts /\ line \in FirstBlocks /\ size = Len(line)
    /\ cur = 0 /\ got = <<>> /\ pc = "idle" /\ fn = "safe_getdelim" /\ answer = Answered(0, 0, "none")
    /\ user = "out" /\ echo = TRUE /\ saved = TRUE /\ first = 0 /\ ret = "SUCCESS"

(* A call comes back to its caller, or to the function around it. *)
Return(a) ==
    /\ answer' = a
    /\ pc' = IF user = "out" THEN "idle" ELSE "returned"

(* ------------------------------------------------------------ the call *)

(* The checks, and the first block where the caller has none. *)
Begin(name, hadSize) ==
    /\ fn' = name /\ cur' = 0 /\ got' = <<>>
    /\ \/ /\ name = "safe_getdelim" /\ hadSize > RSIZE_MAX
          /\ Return(Failure(EINVAL))
          /\ size' = hadSize /\ UNCHANGED line
       \/ /\ ~(name = "safe_getdelim" /\ hadSize > RSIZE_MAX)
          /\ line = <<>> \/ hadSize = 0
          /\ size' = IF name = "getdelim" THEN BUFSIZ ELSE PAGE
          /\ \/ line' = Block(size', IF name = "getdelim" THEN GARBAGE ELSE NUL) /\ pc' = "reading" /\ UNCHANGED answer
             \/ line' = <<>> /\ Return(Failure(ENOMEM))
       \/ /\ ~(name = "safe_getdelim" /\ hadSize > RSIZE_MAX)
          /\ line # <<>> /\ hadSize # 0
          /\ pc' = "reading" /\ size' = hadSize /\ UNCHANGED <<line, answer>>
    /\ UNCHANGED input

safe_getdelim(hadSize) == Begin("safe_getdelim", hadSize)
safe_getline == safe_getdelim(size)
getdelim == Begin("getdelim", size)

(* By a page, or to twice the size. *)
NewSize == IF fn = "getdelim" THEN 2 * size ELSE size + PAGE
MaxSize == IF fn = "getdelim" THEN SSIZE_MAX ELSE RSIZE_MAX

(* Mutant: the block grows when it is full, with no room for the terminator. *)
MustGrowLate(at) == at >= size
MustGrow(at) == at + 2 >= size

(* Mutant: the new block is another one, and empty. *)
GrowEmpty(written) ==
    \/ /\ NewSize > MaxSize
       /\ line' = written /\ size' = size /\ Return(Failure(EOVERFLOW))
    \/ /\ NewSize <= MaxSize
       /\ line' = Block(NewSize, NUL) /\ size' = NewSize /\ UNCHANGED <<pc, answer>>

(* The block of the new size, its new part zeroed by safe_getdelim; the old     *)
(* block is freed when there is no memory for it.                               *)
Grow(written) ==
    \/ /\ NewSize > MaxSize
       /\ line' = written /\ size' = size /\ Return(Failure(EOVERFLOW))
    \/ /\ NewSize <= MaxSize
       /\ \/ line' = <<>> /\ size' = size /\ Return(Failure(ENOMEM))
          \/ /\ line' = written \o Block(NewSize - size, IF fn = "getdelim" THEN GARBAGE ELSE NUL)
             /\ size' = NewSize
             /\ IF fn = "safe_getdelim" /\ Len(got') >= RSIZE_MAX
                THEN Return(Failure(EOVERFLOW)) ELSE UNCHANGED <<pc, answer>>

Put(block, at, byte) == [block EXCEPT ![at + 1] = byte]

(* fgetc gives a character. *)
ReadCharacter ==
    LET c == Head(input)
        written == Put(line, cur, c)
    IN /\ pc = "reading" /\ input # <<>>
       /\ input' = Tail(input) /\ got' = Append(got, c) /\ cur' = cur + 1
       /\ \/ /\ c = NEWLINE
             /\ line' = Put(written, cur + 1, NUL)
             /\ Return(Answered(0, cur + 1, "delimiter"))
             /\ UNCHANGED size
          \/ /\ c # NEWLINE /\ MustGrow(cur + 1) /\ Grow(written)
          \/ /\ c # NEWLINE /\ ~MustGrow(cur + 1)
             /\ line' = written /\ UNCHANGED size
             /\ IF fn = "safe_getdelim" /\ Len(got') >= RSIZE_MAX
                THEN Return(Failure(EOVERFLOW)) ELSE UNCHANGED <<pc, answer>>
       /\ UNCHANGED <<fn, userVars>>

(* The end of the stream: the terminator is written one place behind the end of *)
(* the characters.                                                              *)
ReadEnd ==
    /\ pc = "reading" /\ input = <<>>
    /\ IF cur > 0
       THEN line' = Put(line, cur + 1, NUL) /\ cur' = cur + 1 /\ Return(Answered(0, cur, "end"))
       ELSE Return(Failure(EINVAL)) /\ UNCHANGED <<line, cur>>
    /\ UNCHANGED <<input, size, got, fn, userVars>>

ReadError ==
    /\ pc = "reading" /\ Return(Failure(EINVAL))
    /\ UNCHANGED <<input, line, size, cur, got, fn, userVars>>

CallLine ==
    /\ pc = "idle" /\ user = "out"
    /\ safe_getline \/ getdelim
    /\ UNCHANGED userVars

(* --------------------------------------------- get_Secure_User_Input *)

Leave(result) == user' = "out" /\ ret' = result

(* /dev/tty or stdin; the flags of the terminal are kept for the end. *)
OpenTerminal ==
    /\ pc = "idle" /\ user = "out"
    /\ \/ user' = "opened" /\ saved' = echo /\ UNCHANGED ret
       \/ Leave("FAILURE") /\ UNCHANGED saved
    /\ UNCHANGED <<input, readVars, echo, first>>

DisableEcho ==
    /\ user = "opened"
    /\ \/ user' = "silent" /\ echo' = FALSE /\ UNCHANGED ret
       \/ Leave("FAILURE") /\ UNCHANGED echo
    /\ UNCHANGED <<input, readVars, saved, first>>

(* The getline of the C library takes a first line, or fails. *)
FirstLine ==
    /\ user = "silent"
    /\ \/ first' = 0 - 1 /\ UNCHANGED <<line, input>>
       \/ \E n \in 1 .. Len(input) :
             /\ \A i \in 1 .. n - 1 : input[i] # NEWLINE
             /\ input[n] = NEWLINE \/ n = Len(input)
             /\ first' = n /\ line' = SubSeq(input, 1, n) \o <<NUL>>
             /\ input' = SubSeq(input, n + 1, Len(input))
    /\ user' = "first"
    /\ UNCHANGED <<size, cur, got, pc, fn, answer, echo, saved, ret>>

(* safe_getline takes a second one into a block of its own: its size is zero.   *)
SecondLine ==
    /\ user = "first"
    /\ user' = "second"
    /\ safe_getdelim(0)
    /\ UNCHANGED <<echo, saved, first, ret>>

(* The lines have been read, or could not be. *)
LinesTaken == user = "second" /\ pc = "returned"

(* Mutant: what the call answers is not looked at. *)
SetEchoBlindly(read) ==
    /\ echo' = saved \/ UNCHANGED echo
    /\ Leave(IF read THEN "SUCCESS" ELSE "FAILURE")

(* Mutant: the user is asked again until there is a line. *)
SetEchoOfALine(read) ==
    \/ read /\ echo' = saved /\ Leave("SUCCESS")
    \/ ~read /\ user' = "silent" /\ UNCHANGED <<echo, ret>>

(* The echo comes back by a call that may fail, and then the function fails.    *)
SetEcho(read) ==
    \/ echo' = saved /\ Leave(IF read THEN "SUCCESS" ELSE "FAILURE")
    \/ UNCHANGED echo /\ Leave("FAILURE")

(* The newline is looked for at the length of the first line; a place outside   *)
(* of the block is left out.  The echo comes back whatever the lines were.      *)
RestoreEcho ==
    LET read == answer.error = 0 /\ line # <<>>
        at   == first
    IN /\ LinesTaken
       /\ line' = IF ~read THEN <<>>
                  ELSE IF at \in DOMAIN line /\ line[at] = NEWLINE THEN Put(line, at - 1, NUL) ELSE line
       /\ size' = IF read THEN size ELSE 0
       /\ SetEcho(read) /\ pc' = "idle"
       /\ UNCHANGED <<input, cur, got, fn, answer, saved, first>>

Read == ReadCharacter \/ ReadEnd \/ ReadError
SecureUserInput == OpenTerminal \/ DisableEcho \/ FirstLine \/ SecondLine \/ RestoreEcho

Next == CallLine \/ Read \/ SecureUserInput

(* A function that has been called goes on: each of its steps is taken when it  *)
(* can be.  Nothing makes a caller call again.                                  *)
Spec ==
    /\ Init /\ [][Next]_vars
    /\ WF_vars(Read)
    /\ WF_vars(DisableEcho \/ FirstLine \/ SecondLine \/ RestoreEcho)

(* -------------------------------------------------------------- properties *)

(* Every variable has its type, in every function. *)
TypeOK ==
    /\ input \in Seq(Bytes) /\ line \in Seq(Bytes) /\ size \in Nat /\ cur \in Nat /\ got \in Seq(Bytes)
    /\ pc \in {"idle", "reading", "returned"} /\ fn \in {"safe_getdelim", "getdelim"}
    /\ answer.error \in {0, EINVAL, ENOMEM, EOVERFLOW} /\ answer.read \in Nat
    /\ answer.ended \in {"none", "error", "delimiter", "end"}
    /\ user \in {"out", "opened", "silent", "first", "second"} /\ echo \in BOOLEAN /\ saved \in BOOLEAN
    /\ first \in Int /\ ret \in {"SUCCESS", "FAILURE"}

(* While a line is read the block is as large as the function believes, and the *)
(* next character and the terminator behind it have their places in it, however *)
(* often the block has been grown and whoever allocated it (io_utils.c:2354).   *)
RoomForTheNext == pc = "reading" => size = Len(line) /\ cur + 1 < Len(line)

(* A line that ended with its delimiter is in the block, whole and in order,    *)
(* with the terminator behind it: growing the block loses nothing of it.        *)
LineHoldsWhatWasRead ==
    [][pc = "reading" /\ pc' # "reading" /\ answer'.ended = "delimiter"
       => /\ answer'.read = Len(got') /\ answer'.read < Len(line')
          /\ SubSeq(line', 1, answer'.read) = got' /\ line'[answer'.read + 1] = NUL]_vars

(* get_Secure_User_Input never answers SUCCESS with the terminal left in        *)
(* another state than the one it found, whatever its reads did (io_utils.c:1152)*)
TerminalIsRestored == user = "out" /\ ret = "SUCCESS" => echo = saved

(* A call that reads comes back to its caller, and the user gets the terminal   *)
(* back, where the stream has an end.                                           *)
EveryCallEnds == pc = "reading" \/ user # "out" ~> pc = "idle" /\ user = "out"
===============================================================================
