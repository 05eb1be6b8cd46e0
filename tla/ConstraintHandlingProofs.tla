---------------------- MODULE ConstraintHandlingProofs ----------------------
(***************************************************************************)
(* Proofs about ConstraintHandling, for any number of threads.             *)
(***************************************************************************)
EXTENDS ConstraintHandling, TLAPS

\* Where thread t is, it holds no handler that aborts: not the one it is about
\* to install, not the one it has read, not the one it will restore.
HoldsNoAbort(t) ==
    /\ thread[t].at \in {"read", "write"} => thread[t].handler # "ERR_ABORT"
    /\ thread[t].at = "write" /\ thread[t].doing = "off"
         => thread[t].old \notin {"NULL", "ERR_ABORT"}
    /\ thread[t].at = "dup" => thread[t].saved # "ERR_ABORT"

\* As long as no caller chose to abort, the handler that aborts is nowhere.
AbortInv ==
    ~abortable =>
        /\ process = "running"
        /\ installedhandler \notin {"NULL", "ERR_ABORT"}
        /\ \A t \in Threads : HoldsNoAbort(t)

\* What one thread in these functions knows of the handler its caller chose.
RemembersChosen(t) ==
    LET me == thread[t]
        wanted == HandlerName(chosen) IN
    /\ me.at \in {"read", "write"} /\ me.doing \in {"set", "off"}
         => HandlerName(installedhandler) = wanted
    /\ me.at = "write" /\ me.doing = "off" => HandlerName(me.old) = wanted
    /\ me.at = "dup" => me.saved = wanted
    /\ me.at \in {"read", "write"} /\ me.doing = "on" => me.handler = wanted

\* Threads that never met: at most one is inside, and it knows.
AloneInv ==
    ~overlapped /\ process = "running" =>
        /\ \A t, u \in Threads : thread[t].at # "idle" /\ thread[u].at # "idle" => t = u
        /\ \A t \in Threads : RemembersChosen(t)
        /\ (\A t \in Threads : thread[t].at = "idle")
             => HandlerName(installedhandler) = HandlerName(chosen)

-----------------------------------------------------------------------------
(* Types                                                                   *)

\* The name of a handler is a handler.
LEMMA NameType == \A p \in Handlers \cup {"NULL"} : HandlerName(p) \in Handlers
BY DEF HandlerName, Handlers

\* Init establishes the types and both invariants.
LEMMA InitAll == Init => TypeOK /\ AbortInv /\ AloneInv
<1> SUFFICES ASSUME Init PROVE TypeOK /\ AbortInv /\ AloneInv
  OBVIOUS
<1>1. \A t \in Threads : thread[t] = Idle /\ thread[t].at = "idle"
  BY DEF Init, Idle
<1>2. TypeOK
  <2>1. Idle \in Thread
    BY DEF Idle, Thread, Handlers
  <2>2. thread \in [Threads -> Thread]
    BY <2>1 DEF Init
  <2>3. abortable \in BOOLEAN
    <3>1. abortable = (installedhandler \in {"NULL", "ERR_ABORT"})
      BY DEF Init
    <3>2. CASE installedhandler \in {"NULL", "ERR_ABORT"}
      BY <3>1, <3>2
    <3>3. CASE installedhandler \notin {"NULL", "ERR_ABORT"}
      BY <3>1, <3>3
    <3>4. QED
      BY <3>2, <3>3
  <2>4. /\ installedhandler \in Handlers \cup {"NULL"} /\ chosen \in Handlers \cup {"NULL"}
        /\ process \in {"running", "aborted"} /\ overlapped \in BOOLEAN
    BY DEF Init
  <2>5. QED
    BY <2>2, <2>3, <2>4 DEF TypeOK
<1>3. AbortInv
  BY <1>1 DEF Init, AbortInv, HoldsNoAbort
<1>4. AloneInv
  BY <1>1 DEF Init, AloneInv, RemembersChosen
<1>5. QED
  BY <1>2, <1>3, <1>4

\* Each step of a thread keeps the types.
LEMMA NextType == TypeOK /\ [Next]_vars => TypeOK'
<1> SUFFICES ASSUME TypeOK, [Next]_vars PROVE TypeOK'
  OBVIOUS
<1>1. CASE UNCHANGED vars
  BY <1>1 DEF vars, TypeOK
<1>2. ASSUME NEW t \in Threads, Step(t) PROVE TypeOK'
  <2>1. ASSUME NEW h \in Handlers, set_Constraint_Handler(t, h) PROVE TypeOK'
    BY <2>1 DEF set_Constraint_Handler, Begin, Running, TypeOK, Thread, Handlers
  <2>2. CASE TurnOff(t)
    BY <2>2 DEF TurnOff, Begin, Running, TypeOK, Thread, Handlers
  <2>3. CASE ReadHandler(t)
    BY <2>3 DEF ReadHandler, Running, TypeOK, Thread
  <2>4. CASE WriteHandler(t)
    <3>1. thread[t] \in Thread
      BY DEF TypeOK
    <3>2. HandlerName(thread[t].old) \in Handlers /\ thread[t].handler \in Handlers
      BY <3>1, NameType DEF Thread
    <3>3. thread' \in [Threads -> Thread]
      <4>1. CASE thread' = [thread EXCEPT ![t].at = "dup",
                                          ![t].saved = HandlerName(thread[t].old)]
        BY <4>1, <3>1, <3>2 DEF TypeOK, Thread
      <4>2. CASE thread' = [thread EXCEPT ![t] = Idle]
        BY <4>2, <3>1 DEF TypeOK, Thread, Idle, Handlers
      <4>3. QED
        BY <2>4, <4>1, <4>2 DEF WriteHandler
    <3>4. QED
      BY <2>4, <3>2, <3>3 DEF WriteHandler, TypeOK
  <2>5. CASE Duplicate(t)
    <3>1. thread[t] \in Thread
      BY DEF TypeOK
    <3>2. thread' \in [Threads -> Thread]
      BY <2>5, <3>1 DEF Duplicate, TypeOK, Thread
    <3>3. QED
      BY <2>5, <3>2 DEF Duplicate, invoke_Constraint_Handler, TypeOK, Handlers
  <2>6. CASE Violation(t)
    BY <2>6 DEF Violation, invoke_Constraint_Handler, TypeOK, Handlers
  <2>7. QED
    BY <1>2, <2>1, <2>2, <2>3, <2>4, <2>5, <2>6 DEF Step
<1>3. QED
  BY <1>1, <1>2 DEF Next

\* The names, numbers and flags of every reachable state are what they should
\* be, for any set of threads.
THEOREM TypeCorrect == Spec => []TypeOK
<1>1. Init => TypeOK
  BY InitAll
<1>2. TypeOK /\ [Next]_vars => TypeOK'
  BY NextType
<1>3. QED
  BY <1>1, <1>2, PTL DEF Spec

-----------------------------------------------------------------------------
(* No abort unless it was chosen                                           *)

\* What a step does to its own thread's record leaves the others' alone.
LEMMA OthersSame ==
    ASSUME TypeOK, NEW t \in Threads, Step(t)
    PROVE  \A u \in Threads \ {t} : thread'[u] = thread[u]
BY DEF Step, set_Constraint_Handler, TurnOff, Begin, ReadHandler, WriteHandler,
       Duplicate, Violation, TypeOK

\* One step of any thread keeps the aborting handler out.
LEMMA StepAbort ==
    ASSUME TypeOK, AbortInv, NEW t \in Threads, Step(t)
    PROVE  AbortInv'
<1> SUFFICES ASSUME ~abortable'
             PROVE  /\ process' = "running"
                    /\ installedhandler' \notin {"NULL", "ERR_ABORT"}
                    /\ \A u \in Threads : HoldsNoAbort(u)'
  BY DEF AbortInv
<1>1. ~abortable
  BY DEF Step, set_Constraint_Handler, TurnOff, ReadHandler, WriteHandler, Duplicate, Violation
<1>2. /\ process = "running"
      /\ installedhandler \notin {"NULL", "ERR_ABORT"}
      /\ \A u \in Threads : HoldsNoAbort(u)
  BY <1>1 DEF AbortInv
<1>3. thread[t] \in Thread /\ thread \in [Threads -> Thread]
  BY DEF TypeOK
<1>4. ASSUME HoldsNoAbort(t)' PROVE \A u \in Threads : HoldsNoAbort(u)'
  BY <1>2, <1>4, OthersSame DEF HoldsNoAbort
<1>5. ASSUME NEW h \in Handlers, set_Constraint_Handler(t, h)
      PROVE  process' = "running" /\ installedhandler' = installedhandler /\ HoldsNoAbort(t)'
  <2>1. h # "ERR_ABORT"
    BY <1>5 DEF set_Constraint_Handler
  <2>2. thread'[t].at = "read" /\ thread'[t].handler = h
    BY <1>3, <1>5 DEF set_Constraint_Handler, Begin
  <2>3. QED
    BY <1>2, <1>5, <2>1, <2>2 DEF set_Constraint_Handler, Begin, HoldsNoAbort
<1>6. CASE TurnOff(t)
  <2>1. thread'[t].at = "read" /\ thread'[t].handler = "ERR_IGNORE"
    BY <1>3, <1>6 DEF TurnOff, Begin
  <2>2. QED
    BY <1>2, <1>4, <1>6, <2>1 DEF TurnOff, Begin, HoldsNoAbort
<1>7. CASE ReadHandler(t)
  <2>1. /\ thread[t].at = "read"
        /\ thread'[t].at = "write"
        /\ thread'[t].handler = thread[t].handler
        /\ thread'[t].old = installedhandler
    BY <1>3, <1>7 DEF ReadHandler, Running, Thread
  <2>2. HoldsNoAbort(t)'
    BY <1>2, <2>1 DEF HoldsNoAbort
  <2>3. QED
    BY <1>2, <1>4, <1>7, <2>2 DEF ReadHandler
<1>8. CASE WriteHandler(t)
  <2>1. thread[t].at = "write" /\ thread[t].handler \in Handlers \ {"ERR_ABORT"}
    BY <1>2, <1>3, <1>8 DEF WriteHandler, Running, HoldsNoAbort, Thread
  <2>2. installedhandler' \notin {"NULL", "ERR_ABORT"} /\ process' = process
    BY <1>8, <2>1 DEF WriteHandler, Handlers
  <2>3. HoldsNoAbort(t)'
    <3>1. CASE /\ thread[t].doing = "off"
               /\ thread' = [thread EXCEPT ![t].at = "dup",
                                           ![t].saved = HandlerName(thread[t].old)]
      <4>1. thread'[t].at = "dup" /\ thread'[t].saved = HandlerName(thread[t].old)
        BY <1>3, <3>1 DEF Thread
      <4>2. HandlerName(thread[t].old) # "ERR_ABORT"
        BY <1>2, <2>1, <3>1 DEF HoldsNoAbort, HandlerName
      <4>3. QED
        BY <4>1, <4>2 DEF HoldsNoAbort
    <3>2. CASE thread' = [thread EXCEPT ![t] = Idle]
      <4>1. thread'[t].at = "idle"
        BY <1>3, <3>2 DEF Idle
      <4>2. QED
        BY <4>1 DEF HoldsNoAbort
    <3>3. QED
      BY <1>8, <3>1, <3>2 DEF WriteHandler
  <2>4. QED
    BY <1>2, <1>4, <2>2, <2>3
<1>9. CASE Duplicate(t)
  <2>1. thread[t].at = "dup" /\ thread[t].saved # "ERR_ABORT"
    BY <1>2, <1>9 DEF Duplicate, Running, HoldsNoAbort
  <2>2. thread'[t].at = "read" /\ thread'[t].handler = thread[t].saved
    BY <1>3, <1>9 DEF Duplicate, Thread
  <2>3. HoldsNoAbort(t)'
    BY <2>1, <2>2 DEF HoldsNoAbort
  <2>4. process' = process /\ installedhandler' = installedhandler
    BY <1>2, <1>9 DEF Duplicate, invoke_Constraint_Handler
  <2>5. QED
    BY <1>2, <1>4, <2>3, <2>4
<1>10. CASE Violation(t)
  <2>1. process' = process /\ installedhandler' = installedhandler /\ thread' = thread
    BY <1>2, <1>10 DEF Violation, invoke_Constraint_Handler
  <2>2. QED
    BY <1>2, <2>1 DEF HoldsNoAbort
<1>11. QED
  BY <1>2, <1>4, <1>5, <1>6, <1>7, <1>8, <1>9, <1>10 DEF Step

\* For any number of threads, interleaved in any way: if the handlers callers
\* chose all return, and one was chosen before the threads started, then no
\* saved and restored handler ever aborts the process.
THEOREM NoAbortCorrect == Spec => []NoAbortUnlessChosen
<1>1. Init => TypeOK /\ AbortInv
  BY InitAll
<1>2. TypeOK /\ AbortInv /\ [Next]_vars => (TypeOK /\ AbortInv)'
  <2> SUFFICES ASSUME TypeOK, AbortInv, [Next]_vars PROVE AbortInv'
    BY NextType
  <2>1. CASE UNCHANGED vars
    BY <2>1 DEF vars, AbortInv, HoldsNoAbort
  <2>2. CASE Next
    BY <2>2, StepAbort DEF Next
  <2>3. QED
    BY <2>1, <2>2
<1>3. TypeOK /\ AbortInv => NoAbortUnlessChosen
  BY DEF AbortInv, NoAbortUnlessChosen
<1>4. QED
  BY <1>1, <1>2, <1>3, PTL DEF Spec

-----------------------------------------------------------------------------
(* Silencing leaves no trace                                               *)

\* A name is its own name.
LEMMA NameOfName == \A p \in Handlers \cup {"NULL"} : HandlerName(HandlerName(p)) = HandlerName(p)
BY DEF HandlerName, Handlers

\* With every other thread outside, the invariant is a matter of one thread.
LEMMA OneThread ==
    ASSUME NEW t \in Threads,
           \A u \in Threads \ {t} : thread'[u].at = "idle",
           RemembersChosen(t)',
           thread'[t].at = "idle" => HandlerName(installedhandler') = HandlerName(chosen')
    PROVE  AloneInv'
<1>1. \A u \in Threads \ {t} : RemembersChosen(u)'
  BY DEF RemembersChosen
<1>2. QED
  BY <1>1 DEF AloneInv

\* A thread that begins finds itself alone, or the threads have met.
LEMMA BeginAlone ==
    ASSUME TypeOK, AloneInv, NEW t \in Threads, NEW h \in Handlers,
           NEW doing \in {"set", "off"}, Begin(t, doing, h)
    PROVE  AloneInv'
<1> SUFFICES ASSUME ~overlapped', process' = "running" PROVE AloneInv'
  BY DEF AloneInv
<1>1. ~overlapped /\ process = "running" /\ thread[t].at = "idle"
  BY DEF Begin, Running
<1>2. \A u \in Threads \ {t} : thread[u].at = "idle" /\ thread'[u] = thread[u]
  BY DEF Begin, TypeOK
<1>3. HandlerName(installedhandler) = HandlerName(chosen)
  BY <1>1, <1>2 DEF AloneInv
<1>4. thread'[t].at = "read" /\ thread'[t].doing \in {"set", "off"}
  <2>1. thread'[t].at = "read" /\ thread'[t].doing = doing
    BY DEF Begin, TypeOK
  <2>2. QED
    BY <2>1
<1>5. HandlerName(installedhandler)' = HandlerName(chosen)'
  <2>1. installedhandler' = installedhandler /\ chosen' = chosen
    BY DEF Begin
  <2>2. QED
    BY <1>3, <2>1 DEF HandlerName
<1>6. RemembersChosen(t)'
  BY <1>4, <1>5 DEF RemembersChosen
<1>7. QED
  BY <1>2, <1>4, <1>6, OneThread

\* One step of any thread keeps the invariant.
LEMMA StepAlone ==
    ASSUME TypeOK, AloneInv, NEW t \in Threads, Step(t)
    PROVE  AloneInv'
<1> SUFFICES ASSUME ~overlapped', process' = "running" PROVE AloneInv'
  BY DEF AloneInv
<1>1. ~overlapped /\ process = "running"
  <2>1. process = "running"
    BY DEF Step, set_Constraint_Handler, TurnOff, Begin, ReadHandler, WriteHandler,
           Duplicate, Violation, Running
  <2>2. CASE \E doing, h : Begin(t, doing, h)
    BY <2>1, <2>2 DEF Begin
  <2>3. CASE ReadHandler(t) \/ WriteHandler(t) \/ Duplicate(t) \/ Violation(t)
    BY <2>1, <2>3 DEF ReadHandler, WriteHandler, Duplicate, Violation
  <2>4. QED
    BY <2>2, <2>3 DEF Step, set_Constraint_Handler, TurnOff
<1>2. thread[t] \in Thread /\ thread \in [Threads -> Thread]
  BY DEF TypeOK
<1>3. RemembersChosen(t)
  BY <1>1 DEF AloneInv
<1>4. ASSUME thread[t].at # "idle"
      PROVE  \A u \in Threads \ {t} : thread'[u].at = "idle"
  BY <1>1, <1>4, OthersSame DEF AloneInv
<1>5. ASSUME NEW h \in Handlers, set_Constraint_Handler(t, h) PROVE AloneInv'
  BY <1>5, BeginAlone DEF set_Constraint_Handler
<1>6. CASE TurnOff(t)
  BY <1>6, BeginAlone DEF TurnOff, Handlers
<1>7. CASE ReadHandler(t)
  <2>1. /\ thread[t].at = "read"
        /\ thread'[t].at = "write"
        /\ thread'[t].doing = thread[t].doing
        /\ thread'[t].handler = thread[t].handler
        /\ thread'[t].old = installedhandler
    BY <1>2, <1>7 DEF ReadHandler, Running, Thread
  <2>2. thread[t].doing \in {"set", "off", "on"}
    BY <1>2 DEF Thread
  <2>3. installedhandler' = installedhandler /\ chosen' = chosen
    BY <1>7 DEF ReadHandler
  <2>4. RemembersChosen(t)'
    BY <1>3, <2>1, <2>2, <2>3 DEF RemembersChosen, HandlerName
  <2>5. QED
    BY <1>4, <2>1, <2>4, OneThread
<1>8. CASE WriteHandler(t)
  <2>1. thread[t].at = "write" /\ thread[t].handler \in Handlers
    BY <1>2, <1>8 DEF WriteHandler, Running, Thread
  <2>2. HandlerName(thread[t].handler) = thread[t].handler
    BY <2>1 DEF HandlerName, Handlers
  <2>3. CASE /\ thread[t].doing = "off"
             /\ thread' = [thread EXCEPT ![t].at = "dup",
                                         ![t].saved = HandlerName(thread[t].old)]
             /\ chosen' = chosen
    <3>1. thread'[t].at = "dup" /\ thread'[t].saved = HandlerName(thread[t].old)
      BY <1>2, <2>3 DEF Thread
    <3>2. HandlerName(thread[t].old) = HandlerName(chosen)
      BY <1>3, <2>1, <2>3 DEF RemembersChosen
    <3>3. RemembersChosen(t)'
      BY <2>3, <3>1, <3>2 DEF RemembersChosen, HandlerName
    <3>4. QED
      BY <1>4, <2>1, <3>1, <3>3, OneThread
  <2>4. CASE /\ thread[t].doing # "off"
             /\ thread' = [thread EXCEPT ![t] = Idle]
             /\ chosen' = IF thread[t].doing = "set" THEN thread[t].handler ELSE chosen
    <3>1. thread'[t].at = "idle"
      BY <1>2, <2>4 DEF Idle
    <3>2. installedhandler' = thread[t].handler
      BY <1>8 DEF WriteHandler
    <3>3. CASE thread[t].doing = "set"
      <4>1. HandlerName(installedhandler') = HandlerName(chosen')
        BY <2>4, <3>2, <3>3
      <4>2. QED
        BY <1>4, <2>1, <3>1, <4>1, OneThread DEF RemembersChosen
    <3>4. CASE thread[t].doing = "on"
      <4>1. thread[t].handler = HandlerName(chosen) /\ chosen' = chosen
        BY <1>3, <2>1, <2>4, <3>4 DEF RemembersChosen
      <4>2. HandlerName(installedhandler') = HandlerName(chosen')
        BY <2>2, <3>2, <4>1
      <4>3. QED
        BY <1>4, <2>1, <3>1, <4>2, OneThread DEF RemembersChosen
    <3>5. QED
      BY <1>2, <2>4, <3>3, <3>4 DEF Thread
  <2>5. QED
    BY <1>8, <2>3, <2>4 DEF WriteHandler
<1>9. CASE Duplicate(t)
  <2>1. thread[t].at = "dup" /\ thread[t].saved = HandlerName(chosen)
    BY <1>3, <1>9 DEF Duplicate, Running, RemembersChosen
  <2>2. /\ thread'[t].at = "read" /\ thread'[t].doing = "on"
        /\ thread'[t].handler = thread[t].saved
    BY <1>2, <1>9 DEF Duplicate, Thread
  <2>3. chosen' = chosen
    BY <1>9 DEF Duplicate
  <2>4. RemembersChosen(t)'
    BY <2>1, <2>2, <2>3 DEF RemembersChosen, HandlerName
  <2>5. QED
    BY <1>4, <2>1, <2>2, <2>4, OneThread
<1>10. CASE Violation(t)
  <2>1. installedhandler' = installedhandler /\ thread' = thread /\ chosen' = chosen
    BY <1>1, <1>10 DEF Violation, invoke_Constraint_Handler
  <2>2. QED
    BY <1>1, <2>1 DEF AloneInv, RemembersChosen, HandlerName
<1>11. QED
  BY <1>5, <1>6, <1>7, <1>8, <1>9, <1>10 DEF Step

\* As long as no two threads have met in these functions, silencing the handler
\* and restoring it leaves the one the caller chose.
THEOREM ChosenCorrect == Spec => []ChosenHandlerIsInstalled
<1>1. Init => TypeOK /\ AloneInv
  BY InitAll
<1>2. TypeOK /\ AloneInv /\ [Next]_vars => (TypeOK /\ AloneInv)'
  <2> SUFFICES ASSUME TypeOK, AloneInv, [Next]_vars PROVE AloneInv'
    BY NextType
  <2>1. CASE UNCHANGED vars
    BY <2>1 DEF vars, AloneInv, RemembersChosen, HandlerName
  <2>2. CASE Next
    BY <2>2, StepAlone DEF Next
  <2>3. QED
    BY <2>1, <2>2
<1>3. TypeOK /\ AloneInv => ChosenHandlerIsInstalled
  BY DEF AloneInv, ChosenHandlerIsInstalled
<1>4. QED
  BY <1>1, <1>2, <1>3, PTL DEF Spec

=============================================================================
