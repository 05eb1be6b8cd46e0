------------------------- MODULE ConstraintHandling -------------------------
(***************************************************************************)
(* The runtime-constraint handler (src/src/constraint_handling.c), one     *)
(* pointer for the whole process, and the functions that silence it while  *)
(* they duplicate a string that may be NULL: get_Environment_Variable,     *)
(* get_strerror and standardized_strftime_for_asctime.  They install the   *)
(* handler that ignores, duplicate, and install again what they found.     *)
(* Nothing protects the pointer, so threads interleave at every read and   *)
(* every write of it.                                                      *)
(***************************************************************************)
EXTENDS Integers

CONSTANTS
    Threads,
    BuildDefault   \* ERR_DEFAULT, chosen by the build option constraint-handler

Handlers == {"ERR_ABORT", "ERR_WARN", "ERR_IGNORE"}

ASSUME BuildAssumption == BuildDefault \in Handlers

VARIABLES
    installedhandler,
    thread,      \* where each thread is
    process,     \* "aborted" once the aborting handler has run
    chosen,      \* what a caller last asked set_Constraint_Handler for
    abortable,   \* nobody had chosen a handler at first, or some caller chose abort
    overlapped   \* two threads have been in these functions at once

vars == <<installedhandler, thread, process, chosen, abortable, overlapped>>

\* A thread is outside, in the middle of set_Constraint_Handler - for its
\* caller, to silence the handler or to restore it - or duplicates its string.
Thread == [at : {"idle", "read", "write", "dup"}, doing : {"set", "off", "on"},
           handler : Handlers, old : Handlers \cup {"NULL"}, saved : Handlers]

Idle == [at |-> "idle", doing |-> "set", handler |-> "ERR_ABORT", old |-> "NULL",
         saved |-> "ERR_ABORT"]

TypeOK ==
    /\ installedhandler \in Handlers \cup {"NULL"}
    /\ thread \in [Threads -> Thread]
    /\ process \in {"running", "aborted"}
    /\ chosen \in Handlers \cup {"NULL"}
    /\ abortable \in BOOLEAN
    /\ overlapped \in BOOLEAN

\* The threads start before or after the program has chosen a handler.
Init ==
    /\ installedhandler \in Handlers \cup {"NULL"}
    /\ thread = [t \in Threads |-> Idle]
    /\ process = "running"
    /\ chosen = installedhandler
    /\ abortable = (installedhandler \in {"NULL", "ERR_ABORT"})
    /\ overlapped = FALSE

Running(t, place) == process = "running" /\ thread[t].at = place

-----------------------------------------------------------------------------
(* set_Constraint_Handler                                                  *)

\* Mutant: only the handler that ignores is recognised again.
HandlerForgetsWarn(pointer) ==
    IF pointer = "ERR_IGNORE" THEN "ERR_IGNORE" ELSE "ERR_ABORT"

\* Mutant: no handler is reported as none.
NoHandlerIsNull(pointer) == pointer

\* The name of the handler a pointer leads to; NULL stands for the one that aborts.
HandlerName(pointer) == IF pointer = "NULL" THEN "ERR_ABORT" ELSE pointer

Begin(t, doing, handler) ==
    /\ Running(t, "idle")
    /\ thread' = [thread EXCEPT ![t] =
            [at |-> "read", doing |-> doing, handler |-> handler, old |-> "NULL",
             saved |-> "ERR_ABORT"]]
    /\ overlapped' = (overlapped \/ \E u \in Threads \ {t} : thread[u].at # "idle")
    /\ UNCHANGED <<installedhandler, process, chosen>>

set_Constraint_Handler(t, handler) ==
    /\ Begin(t, "set", handler)
    /\ abortable' = (abortable \/ handler = "ERR_ABORT")

ReadHandler(t) ==
    /\ Running(t, "read")
    /\ thread' = [thread EXCEPT ![t].at = "write", ![t].old = installedhandler]
    /\ UNCHANGED <<installedhandler, process, chosen, abortable, overlapped>>

\* The second half: install, and hand back the name of what was read.
WriteHandler(t) ==
    LET me == thread[t] IN
    /\ Running(t, "write")
    /\ installedhandler' = me.handler
    /\ \/ /\ me.doing = "off"
          /\ thread' = [thread EXCEPT ![t].at = "dup", ![t].saved = HandlerName(me.old)]
          /\ UNCHANGED chosen
       \/ /\ me.doing # "off"
          /\ thread' = [thread EXCEPT ![t] = Idle]
          /\ chosen' = IF me.doing = "set" THEN me.handler ELSE chosen
    /\ UNCHANGED <<process, abortable, overlapped>>

-----------------------------------------------------------------------------
(* invoke_Constraint_Handler                                               *)

\* NULL is replaced by the handler that aborts, whatever the build's default.  One
\* step: once it has read NULL the process aborts whatever is installed meanwhile.
invoke_Constraint_Handler ==
    \/ /\ installedhandler \in {"NULL", "ERR_ABORT"}
       /\ installedhandler' = "ERR_ABORT"
       /\ process' = "aborted"
    \/ /\ installedhandler \in {"ERR_WARN", "ERR_IGNORE"}
       /\ UNCHANGED <<installedhandler, process>>

\* Any bounds-checked function of the library, on an argument it refuses.
Violation(t) ==
    /\ Running(t, "idle")
    /\ invoke_Constraint_Handler
    /\ UNCHANGED <<thread, chosen, abortable, overlapped>>

-----------------------------------------------------------------------------
(* Silencing the handler                                                   *)

TurnOff(t) ==
    /\ Begin(t, "off", "ERR_IGNORE")
    /\ UNCHANGED abortable

\* Mutant: when the duplicate fails the function returns at once.
FailureSkipsRestore(t) ==
    /\ Running(t, "dup")
    /\ \/ /\ UNCHANGED <<installedhandler, process>>
          /\ thread' = [thread EXCEPT ![t].at = "read", ![t].doing = "on",
                                      ![t].handler = thread[t].saved]
       \/ /\ invoke_Constraint_Handler
          /\ thread' = [thread EXCEPT ![t] = Idle]
    /\ UNCHANGED <<chosen, abortable, overlapped>>

\* safe_strdup of what may be NULL or empty, or for which there may be no memory;
\* then set_Constraint_Handler is called with the handler found before.  (The one
\* return without that call, a strerror_r that gives NULL, is left out: GNU's gives
\* a message for every number.)
Duplicate(t) ==
    /\ Running(t, "dup")
    /\ UNCHANGED <<installedhandler, process>> \/ invoke_Constraint_Handler
    /\ thread' = [thread EXCEPT ![t].at = "read", ![t].doing = "on",
                                ![t].handler = thread[t].saved]
    /\ UNCHANGED <<chosen, abortable, overlapped>>

-----------------------------------------------------------------------------

Step(t) ==
    \/ \E handler \in Handlers : set_Constraint_Handler(t, handler)
    \/ TurnOff(t)
    \/ ReadHandler(t)
    \/ WriteHandler(t)
    \/ Duplicate(t)
    \/ Violation(t)

Next == \E t \in Threads : Step(t)

Spec == Init /\ [][Next]_vars

-----------------------------------------------------------------------------
(* Properties                                                              *)

\* Unless threads have met in these functions, the handler a caller chose is the
\* one installed whenever nobody is in them: silencing it leaves no trace, on the
\* way where the duplicate fails too.
ChosenHandlerIsInstalled ==
    /\ ~overlapped /\ process = "running"
    /\ \A t \in Threads : thread[t].at = "idle"
    => HandlerName(installedhandler) = HandlerName(chosen)

\* A process whose callers chose handlers that return, and did so before starting
\* threads, is never aborted, however its threads interleave: a restored handler
\* may be the wrong one, but it is one of those chosen.
NoAbortUnlessChosen == process = "aborted" => abortable

\* constraint_handling.h on ERR_DEFAULT: the constraint handler to use if none is
\* set by the user, as the build chose it.
DefaultIsTheBuilds ==
    process = "aborted" /\ chosen = "NULL" => BuildDefault = "ERR_ABORT"

=============================================================================
