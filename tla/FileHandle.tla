----------------------------- MODULE FileHandle -----------------------------
(***************************************************************************)
(* What the calls on a secureFileInfo promise their caller, whatever the   *)
(* calls are: a handle is open exactly as long as the C library's stream   *)
(* behind it is, it leaves that state once, and a handle whose close       *)
(* failed is broken for good.  SecureFileStream implements this.           *)
(***************************************************************************)
VARIABLES
    phase,   \* what the handle tells its caller
    live     \* the stream behind it can still be used

handle == <<phase, live>>

Phases == {"open", "absent", "broken"}

Init ==
    /\ phase \in {"open", "absent"}
    /\ live = (phase = "open")

Close ==
    /\ phase = "open"
    /\ phase' = "absent"
    /\ live' = FALSE

CloseFails ==
    /\ phase = "open"
    /\ phase' = "broken"
    /\ live' = FALSE

Next == Close \/ CloseFails

Spec == Init /\ [][Next]_handle

=============================================================================
