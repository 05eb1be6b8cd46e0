--------------------------------- MODULE Calls ---------------------------------
(* The functions that keep no state between calls, called one at a time.  A     *)
(* call is a family of functions, the function, its arguments and what it       *)
(* answered.                                                                    *)
VARIABLE call

Idle == [family |-> "none"]

Called(family, f, in, out) == call' = [family |-> family, f |-> f, in |-> in, out |-> out]

Is(family) == call.family = family

(* A call of some other function, or the return of one. *)
OtherThan(families) == call'.family \notin families
===============================================================================
