------------------------------ MODULE ErrorCodes ------------------------------
(* The errno_t values the functions return, and the way they are chosen: a      *)
(* chain of tests of which the first that holds names the error.                *)
EXTENDS Integers, Sequences, FiniteSetsExt

ENOMEM    == 12
EINVAL    == 22
ERANGE    == 34
EOVERFLOW == 75

(* The first of a list of tests << condition, error >> whose condition holds. *)
FirstFailing(tests) ==
    LET failing == {i \in DOMAIN tests : tests[i][1]}
    IN IF failing = {} THEN 0 ELSE tests[Min(failing)][2]
===============================================================================
