------------------------- MODULE MCSecureFileDelete -------------------------
(***************************************************************************)
(* SecureFileDelete for TLC: two handles that race to create one name      *)
(* exclusively, and a delete by name beside them.                          *)
(***************************************************************************)
EXTENDS SecureFileDelete, TLC

CONSTANTS h1, h2, a, f1, f2, o1

ExclusiveCreate == [name |-> a, mode |-> "wx", extOk |-> TRUE,
                    expected |-> NoAttributes, unique |-> NoInode]

MCRequests == [h \in {h1, h2} |-> {ExclusiveCreate}]

\* The two handles are used alike, and so are the two files.
Symmetry == Permutations({h1, h2}) \cup Permutations({f1, f2})

=============================================================================
