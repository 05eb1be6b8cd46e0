-------------------------- MODULE MCSecureFileOpen --------------------------
(***************************************************************************)
(* SecureFileOpen for TLC: one handle and every mode, against a directory  *)
(* with two names, two regular files and a subdirectory.  The identity of  *)
(* the file f1 - its attributes, its unique ID, both or neither - is       *)
(* demanded of a read and of a write, for the other modes one way.         *)
(***************************************************************************)
EXTENDS SecureFileOpen

CONSTANTS h1, a, b, f1, f2, d1, o1, o2

Ask(mode, expected, unique) ==
    [name |-> a, mode |-> mode, extOk |-> TRUE, expected |-> expected, unique |-> unique]

F1 == [inode |-> f1, owner |-> o1]

MCRequests ==
    [h \in {h1} |->
        {Ask("r", e, u) : e \in {NoAttributes, F1}, u \in {NoInode, f1}}
        \cup {Ask("w", e, NoInode) : e \in {NoAttributes, F1}}
        \cup {Ask("r+", F1, NoInode), Ask("a", NoAttributes, f1),
              [Ask("r", NoAttributes, NoInode) EXCEPT !.extOk = FALSE]}
        \cup {Ask(m, NoAttributes, NoInode) : m \in {"wx", "rx", "null"}}]

=============================================================================
