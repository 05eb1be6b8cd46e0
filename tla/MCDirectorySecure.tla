------------------------- MODULE MCDirectorySecure -------------------------
(***************************************************************************)
(* DirectorySecure for TLC: two directories below the root, a link,     *)
(* two names.  The link may lead back to itself, to the other directory,   *)
(* or be relative.                                                         *)
(***************************************************************************)
EXTENDS DirectorySecure

CONSTANTS root, d, e, l, x, y

MCPaths == {<<x, y>>}

\* The root directory is root's.
MCOwners == {o \in [Dirs -> Users] : o[root] = "root" /\ o[d] # "root" /\ o[e] # "root"}

MCTargets ==
    {[absolute |-> TRUE, names |-> <<x>>], [absolute |-> TRUE, names |-> <<y>>],
     [absolute |-> FALSE, names |-> <<y>>]}

Empty == [n \in Names |-> NoInode]

Holding(inodeX, inodeY) == [Empty EXCEPT ![x] = inodeX, ![y] = inodeY]

\* A plain path, one whose first and one whose second name is a link, and one
\* the others have to complete.
MCTrees ==
    LET Tree(atRoot, inD) == [[i \in Dirs |-> Empty] EXCEPT ![root] = atRoot, ![d] = inD] IN
    {Tree(Holding(d, NoInode), Holding(NoInode, e)),
     Tree(Holding(l, d), Holding(NoInode, e)),
     Tree(Holding(d, e), Holding(NoInode, l))}

=============================================================================
