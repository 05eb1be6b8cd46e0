----------------------------- MODULE FileSystem -----------------------------
(***************************************************************************)
(* The part of a POSIX file system that src/src/secure_file.c and          *)
(* src/src/posix_secure_file.c look at: one directory, the entries in it   *)
(* and the files they lead to.  Other processes change all of it at any    *)
(* moment, between any two system calls of the library.                    *)
(***************************************************************************)
CONSTANTS
    Names,     \* entries the directory may have
    Inodes,    \* files and directories those entries may lead to
    Regular,   \* the inodes that are regular files
    Owners,    \* (user, group) pairs a file may belong to
    NoInode    \* what an entry that does not exist leads to

ASSUME RegularAssumption == Regular \subseteq Inodes
ASSUME NoInodeAssumption == NoInode \notin Inodes

VARIABLES
    entry,     \* where each name leads
    owner,     \* who each inode belongs to
    parent     \* what the directory's own path leads to

fsVars == <<entry, owner, parent>>

\* "secure" and "insecure": a directory os_Is_Directory_Secure accepts or
\* refuses (DirectorySecure models how); "regular": a regular file stands there.
Directories == {"secure", "insecure"}
ParentStates == Directories \cup {"regular", "missing"}

FsTypeOK ==
    /\ entry \in [Names -> Inodes \cup {NoInode}]
    /\ owner \in [Inodes -> Owners]
    /\ parent \in ParentStates

FsInit ==
    /\ entry \in [Names -> Inodes \cup {NoInode}]
    /\ owner \in [Inodes -> Owners]
    /\ parent \in ParentStates

\* What stat or fopen finds under a name of the directory.
Lookup(name) == IF parent \in Directories THEN entry[name] ELSE NoInode

\* An inode is reused only when no entry leads to it and nobody has it open.
Unused(held) == {i \in Inodes \ held : \A n \in Names : entry[n] # i}

Bind(name, inode) == entry' = [entry EXCEPT ![name] = inode]

\* Steps of other processes.
Create(name, held) ==
    /\ Lookup(name) = NoInode
    /\ parent \in Directories
    /\ \E i \in Unused(held) : Bind(name, i)
    /\ UNCHANGED <<owner, parent>>

Unlink(name) ==
    /\ Lookup(name) # NoInode
    /\ Bind(name, NoInode)
    /\ UNCHANGED <<owner, parent>>

Rename(from, to) ==
    /\ from # to
    /\ Lookup(from) # NoInode
    /\ entry' = [entry EXCEPT ![to] = entry[from], ![from] = NoInode]
    /\ UNCHANGED <<owner, parent>>

Chown(inode) ==
    /\ \E o \in Owners \ {owner[inode]} : owner' = [owner EXCEPT ![inode] = o]
    /\ UNCHANGED <<entry, parent>>

ChmodDirectory ==
    /\ parent \in Directories
    /\ parent' \in Directories \ {parent}
    /\ UNCHANGED <<entry, owner>>

\* Something else, with other contents, takes the directory's place.
ReplaceDirectory ==
    /\ parent' \in ParentStates \ {parent}
    /\ entry' \in [Names -> Inodes \cup {NoInode}]
    /\ UNCHANGED owner

OtherProcesses(held) ==
    \/ \E n \in Names : Create(n, held)
    \/ \E n \in Names : Unlink(n)
    \/ \E n, m \in Names : Rename(n, m)
    \/ \E i \in Inodes : Chown(i)
    \/ ChmodDirectory
    \/ ReplaceDirectory

=============================================================================
