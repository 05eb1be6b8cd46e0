-------------------------- MODULE DirectorySecure --------------------------
(***************************************************************************)
(* os_Is_Directory_Secure (src/src/posix_secure_file.c): walk a path from  *)
(* the root, lstat every directory on it, follow every symbolic link by    *)
(* checking its target the same way, and accept the path only when every   *)
(* directory belongs to a trusted user and nobody else may write to it.    *)
(*                                                                         *)
(* Other users act between any two system calls, as far as the permissions *)
(* of the directories let them; a trusted user may take write permission   *)
(* away.  What the verdict is worth is a property of that race: once a     *)
(* path is accepted, no other user can make it lead somewhere else.        *)
(***************************************************************************)
EXTENDS Integers, Sequences, SequencesExt

CONSTANTS
    Dirs,          \* inodes that are directories
    Links,         \* inodes that are symbolic links
    Root,          \* the directory "/"
    NoInode,       \* nothing there, or something that is neither: the walk and
                   \* the kernel go no further either way
    Names,         \* names an entry may have
    Paths,         \* absolute paths the check may be asked about
    Targets,       \* what a symbolic link may hold
    Trees,         \* directory trees to start from
    Owners,        \* who may own their directories
    MaxSymlinks,   \* MAX_SYMLINKS_IN_PATH
    KernelLinks    \* links the kernel follows before it reports a loop

ASSUME RootAssumption == Root \in Dirs
ASSUME InodesAssumption == Dirs \cap Links = {} /\ NoInode \notin Dirs \cup Links
ASSUME PathsAssumption == Paths \subseteq Seq(Names)
ASSUME TargetsAssumption == Targets \subseteq [absolute : BOOLEAN, names : Seq(Names)]
ASSUME LimitAssumption == MaxSymlinks \in Nat /\ KernelLinks \in Nat

Inodes == Dirs \cup Links

ASSUME TreesAssumption == Trees \subseteq [Dirs -> [Names -> Inodes \cup {NoInode}]]

VARIABLES
    entry,     \* where each name of each directory leads
    owner,     \* who owns each directory
    open,      \* directories their group or others may write to
    target,    \* what each symbolic link holds; it never changes
    euid,      \* the effective user of the program
    sudouid,   \* what get_sudo_uid returns: "root" when there is no sudo user
    asked,     \* the path whose check was asked for
    stack,     \* one frame per active call of internal_OS_Is_Directory_Secure
    at,        \* what the topmost call does next
    verdict

treeVars == <<entry, owner, open>>
idVars == <<target, euid, sudouid, asked>>
walkVars == <<stack, at, verdict>>
vars == <<entry, owner, open, target, euid, sudouid, asked, stack, at, verdict>>

Users == {"root", "user", "other"}

ASSUME OwnersAssumption == Owners \subseteq [Dirs -> Users]

\* fullpath, whether it begins with "/", the index into dirs and num_symlinks.
Frame == [absolute : BOOLEAN, path : Seq(Names), i : Nat, links : 0..MaxSymlinks + 1]

Verdicts == {"none", "secure", "insecure", "crashed"}

TypeOK ==
    /\ entry \in [Dirs -> [Names -> Inodes \cup {NoInode}]]
    /\ owner \in [Dirs -> Users]
    /\ open \subseteq Dirs
    /\ target \in [Links -> Targets]
    /\ euid \in {"root", "user"}
    /\ sudouid \in {"root", "user"}
    /\ asked \in Paths
    /\ stack \in Seq(Frame)
    /\ at \in {"enter", "lstat", "readlink", "done"}
    /\ verdict \in Verdicts
    /\ stack = <<>> <=> verdict # "none"

Init ==
    /\ entry \in Trees
    /\ owner \in Owners
    /\ open \in SUBSET Dirs
    /\ target \in [Links -> Targets]
    /\ euid \in {"root", "user"}
    /\ sudouid \in IF euid = "root" THEN {"root", "user"} ELSE {"root"}
    /\ asked \in Paths
    /\ stack = <<[absolute |-> TRUE, path |-> asked, i |-> 0, links |-> 0]>>
    /\ at = "enter"
    /\ verdict = "none"

-----------------------------------------------------------------------------
(* The kernel's view of a path                                             *)

\* A path on its way: the directory it has come to, the names ahead, the links the
\* kernel still follows, and the directories looked into.
Ways == [dir : Dirs, rest : Seq(Names), left : 0..KernelLinks, through : SUBSET Dirs]

Begin(path) == [dir |-> Root, rest |-> path, left |-> KernelLinks, through |-> {Root}]

Into(w, d, rest, left) ==
    [dir |-> d, rest |-> rest, left |-> left, through |-> w.through \cup {d}]

\* What the next name leads to with the entries e.
Found(e, w) == e[w.dir][Head(w.rest)]

\* No name is ahead, nothing is there to go on in, or it is one link too many.
Ended(e, w) ==
    \/ w.rest = <<>>
    \/ Found(e, w) \notin Inodes
    \/ Found(e, w) \in Links /\ w.left = 0

\* Into a directory, or to the names that the link holds, with the targets t.
Onward(e, t, w) ==
    LET next == Found(e, w) IN
    IF next \in Dirs THEN Into(w, next, Tail(w.rest), w.left)
    ELSE Into(w, IF t[next].absolute THEN Root ELSE w.dir,
              t[next].names \o Tail(w.rest), w.left - 1)

Outcome(e, w) ==
    [to |-> IF w.rest = <<>> THEN w.dir ELSE NoInode,
     through |-> w.through,
     loop |-> w.rest # <<>> /\ Found(e, w) \in Links]

Walk(e, t) ==
    LET walk[w \in Ways] ==
            IF Ended(e, w) THEN Outcome(e, w) ELSE walk[Onward(e, t, w)]
    IN walk

\* Where a path leads, the directories looked into on the way, the last one
\* included, and whether the kernel gives up because of its links.
Resolve(path) == Walk(entry, target)[Begin(path)]

\* What lstat and readlink find: the last name is not followed.
Lstat(path) ==
    IF path = <<>> THEN Root
    ELSE LET parent == Resolve(Front(path)).to IN
         IF parent \in Dirs THEN entry[parent][Last(path)] ELSE NoInode

-----------------------------------------------------------------------------
(* internal_OS_Is_Directory_Secure                                         *)

\* Everybody whose directories the walk accepts.
Trusted == {euid, "root"} \cup (IF euid = "root" THEN {sudouid} ELSE {})

\* Mutant: the permission bits of the directory are not looked at.
OwnerIsEnough(d) == owner[d] \in Trusted

Acceptable(d) == owner[d] \in Trusted /\ d \notin open

Top == stack[Len(stack)]

Step(what) == at' = what /\ UNCHANGED verdict

\* The topmost call returns false; so does every call below it.
Refuse ==
    /\ stack' = <<>>
    /\ at' = "done"
    /\ verdict' = "insecure"

\* Mutant: a loop of symbolic links is not noticed.
EnterUnlimited ==
    /\ at = "enter"
    /\ IF Top.absolute THEN Step("lstat") /\ UNCHANGED stack ELSE Refuse
    /\ UNCHANGED treeVars
    /\ UNCHANGED idVars

\* A path that is not absolute, or lies behind too many links, is refused before
\* anything is allocated.  An allocation that fails refuses it too; when it is
\* that of an element of dirs, the cleanup frees one element past its end.
Enter ==
    /\ at = "enter"
    /\ \/ /\ Top.absolute
          /\ Top.links <= MaxSymlinks
          /\ Step("lstat")
          /\ UNCHANGED stack
       \/ Refuse
       \/ /\ Top.absolute
          /\ Top.links <= MaxSymlinks
          /\ Top.path # <<>>
          /\ stack' = <<>>
          /\ at' = "done"
          /\ verdict' = "crashed"
    /\ UNCHANGED treeVars
    /\ UNCHANGED idVars

\* Mutant: from the leaf to the root.
LeafFirst(frame) == SubSeq(frame.path, 1, Len(frame.path) - frame.i)

\* dirs[i]: dirs[0] is "/", the last element is the path itself.
dirs(frame) == SubSeq(frame.path, 1, frame.i)

\* lstat(dirs[i]) and the decisions on its result.  Whatever is there, lstat or
\* the allocation of the link's buffer may also fail.
Check ==
    LET inode == Lstat(dirs(Top)) IN
    /\ at = "lstat"
    /\ Top.i <= Len(Top.path)
    /\ \/ /\ inode \in Links
          /\ Step("readlink")
          /\ UNCHANGED stack
       \/ /\ inode \in Dirs
          /\ Acceptable(inode)
          /\ stack' = [stack EXCEPT ![Len(stack)].i = @ + 1]
          /\ Step("lstat")
       \/ Refuse
    /\ UNCHANGED treeVars
    /\ UNCHANGED idVars

\* Mutant: num_symlinks is not counted up for the recursive call.
ReadlinkUncounted ==
    LET inode == Lstat(dirs(Top)) IN
    /\ at = "readlink"
    /\ inode \in Links
    /\ stack' = Append(stack, [absolute |-> target[inode].absolute,
                               path |-> target[inode].names, i |-> 0, links |-> Top.links])
    /\ Step("enter")
    /\ UNCHANGED treeVars
    /\ UNCHANGED idVars

\* readlink(dirs[i]) and the recursive call on what it returns.  What was a link
\* at the lstat may have become another one, or none.
Readlink ==
    LET inode == Lstat(dirs(Top)) IN
    /\ at = "readlink"
    /\ \/ /\ inode \in Links
          /\ stack' = Append(stack, [absolute |-> target[inode].absolute,
                                     path |-> target[inode].names, i |-> 0,
                                     links |-> Top.links + 1])
          /\ Step("enter")
       \/ Refuse
    /\ UNCHANGED treeVars
    /\ UNCHANGED idVars

\* Mutant: after the recursive call the same element is looked at again.
ReturnToSameElement ==
    /\ at = "lstat"
    /\ Top.i > Len(Top.path)
    /\ IF Len(stack) = 1
       THEN stack' = <<>> /\ at' = "done" /\ verdict' = "secure"
       ELSE stack' = Front(stack) /\ Step("lstat")
    /\ UNCHANGED treeVars
    /\ UNCHANGED idVars

\* The topmost call has been through all of dirs and returns true; the call that
\* followed a link to it continues with its next element.
Return ==
    /\ at = "lstat"
    /\ Top.i > Len(Top.path)
    /\ \/ /\ Len(stack) = 1
          /\ stack' = <<>>
          /\ at' = "done"
          /\ verdict' = "secure"
       \/ /\ Len(stack) > 1
          /\ stack' = [Front(stack) EXCEPT ![Len(stack) - 1].i = @ + 1]
          /\ Step("lstat")
    /\ UNCHANGED treeVars
    /\ UNCHANGED idVars

os_Is_Directory_Secure ==
    \/ Enter
    \/ Check
    \/ Readlink
    \/ Return

-----------------------------------------------------------------------------
(* Everybody else                                                          *)

\* Some user the walk does not trust may change the entries of d.
Writable(d) == d \in open \/ owner[d] \notin Trusted

Unbound(inode) == \A d \in Dirs, n \in Names : entry[d][n] # inode

\* An entry is taken away: removed, or the first half of a rename.
Detach(d, n) ==
    /\ Writable(d)
    /\ entry[d][n] # NoInode
    /\ entry' = [entry EXCEPT ![d][n] = NoInode]
    /\ UNCHANGED <<owner, open>>

\* Something new, or something detached elsewhere, gets a name.
Place(d, n, inode) ==
    /\ Writable(d)
    /\ entry[d][n] = NoInode
    /\ inode # Root
    /\ Unbound(inode)
    /\ entry' = [entry EXCEPT ![d][n] = inode]
    /\ UNCHANGED <<owner, open>>

\* A user the walk does not trust changes the permissions of its own directory.
Chmod(d) ==
    /\ owner[d] \notin Trusted
    /\ open' = (open \ {d}) \cup ({d} \ open)
    /\ UNCHANGED <<entry, owner>>

\* A trusted user closes its directory to the others.
Tighten(d) ==
    /\ owner[d] \in Trusted
    /\ d \in open
    /\ open' = open \ {d}
    /\ UNCHANGED <<entry, owner>>

\* Bound: what they do to a path that was refused is of no interest.
OtherUsers ==
    /\ verdict \in {"none", "secure"}
    /\ \E d \in Dirs :
          \/ \E n \in Names : Detach(d, n)
          \/ \E n \in Names, inode \in Inodes : Place(d, n, inode)
          \/ Chmod(d)
          \/ Tighten(d)
    /\ UNCHANGED idVars
    /\ UNCHANGED walkVars

Next ==
    \/ os_Is_Directory_Secure
    \/ OtherUsers

\* The walk is a thread of the program: the scheduler runs it again and again
\* whatever the other users do.
Spec == Init /\ [][Next]_vars /\ WF_vars(os_Is_Directory_Secure)

-----------------------------------------------------------------------------
(* Properties                                                              *)

\* An accepted path leads to a directory, unless the links on it are more than
\* the kernel follows, and every directory the kernel looks into on the way -
\* through links too, and at this moment, not only when the walk passed it -
\* belongs to a trusted user and is closed to all others.
AcceptedPathIsProtected ==
    verdict = "secure" =>
        /\ Resolve(asked).to \in Dirs \/ Resolve(asked).loop
        /\ \A d \in Resolve(asked).through : Acceptable(d)

\* From then on nothing another user does makes the path lead elsewhere.
AcceptedPathStaysPut ==
    [][verdict = "secure" => Resolve(asked)' = Resolve(asked)]_vars

\* However the links are arranged and rearranged, the walk is never more than
\* MAX_SYMLINKS_IN_PATH + 1 calls below the first.
RecursionIsBounded == Len(stack) <= MaxSymlinks + 2

\* It ends, links that lead in circles and other users at work included.
WalkEnds == <>(verdict # "none")

=============================================================================
