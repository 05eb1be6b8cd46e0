--------------------------- MODULE SecureFileOpen ---------------------------
(***************************************************************************)
(* secure_Open_File (src/src/secure_file.c), one system call at a time,    *)
(* against a file system other processes are changing.  The checks it      *)
(* makes by name - the file exists, its attributes are the expected ones,  *)
(* its directory is secure - are all out of date by the time fopen runs;   *)
(* what it promises rests on the checks it makes on the open stream.       *)
(* secure_Close_File, secure_Remove_File and free_Secure_File_Info end the *)
(* life of a handle.  Every handle belongs to a thread of its own.         *)
(*                                                                         *)
(* Memory may run out at every allocation, and the installed constraint    *)
(* handler is one that returns (warn or ignore).                           *)
(***************************************************************************)
EXTENDS FileSystem

CONSTANTS
    Handles,
    Requests,      \* the calls of secure_Open_File each handle may be used for
    NoAttributes,  \* a NULL fileAttributes*
    NoRequest      \* the handle has not been asked for

Attributes == [inode : Inodes, owner : Owners]

\* "rx" stands for every mode with an x and no w; "null" for a NULL file name
\* or mode.
Modes == {"r", "r+", "w", "wx", "a", "rx", "null"}

\* extOk: no extension list was given, or the file's extension is in it.
Request == [name : Names, mode : Modes, extOk : BOOLEAN,
            expected : Attributes \cup {NoAttributes},
            unique : Inodes \cup {NoInode}]

ASSUME RequestsAssumption == Requests \in [Handles -> SUBSET Request]
ASSUME NoAttributesAssumption == NoAttributes \notin Attributes
ASSUME NoRequestAssumption == NoRequest \notin Request

VARIABLES
    call,      \* where each handle's secure_Open_File call is
    info,      \* the secureFileInfo it fills in
    stream,    \* the FILE behind the handle
    passesX    \* this build hands the x of mode "wx" on to fopen

handleVars == <<call, info, stream>>
vars == <<entry, owner, parent, call, info, stream, passesX>>

Failed == "SEC_FILE_FAILURE_CLOSING_FILE"

eSecureFileError ==
    {"SEC_FILE_SUCCESS", "SEC_FILE_INVALID_FILE", "SEC_FILE_INVALID_PATH",
     "SEC_FILE_FILE_ALREADY_EXISTS", "SEC_FILE_INVALID_FILE_EXTENSION",
     "SEC_FILE_INVALID_FILE_ATTRIBUTES", "SEC_FILE_INVALID_FILE_UNIQUE_ID",
     "SEC_FILE_INSECURE_PATH", "SEC_FILE_INVALID_MODE", Failed, "SEC_FILE_FAILURE"}

\* The steps of a call in order, and where it can end: "crashed" is a NULL
\* pointer dereference.
Steps == {"resolve", "exists", "compare", "directory", "fopen", "identify"}
Places == Steps \cup {"idle", "returned", "crashed"}

\* Memory the call allocates for itself and has to free before it returns.
Temporaries == {"internalmode", "workingdir", "intFileName", "pathOnly"}

Calls == [at : Places, request : Request \cup {NoRequest},
          temps : SUBSET Temporaries, errno : {"none", "EEXIST", "other"}]

\* fullpath: nothing yet, the directory's path, or the file's.
secureFileInfo ==
    [error : eSecureFileError, isValid : BOOLEAN, file : BOOLEAN,
     fullpath : {"empty", "directory", "file"},
     uniqueID : Inodes \cup {NoInode}, attributes : Attributes \cup {NoAttributes}]

Streams == [state : {"none", "open", "closed"}, inode : Inodes \cup {NoInode}]

NoCall == [at |-> "idle", request |-> NoRequest, temps |-> {}, errno |-> "none"]

\* safe_calloc's zeroes; error code 0 is SEC_FILE_SUCCESS.
BlankInfo == [error |-> "SEC_FILE_SUCCESS", isValid |-> FALSE, file |-> FALSE,
              fullpath |-> "empty", uniqueID |-> NoInode, attributes |-> NoAttributes]

NoStream == [state |-> "none", inode |-> NoInode]

TypeOK ==
    /\ FsTypeOK
    /\ call \in [Handles -> Calls]
    /\ info \in [Handles -> secureFileInfo]
    /\ stream \in [Handles -> Streams]
    /\ passesX \in BOOLEAN

Init ==
    /\ FsInit
    /\ call = [h \in Handles |-> NoCall]
    /\ info = [h \in Handles |-> BlankInfo]
    /\ stream = [h \in Handles |-> NoStream]
    /\ passesX \in BOOLEAN

\* Inodes some stream keeps alive.
Held == {stream[h].inode : h \in {k \in Handles : stream[k].state = "open"}}

Creating(r) == r.mode \in {"w", "wx", "a"}
Exclusive(r) == r.mode = "wx"

-----------------------------------------------------------------------------
(* Moving a call along                                                     *)

At(h, step) == call[h].at = step

Continue(h, step) == call' = [call EXCEPT ![h].at = step]

\* Return with error e after freeing some of the temporaries.
Return(h, e, freed) ==
    /\ call' = [call EXCEPT ![h].at = "returned", ![h].temps = @ \ freed]
    /\ info' = [info EXCEPT ![h].error = e]

\* From the moment the full path is known every return frees all of them.
ReturnClean(h, e) == Return(h, e, Temporaries)

Crash(h) ==
    /\ Continue(h, "crashed")
    /\ UNCHANGED info

-----------------------------------------------------------------------------
(* secure_Open_File                                                        *)

\* A build whose fopen lacks x takes it out of a copy of the mode.
ModeCopy(r) == IF Exclusive(r) /\ ~passesX THEN {"internalmode"} ELSE {}

\* Everything up to get_Full_Path, which only touches the caller's memory.
OpenBegin(h) ==
    /\ At(h, "idle")
    /\ \E r \in Requests[h], t \in SUBSET Temporaries :
          /\ \/ /\ r.mode = "null"
                /\ t = {}
                /\ info' = [info EXCEPT ![h].error = "SEC_FILE_FAILURE"]
             \/ /\ r.mode = "rx" \/ ModeCopy(r) # {}
                /\ t = {}
                /\ info' = [info EXCEPT ![h].error = "SEC_FILE_INVALID_MODE"]
             \* no memory for the name, or no working directory to put before it
             \/ /\ r.mode \notin {"null", "rx"}
                /\ t \in {ModeCopy(r), ModeCopy(r) \cup
                            (IF Creating(r) THEN {"workingdir"} ELSE {})}
                /\ info' = [info EXCEPT ![h].error = "SEC_FILE_INVALID_PATH"]
             \/ /\ r.mode \notin {"null", "rx"}
                /\ t = ModeCopy(r) \cup {"intFileName"}
                /\ UNCHANGED info
          /\ call' = [call EXCEPT ![h] =
                [at |-> IF "intFileName" \in t THEN "resolve" ELSE "returned",
                 request |-> r, temps |-> t, errno |-> "none"]]
    /\ UNCHANGED <<stream, passesX>>
    /\ UNCHANGED fsVars

\* get_Full_Path: of the directory when the file is to be created, of the file
\* itself otherwise.  Failing here frees the name but not the copy of the mode.
OpenResolve(h) ==
    LET r == call[h].request
        found == IF Creating(r) THEN parent # "missing" ELSE Lookup(r.name) # NoInode IN
    /\ At(h, "resolve")
    /\ \/ /\ found
          /\ Continue(h, "exists")
          /\ info' = [info EXCEPT ![h].fullpath =
                        IF Creating(r) THEN "directory" ELSE "file"]
       \/ Return(h, "SEC_FILE_INVALID_PATH", {"intFileName"})
    /\ UNCHANGED <<stream, passesX>>
    /\ UNCHANGED fsVars

\* os_File_Exists on what was resolved, which for an exclusive create is the
\* directory; it also answers no when it runs out of memory.
OpenExists(h) ==
    LET r == call[h].request
        regular == IF Creating(r) THEN parent = "regular" ELSE Lookup(r.name) \in Regular IN
    /\ At(h, "exists")
    /\ \E exists \in {FALSE, regular} :
          \/ /\ Exclusive(r) /\ exists
             /\ ReturnClean(h, "SEC_FILE_FILE_ALREADY_EXISTS")
          \/ /\ ~Creating(r) /\ ~exists
             /\ ReturnClean(h, "SEC_FILE_INVALID_FILE")
          \/ /\ IF Creating(r) THEN ~(Exclusive(r) /\ exists) ELSE exists
             /\ Continue(h, "compare")
             /\ UNCHANGED info
    /\ UNCHANGED <<stream, passesX>>
    /\ UNCHANGED fsVars

\* os_Get_File_Attributes_By_Name: NULL for a file that is gone, or for lack of
\* memory.
AttributesByName(name) ==
    {NoAttributes} \cup
    (IF Lookup(name) = NoInode THEN {}
     ELSE {[inode |-> Lookup(name), owner |-> owner[Lookup(name)]]})

\* Creating: put the file's name behind the directory's, which may not fit.
\* Otherwise: the extension, then the attributes the name has now.
OpenCompare(h) ==
    LET r == call[h].request IN
    /\ At(h, "compare")
    /\ \/ /\ Creating(r)
          /\ Continue(h, "directory")
          /\ info' = [info EXCEPT ![h].fullpath = "file"]
       \/ /\ Creating(r)
          /\ ReturnClean(h, "SEC_FILE_INVALID_PATH")
       \/ /\ ~Creating(r) /\ ~r.extOk
          /\ ReturnClean(h, "SEC_FILE_INVALID_FILE_EXTENSION")
       \/ /\ ~Creating(r) /\ r.extOk
          /\ \E before \in AttributesByName(r.name) :
                \/ /\ r.expected = NoAttributes \/ before = r.expected
                   /\ Continue(h, "directory")
                   /\ UNCHANGED info
                \/ /\ r.expected # NoAttributes /\ before \notin {r.expected, NoAttributes}
                   /\ ReturnClean(h, "SEC_FILE_INVALID_FILE_ATTRIBUTES")
                \/ /\ r.expected # NoAttributes /\ before = NoAttributes
                   /\ Crash(h)
    /\ UNCHANGED <<stream, passesX>>
    /\ UNCHANGED fsVars

\* os_Is_Directory_Secure on the path without the file's name; it also refuses
\* when it runs out of memory.
OpenDirectory(h) ==
    /\ At(h, "directory")
    /\ \/ /\ parent = "secure"
          /\ call' = [call EXCEPT ![h].at = "fopen", ![h].temps = @ \cup {"pathOnly"}]
          /\ UNCHANGED info
       \/ ReturnClean(h, "SEC_FILE_INSECURE_PATH")
    /\ UNCHANGED <<stream, passesX>>
    /\ UNCHANGED fsVars

\* Mutant: x is taken out on every build.
FopenModeLosesX(r) == IF Exclusive(r) THEN "w" ELSE r.mode

\* The mode that reaches fopen.
FopenMode(r) == IF Exclusive(r) /\ ~passesX THEN "w" ELSE r.mode

\* The inodes fopen may open or create for the request.
Openable(r) ==
    LET there == Lookup(r.name) IN
    CASE there # NoInode /\ FopenMode(r) = "wx" -> {}
      [] there # NoInode /\ FopenMode(r) = "r"  -> {there}
      [] there # NoInode /\ FopenMode(r) \in {"r+", "w", "a"} -> {there} \cap Regular
      [] there = NoInode /\ Creating(r) /\ parent \in Directories -> Unused(Held) \cap Regular
      [] OTHER -> {}

OpenFopen(h) ==
    LET r == call[h].request IN
    /\ At(h, "fopen")
    /\ \/ \E i \in Openable(r) :
             /\ Bind(r.name, i)
             /\ stream' = [stream EXCEPT ![h] = [state |-> "open", inode |-> i]]
             /\ info' = [info EXCEPT ![h].file = TRUE]
             /\ Continue(h, "identify")
       \/ /\ call' = [call EXCEPT ![h].at = "returned", ![h].temps = {},
                        ![h].errno = IF FopenMode(r) = "wx" /\ Lookup(r.name) # NoInode
                                     THEN "EEXIST" ELSE "other"]
          /\ info' = [info EXCEPT ![h].error = "SEC_FILE_FAILURE"]
          /\ UNCHANGED <<entry, stream>>
    /\ UNCHANGED <<owner, parent, passesX>>

\* Mutant: the attributes are asked for by the name once more, with stat.
AttributesByOpenName(h) == AttributesByName(call[h].request.name)

\* Mutant: stat of the name, of which only the owner is taken.
OwnerByOpenName(h) ==
    LET there == Lookup(call[h].request.name) IN
    {[inode |-> there, owner |-> IF there = NoInode THEN owner[stream[h].inode]
                                 ELSE owner[there]]}

\* fstat on the open stream: NULL for lack of memory.
AttributesByFile(h) ==
    {NoAttributes, [inode |-> stream[h].inode, owner |-> owner[stream[h].inode]]}

\* Mutant: the return that forgets fclose.
ReturnWithoutClose(h, e, attributes, uniqueID) ==
    /\ call' = [call EXCEPT ![h].at = "returned", ![h].temps = {}]
    /\ info' = [info EXCEPT ![h].error = e, ![h].uniqueID = uniqueID,
                            ![h].attributes = attributes]
    /\ UNCHANGED stream

\* Refuse an open stream: close it and return e.
CloseAndReturn(h, e, attributes, uniqueID) ==
    /\ stream' = [stream EXCEPT ![h].state = "closed"]
    /\ call' = [call EXCEPT ![h].at = "returned", ![h].temps = {}]
    /\ info' = [info EXCEPT ![h].error = e, ![h].file = FALSE,
                            ![h].uniqueID = uniqueID, ![h].attributes = attributes]

\* Mutant: the attributes found before fopen are trusted for the stream.
IdentifyTrustsCompare(h) ==
    LET r == call[h].request IN
    /\ At(h, "identify")
    /\ \E uniqueID \in {NoInode, stream[h].inode}, attributes \in AttributesByFile(h) :
          \/ /\ r.unique # NoInode /\ uniqueID # r.unique
             /\ CloseAndReturn(h, "SEC_FILE_INVALID_FILE_UNIQUE_ID", NoAttributes, uniqueID)
          \/ /\ r.unique = NoInode \/ uniqueID = r.unique
             /\ attributes # NoAttributes
             /\ call' = [call EXCEPT ![h].at = "returned", ![h].temps = {}]
             /\ info' = [info EXCEPT ![h].isValid = TRUE, ![h].uniqueID = uniqueID,
                                     ![h].attributes = attributes]
             /\ UNCHANGED stream
    /\ UNCHANGED passesX
    /\ UNCHANGED fsVars

\* The checks on the open stream: its unique ID, then its attributes.
OpenIdentify(h) ==
    LET r == call[h].request IN
    /\ At(h, "identify")
    /\ \E uniqueID \in {NoInode, stream[h].inode}, attributes \in AttributesByFile(h) :
          \/ /\ r.unique # NoInode /\ uniqueID # r.unique
             /\ CloseAndReturn(h, "SEC_FILE_INVALID_FILE_UNIQUE_ID", NoAttributes, uniqueID)
          \/ /\ r.unique = NoInode \/ uniqueID = r.unique
             /\ attributes = NoAttributes
             /\ Crash(h)
             /\ UNCHANGED stream
          \/ /\ r.unique = NoInode \/ uniqueID = r.unique
             /\ attributes # NoAttributes
             /\ r.expected # NoAttributes /\ attributes # r.expected
             /\ CloseAndReturn(h, "SEC_FILE_INVALID_FILE_ATTRIBUTES", attributes, uniqueID)
          \/ /\ r.unique = NoInode \/ uniqueID = r.unique
             /\ attributes # NoAttributes
             /\ r.expected = NoAttributes \/ attributes = r.expected
             /\ call' = [call EXCEPT ![h].at = "returned", ![h].temps = {}]
             /\ info' = [info EXCEPT ![h].isValid = TRUE, ![h].uniqueID = uniqueID,
                                     ![h].attributes = attributes]
             /\ UNCHANGED stream
    /\ UNCHANGED passesX
    /\ UNCHANGED fsVars

secure_Open_File(h) ==
    \/ OpenBegin(h)
    \/ OpenResolve(h)
    \/ OpenExists(h)
    \/ OpenCompare(h)
    \/ OpenDirectory(h)
    \/ OpenFopen(h)
    \/ OpenIdentify(h)

-----------------------------------------------------------------------------
(* The end of a handle                                                     *)

\* SecureFileStream has the other calls; a caller does not close a handle again
\* once that failed.
secure_Close_File(h) ==
    /\ At(h, "returned")
    /\ info[h].error # Failed
    /\ \/ /\ info[h].file
          /\ stream' = [stream EXCEPT ![h].state = "closed"]
          /\ \/ info' = [info EXCEPT ![h].error = "SEC_FILE_SUCCESS", ![h].file = FALSE]
             \/ info' = [info EXCEPT ![h].error = Failed]
       \/ /\ ~info[h].file
          /\ info' = [info EXCEPT ![h].error = "SEC_FILE_SUCCESS"]
          /\ UNCHANGED stream
    /\ UNCHANGED <<call, passesX>>
    /\ UNCHANGED fsVars

\* unlink for an open handle, remove for one that is not: both act on whatever
\* the path leads to now.  (A handle whose open ended with the directory's path
\* in fullpath is not asked to remove it.)
secure_Remove_File(h) ==
    LET name == call[h].request.name IN
    /\ At(h, "returned")
    /\ info[h].error # Failed
    /\ info[h].fullpath # "directory"
    /\ \/ /\ info[h].fullpath = "file"
          /\ Lookup(name) # NoInode
          /\ info[h].file => Lookup(name) \in Regular
          /\ Bind(name, NoInode)
          /\ info' = [info EXCEPT ![h].error = "SEC_FILE_SUCCESS"]
       \/ /\ info[h].fullpath = "file"
          /\ info' = [info EXCEPT ![h].error = "SEC_FILE_FAILURE"]
          /\ UNCHANGED entry
       \/ /\ info[h].fullpath = "empty"
          /\ info' = [info EXCEPT ![h].error = "SEC_FILE_INVALID_PATH"]
          /\ UNCHANGED entry
    /\ UNCHANGED <<owner, parent, call, stream, passesX>>

\* free_Secure_File_Info, which does not close the stream: the caller has.
free_Secure_File_Info(h) ==
    /\ At(h, "returned")
    /\ stream[h].state # "open"
    /\ call' = [call EXCEPT ![h] = NoCall]
    /\ info' = [info EXCEPT ![h] = BlankInfo]
    /\ stream' = [stream EXCEPT ![h] = NoStream]
    /\ UNCHANGED passesX
    /\ UNCHANGED fsVars

-----------------------------------------------------------------------------

HandleStep(h) ==
    \/ secure_Open_File(h)
    \/ secure_Close_File(h)
    \/ secure_Remove_File(h)
    \/ free_Secure_File_Info(h)

Environment ==
    /\ OtherProcesses(Held)
    /\ UNCHANGED <<call, info, stream, passesX>>

Next ==
    \/ \E h \in Handles : HandleStep(h)
    \/ Environment

Spec == Init /\ [][Next]_vars

-----------------------------------------------------------------------------
(* Properties                                                              *)

Open(h) == At(h, "returned") /\ stream[h].state = "open"

\* Whatever other processes did to the name, its owner or the directory between
\* the checks, a handle that is open is open on the file the caller described.
OpenedAsRequested ==
    \A h \in Handles : Open(h) =>
        LET r == call[h].request IN
        /\ r.unique # NoInode => stream[h].inode = r.unique
        /\ r.expected # NoAttributes => /\ stream[h].inode = r.expected.inode
                                        /\ info[h].attributes = r.expected

\* The identity a handle carries away, for its caller to reopen the file with,
\* is that of the stream it holds and not of what the name led to at some time.
IdentityIsOfStream ==
    \A h \in Handles : Open(h) =>
        /\ info[h].file /\ info[h].isValid
        /\ stream[h].inode \in Inodes
        /\ info[h].uniqueID \in {NoInode, stream[h].inode}
        /\ info[h].attributes \in Attributes
        /\ info[h].attributes.inode = stream[h].inode

\* An open that was refused, at whichever of its many returns, holds no stream,
\* and has freed its memory except on the returns that precede the full path.
RefusalHoldsNothing ==
    \A h \in Handles : At(h, "returned") =>
        /\ ~info[h].isValid => ~info[h].file /\ stream[h].state # "open"
        /\ call[h].temps # {} => /\ info[h].fullpath = "empty"
                                 /\ ~info[h].isValid

\* Two exclusive creates of one name, however they interleave with each other
\* and with other processes, never both get the file.
ExclusiveCreateOnce ==
    \A h, k \in Handles :
        /\ h # k /\ Open(h) /\ Open(k) /\ passesX
        /\ Exclusive(call[h].request) /\ Exclusive(call[k].request)
        => stream[h].inode # stream[k].inode

\* secure_file.h on SEC_FILE_FILE_ALREADY_EXISTS: attempting to write and create
\* a file that already exists.
ExistingFileIsReported ==
    \A h \in Handles : At(h, "returned") /\ call[h].errno = "EEXIST"
        => info[h].error = "SEC_FILE_FILE_ALREADY_EXISTS"

=============================================================================
