------------------------ MODULE SecureFileOpenProofs ------------------------
(***************************************************************************)
(* Proofs about SecureFileOpen for any number of handles, names, inodes    *)
(* and requests, whatever other processes do to the file system; and about *)
(* SecureFileDelete, which runs beside them.                               *)
(***************************************************************************)
EXTENDS SecureFileDelete, TLAPS

-----------------------------------------------------------------------------
(* Types                                                                   *)

LEMMA MoveType ==
    ASSUME TypeOK, NEW h \in Handles, NEW step \in Places
    PROVE  /\ [call EXCEPT ![h].at = step] \in [Handles -> Calls]
           /\ \A temps \in SUBSET Temporaries :
                [call EXCEPT ![h].at = step, ![h].temps = temps] \in [Handles -> Calls]
           /\ \A temps \in SUBSET Temporaries, errno \in {"none", "EEXIST", "other"} :
                [call EXCEPT ![h].at = step, ![h].temps = temps, ![h].errno = errno]
                  \in [Handles -> Calls]
<1>1. call \in [Handles -> Calls] /\ call[h] \in Calls
  BY DEF TypeOK
<1> DEFINE c == call[h]
<1>2. [c EXCEPT !.at = step] \in Calls
  BY <1>1 DEF Calls
<1>3. \A temps \in SUBSET Temporaries : [c EXCEPT !.at = step, !.temps = temps] \in Calls
  BY <1>1 DEF Calls
<1>4. \A temps \in SUBSET Temporaries, errno \in {"none", "EEXIST", "other"} :
        [c EXCEPT !.at = step, !.temps = temps, !.errno = errno] \in Calls
  BY <1>1 DEF Calls
<1>5. QED
  BY <1>1, <1>2, <1>3, <1>4

LEMMA InfoType ==
    ASSUME TypeOK, NEW h \in Handles
    PROVE  /\ \A e \in eSecureFileError :
                [info EXCEPT ![h].error = e] \in [Handles -> secureFileInfo]
           /\ \A path \in {"empty", "directory", "file"} :
                [info EXCEPT ![h].fullpath = path] \in [Handles -> secureFileInfo]
           /\ \A file \in BOOLEAN :
                [info EXCEPT ![h].file = file] \in [Handles -> secureFileInfo]
           /\ \A e \in eSecureFileError, file \in BOOLEAN :
                [info EXCEPT ![h].error = e, ![h].file = file] \in [Handles -> secureFileInfo]
<1>1. info \in [Handles -> secureFileInfo] /\ info[h] \in secureFileInfo
  BY DEF TypeOK
<1> DEFINE i == info[h]
<1>2. /\ \A e \in eSecureFileError : [i EXCEPT !.error = e] \in secureFileInfo
      /\ \A path \in {"empty", "directory", "file"} :
           [i EXCEPT !.fullpath = path] \in secureFileInfo
      /\ \A file \in BOOLEAN : [i EXCEPT !.file = file] \in secureFileInfo
  BY <1>1 DEF secureFileInfo
<1>3. \A e \in eSecureFileError, file \in BOOLEAN :
        [i EXCEPT !.error = e, !.file = file] \in secureFileInfo
  BY <1>1 DEF secureFileInfo
<1>4. QED
  BY <1>1, <1>2, <1>3

LEMMA IdentityType ==
    ASSUME TypeOK, NEW h \in Handles, NEW uniqueID \in Inodes \cup {NoInode},
           NEW attributes \in Attributes \cup {NoAttributes}
    PROVE  /\ \A e \in eSecureFileError :
                [info EXCEPT ![h].error = e, ![h].file = FALSE, ![h].uniqueID = uniqueID,
                             ![h].attributes = attributes] \in [Handles -> secureFileInfo]
           /\ [info EXCEPT ![h].isValid = TRUE, ![h].uniqueID = uniqueID,
                           ![h].attributes = attributes] \in [Handles -> secureFileInfo]
<1>1. info \in [Handles -> secureFileInfo] /\ info[h] \in secureFileInfo
  BY DEF TypeOK
<1> DEFINE i == info[h]
<1>2. \A e \in eSecureFileError :
        [i EXCEPT !.error = e, !.file = FALSE, !.uniqueID = uniqueID,
                  !.attributes = attributes] \in secureFileInfo
  BY <1>1 DEF secureFileInfo
<1>3. [i EXCEPT !.isValid = TRUE, !.uniqueID = uniqueID, !.attributes = attributes]
        \in secureFileInfo
  BY <1>1 DEF secureFileInfo
<1>4. QED
  BY <1>1, <1>2, <1>3

LEMMA StreamType ==
    ASSUME TypeOK, NEW h \in Handles
    PROVE  /\ [stream EXCEPT ![h].state = "closed"] \in [Handles -> Streams]
           /\ \A i \in Inodes : [stream EXCEPT ![h] = [state |-> "open", inode |-> i]]
                                 \in [Handles -> Streams]
           /\ [stream EXCEPT ![h] = NoStream] \in [Handles -> Streams]
  BY DEF TypeOK, Streams, NoStream

-----------------------------------------------------------------------------
(* The invariant of one handle                                             *)

Early == {"idle", "resolve", "exists", "compare", "directory", "fopen"}

\* Before fopen there is nothing to lose.
EarlyInv(h) ==
    call[h].at \in Early => /\ ~info[h].file /\ ~info[h].isValid
                            /\ stream[h].state = "none"

\* The directory or file name is only known once get_Full_Path has answered.
PathInv(h) == call[h].at \in {"idle", "resolve"} => info[h].fullpath = "empty"

\* The stream that is being identified is open and not yet called valid.
IdentifyInv(h) ==
    call[h].at = "identify" => /\ info[h].file /\ ~info[h].isValid
                               /\ stream[h].state = "open" /\ stream[h].inode \in Inodes

\* Only a close that failed leaves its error.
ErrorInv(h) == call[h].at # "returned" => info[h].error # Failed

\* What each of the properties says of one handle.
Requested(h) ==
    LET r == call[h].request IN
    /\ r.unique # NoInode => stream[h].inode = r.unique
    /\ r.expected # NoAttributes => /\ stream[h].inode = r.expected.inode
                                    /\ info[h].attributes = r.expected

Identified(h) ==
    /\ info[h].file /\ info[h].isValid
    /\ stream[h].inode \in Inodes
    /\ info[h].uniqueID \in {NoInode, stream[h].inode}
    /\ info[h].attributes \in Attributes
    /\ info[h].attributes.inode = stream[h].inode

Freed(h) == call[h].temps # {} => info[h].fullpath = "empty" /\ ~info[h].isValid

ReturnedInv(h) ==
    call[h].at = "returned" =>
        /\ stream[h].state = "open" <=> info[h].file /\ info[h].error # Failed
        /\ stream[h].state = "open" => Requested(h) /\ Identified(h)
        /\ ~info[h].isValid => ~info[h].file
        /\ Freed(h)

HandleInv(h) == /\ EarlyInv(h)
                /\ PathInv(h)
                /\ IdentifyInv(h)
                /\ ErrorInv(h)
                /\ ReturnedInv(h)

OpenInv == \A h \in Handles : HandleInv(h)

LEMMA OpenInvImplies ==
    TypeOK /\ OpenInv => OpenedAsRequested /\ IdentityIsOfStream /\ RefusalHoldsNothing
<1> SUFFICES ASSUME TypeOK, OpenInv
             PROVE  OpenedAsRequested /\ IdentityIsOfStream /\ RefusalHoldsNothing
  OBVIOUS
<1> USE DEF OpenInv, HandleInv, ReturnedInv, At, Open
<1>1. OpenedAsRequested
  BY DEF OpenedAsRequested, Requested
<1>2. IdentityIsOfStream
  BY DEF IdentityIsOfStream, Identified
<1>3. RefusalHoldsNothing
  BY DEF RefusalHoldsNothing, Freed, Identified
<1>4. QED
  BY <1>1, <1>2, <1>3

\* A step of h that keeps the types and the invariant of h, and leaves the
\* other handles alone.
Others(h) == \A k \in Handles \ {h} : /\ call'[k] = call[k]
                                      /\ info'[k] = info[k]
                                      /\ stream'[k] = stream[k]

StepOK(h) == TypeOK' /\ HandleInv(h)' /\ Others(h)

LEMMA OthersKeep ==
    ASSUME NEW h \in Handles, HandleInv(h), call'[h] = call[h], info'[h] = info[h],
           stream'[h] = stream[h]
    PROVE  HandleInv(h)'
  BY DEF HandleInv, EarlyInv, PathInv, IdentifyInv, ErrorInv, ReturnedInv, Requested,
         Identified, Freed

-----------------------------------------------------------------------------
(* secure_Open_File                                                        *)

\* The call goes on, still without a stream; the path may have become known.
LEMMA ContinueOK ==
    ASSUME TypeOK, FsTypeOK', NEW h \in Handles, HandleInv(h),
           call[h].at \in Early, NEW step \in Early \ {"idle", "resolve"},
           NEW temps \in SUBSET Temporaries,
           call' = [call EXCEPT ![h].at = step] \/
             call' = [call EXCEPT ![h].at = step, ![h].temps = temps],
           NEW path \in {"empty", "directory", "file"},
           UNCHANGED info \/ info' = [info EXCEPT ![h].fullpath = path],
           UNCHANGED <<stream, passesX>>
    PROVE  StepOK(h)
<1>1. step \in Places
  BY DEF Early, Places, Steps
<1>2. call' \in [Handles -> Calls] /\ info' \in [Handles -> secureFileInfo]
  <2>1. call' \in [Handles -> Calls]
    <3>1. CASE call' = [call EXCEPT ![h].at = step]
      BY <1>1, <3>1, MoveType
    <3>2. CASE call' = [call EXCEPT ![h].at = step, ![h].temps = temps]
      BY <1>1, <3>2, MoveType
    <3>3. QED
      BY <3>1, <3>2
  <2>2. info' \in [Handles -> secureFileInfo]
    <3>1. CASE UNCHANGED info
      BY <3>1 DEF TypeOK
    <3>2. CASE info' = [info EXCEPT ![h].fullpath = path]
      BY <3>2, InfoType
    <3>3. QED
      BY <3>1, <3>2
  <2>3. QED
    BY <2>1, <2>2
<1>3. call'[h].at = step
  BY DEF TypeOK, Calls
<1>4. /\ info'[h].file = info[h].file /\ info'[h].isValid = info[h].isValid
      /\ info'[h].error = info[h].error /\ stream'[h] = stream[h]
  BY DEF TypeOK, secureFileInfo
<1>5. TypeOK'
  BY <1>2 DEF TypeOK
<1>6. HandleInv(h)'
  BY <1>3, <1>4 DEF HandleInv, EarlyInv, PathInv, IdentifyInv, ErrorInv, ReturnedInv, Early
<1>7. Others(h)
  BY DEF Others, TypeOK
<1>8. QED
  BY <1>5, <1>6, <1>7 DEF StepOK

\* The call returns an error without ever having had a stream.
LEMMA ReturnOK ==
    ASSUME TypeOK, FsTypeOK', NEW h \in Handles, HandleInv(h), call[h].at \in Early,
           NEW e \in eSecureFileError \ {Failed}, NEW freed \in SUBSET Temporaries,
           freed = Temporaries \/ info[h].fullpath = "empty",
           Return(h, e, freed), UNCHANGED <<stream, passesX>>
    PROVE  StepOK(h)
<1>1. call[h] \in Calls /\ call[h].temps \ freed \in SUBSET Temporaries
  BY DEF TypeOK, Calls
<1>2. call' = [call EXCEPT ![h].at = "returned", ![h].temps = call[h].temps \ freed]
  BY DEF Return, TypeOK
<1>3. call' \in [Handles -> Calls]
  BY <1>1, <1>2, MoveType DEF Places
<1>4. info' \in [Handles -> secureFileInfo]
  BY InfoType DEF Return
<1>5. call'[h].at = "returned" /\ call'[h].temps = call[h].temps \ freed
  BY <1>1, <1>2 DEF TypeOK, Calls
<1>6. /\ info'[h].file = info[h].file /\ info'[h].isValid = info[h].isValid
      /\ info'[h].fullpath = info[h].fullpath
      /\ info'[h].error = e /\ stream'[h] = stream[h]
  BY DEF Return, TypeOK, secureFileInfo
<1>7. TypeOK'
  BY <1>3, <1>4 DEF TypeOK
<1>8. HandleInv(h)'
  <2>1. Freed(h)'
    BY <1>1, <1>5, <1>6 DEF Freed, HandleInv, EarlyInv
  <2>2. QED
    BY <1>5, <1>6, <2>1 DEF HandleInv, EarlyInv, PathInv, IdentifyInv, ErrorInv,
                            ReturnedInv, Early
<1>9. Others(h)
  BY <1>2 DEF Others, Return, TypeOK
<1>10. QED
  BY <1>7, <1>8, <1>9 DEF StepOK

\* A NULL pointer dereference ends everything; nothing is claimed after it.
LEMMA CrashOK ==
    ASSUME TypeOK, FsTypeOK', NEW h \in Handles, HandleInv(h), call[h].at # "returned",
           Crash(h), UNCHANGED <<stream, passesX>>
    PROVE  StepOK(h)
<1>1. call' = [call EXCEPT ![h].at = "crashed"]
  BY DEF Crash, Continue
<1>2. call' \in [Handles -> Calls] /\ info' = info
  BY <1>1, MoveType DEF Places, Crash
<1>3. call'[h].at = "crashed"
  BY <1>1 DEF TypeOK, Calls
<1>4. TypeOK'
  BY <1>2 DEF TypeOK
<1>5. HandleInv(h)'
  BY <1>2, <1>3 DEF HandleInv, EarlyInv, PathInv, IdentifyInv, ErrorInv, ReturnedInv, Early
<1>6. Others(h)
  BY <1>1, <1>2 DEF Others, TypeOK
<1>7. QED
  BY <1>4, <1>5, <1>6 DEF StepOK

LEMMA FsSame == FsTypeOK /\ UNCHANGED fsVars => FsTypeOK'
  BY DEF FsTypeOK, fsVars

LEMMA FsBind ==
    ASSUME FsTypeOK, NEW name \in Names, NEW inode \in Inodes \cup {NoInode},
           Bind(name, inode), UNCHANGED <<owner, parent>>
    PROVE  FsTypeOK'
  BY DEF FsTypeOK, Bind

LEMMA OpenBeginOK ==
    ASSUME TypeOK, NEW h \in Handles, HandleInv(h), OpenBegin(h)
    PROVE  StepOK(h)
<1>1. call[h].at = "idle" /\ UNCHANGED <<stream, passesX>> /\ FsTypeOK'
  BY FsSame DEF OpenBegin, At, TypeOK
<1>2. PICK r \in Requests[h], t \in SUBSET Temporaries :
        /\ \/ /\ t = {}
              /\ \E e \in {"SEC_FILE_FAILURE", "SEC_FILE_INVALID_MODE"} :
                    info' = [info EXCEPT ![h].error = e]
           \/ /\ "intFileName" \notin t
              /\ info' = [info EXCEPT ![h].error = "SEC_FILE_INVALID_PATH"]
           \/ /\ "intFileName" \in t
              /\ UNCHANGED info
        /\ call' = [call EXCEPT ![h] =
              [at |-> IF "intFileName" \in t THEN "resolve" ELSE "returned",
               request |-> r, temps |-> t, errno |-> "none"]]
  BY DEF OpenBegin, ModeCopy
<1> DEFINE c == [at |-> IF "intFileName" \in t THEN "resolve" ELSE "returned",
                 request |-> r, temps |-> t, errno |-> "none"]
<1>3. c \in Calls
  BY RequestsAssumption DEF Calls, Places, Steps
<1>4. call' \in [Handles -> Calls] /\ call'[h] = c
  BY <1>2, <1>3 DEF TypeOK
<1>5. PICK e \in eSecureFileError \ {Failed} :
        /\ \/ UNCHANGED info /\ "intFileName" \in t
           \/ info' = [info EXCEPT ![h].error = e] /\ "intFileName" \notin t
  BY <1>2 DEF eSecureFileError, Failed
<1>6. info' \in [Handles -> secureFileInfo]
  <2>1. CASE UNCHANGED info
    BY <2>1 DEF TypeOK
  <2>2. CASE info' = [info EXCEPT ![h].error = e]
    BY <2>2, InfoType
  <2>3. QED
    BY <1>5, <2>1, <2>2
<1>7. TypeOK'
  BY <1>1, <1>4, <1>6 DEF TypeOK
<1>8. /\ info'[h].file = info[h].file /\ info'[h].isValid = info[h].isValid
      /\ info'[h].fullpath = info[h].fullpath /\ stream'[h] = stream[h]
      /\ info'[h].error \in {info[h].error, e}
  BY <1>1, <1>5 DEF TypeOK, secureFileInfo
<1>9. HandleInv(h)'
  BY <1>1, <1>4, <1>5, <1>8
     DEF HandleInv, EarlyInv, PathInv, IdentifyInv, ErrorInv, ReturnedInv, Early, Freed
<1>10. Others(h)
  BY <1>1, <1>2, <1>5 DEF Others, TypeOK
<1>11. QED
  BY <1>7, <1>9, <1>10 DEF StepOK

LEMMA Errors ==
    /\ "SEC_FILE_INVALID_PATH" \in eSecureFileError \ {Failed}
    /\ "SEC_FILE_INVALID_FILE" \in eSecureFileError \ {Failed}
    /\ "SEC_FILE_FILE_ALREADY_EXISTS" \in eSecureFileError \ {Failed}
    /\ "SEC_FILE_INVALID_FILE_EXTENSION" \in eSecureFileError \ {Failed}
    /\ "SEC_FILE_INVALID_FILE_ATTRIBUTES" \in eSecureFileError \ {Failed}
    /\ "SEC_FILE_INVALID_FILE_UNIQUE_ID" \in eSecureFileError \ {Failed}
    /\ "SEC_FILE_INSECURE_PATH" \in eSecureFileError \ {Failed}
    /\ "SEC_FILE_FAILURE" \in eSecureFileError \ {Failed}
    /\ "SEC_FILE_SUCCESS" \in eSecureFileError \ {Failed}
  BY DEF eSecureFileError, Failed

\* get_Full_Path, os_File_Exists, the comparison by name and the check of the
\* directory each go on or return, and have no stream to lose.
LEMMA ByNameOK ==
    ASSUME TypeOK, NEW h \in Handles, HandleInv(h),
           OpenResolve(h) \/ OpenExists(h) \/ OpenCompare(h) \/ OpenDirectory(h)
    PROVE  StepOK(h)
<1> DEFINE path == IF Creating(call[h].request) THEN "directory" ELSE "file"
<1>1. FsTypeOK' /\ UNCHANGED <<stream, passesX>>
  BY FsSame DEF OpenResolve, OpenExists, OpenCompare, OpenDirectory, TypeOK
<1>2. CASE OpenResolve(h)
  <2>1. call[h].at \in Early /\ info[h].fullpath = "empty"
    BY <1>2 DEF OpenResolve, At, Early, HandleInv, PathInv
  <2>2. CASE Return(h, "SEC_FILE_INVALID_PATH", {"intFileName"})
    BY <1>1, <2>1, <2>2, ReturnOK, Errors DEF Temporaries
  <2>3. CASE Continue(h, "exists") /\ info' = [info EXCEPT ![h].fullpath = path]
    <3>1. "exists" \in Early \ {"idle", "resolve"}
          /\ path \in {"empty", "directory", "file"}
      BY DEF Early
    <3>2. call' = [call EXCEPT ![h].at = "exists"]
      BY <2>3 DEF Continue
    <3>3. QED
      BY <1>1, <2>1, <2>3, <3>1, <3>2, ContinueOK
  <2>4. QED
    BY <1>2, <2>2, <2>3 DEF OpenResolve
<1>3. CASE OpenExists(h)
  <2>1. call[h].at \in Early
    BY <1>3 DEF OpenExists, At, Early
  <2>2. CASE \E e \in {"SEC_FILE_FILE_ALREADY_EXISTS", "SEC_FILE_INVALID_FILE"} :
               ReturnClean(h, e)
    BY <1>1, <2>1, <2>2, ReturnOK, Errors DEF ReturnClean
  <2>3. CASE Continue(h, "compare") /\ UNCHANGED info
    <3>1. "compare" \in Early \ {"idle", "resolve"}
      BY DEF Early
    <3>2. call' = [call EXCEPT ![h].at = "compare"]
      BY <2>3 DEF Continue
    <3>3. QED
      BY <1>1, <2>1, <2>3, <3>1, <3>2, ContinueOK
  <2>4. QED
    BY <1>3, <2>2, <2>3 DEF OpenExists
<1>4. CASE OpenCompare(h)
  <2>1. call[h].at \in Early /\ call[h].at # "returned"
    BY <1>4 DEF OpenCompare, At, Early
  <2>2. CASE \E e \in {"SEC_FILE_INVALID_PATH", "SEC_FILE_INVALID_FILE_EXTENSION",
                       "SEC_FILE_INVALID_FILE_ATTRIBUTES"} : ReturnClean(h, e)
    BY <1>1, <2>1, <2>2, ReturnOK, Errors DEF ReturnClean
  <2>3. CASE /\ Continue(h, "directory")
             /\ UNCHANGED info \/ info' = [info EXCEPT ![h].fullpath = "file"]
    <3>1. "directory" \in Early \ {"idle", "resolve"}
      BY DEF Early
    <3>2. call' = [call EXCEPT ![h].at = "directory"]
      BY <2>3 DEF Continue
    <3>3. QED
      BY <1>1, <2>1, <2>3, <3>1, <3>2, ContinueOK
  <2>4. CASE Crash(h)
    BY <1>1, <2>1, <2>4, CrashOK
  <2>5. QED
    BY <1>4, <2>2, <2>3, <2>4 DEF OpenCompare
<1>5. CASE OpenDirectory(h)
  <2>1. call[h].at \in Early
    BY <1>5 DEF OpenDirectory, At, Early
  <2>2. CASE ReturnClean(h, "SEC_FILE_INSECURE_PATH")
    BY <1>1, <2>1, <2>2, ReturnOK, Errors DEF ReturnClean
  <2>3. CASE /\ call' = [call EXCEPT ![h].at = "fopen", ![h].temps = @ \cup {"pathOnly"}]
             /\ UNCHANGED info
    <3>1. /\ "fopen" \in Early \ {"idle", "resolve"}
          /\ call[h].temps \cup {"pathOnly"} \in SUBSET Temporaries
      BY DEF Early, TypeOK, Calls, Temporaries
    <3>2. call' = [call EXCEPT ![h].at = "fopen", ![h].temps = call[h].temps \cup {"pathOnly"}]
      BY <2>3 DEF TypeOK
    <3>3. QED
      BY <1>1, <2>1, <2>3, <3>1, <3>2, ContinueOK
  <2>4. QED
    BY <1>5, <2>2, <2>3 DEF OpenDirectory
<1>6. QED
  BY <1>2, <1>3, <1>4, <1>5

LEMMA RequestType ==
    ASSUME TypeOK, NEW h \in Handles, call[h].request # NoRequest
    PROVE  call[h].request \in Request
  BY DEF TypeOK, Calls

\* A call in progress has a request.
RequestInv == \A h \in Handles : call[h].at # "idle" => call[h].request # NoRequest

LEMMA OpenableInodes ==
    ASSUME TypeOK, NEW r \in Request, NEW i \in Openable(r)
    PROVE  i \in Inodes
<1>1. Lookup(r.name) \in Inodes \cup {NoInode}
  BY DEF Lookup, TypeOK, FsTypeOK, Request
<1>2. CASE Lookup(r.name) # NoInode /\ FopenMode(r) = "wx"
  BY <1>2 DEF Openable
<1>3. CASE Lookup(r.name) # NoInode /\ FopenMode(r) # "wx"
  BY <1>1, <1>3 DEF Openable
<1>4. CASE Lookup(r.name) = NoInode
  BY <1>4 DEF Openable, Unused
<1>5. QED
  BY <1>2, <1>3, <1>4

LEMMA OpenFopenOK ==
    ASSUME TypeOK, RequestInv, NEW h \in Handles, HandleInv(h), OpenFopen(h)
    PROVE  StepOK(h)
<1> DEFINE r == call[h].request
<1>1. /\ call[h].at = "fopen" /\ r \in Request /\ r.name \in Names
      /\ UNCHANGED <<owner, parent, passesX>>
  BY RequestType DEF OpenFopen, At, RequestInv, Request
<1>2. CASE \E i \in Openable(r) :
             /\ Bind(r.name, i)
             /\ stream' = [stream EXCEPT ![h] = [state |-> "open", inode |-> i]]
             /\ info' = [info EXCEPT ![h].file = TRUE]
             /\ Continue(h, "identify")
  <2>1. PICK i \in Openable(r) :
             /\ Bind(r.name, i)
             /\ stream' = [stream EXCEPT ![h] = [state |-> "open", inode |-> i]]
             /\ info' = [info EXCEPT ![h].file = TRUE]
             /\ call' = [call EXCEPT ![h].at = "identify"]
    BY <1>2 DEF Continue
  <2>2. i \in Inodes
    BY <1>1, OpenableInodes
  <2>3. /\ FsTypeOK'
        /\ stream' \in [Handles -> Streams]
        /\ info' \in [Handles -> secureFileInfo]
        /\ call' \in [Handles -> Calls]
    <3>1. FsTypeOK'
      BY <1>1, <2>1, <2>2, FsBind DEF TypeOK
    <3>2. stream' \in [Handles -> Streams]
      BY <2>1, <2>2, StreamType
    <3>3. info' \in [Handles -> secureFileInfo]
      BY <2>1, InfoType
    <3>4. call' \in [Handles -> Calls]
      BY <2>1, MoveType DEF Places, Steps
    <3>5. QED
      BY <3>1, <3>2, <3>3, <3>4
  <2>4. TypeOK'
    BY <1>1, <2>3 DEF TypeOK
  <2>5. /\ call'[h].at = "identify" /\ info'[h].file = TRUE
        /\ info'[h].isValid = info[h].isValid /\ info'[h].error = info[h].error
        /\ stream'[h] = [state |-> "open", inode |-> i]
    BY <2>1 DEF TypeOK, Calls, secureFileInfo
  <2>6. HandleInv(h)'
    BY <1>1, <2>2, <2>5
       DEF HandleInv, EarlyInv, PathInv, IdentifyInv, ErrorInv, ReturnedInv, Early
  <2>7. Others(h)
    BY <2>1 DEF Others, TypeOK
  <2>8. QED
    BY <2>4, <2>6, <2>7 DEF StepOK
<1>3. CASE /\ \E errno \in {"EEXIST", "other"} :
                 call' = [call EXCEPT ![h].at = "returned", ![h].temps = {}, ![h].errno = errno]
           /\ info' = [info EXCEPT ![h].error = "SEC_FILE_FAILURE"]
           /\ UNCHANGED <<entry, stream>>
  <2>1. PICK errno \in {"EEXIST", "other"} :
          call' = [call EXCEPT ![h].at = "returned", ![h].temps = {}, ![h].errno = errno]
    BY <1>3
  <2>2. FsTypeOK'
    BY <1>1, <1>3, FsSame DEF fsVars, TypeOK
  <2>3. call' \in [Handles -> Calls]
    BY <2>1, MoveType DEF Places
  <2>4. info' \in [Handles -> secureFileInfo]
    BY <1>3, InfoType, Errors
  <2>5. TypeOK'
    BY <1>1, <1>3, <2>2, <2>3, <2>4 DEF TypeOK
  <2>6. /\ call'[h].at = "returned" /\ call'[h].temps = {} /\ stream'[h] = stream[h]
        /\ info'[h].file = info[h].file /\ info'[h].isValid = info[h].isValid
        /\ info'[h].error = "SEC_FILE_FAILURE"
    BY <1>3, <2>1 DEF TypeOK, Calls, secureFileInfo
  <2>7. HandleInv(h)'
    BY <1>1, <2>6
       DEF HandleInv, EarlyInv, PathInv, IdentifyInv, ErrorInv, ReturnedInv, Early, Freed, Failed
  <2>8. Others(h)
    BY <1>3, <2>1 DEF Others, TypeOK
  <2>9. QED
    BY <2>5, <2>7, <2>8 DEF StepOK
<1>4. QED
  BY <1>2, <1>3 DEF OpenFopen

\* The step the promises of an open handle rest on.
LEMMA OpenIdentifyOK ==
    ASSUME TypeOK, RequestInv, NEW h \in Handles, HandleInv(h), OpenIdentify(h)
    PROVE  StepOK(h)
<1> DEFINE r == call[h].request
<1>1. /\ call[h].at = "identify" /\ r \in Request /\ UNCHANGED passesX
      /\ FsTypeOK'
  BY RequestType, FsSame DEF OpenIdentify, At, RequestInv, TypeOK
<1>2. /\ info[h].file /\ ~info[h].isValid /\ info[h].error # Failed
      /\ stream[h].state = "open" /\ stream[h].inode \in Inodes
  BY <1>1 DEF HandleInv, IdentifyInv, ErrorInv
<1>3. PICK uniqueID \in {NoInode, stream[h].inode}, attributes \in AttributesByFile(h) :
        \/ \E e \in {"SEC_FILE_INVALID_FILE_UNIQUE_ID", "SEC_FILE_INVALID_FILE_ATTRIBUTES"},
              a \in {NoAttributes, attributes} : CloseAndReturn(h, e, a, uniqueID)
        \/ Crash(h) /\ UNCHANGED stream
        \/ /\ r.unique = NoInode \/ uniqueID = r.unique
           /\ attributes # NoAttributes
           /\ r.expected = NoAttributes \/ attributes = r.expected
           /\ call' = [call EXCEPT ![h].at = "returned", ![h].temps = {}]
           /\ info' = [info EXCEPT ![h].isValid = TRUE, ![h].uniqueID = uniqueID,
                                   ![h].attributes = attributes]
           /\ UNCHANGED stream
  BY DEF OpenIdentify
<1>4. attributes = NoAttributes \/
        (attributes \in Attributes /\ attributes.inode = stream[h].inode)
  <2>1. owner[stream[h].inode] \in Owners
    BY <1>2 DEF TypeOK, FsTypeOK
  <2>2. QED
    BY <1>2, <2>1 DEF AttributesByFile, Attributes
<1>5. uniqueID \in Inodes \cup {NoInode}
  BY <1>2
<1>6. ASSUME NEW e \in {"SEC_FILE_INVALID_FILE_UNIQUE_ID", "SEC_FILE_INVALID_FILE_ATTRIBUTES"},
             NEW a \in {NoAttributes, attributes}, CloseAndReturn(h, e, a, uniqueID)
      PROVE  StepOK(h)
  <2>1. a \in Attributes \cup {NoAttributes} /\ e \in eSecureFileError \ {Failed}
    BY <1>4, Errors
  <2>2. /\ stream' = [stream EXCEPT ![h].state = "closed"]
        /\ call' = [call EXCEPT ![h].at = "returned", ![h].temps = {}]
        /\ info' = [info EXCEPT ![h].error = e, ![h].file = FALSE,
                                ![h].uniqueID = uniqueID, ![h].attributes = a]
    BY <1>6 DEF CloseAndReturn
  <2>3. stream' \in [Handles -> Streams]
    BY <2>2, StreamType
  <2>4. info' \in [Handles -> secureFileInfo]
    BY <1>5, <2>1, <2>2, IdentityType
  <2>5. call' \in [Handles -> Calls]
    BY <2>2, MoveType DEF Places
  <2>6. TypeOK'
    BY <1>1, <2>3, <2>4, <2>5 DEF TypeOK
  <2>7. /\ call'[h].at = "returned" /\ call'[h].temps = {} /\ stream'[h].state = "closed"
        /\ ~info'[h].file /\ ~info'[h].isValid
    BY <1>2, <2>2 DEF TypeOK, Calls, secureFileInfo, Streams
  <2>8. HandleInv(h)'
    BY <2>7 DEF HandleInv, EarlyInv, PathInv, IdentifyInv, ErrorInv, ReturnedInv, Early, Freed
  <2>9. Others(h)
    BY <2>2 DEF Others, TypeOK
  <2>10. QED
    BY <2>6, <2>8, <2>9 DEF StepOK
<1>7. CASE Crash(h) /\ UNCHANGED stream
  BY <1>1, <1>7, CrashOK
<1>8. CASE /\ r.unique = NoInode \/ uniqueID = r.unique
           /\ attributes # NoAttributes
           /\ r.expected = NoAttributes \/ attributes = r.expected
           /\ call' = [call EXCEPT ![h].at = "returned", ![h].temps = {}]
           /\ info' = [info EXCEPT ![h].isValid = TRUE, ![h].uniqueID = uniqueID,
                                   ![h].attributes = attributes]
           /\ UNCHANGED stream
  <2>1. info' \in [Handles -> secureFileInfo]
    BY <1>4, <1>5, <1>8, IdentityType
  <2>2. call' \in [Handles -> Calls]
    BY <1>8, MoveType DEF Places
  <2>3. TypeOK'
    BY <1>1, <1>8, <2>1, <2>2 DEF TypeOK
  <2>4. /\ call'[h].at = "returned" /\ call'[h].temps = {} /\ call'[h].request = r
        /\ stream'[h] = stream[h] /\ info'[h].file = info[h].file /\ info'[h].isValid
        /\ info'[h].error = info[h].error /\ info'[h].uniqueID = uniqueID
        /\ info'[h].attributes = attributes
    BY <1>8 DEF TypeOK, Calls, secureFileInfo
  <2>5. Requested(h)'
    <3>1. r.unique # NoInode => stream[h].inode = r.unique
      BY <1>8
    <3>2. r.expected # NoAttributes => /\ stream[h].inode = r.expected.inode
                                       /\ attributes = r.expected
      BY <1>4, <1>8
    <3>3. QED
      BY <2>4, <3>1, <3>2 DEF Requested
  <2>6. Identified(h)'
    BY <1>2, <1>4, <1>8, <2>4 DEF Identified
  <2>7. HandleInv(h)'
    BY <1>2, <2>4, <2>5, <2>6
       DEF HandleInv, EarlyInv, PathInv, IdentifyInv, ErrorInv, ReturnedInv, Early, Freed
  <2>8. Others(h)
    BY <1>8 DEF Others, TypeOK
  <2>9. QED
    BY <2>3, <2>7, <2>8 DEF StepOK
<1>9. QED
  BY <1>3, <1>6, <1>7, <1>8

-----------------------------------------------------------------------------
(* The end of a handle                                                     *)

LEMMA CloseOK ==
    ASSUME TypeOK, NEW h \in Handles, HandleInv(h), secure_Close_File(h)
    PROVE  StepOK(h)
<1>1. /\ call[h].at = "returned" /\ info[h].error # Failed
      /\ UNCHANGED <<call, passesX>> /\ FsTypeOK'
  BY FsSame DEF secure_Close_File, At, TypeOK
<1>2. ReturnedInv(h)
  BY DEF HandleInv
<1>3. /\ UNCHANGED stream \/ stream' = [stream EXCEPT ![h].state = "closed"]
      /\ stream' \in [Handles -> Streams]
  <2>1. UNCHANGED stream \/ stream' = [stream EXCEPT ![h].state = "closed"]
    BY DEF secure_Close_File
  <2>2. QED
    BY <2>1, StreamType DEF TypeOK
<1>4. CASE info[h].file
  <2>1. stream' = [stream EXCEPT ![h].state = "closed"]
    BY <1>4 DEF secure_Close_File
  <2>2. CASE info' = [info EXCEPT ![h].error = "SEC_FILE_SUCCESS", ![h].file = FALSE]
    <3>1. info' \in [Handles -> secureFileInfo]
      BY <2>2, InfoType, Errors
    <3>2. TypeOK'
      BY <1>1, <1>3, <3>1 DEF TypeOK
    <3>3. /\ ~info'[h].file /\ info'[h].isValid = info[h].isValid
          /\ info'[h].fullpath = info[h].fullpath
          /\ stream'[h].state = "closed" /\ call'[h] = call[h]
      BY <1>1, <2>1, <2>2 DEF TypeOK, secureFileInfo, Streams
    <3>4. HandleInv(h)'
      BY <1>1, <1>2, <3>3
         DEF HandleInv, EarlyInv, PathInv, IdentifyInv, ErrorInv, ReturnedInv, Early, Freed
    <3>5. Others(h)
      BY <1>1, <2>1, <2>2 DEF Others, TypeOK
    <3>6. QED
      BY <3>2, <3>4, <3>5 DEF StepOK
  <2>3. CASE info' = [info EXCEPT ![h].error = Failed]
    <3>1. info' \in [Handles -> secureFileInfo]
      BY <2>3, InfoType DEF eSecureFileError
    <3>2. TypeOK'
      BY <1>1, <1>3, <3>1 DEF TypeOK
    <3>3. /\ info'[h].file /\ info'[h].isValid = info[h].isValid
          /\ info'[h].fullpath = info[h].fullpath /\ info'[h].error = Failed
          /\ stream'[h].state = "closed" /\ call'[h] = call[h]
      BY <1>1, <1>4, <2>1, <2>3 DEF TypeOK, secureFileInfo, Streams
    <3>4. HandleInv(h)'
      BY <1>1, <1>2, <1>4, <3>3
         DEF HandleInv, EarlyInv, PathInv, IdentifyInv, ErrorInv, ReturnedInv, Early, Freed
    <3>5. Others(h)
      BY <1>1, <2>1, <2>3 DEF Others, TypeOK
    <3>6. QED
      BY <3>2, <3>4, <3>5 DEF StepOK
  <2>4. QED
    BY <1>4, <2>2, <2>3 DEF secure_Close_File
<1>5. CASE ~info[h].file
  <2>1. info' = [info EXCEPT ![h].error = "SEC_FILE_SUCCESS"] /\ UNCHANGED stream
    BY <1>5 DEF secure_Close_File
  <2>2. info' \in [Handles -> secureFileInfo]
    BY <2>1, InfoType, Errors
  <2>3. TypeOK'
    BY <1>1, <1>3, <2>2 DEF TypeOK
  <2>4. /\ ~info'[h].file /\ info'[h].isValid = info[h].isValid
        /\ info'[h].fullpath = info[h].fullpath /\ info'[h].error = "SEC_FILE_SUCCESS"
        /\ stream'[h] = stream[h] /\ call'[h] = call[h]
    BY <1>1, <1>5, <2>1 DEF TypeOK, secureFileInfo
  <2>5. HandleInv(h)'
    BY <1>1, <1>2, <1>5, <2>4
       DEF HandleInv, EarlyInv, PathInv, IdentifyInv, ErrorInv, ReturnedInv, Early, Freed
  <2>6. Others(h)
    BY <1>1, <2>1 DEF Others, TypeOK
  <2>7. QED
    BY <2>3, <2>5, <2>6 DEF StepOK
<1>6. QED
  BY <1>4, <1>5

LEMMA RemoveOK ==
    ASSUME TypeOK, RequestInv, NEW h \in Handles, HandleInv(h), secure_Remove_File(h)
    PROVE  StepOK(h)
<1> DEFINE name == call[h].request.name
<1>1. /\ call[h].at = "returned" /\ info[h].error # Failed /\ name \in Names
      /\ UNCHANGED <<owner, parent, call, stream, passesX>>
  BY RequestType DEF secure_Remove_File, At, RequestInv, Request
<1>2. PICK e \in eSecureFileError \ {Failed} : info' = [info EXCEPT ![h].error = e]
  BY Errors DEF secure_Remove_File
<1>3. FsTypeOK'
  <2>1. CASE Bind(name, NoInode)
    BY <1>1, <2>1, FsBind DEF TypeOK
  <2>2. CASE UNCHANGED entry
    BY <1>1, <2>2, FsSame DEF fsVars, TypeOK
  <2>3. QED
    BY <2>1, <2>2 DEF secure_Remove_File
<1>4. info' \in [Handles -> secureFileInfo]
  BY <1>2, InfoType
<1>5. TypeOK'
  BY <1>1, <1>3, <1>4 DEF TypeOK
<1>6. /\ info'[h].file = info[h].file /\ info'[h].isValid = info[h].isValid
      /\ info'[h].fullpath = info[h].fullpath /\ info'[h].error = e
      /\ info'[h].uniqueID = info[h].uniqueID /\ info'[h].attributes = info[h].attributes
      /\ stream'[h] = stream[h] /\ call'[h] = call[h]
  BY <1>1, <1>2 DEF TypeOK, secureFileInfo
<1>7. HandleInv(h)'
  BY <1>1, <1>6
     DEF HandleInv, EarlyInv, PathInv, IdentifyInv, ErrorInv, ReturnedInv, Early, Freed,
         Requested, Identified
<1>8. Others(h)
  BY <1>1, <1>2 DEF Others, TypeOK
<1>9. QED
  BY <1>5, <1>7, <1>8 DEF StepOK

LEMMA BlankType ==
    BlankInfo \in secureFileInfo /\ NoCall \in Calls /\ NoStream \in Streams
  BY DEF BlankInfo, secureFileInfo, eSecureFileError, NoCall, Calls, Places, NoStream, Streams

LEMMA BlankInv ==
    ASSUME NEW h \in Handles, call[h] = NoCall, info[h] = BlankInfo, stream[h] = NoStream
    PROVE  HandleInv(h)
  BY DEF NoCall, BlankInfo, NoStream, HandleInv, EarlyInv, PathInv, IdentifyInv, ErrorInv,
         ReturnedInv, Failed

LEMMA FreeOK ==
    ASSUME TypeOK, NEW h \in Handles, free_Secure_File_Info(h)
    PROVE  StepOK(h)
<1>1. /\ call' = [call EXCEPT ![h] = NoCall]
      /\ info' = [info EXCEPT ![h] = BlankInfo]
      /\ stream' = [stream EXCEPT ![h] = NoStream]
      /\ UNCHANGED passesX /\ FsTypeOK'
  BY FsSame DEF free_Secure_File_Info, TypeOK
<1>2. TypeOK'
  BY <1>1, BlankType DEF TypeOK
<1>3. call'[h] = NoCall /\ info'[h] = BlankInfo /\ stream'[h] = NoStream
  BY <1>1 DEF TypeOK
<1>4. HandleInv(h)'
  BY <1>3 DEF NoCall, BlankInfo, NoStream, HandleInv, EarlyInv, PathInv, IdentifyInv,
              ErrorInv, ReturnedInv, Failed
<1>5. Others(h)
  BY <1>1 DEF Others, TypeOK
<1>6. QED
  BY <1>2, <1>4, <1>5 DEF StepOK

-----------------------------------------------------------------------------
(* Every step                                                              *)

LEMMA EnvironmentOK ==
    ASSUME TypeOK, Environment
    PROVE  TypeOK' /\ UNCHANGED <<call, info, stream, passesX>>
<1> SUFFICES FsTypeOK'
  BY DEF Environment, TypeOK
<1> USE DEF FsTypeOK
<1>1. FsTypeOK /\ OtherProcesses(Held)
  BY DEF Environment, TypeOK
<1>2. ASSUME NEW n \in Names, Create(n, Held) PROVE FsTypeOK'
  BY <1>1, <1>2 DEF Create, Unused, Bind
<1>3. ASSUME NEW n \in Names, Unlink(n) PROVE FsTypeOK'
  BY <1>1, <1>3 DEF Unlink, Bind
<1>4. ASSUME NEW n \in Names, NEW m \in Names, Rename(n, m) PROVE FsTypeOK'
  BY <1>1, <1>4 DEF Rename
<1>5. ASSUME NEW i \in Inodes, Chown(i) PROVE FsTypeOK'
  BY <1>1, <1>5 DEF Chown
<1>6. CASE ChmodDirectory
  BY <1>1, <1>6 DEF ChmodDirectory, ParentStates, Directories
<1>7. CASE ReplaceDirectory
  BY <1>1, <1>7 DEF ReplaceDirectory
<1>8. QED
  BY <1>1, <1>2, <1>3, <1>4, <1>5, <1>6, <1>7 DEF OtherProcesses

LEMMA HandleStepOK ==
    ASSUME TypeOK, RequestInv, NEW h \in Handles, HandleInv(h), HandleStep(h)
    PROVE  StepOK(h)
  BY OpenBeginOK, ByNameOK, OpenFopenOK, OpenIdentifyOK, CloseOK, RemoveOK, FreeOK
     DEF HandleStep, secure_Open_File

\* A call keeps its request until the handle is freed.
LEMMA RequestStep ==
    ASSUME TypeOK, NEW h \in Handles, HandleStep(h), call[h].at # "idle" => call[h].request # NoRequest
    PROVE  /\ call'[h].at # "idle" => call'[h].request # NoRequest
           /\ \/ OpenBegin(h)
              \/ free_Secure_File_Info(h)
              \/ call[h].at # "idle" /\ call'[h].request = call[h].request
<1>1. CASE OpenBegin(h)
  <2>1. PICK r \in Requests[h] : call'[h].request = r
    BY <1>1 DEF OpenBegin, TypeOK
  <2>2. r # NoRequest
    BY RequestsAssumption, NoRequestAssumption
  <2>3. QED
    BY <1>1, <2>1, <2>2
<1>2. CASE free_Secure_File_Info(h)
  BY <1>2 DEF free_Secure_File_Info, TypeOK, NoCall
<1>3. CASE secure_Close_File(h) \/ secure_Remove_File(h)
  BY <1>3 DEF secure_Close_File, secure_Remove_File, At
<1>4. ASSUME ~OpenBegin(h), secure_Open_File(h)
      PROVE  call[h].at # "idle" /\ call'[h].request = call[h].request
  <2>1. call[h].at # "idle"
    BY <1>4 DEF secure_Open_File, OpenResolve, OpenExists, OpenCompare, OpenDirectory,
                OpenFopen, OpenIdentify, At
  <2>2. call'[h].request = call[h].request
    <3> USE DEF TypeOK, Calls
    <3>1. CASE OpenResolve(h)
      BY <3>1 DEF OpenResolve, Continue, Return
    <3>2. CASE OpenExists(h)
      BY <3>2 DEF OpenExists, Continue, ReturnClean, Return
    <3>3. CASE OpenCompare(h)
      BY <3>3 DEF OpenCompare, Continue, ReturnClean, Return, Crash
    <3>4. CASE OpenDirectory(h)
      BY <3>4 DEF OpenDirectory, ReturnClean, Return
    <3>5. CASE OpenFopen(h)
      BY <3>5 DEF OpenFopen, Continue
    <3>6. CASE OpenIdentify(h)
      BY <3>6 DEF OpenIdentify, CloseAndReturn, Crash, Continue
    <3>7. QED
      BY <1>4, <3>1, <3>2, <3>3, <3>4, <3>5, <3>6 DEF secure_Open_File
  <2>3. QED
    BY <2>1, <2>2
<1>5. QED
  BY <1>1, <1>2, <1>3, <1>4 DEF HandleStep

\* Only fopen makes an open stream; a stream that stays open stays on its inode.
LEMMA StreamStep ==
    ASSUME TypeOK, NEW h \in Handles, HandleStep(h), stream'[h].state = "open"
    PROVE  OpenFopen(h) \/ (stream[h].state = "open" /\ stream'[h].inode = stream[h].inode)
<1>1. CASE OpenBegin(h) \/ OpenResolve(h) \/ OpenExists(h) \/ OpenCompare(h) \/ OpenDirectory(h)
  BY <1>1 DEF OpenBegin, OpenResolve, OpenExists, OpenCompare, OpenDirectory
<1>2. CASE OpenIdentify(h)
  <2>1. UNCHANGED stream \/ stream' = [stream EXCEPT ![h].state = "closed"]
    BY <1>2 DEF OpenIdentify, CloseAndReturn
  <2>2. QED
    BY <2>1 DEF TypeOK, Streams
<1>3. CASE secure_Close_File(h)
  BY <1>3 DEF secure_Close_File, TypeOK, Streams
<1>4. CASE secure_Remove_File(h)
  BY <1>4 DEF secure_Remove_File
<1>5. CASE free_Secure_File_Info(h)
  BY <1>5 DEF free_Secure_File_Info, TypeOK, NoStream
<1>6. QED
  BY <1>1, <1>2, <1>3, <1>4, <1>5 DEF HandleStep, secure_Open_File

-----------------------------------------------------------------------------
(* Exclusive creation                                                      *)

Creates(h) == stream[h].state = "open" /\ Exclusive(call[h].request)

\* Not only what is returned but every stream an exclusive create got.
ExclusiveInv ==
    passesX => \A h, k \in Handles :
                  h # k /\ Creates(h) /\ Creates(k) => stream[h].inode # stream[k].inode

\* fopen with x creates a file, and never one that some stream holds.
LEMMA ExclusiveFopen ==
    ASSUME TypeOK, NEW h \in Handles, passesX, OpenFopen(h), Exclusive(call[h].request),
           stream'[h].state = "open", stream[h].state # "open"
    PROVE  stream'[h].inode \notin Held
<1>1. FopenMode(call[h].request) = "wx"
  BY DEF FopenMode, Exclusive
<1>2. PICK i \in Openable(call[h].request) :
        stream' = [stream EXCEPT ![h] = [state |-> "open", inode |-> i]]
  BY DEF OpenFopen
<1>3. i \in Unused(Held)
  BY <1>1 DEF Openable
<1>4. stream'[h].inode = i
  BY <1>2 DEF TypeOK
<1>5. QED
  BY <1>3, <1>4 DEF Unused

LEMMA ExclusiveStep ==
    ASSUME TypeOK, OpenInv, ExclusiveInv, NEW h \in Handles, HandleStep(h), StepOK(h),
           RequestInv
    PROVE  ExclusiveInv'
<1> SUFFICES ASSUME passesX, NEW k \in Handles \ {h}, Creates(h)', Creates(k)'
             PROVE  stream'[h].inode # stream'[k].inode
  <2>1. passesX' = passesX
    BY DEF HandleStep, secure_Open_File, OpenBegin, OpenResolve, OpenExists, OpenCompare,
           OpenDirectory, OpenFopen, OpenIdentify, secure_Close_File, secure_Remove_File,
           free_Secure_File_Info
  <2>2. \A k \in Handles \ {h} : Creates(k)' <=> Creates(k)
    BY DEF Creates, StepOK, Others
  <2>3. \A k \in Handles \ {h} : stream'[k].inode = stream[k].inode
    BY DEF StepOK, Others
  <2>4. QED
    BY <2>1, <2>2, <2>3 DEF ExclusiveInv
<1>1. Creates(k) /\ stream'[k] = stream[k]
  BY DEF Creates, StepOK, Others
<1>2. stream'[h].state = "open"
  BY DEF Creates
<1>3. call[h].at # "idle" /\ call'[h].request = call[h].request
  <2>1. ~OpenBegin(h)
    <3>1. SUFFICES ASSUME OpenBegin(h) PROVE FALSE
      OBVIOUS
    <3>2. stream[h].state = "none" /\ stream' = stream
      BY <3>1 DEF OpenBegin, At, OpenInv, HandleInv, EarlyInv, Early
    <3>3. QED
      BY <1>2, <3>2
  <2>2. ~free_Secure_File_Info(h)
    <3>1. SUFFICES ASSUME free_Secure_File_Info(h) PROVE FALSE
      OBVIOUS
    <3>2. stream'[h] = NoStream
      BY <3>1 DEF free_Secure_File_Info, TypeOK
    <3>3. QED
      BY <1>2, <3>2 DEF NoStream
  <2>3. QED
    BY <2>1, <2>2, RequestStep DEF RequestInv
<1>4. CASE stream[h].state = "open" /\ stream'[h].inode = stream[h].inode
  BY <1>1, <1>3, <1>4 DEF ExclusiveInv, Creates
<1>5. CASE OpenFopen(h)
  <2>1. stream[h].state # "open"
    BY <1>5 DEF OpenFopen, At, OpenInv, HandleInv, EarlyInv, Early
  <2>2. stream'[h].inode \notin Held
    BY <1>2, <1>3, <1>5, <2>1, ExclusiveFopen DEF Creates
  <2>3. stream[k].inode \in Held
    BY <1>1 DEF Creates, Held
  <2>4. QED
    BY <1>1, <2>2, <2>3
<1>6. QED
  BY <1>2, <1>4, <1>5, StreamStep

-----------------------------------------------------------------------------
(* Theorems                                                                *)

\* The inductive invariant: types, requests, the invariant of every handle and
\* that exclusive creates never share a file.
IInv == TypeOK /\ RequestInv /\ OpenInv /\ ExclusiveInv

LEMMA InitIInv == Init => IInv
<1> SUFFICES ASSUME Init PROVE IInv
  OBVIOUS
<1>1. TypeOK
  BY BlankType DEF Init, FsInit, FsTypeOK, TypeOK
<1>2. \A h \in Handles : call[h] = NoCall /\ info[h] = BlankInfo /\ stream[h] = NoStream
  BY DEF Init
<1>3. RequestInv
  BY <1>2 DEF RequestInv, NoCall
<1>4. OpenInv
  BY <1>2, BlankInv DEF OpenInv
<1>5. ExclusiveInv
  BY <1>2 DEF ExclusiveInv, Creates, NoStream
<1>6. QED
  BY <1>1, <1>3, <1>4, <1>5 DEF IInv

\* Whatever leaves the handles alone keeps what is said of them.
LEMMA SameHandles ==
    ASSUME IInv, TypeOK', UNCHANGED <<call, info, stream, passesX>>
    PROVE  IInv'
<1>1. OpenInv'
  BY OthersKeep DEF IInv, OpenInv
<1>2. RequestInv' /\ ExclusiveInv'
  BY DEF IInv, RequestInv, ExclusiveInv, Creates
<1>3. QED
  BY <1>1, <1>2 DEF IInv

LEMMA NextIInv == IInv /\ [Next]_vars => IInv'
<1> SUFFICES ASSUME IInv, [Next]_vars PROVE IInv'
  OBVIOUS
<1>1. ASSUME NEW h \in Handles, HandleStep(h) PROVE IInv'
  <2>1. StepOK(h)
    BY <1>1, HandleStepOK DEF IInv, OpenInv
  <2>2. RequestInv'
    BY <1>1, <2>1, RequestStep DEF IInv, RequestInv, StepOK, Others
  <2>3. OpenInv'
    <3>1. ASSUME NEW k \in Handles \ {h} PROVE HandleInv(k)'
      BY <2>1, <3>1, OthersKeep DEF StepOK, Others, IInv, OpenInv
    <3>2. QED
      BY <2>1, <3>1 DEF OpenInv, StepOK
  <2>4. ExclusiveInv'
    BY <1>1, <2>1, ExclusiveStep DEF IInv
  <2>5. QED
    BY <2>1, <2>2, <2>3, <2>4 DEF IInv, StepOK
<1>2. CASE Environment
  BY <1>2, EnvironmentOK, SameHandles DEF IInv
<1>3. CASE UNCHANGED vars
  BY <1>3, FsSame, SameHandles DEF vars, fsVars, IInv, TypeOK
<1>4. QED
  BY <1>1, <1>2, <1>3 DEF Next

LEMMA Inductive == Spec => []IInv
  BY InitIInv, NextIInv, PTL DEF Spec

\* Every variable keeps its type: in particular an open handle's attributes are
\* always those of an existing inode.
THEOREM TypeCorrect == Spec => []TypeOK
<1>1. IInv => TypeOK
  BY DEF IInv
<1>2. QED
  BY <1>1, Inductive, PTL

\* secure_Open_File keeps what it promises against every interleaving with
\* other processes: an open handle is open on the file the caller described.
THEOREM OpenedAsRequestedCorrect == Spec => []OpenedAsRequested
<1>1. IInv => OpenedAsRequested
  BY OpenInvImplies DEF IInv
<1>2. QED
  BY <1>1, Inductive, PTL

\* The identity an open handle carries is that of its stream.
THEOREM IdentityCorrect == Spec => []IdentityIsOfStream
<1>1. IInv => IdentityIsOfStream
  BY OpenInvImplies DEF IInv
<1>2. QED
  BY <1>1, Inductive, PTL

\* Every one of the returns of a refused open has closed the stream, and all
\* but those before the full path have freed their memory.
THEOREM RefusalCorrect == Spec => []RefusalHoldsNothing
<1>1. IInv => RefusalHoldsNothing
  BY OpenInvImplies DEF IInv
<1>2. QED
  BY <1>1, Inductive, PTL

LEMMA ExclusiveImplies == IInv => ExclusiveCreateOnce
  BY DEF IInv, ExclusiveInv, Creates, ExclusiveCreateOnce, Open

\* However many handles race to create a name exclusively, two never get the
\* same file.
THEOREM ExclusiveCreateCorrect == Spec => []ExclusiveCreateOnce
  BY ExclusiveImplies, Inductive, PTL

-----------------------------------------------------------------------------
(* secure_Delete_File_By_Name only ever takes names away, so what is       *)
(* proved of the handles holds with any number of deletes beside them.     *)

\* A step of the delete leaves the handles alone, and the file system well
\* formed.
LEMMA DeleteStep ==
    ASSUME TypeOK, del \in Deletes, secure_Delete_File_By_Name
    PROVE  TypeOK' /\ UNCHANGED <<call, info, stream, passesX>>
<1>1. CASE UNCHANGED vars
  BY <1>1, FsSame DEF vars, fsVars, TypeOK
<1>2. CASE /\ Bind(del.name, NoInode)
           /\ UNCHANGED <<owner, parent, call, info, stream, passesX>>
  <2>1. FsTypeOK'
    BY <1>2, FsBind DEF TypeOK, Deletes
  <2>2. QED
    BY <1>2, <2>1 DEF TypeOK
<1>3. QED
  BY <1>1, <1>2
     DEF secure_Delete_File_By_Name, DeleteBegin, DeleteResolve, DeleteDirectory, DeleteProbe,
         DeleteRemove, DeleteExists, DeleteUnlink, DeleteTakes, DeleteGoesOn, DeleteReturns

LEMMA DeleteType ==
    ASSUME del \in Deletes, secure_Delete_File_By_Name
    PROVE  del' \in Deletes
<1>1. \A step \in {"directory", "probe", "remove", "exists", "unlink"} :
        DeleteGoesOn(step) => del' \in Deletes
  BY DEF DeleteGoesOn, Deletes
<1>2. \A result \in DeleteResults : DeleteReturns(result) => del' \in Deletes
  BY DEF DeleteReturns, Deletes
<1>3. DeleteTakes => del' \in Deletes
  <2>1. DeleteTakes => \/ del' = [del EXCEPT !.at = "idle", !.result = "SEC_FILE_SUCCESS"]
                       \/ DeleteReturns("SEC_FILE_FAILURE")
    BY DEF DeleteTakes
  <2>2. [del EXCEPT !.at = "idle", !.result = "SEC_FILE_SUCCESS"] \in Deletes
    BY DEF Deletes, DeleteResults
  <2>3. QED
    BY <1>2, <2>1, <2>2 DEF DeleteResults
<1>4. DeleteBegin => del' \in Deletes
  BY DEF DeleteBegin, Deletes, DeleteResults
<1>5. QED
  BY <1>1, <1>2, <1>3, <1>4
     DEF secure_Delete_File_By_Name, DeleteResolve, DeleteDirectory, DeleteProbe,
         DeleteRemove, DeleteExists, DeleteUnlink, DeleteResults

SystemInv == IInv /\ del \in Deletes

LEMMA SystemInductive == SystemSpec => []SystemInv
<1>1. SystemInit => SystemInv
  BY InitIInv DEF SystemInit, SystemInv, Deletes, DeleteResults
<1>2. SystemInv /\ [SystemNext]_systemVars => SystemInv'
  <2> SUFFICES ASSUME SystemInv, [SystemNext]_systemVars PROVE SystemInv'
    OBVIOUS
  <2>1. CASE Next /\ UNCHANGED del
    BY <2>1, NextIInv DEF SystemInv
  <2>2. CASE secure_Delete_File_By_Name
    BY <2>2, DeleteStep, DeleteType, SameHandles DEF SystemInv, IInv
  <2>3. CASE UNCHANGED systemVars
    BY <2>3, NextIInv DEF systemVars, SystemInv
  <2>4. QED
    BY <2>1, <2>2, <2>3 DEF SystemNext
<1>3. QED
  BY <1>1, <1>2, PTL DEF SystemSpec

\* The types of handles, file system and delete.
THEOREM DeleteTypeCorrect == SystemSpec => []DeleteTypeOK
<1>1. SystemInv => DeleteTypeOK
  BY DEF SystemInv, IInv, DeleteTypeOK
<1>2. QED
  BY <1>1, SystemInductive, PTL

\* A delete between two exclusive creates may let both succeed, but never on
\* the same file.
THEOREM ExclusiveDespiteDelete == SystemSpec => []ExclusiveCreateOnce
<1>1. SystemInv => ExclusiveCreateOnce
  BY ExclusiveImplies DEF SystemInv
<1>2. QED
  BY <1>1, SystemInductive, PTL

=============================================================================
