-------------------------- MODULE SecureFileDelete --------------------------
(***************************************************************************)
(* secure_Delete_File_By_Name (src/src/secure_file.c), one system call at  *)
(* a time, running beside the handles of SecureFileOpen and the other      *)
(* processes.  It has no handle: all it knows of the file is its name.     *)
(***************************************************************************)
EXTENDS SecureFileOpen

VARIABLE del    \* the call in progress

systemVars == <<vars, del>>

Actions == {"SEC_DELETE_NAME_FAIL_IF_OPEN", "SEC_DELETE_NAME_UNLINK_IF_OPEN"}

DeleteResults == {"SEC_FILE_SUCCESS", "SEC_FILE_INVALID_PATH", "SEC_FILE_INSECURE_PATH",
                  "SEC_FILE_CANNOT_REMOVE_FILE_STILL_OPEN", "SEC_FILE_FAILURE"}

Deletes == [at : {"idle", "resolve", "directory", "probe", "remove", "exists", "unlink"},
            name : Names, action : Actions, result : DeleteResults]

DeleteTypeOK == TypeOK /\ del \in Deletes

SystemInit ==
    /\ Init
    /\ \E n \in Names, a \in Actions :
          del = [at |-> "idle", name |-> n, action |-> a,
                 result |-> "SEC_FILE_FAILURE"]

DeleteGoesOn(step) ==
    /\ del' = [del EXCEPT !.at = step]
    /\ UNCHANGED vars

DeleteReturns(result) ==
    /\ del' = [del EXCEPT !.at = "idle", !.result = result]
    /\ UNCHANGED vars

\* unlink, or remove, of the name: takes whatever it leads to now, or fails.
DeleteTakes ==
    \/ /\ Lookup(del.name) # NoInode
       /\ Bind(del.name, NoInode)
       /\ del' = [del EXCEPT !.at = "idle", !.result = "SEC_FILE_SUCCESS"]
       /\ UNCHANGED <<owner, parent, call, info, stream, passesX>>
    \/ DeleteReturns("SEC_FILE_FAILURE")

DeleteBegin ==
    /\ del.at = "idle"
    /\ \E n \in Names, a \in Actions :
          del' = [at |-> "resolve", name |-> n, action |-> a,
                  result |-> "SEC_FILE_FAILURE"]
    /\ UNCHANGED vars

DeleteResolve ==
    /\ del.at = "resolve"
    /\ \/ Lookup(del.name) # NoInode /\ DeleteGoesOn("directory")
       \/ DeleteReturns("SEC_FILE_INVALID_PATH")

DeleteDirectory ==
    /\ del.at = "directory"
    /\ \/ parent = "secure" /\ DeleteGoesOn("probe")
       \/ DeleteReturns("SEC_FILE_INSECURE_PATH")

\* fopen(fullpath, "r") is meant to tell whether the file is open elsewhere; a
\* stream it gets is closed at once.
DeleteProbe ==
    /\ del.at = "probe"
    /\ \/ Lookup(del.name) # NoInode /\ DeleteGoesOn("remove")
       \/ DeleteGoesOn("exists")

DeleteRemove ==
    /\ del.at = "remove"
    /\ DeleteTakes

\* Mutant: the error of an open that finds the file there.
ExistsReportsAsOpen ==
    /\ del.at = "exists"
    /\ \/ /\ Lookup(del.name) \in Regular
          /\ \/ /\ del.action = "SEC_DELETE_NAME_FAIL_IF_OPEN"
                /\ DeleteReturns("SEC_FILE_FILE_ALREADY_EXISTS")
             \/ /\ del.action = "SEC_DELETE_NAME_UNLINK_IF_OPEN"
                /\ DeleteGoesOn("unlink")
       \/ DeleteReturns("SEC_FILE_FAILURE")

DeleteExists ==
    /\ del.at = "exists"
    /\ \/ /\ Lookup(del.name) \in Regular
          /\ \/ /\ del.action = "SEC_DELETE_NAME_FAIL_IF_OPEN"
                /\ DeleteReturns("SEC_FILE_CANNOT_REMOVE_FILE_STILL_OPEN")
             \/ /\ del.action = "SEC_DELETE_NAME_UNLINK_IF_OPEN"
                /\ DeleteGoesOn("unlink")
       \/ DeleteReturns("SEC_FILE_FAILURE")

DeleteUnlink ==
    /\ del.at = "unlink"
    /\ Lookup(del.name) \in Regular \cup {NoInode}
    /\ DeleteTakes

secure_Delete_File_By_Name ==
    \/ DeleteBegin
    \/ DeleteResolve
    \/ DeleteDirectory
    \/ DeleteProbe
    \/ DeleteRemove
    \/ DeleteExists
    \/ DeleteUnlink

SystemNext ==
    \/ Next /\ UNCHANGED del
    \/ secure_Delete_File_By_Name

SystemSpec == SystemInit /\ [][SystemNext]_systemVars

-----------------------------------------------------------------------------
(* Properties                                                              *)

\* secure_file.h gives deleteAction as the action to take if the file is open:
\* with "fail" no file that a handle has open loses its name.
FailIfOpenKeepsOpenFile ==
    [][del' # del /\ del.action = "SEC_DELETE_NAME_FAIL_IF_OPEN"
       => \A n \in Names : entry[n] \in Held => entry'[n] = entry[n]]_systemVars

=============================================================================
