-------------------------- MODULE SecureFileStream --------------------------
(***************************************************************************)
(* The calls a program may make on one secureFileInfo handle once          *)
(* secure_Open_File has returned it (src/src/secure_file.c): close, read,  *)
(* write, seek, rewind, tell, flush, get/set position and formatted print. *)
(*                                                                         *)
(* Every call makes at most one visible use of the C library's stream, so  *)
(* every call is one action.  Bytes are abstracted to their number: a file *)
(* is its length, a stream its position and its two indicators.  Calls are *)
(* made in any order, which is the point: the handle carries its last      *)
(* error from one call into the guard of the next.                         *)
(***************************************************************************)
EXTENDS Integers

CONSTANTS
    MaxLength,    \* bound: a file never grows beyond this many elements
    MaxCount,     \* bound: elements asked for by one read or write
    Disciplined   \* TRUE: after a close that failed the caller makes no
                  \* second close and passes it no NULL fpos_t*

ASSUME LengthAssumption == MaxLength \in Nat
ASSUME CountAssumption == MaxCount \in Nat \ {0}
ASSUME DisciplinedAssumption == Disciplined \in BOOLEAN

VARIABLES
    info,     \* the secureFileInfo: its error and whether file is non-NULL
    stream,   \* the FILE object the C library made for it
    length,   \* length of the file behind the stream
    ret,      \* what the last call reported, and what really happened in it
    misused   \* the library handed a closed FILE to the C library

vars == <<info, stream, length, ret, misused>>

Failed == "SEC_FILE_FAILURE_CLOSING_FILE"

\* The errors of eSecureFileError that secure_Open_File can leave in a handle
\* whose file pointer is NULL.
OpenErrors ==
    {"SEC_FILE_INVALID_FILE", "SEC_FILE_INVALID_PATH", "SEC_FILE_INSECURE_PATH",
     "SEC_FILE_FAILURE"}

eSecureFileError ==
    OpenErrors \cup
    {"SEC_FILE_SUCCESS", "SEC_FILE_INVALID_SECURE_FILE", Failed,
     "SEC_FILE_BUFFER_TOO_SMALL", "SEC_FILE_INVALID_PARAMETER",
     "SEC_FILE_READ_WRITE_ERROR", "SEC_FILE_END_OF_FILE_REACHED",
     "SEC_FILE_WRITE_DISK_FULL", "SEC_FILE_SEEK_FAILURE",
     "SEC_FILE_FLUSH_FAILURE"}

Calls == {"open", "close", "read", "write", "seek", "rewind", "tell", "flush",
          "getpos", "setpos", "print"}

\* The part of a secureFileInfo the calls read and write.
secureFileInfo == [error : eSecureFileError, file : BOOLEAN]

\* A C library FILE: "closed" once fclose has been called on it, whatever that
\* call returned.
Streams == [state : {"none", "open", "closed"}, pos : 0..MaxLength,
            eof : BOOLEAN, err : BOOLEAN]

\* asked and done count elements; fault says that the C library reported a
\* failure in this very call.
Returns == [call : Calls, status : eSecureFileError, asked : 0..MaxCount,
            done : 0..MaxCount, fault : BOOLEAN]

TypeOK ==
    /\ info \in secureFileInfo
    /\ stream \in Streams
    /\ length \in 0..MaxLength
    /\ ret \in Returns
    /\ misused \in BOOLEAN

Init ==
    /\ length \in 0..MaxLength
    /\ misused = FALSE
    /\ \/ /\ info = [error |-> "SEC_FILE_SUCCESS", file |-> TRUE]
          /\ stream = [state |-> "open", pos |-> 0, eof |-> FALSE, err |-> FALSE]
       \/ /\ \E e \in OpenErrors : info = [error |-> e, file |-> FALSE]
          /\ stream = [state |-> "none", pos |-> 0, eof |-> FALSE, err |-> FALSE]
    /\ ret = [call |-> "open", status |-> info.error, asked |-> 0, done |-> 0,
              fault |-> FALSE]

-----------------------------------------------------------------------------
(* What a call reports.                                                    *)

Report(call, status, asked, done, fault) ==
    ret' = [call |-> call, status |-> status, asked |-> asked, done |-> done,
            fault |-> fault]

\* The call leaves error e in the handle and returns it.
Answer(call, e) ==
    /\ info' = [info EXCEPT !.error = e]
    /\ Report(call, e, 0, 0, FALSE)

\* The call hands the stream to the C library.  Doing that with a FILE fclose
\* was already called on is undefined behaviour: misused records it, and what
\* the model lets happen afterwards means nothing.
UsesStream == misused' = (misused \/ stream.state # "open")

\* Mutant: the error is reset before it is looked at, as secure_Close_File does.
ResetBeforeGuard(call) ==
    /\ info.error = Failed \/ ~info.file
    /\ Answer(call, "SEC_FILE_INVALID_FILE")
    /\ UNCHANGED <<stream, length, misused>>

\* The prologue shared by the calls that read the handle's error first: a
\* handle that failed to close is refused and keeps its error, one without a
\* stream is told SEC_FILE_INVALID_FILE.
Refused(call) ==
    \/ /\ info.error = Failed
       /\ Report(call, Failed, 0, 0, FALSE)
       /\ UNCHANGED <<info, stream, length, misused>>
    \/ /\ info.error # Failed
       /\ ~info.file
       /\ Answer(call, "SEC_FILE_INVALID_FILE")
       /\ UNCHANGED <<stream, length, misused>>

Usable == info.error # Failed /\ info.file

-----------------------------------------------------------------------------
(* The C library, as these functions use it.                               *)

Least(a, b) == IF a <= b THEN a ELSE b

\* Elements between the stream's position and the end of the file.
Available == IF stream.pos < length THEN length - stream.pos ELSE 0

\* Mutant: the position is taken to advance by what was asked for.
ReadAdvancesByAsked(n) ==
    {[done |-> n, eof |-> Available < n, err |-> stream.err, fault |-> FALSE]}

\* What fread(n elements) may do: the end-of-file indicator is sticky, a short
\* count means end of file or an error, and an error sets its indicator.
Fread(n) ==
    IF n = 0 \/ stream.eof
    THEN {[done |-> 0, eof |-> stream.eof, err |-> stream.err, fault |-> FALSE]}
    ELSE {[done |-> Least(n, Available), eof |-> Available < n,
           err |-> stream.err, fault |-> FALSE]}
         \cup {[done |-> k, eof |-> FALSE, err |-> TRUE, fault |-> TRUE] :
                 k \in 0..Least(n - 1, Available)}

\* What fwrite(n elements) may do; a device with no room left is a fault.
Fwrite(n) ==
    {[done |-> k, err |-> stream.err \/ k < n, fault |-> k < n] :
        k \in {j \in 0..n : stream.pos + j <= MaxLength}}

\* Whether fclose, fflush, fseek, ftell, fgetpos or fsetpos succeeds.
Outcomes == {"ok", "fails"}

-----------------------------------------------------------------------------
(* secure_Close_File                                                       *)

\* Mutant: a close that failed leaves an ordinary error behind.
CloseForgetsFailure ==
    /\ Disciplined => info.error # Failed
    /\ \/ /\ info.file
          /\ UsesStream
          /\ stream' = [stream EXCEPT !.state = "closed"]
          /\ \E o \in Outcomes :
                /\ info' = IF o = "ok"
                           THEN [error |-> "SEC_FILE_SUCCESS", file |-> FALSE]
                           ELSE [info EXCEPT !.error = "SEC_FILE_FAILURE"]
                /\ Report("close", info'.error, 0, 0, o = "fails")
          /\ UNCHANGED length
       \/ /\ ~info.file
          /\ Answer("close", "SEC_FILE_SUCCESS")
          /\ UNCHANGED <<stream, length, misused>>

\* fclose disassociates the stream even when it fails; the handle then keeps
\* the pointer and only its error says that it must not be used.
secure_Close_File ==
    /\ Disciplined => info.error # Failed
    /\ \/ /\ info.file
          /\ UsesStream
          /\ stream' = [stream EXCEPT !.state = "closed"]
          /\ \E o \in Outcomes :
                /\ info' = IF o = "ok"
                           THEN [error |-> "SEC_FILE_SUCCESS", file |-> FALSE]
                           ELSE [info EXCEPT !.error = Failed]
                /\ Report("close", info'.error, 0, 0, o = "fails")
          /\ UNCHANGED length
       \/ /\ ~info.file
          /\ Answer("close", "SEC_FILE_SUCCESS")
          /\ UNCHANGED <<stream, length, misused>>

-----------------------------------------------------------------------------
(* secure_Read_File, secure_Write_File                                     *)

\* A NULL buffer, or one smaller than the elements asked for, is refused.
BadBuffer(call) ==
    /\ Usable
    /\ \E e \in {"SEC_FILE_INVALID_PARAMETER", "SEC_FILE_BUFFER_TOO_SMALL"} :
          Answer(call, e)
    /\ UNCHANGED <<stream, length, misused>>

\* Mutant: every short read is taken for the end of the file.
ShortReadIsEof(done, n, eof, err) ==
    CASE done = 0 /\ n > 0 -> "SEC_FILE_READ_WRITE_ERROR"
      [] done = n          -> "SEC_FILE_SUCCESS"
      [] OTHER             -> "SEC_FILE_END_OF_FILE_REACHED"

ReadStatus(done, n, eof, err) ==
    CASE done = 0 /\ n > 0       -> "SEC_FILE_READ_WRITE_ERROR"
      [] done = n                -> "SEC_FILE_SUCCESS"
      [] done \in 1..(n-1) /\ eof  -> "SEC_FILE_END_OF_FILE_REACHED"
      [] done \in 1..(n-1) /\ ~eof /\ err -> "SEC_FILE_READ_WRITE_ERROR"
      [] OTHER                   -> "SEC_FILE_FAILURE"

\* secure_Read_File asking for n elements (n = 0 also stands for a zero
\* element size: fread then returns 0 and the call succeeds).
ReadElements(n) ==
    /\ Usable
    /\ UsesStream
    /\ \E r \in Fread(n) :
          LET status == ReadStatus(r.done, n, r.eof, r.err) IN
          /\ stream' = [stream EXCEPT !.pos = @ + r.done, !.eof = r.eof, !.err = r.err]
          /\ info' = [info EXCEPT !.error = status]
          /\ Report("read", status, n, r.done, r.fault)
    /\ UNCHANGED length

secure_Read_File ==
    \/ Refused("read")
    \/ BadBuffer("read")
    \/ \E n \in 0..MaxCount : ReadElements(n)

WriteStatus(done, n, err) ==
    CASE done = n                -> "SEC_FILE_SUCCESS"
      [] done \in 1..(n-1) /\ err  -> "SEC_FILE_WRITE_DISK_FULL"
      [] OTHER                   -> "SEC_FILE_READ_WRITE_ERROR"

\* What fwrite did, r, as the stream and the file show it.
Written(r) ==
    /\ stream' = [stream EXCEPT !.pos = @ + r.done, !.err = r.err]
    /\ length' = IF r.done > 0 /\ stream'.pos > length THEN stream'.pos ELSE length

WriteElements(n) ==
    /\ Usable
    /\ UsesStream
    /\ \E r \in Fwrite(n) :
          LET status == WriteStatus(r.done, n, r.err) IN
          /\ Written(r)
          /\ info' = [info EXCEPT !.error = status]
          /\ Report("write", status, n, r.done, r.fault)

secure_Write_File ==
    \/ Refused("write")
    \/ BadBuffer("write")
    \/ \E n \in 0..MaxCount : WriteElements(n)

-----------------------------------------------------------------------------
(* Positioning and flushing                                                *)

\* The C library call succeeds and moves the stream as Moved says, or fails
\* and leaves it alone; the handle's error becomes onFail.
Positioned(call, Moved, onFail) ==
    /\ Usable
    /\ UsesStream
    /\ \/ /\ stream' \in Moved
          /\ info' = [info EXCEPT !.error = "SEC_FILE_SUCCESS"]
          /\ Report(call, "SEC_FILE_SUCCESS", 0, 0, FALSE)
       \/ /\ UNCHANGED stream
          /\ info' = [info EXCEPT !.error = onFail]
          /\ Report(call, onFail, 0, 0, TRUE)
    /\ UNCHANGED length

\* fseeko and fsetpos clear the end-of-file indicator, not the error one.
SoughtTo(places) == {[stream EXCEPT !.pos = p, !.eof = FALSE] : p \in places}

secure_Seek_File ==
    \/ Refused("seek")
    \/ Positioned("seek", SoughtTo(0..MaxLength), "SEC_FILE_SEEK_FAILURE")

\* secure_Rewind_File seeks to the start with secure_Seek_File, keeps what that
\* left as its error, and clears both indicators whether it worked or not.
RewindStream ==
    /\ Usable
    /\ UsesStream
    /\ \E o \in Outcomes :
          /\ stream' = [stream EXCEPT !.pos = IF o = "ok" THEN 0 ELSE @,
                                      !.eof = FALSE, !.err = FALSE]
          /\ info' = [info EXCEPT !.error =
                        IF o = "ok" THEN "SEC_FILE_SUCCESS" ELSE "SEC_FILE_SEEK_FAILURE"]
          /\ Report("rewind", info'.error, 0, 0, o = "fails")
    /\ UNCHANGED length

secure_Rewind_File ==
    \/ Refused("rewind")
    \/ RewindStream

secure_Tell_File ==
    \/ Refused("tell")
    \/ Positioned("tell", {stream}, "SEC_FILE_SEEK_FAILURE")

\* fflush may fail with or without the stream's error indicator set.
FlushStream ==
    /\ Usable
    /\ UsesStream
    /\ \/ /\ UNCHANGED stream
          /\ info' = [info EXCEPT !.error = "SEC_FILE_SUCCESS"]
          /\ Report("flush", "SEC_FILE_SUCCESS", 0, 0, FALSE)
       \/ /\ \E e \in {stream.err, TRUE} : stream' = [stream EXCEPT !.err = e]
          /\ info' = [info EXCEPT !.error = IF stream'.err THEN "SEC_FILE_FLUSH_FAILURE"
                                                          ELSE "SEC_FILE_FAILURE"]
          /\ Report("flush", info'.error, 0, 0, TRUE)
    /\ UNCHANGED length

secure_Flush_File ==
    \/ Refused("flush")
    \/ FlushStream

\* A NULL fpos_t* is answered before the handle's error is looked at, and the
\* answer overwrites that error.
NullPosition(call) ==
    /\ Disciplined => info.error # Failed
    /\ Answer(call, "SEC_FILE_INVALID_PARAMETER")
    /\ UNCHANGED <<stream, length, misused>>

secure_GetPos_File ==
    \/ NullPosition("getpos")
    \/ Refused("getpos")
    \/ Positioned("getpos", {stream}, "SEC_FILE_FAILURE")

secure_SetPos_File ==
    \/ NullPosition("setpos")
    \/ Refused("setpos")
    \/ Positioned("setpos", SoughtTo(0..MaxLength), "SEC_FILE_FAILURE")

-----------------------------------------------------------------------------
(* secure_vfprintf_File, and secure_fprintf_File which forwards to it      *)

Formats == {"null", "plain", "specifiers", "rejected"}

\* What verify_Format_String_And_Args returns: the offset its scan reached, so
\* 0 for a format with no conversion specifier, and -1 for one it refuses.
Verified(format) == CASE format = "specifiers" -> 1
                      [] format = "plain"      -> 0
                      [] format = "rejected"   -> -1

\* One element stands for the formatted text.  asked: the format is valid, so
\* there is a text to print; done: all of it went to the stream.
PrintText(format) ==
    LET refused == [done |-> 0, err |-> stream.err, fault |-> FALSE] IN
    /\ UsesStream
    /\ \E r \in IF Verified(format) > 0 THEN Fwrite(1) ELSE {refused} :
          LET status == IF r.done = 0 \/ r.err THEN "SEC_FILE_READ_WRITE_ERROR"
                                               ELSE "SEC_FILE_SUCCESS" IN
          /\ Written(r)
          /\ info' = [info EXCEPT !.error = status]
          /\ Report("print", status, IF format = "rejected" THEN 0 ELSE 1, r.done, r.fault)

secure_vfprintf_File(format) ==
    \/ /\ ~info.file
       /\ Report("print", "SEC_FILE_INVALID_SECURE_FILE", 0, 0, FALSE)
       /\ UNCHANGED <<info, stream, length, misused>>
    \/ /\ info.file
       /\ info.error = Failed
       /\ Report("print", Failed, 0, 0, FALSE)
       /\ UNCHANGED <<info, stream, length, misused>>
    \/ /\ Usable
       /\ format = "null"
       /\ Answer("print", "SEC_FILE_INVALID_PARAMETER")
       /\ UNCHANGED <<stream, length, misused>>
    \/ /\ Usable
       /\ format # "null"
       /\ PrintText(format)

secure_fprintf_File(format) == secure_vfprintf_File(format)

-----------------------------------------------------------------------------

Next ==
    \/ secure_Close_File
    \/ secure_Read_File
    \/ secure_Write_File
    \/ secure_Seek_File
    \/ secure_Rewind_File
    \/ secure_Tell_File
    \/ secure_Flush_File
    \/ secure_GetPos_File
    \/ secure_SetPos_File
    \/ \E format \in Formats : secure_fprintf_File(format)

Spec == Init /\ [][Next]_vars

-----------------------------------------------------------------------------
(* Properties                                                              *)

\* After a close that failed the handle still points to the FILE that fclose
\* destroyed.  No order of later calls hands it to the C library again: the
\* only thing that stands in the way is the error code in the handle, which
\* every one of these functions also overwrites.
NoStaleUse == ~misused

\* What NoStaleUse rests on: the error and the pointer in the handle together
\* always tell whether the C library's stream is still there.
HandleTellsStream ==
    /\ info.error = Failed => info.file /\ stream.state = "closed"
    /\ info.error # Failed => (info.file <=> stream.state = "open")

\* A read or write reports success only for the full count, end of file only
\* for a short read that really met the end, a full disk only for a short write
\* that failed, and no call reports success when the C library failed under it.
StatusMatchesOutcome ==
    /\ ret.status = "SEC_FILE_SUCCESS" => ~ret.fault
    /\ ret.status = "SEC_FILE_SUCCESS" /\ ret.call \in {"read", "write"}
         => ret.done = ret.asked
    /\ ret.status = "SEC_FILE_END_OF_FILE_REACHED"
         => ~ret.fault /\ ret.done < ret.asked /\ stream.eof
    /\ ret.status = "SEC_FILE_WRITE_DISK_FULL" => ret.fault

\* The handle as its caller sees it: FileHandle's promise is kept, in
\* particular a broken handle never looks usable or closed again.
Handle == INSTANCE FileHandle WITH
    phase <- IF info.error = Failed THEN "broken"
             ELSE IF info.file THEN "open" ELSE "absent",
    live <- stream.state = "open"

KeepsHandlePromise == Handle!Spec

\* secure_file.h says that secure_vfprintf_File works like vfprintf_s: a valid
\* format whose text the C library can write is written.
ValidTextIsPrinted ==
    ret.call = "print" /\ ret.asked = 1 /\ ~ret.fault => ret.done = 1

=============================================================================
