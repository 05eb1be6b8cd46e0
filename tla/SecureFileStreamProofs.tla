----------------------- MODULE SecureFileStreamProofs -----------------------
(***************************************************************************)
(* Proofs about SecureFileStream for every file length and every number of *)
(* elements: type correctness, what every call reports, and - for a caller *)
(* that heeds a failed close - that no closed stream is used and that the  *)
(* handle implements FileHandle.                                           *)
(***************************************************************************)
EXTENDS SecureFileStream, TLAPS

-----------------------------------------------------------------------------
(* The C library                                                           *)

\* fread returns at most what was asked for and what the file still has.
LEMMA FreadBounds ==
    ASSUME TypeOK, NEW n \in 0..MaxCount, NEW r \in Fread(n)
    PROVE  /\ r.done \in 0..n
           /\ stream.pos + r.done \in 0..MaxLength
           /\ r.eof \in BOOLEAN /\ r.err \in BOOLEAN /\ r.fault \in BOOLEAN
           /\ r.fault => r.done < n
           /\ r.fault => ~r.eof
<1> USE LengthAssumption, CountAssumption DEF TypeOK, Streams
<1>1. /\ n \in Nat /\ stream.pos \in Nat /\ length \in Nat
      /\ stream.pos <= MaxLength /\ length <= MaxLength
      /\ stream.eof \in BOOLEAN /\ stream.err \in BOOLEAN
  OBVIOUS
<1>2. Available \in Nat /\ stream.pos + Available <= MaxLength
  BY <1>1 DEF Available
<1>3. CASE n = 0 \/ stream.eof
  <2>1. r = [done |-> 0, eof |-> stream.eof, err |-> stream.err, fault |-> FALSE]
    BY <1>3 DEF Fread
  <2>2. QED
    BY <1>1, <2>1
<1>4. CASE ~(n = 0 \/ stream.eof)
  <2>1. CASE r = [done |-> Least(n, Available), eof |-> Available < n,
                  err |-> stream.err, fault |-> FALSE]
    BY <1>1, <1>2, <2>1 DEF Least
  <2>2. CASE \E k \in 0..Least(n - 1, Available) :
                 r = [done |-> k, eof |-> FALSE, err |-> TRUE, fault |-> TRUE]
    BY <1>1, <1>2, <1>4, <2>2 DEF Least
  <2>3. QED
    BY <1>4, <2>1, <2>2 DEF Fread
<1>5. QED
  BY <1>3, <1>4

\* fwrite returns at most what was asked for, and less only with a fault.
LEMMA FwriteBounds ==
    ASSUME TypeOK, NEW n \in 0..MaxCount, NEW r \in Fwrite(n)
    PROVE  /\ r.done \in 0..n
           /\ stream.pos + r.done \in 0..MaxLength
           /\ r.err \in BOOLEAN /\ r.fault \in BOOLEAN
           /\ r.fault <=> r.done < n
           /\ r.fault => r.err
<1> USE LengthAssumption, CountAssumption DEF TypeOK, Streams
<1>1. n \in Nat /\ stream.pos \in Nat /\ stream.err \in BOOLEAN
  OBVIOUS
<1>2. PICK k \in 0..n : /\ stream.pos + k <= MaxLength
                        /\ r = [done |-> k, err |-> stream.err \/ k < n, fault |-> k < n]
  BY DEF Fwrite
<1>3. /\ r.done = k /\ r.fault = (k < n) /\ r.err = (stream.err \/ k < n)
  BY <1>2
<1>4. k \in Nat /\ k <= n /\ stream.pos + k \in 0..MaxLength
  BY <1>1, <1>2
<1>5. r.err \in BOOLEAN /\ r.fault \in BOOLEAN
  BY <1>1, <1>3, <1>4
<1>6. r.fault <=> r.done < n
  BY <1>1, <1>3, <1>4
<1>7. r.fault => r.err
  BY <1>1, <1>3, <1>4
<1>8. QED
  BY <1>3, <1>4, <1>5, <1>6, <1>7

-----------------------------------------------------------------------------
(* What the calls report                                                   *)

LEMMA ReadStatusRange ==
    ASSUME NEW n \in Nat, NEW done \in 0..n, NEW eof \in BOOLEAN, NEW err \in BOOLEAN
    PROVE  LET status == ReadStatus(done, n, eof, err) IN
           /\ status \in {"SEC_FILE_READ_WRITE_ERROR", "SEC_FILE_SUCCESS",
                          "SEC_FILE_END_OF_FILE_REACHED", "SEC_FILE_FAILURE"}
           /\ status = "SEC_FILE_SUCCESS" => done = n
           /\ status = "SEC_FILE_END_OF_FILE_REACHED" => done < n /\ eof
<1>1. CASE done = 0 /\ n > 0
  BY <1>1 DEF ReadStatus
<1>2. CASE done = n
  BY <1>2 DEF ReadStatus
<1>3. CASE done # 0 /\ done # n
  BY <1>3 DEF ReadStatus
<1>4. QED
  BY <1>1, <1>2, <1>3

LEMMA WriteStatusRange ==
    ASSUME NEW n \in Nat, NEW done \in 0..n, NEW err \in BOOLEAN
    PROVE  LET status == WriteStatus(done, n, err) IN
           /\ status \in {"SEC_FILE_SUCCESS", "SEC_FILE_WRITE_DISK_FULL",
                          "SEC_FILE_READ_WRITE_ERROR"}
           /\ status = "SEC_FILE_SUCCESS" => done = n
           /\ status = "SEC_FILE_WRITE_DISK_FULL" => done < n
  BY DEF WriteStatus

-----------------------------------------------------------------------------
(* One lemma per way a call can go: it keeps the types, reports what really *)
(* happened, and - closing apart - does not change what the handle tells of *)
(* the stream and uses the stream only when the handle lets it.             *)

KeepsHandle ==
    /\ stream'.state = stream.state
    /\ info'.file = info.file
    /\ info'.error = Failed <=> info.error = Failed
    /\ misused' = misused \/ (Usable /\ UsesStream)

Sound == /\ TypeOK'
         /\ StatusMatchesOutcome'
         /\ Disciplined => KeepsHandle

LEMMA ReportType ==
    ASSUME NEW call \in Calls, NEW status \in eSecureFileError,
           NEW asked \in 0..MaxCount, NEW done \in 0..MaxCount, NEW fault \in BOOLEAN,
           Report(call, status, asked, done, fault)
    PROVE  /\ ret' \in Returns
           /\ ret'.call = call /\ ret'.status = status
           /\ ret'.asked = asked /\ ret'.done = done /\ ret'.fault = fault
  BY DEF Report, Returns

\* A call that touches neither the stream nor the file and answers e.
LEMMA AnswerSound ==
    ASSUME TypeOK, NEW call \in Calls, NEW e \in eSecureFileError \ {Failed},
           e \notin {"SEC_FILE_END_OF_FILE_REACHED", "SEC_FILE_WRITE_DISK_FULL"},
           Answer(call, e), UNCHANGED <<stream, length, misused>>
    PROVE  /\ TypeOK' /\ StatusMatchesOutcome'
           /\ info'.file = info.file /\ info'.error = e
<1>1. /\ info' \in secureFileInfo /\ info'.file = info.file /\ info'.error = e
  BY DEF Answer, TypeOK, secureFileInfo
<1>2. 0 \in 0..MaxCount
  BY CountAssumption
<1>3. /\ ret' \in Returns /\ ret'.status = e /\ ret'.asked = 0 /\ ret'.done = 0
      /\ ret'.fault = FALSE
  BY <1>2, ReportType DEF Answer
<1>4. TypeOK'
  BY <1>1, <1>3 DEF TypeOK
<1>5. StatusMatchesOutcome'
  BY <1>3 DEF StatusMatchesOutcome
<1>6. QED
  BY <1>1, <1>4, <1>5

LEMMA RefusedSound ==
    ASSUME TypeOK, NEW call \in Calls, Refused(call)
    PROVE  Sound
<1>1. CASE info.error = Failed
  <2>1. /\ Report(call, Failed, 0, 0, FALSE)
        /\ UNCHANGED <<info, stream, length, misused>>
    BY <1>1 DEF Refused
  <2>2. Failed \in eSecureFileError /\ 0 \in 0..MaxCount
    BY CountAssumption DEF eSecureFileError
  <2>3. ret' \in Returns /\ ret'.status = Failed
    BY <2>1, <2>2, ReportType
  <2>4. TypeOK'
    BY <2>1, <2>3 DEF TypeOK
  <2>5. StatusMatchesOutcome'
    BY <2>3 DEF StatusMatchesOutcome, Failed
  <2>6. KeepsHandle
    BY <2>1 DEF KeepsHandle
  <2>7. QED
    BY <2>4, <2>5, <2>6 DEF Sound
<1>2. CASE info.error # Failed
  <2>1. /\ Answer(call, "SEC_FILE_INVALID_FILE")
        /\ UNCHANGED <<stream, length, misused>>
    BY <1>2 DEF Refused
  <2>2. "SEC_FILE_INVALID_FILE" \in eSecureFileError \ {Failed}
    BY DEF eSecureFileError, OpenErrors, Failed
  <2>3. /\ TypeOK' /\ StatusMatchesOutcome' /\ info'.file = info.file
        /\ info'.error = "SEC_FILE_INVALID_FILE"
    BY <2>1, <2>2, AnswerSound
  <2>4. KeepsHandle
    BY <1>2, <2>1, <2>3 DEF KeepsHandle, Failed
  <2>5. QED
    BY <2>3, <2>4 DEF Sound
<1>3. QED
  BY <1>1, <1>2

LEMMA BadBufferSound ==
    ASSUME TypeOK, NEW call \in Calls, BadBuffer(call)
    PROVE  Sound
<1>1. PICK e \in {"SEC_FILE_INVALID_PARAMETER", "SEC_FILE_BUFFER_TOO_SMALL"} :
        Answer(call, e)
  BY DEF BadBuffer
<1>2. Usable /\ UNCHANGED <<stream, length, misused>>
  BY DEF BadBuffer
<1>3. e \in eSecureFileError \ {Failed}
  BY DEF eSecureFileError, Failed
<1>4. TypeOK' /\ StatusMatchesOutcome' /\ info'.file = info.file /\ info'.error = e
  BY <1>1, <1>2, <1>3, AnswerSound
<1>5. KeepsHandle
  BY <1>2, <1>3, <1>4 DEF KeepsHandle, Usable
<1>6. QED
  BY <1>4, <1>5 DEF Sound

LEMMA NullPositionSound ==
    ASSUME TypeOK, NEW call \in Calls, NullPosition(call)
    PROVE  Sound
<1>1. /\ Answer(call, "SEC_FILE_INVALID_PARAMETER")
      /\ UNCHANGED <<stream, length, misused>>
      /\ Disciplined => info.error # Failed
  BY DEF NullPosition
<1>2. "SEC_FILE_INVALID_PARAMETER" \in eSecureFileError \ {Failed}
  BY DEF eSecureFileError, Failed
<1>3. /\ TypeOK' /\ StatusMatchesOutcome' /\ info'.file = info.file
      /\ info'.error = "SEC_FILE_INVALID_PARAMETER"
  BY <1>1, <1>2, AnswerSound
<1>4. Disciplined => KeepsHandle
  BY <1>1, <1>3 DEF KeepsHandle, Failed
<1>5. QED
  BY <1>3, <1>4 DEF Sound

\* What the calls that use the stream have in common.
LEMMA UseSound ==
    ASSUME TypeOK, Usable, UsesStream,
           NEW call \in Calls, NEW e \in eSecureFileError \ {Failed},
           NEW asked \in 0..MaxCount, NEW done \in 0..MaxCount, NEW fault \in BOOLEAN,
           stream' \in Streams, stream'.state = stream.state, length' \in 0..MaxLength,
           info' = [info EXCEPT !.error = e], Report(call, e, asked, done, fault),
           e = "SEC_FILE_SUCCESS" => ~fault /\ (call \in {"read", "write"} => done = asked),
           e = "SEC_FILE_END_OF_FILE_REACHED" => ~fault /\ done < asked /\ stream'.eof,
           e = "SEC_FILE_WRITE_DISK_FULL" => fault
    PROVE  Sound
<1>1. info' \in secureFileInfo /\ info'.file = info.file /\ info'.error = e
  BY DEF TypeOK, secureFileInfo
<1>2. /\ ret' \in Returns /\ ret'.call = call /\ ret'.status = e
      /\ ret'.asked = asked /\ ret'.done = done /\ ret'.fault = fault
  BY ReportType
<1>3. misused' \in BOOLEAN
  BY DEF TypeOK, UsesStream
<1>4. TypeOK'
  BY <1>1, <1>2, <1>3 DEF TypeOK
<1>5. StatusMatchesOutcome'
  BY <1>2 DEF StatusMatchesOutcome
<1>6. KeepsHandle
  BY <1>1 DEF KeepsHandle, Usable
<1>7. QED
  BY <1>4, <1>5, <1>6 DEF Sound

LEMMA ReadElementsSound ==
    ASSUME TypeOK, NEW n \in 0..MaxCount, ReadElements(n)
    PROVE  Sound
<1>1. PICK r \in Fread(n) :
        LET status == ReadStatus(r.done, n, r.eof, r.err) IN
        /\ stream' = [stream EXCEPT !.pos = @ + r.done, !.eof = r.eof, !.err = r.err]
        /\ info' = [info EXCEPT !.error = status]
        /\ Report("read", status, n, r.done, r.fault)
  BY DEF ReadElements
<1> DEFINE status == ReadStatus(r.done, n, r.eof, r.err)
<1>2. Usable /\ UsesStream /\ length' = length
  BY DEF ReadElements
<1>3. /\ r.done \in 0..n /\ stream.pos + r.done \in 0..MaxLength
      /\ r.eof \in BOOLEAN /\ r.err \in BOOLEAN /\ r.fault \in BOOLEAN
      /\ r.fault => r.done < n
      /\ r.fault => ~r.eof
  BY FreadBounds
<1>4. n \in Nat /\ r.done \in 0..MaxCount /\ MaxCount \in Nat
  BY <1>3, CountAssumption
<1>5. /\ status \in {"SEC_FILE_READ_WRITE_ERROR", "SEC_FILE_SUCCESS",
                     "SEC_FILE_END_OF_FILE_REACHED", "SEC_FILE_FAILURE"}
      /\ status = "SEC_FILE_SUCCESS" => r.done = n
      /\ status = "SEC_FILE_END_OF_FILE_REACHED" => r.done < n /\ r.eof
  BY <1>3, <1>4, ReadStatusRange
<1>6. status \in eSecureFileError \ {Failed}
  BY <1>5 DEF eSecureFileError, OpenErrors, Failed
<1>7. stream' \in Streams /\ stream'.state = stream.state /\ stream'.eof = r.eof
  BY <1>1, <1>3 DEF TypeOK, Streams
<1>8. length' \in 0..MaxLength
  BY <1>2 DEF TypeOK
<1>9. /\ status = "SEC_FILE_SUCCESS" => ~r.fault /\ ("read" \in {"read", "write"} => r.done = n)
      /\ status = "SEC_FILE_END_OF_FILE_REACHED" => ~r.fault /\ r.done < n /\ stream'.eof
      /\ status = "SEC_FILE_WRITE_DISK_FULL" => r.fault
  <2>1. r.done = n => ~r.fault
    BY <1>3, <1>4
  <2>2. status # "SEC_FILE_WRITE_DISK_FULL"
    BY <1>5
  <2>3. QED
    BY <1>3, <1>5, <1>7, <2>1, <2>2
<1>10. "read" \in Calls
  BY DEF Calls
<1> HIDE DEF status
<1>11. /\ info' = [info EXCEPT !.error = status]
       /\ Report("read", status, n, r.done, r.fault)
  BY <1>1 DEF status
<1>12. QED
  BY <1>2, <1>3, <1>4, <1>6, <1>7, <1>8, <1>9, <1>10, <1>11, UseSound

\* What fwrite did leaves a stream and a file of the right types.
LEMMA WrittenType ==
    ASSUME TypeOK, NEW n \in 0..MaxCount, NEW r, r.done \in 0..n,
           stream.pos + r.done \in 0..MaxLength, r.err \in BOOLEAN, Written(r)
    PROVE  /\ stream' \in Streams /\ stream'.state = stream.state
           /\ length' \in 0..MaxLength
<1>1. stream' \in Streams /\ stream'.state = stream.state
      /\ stream'.pos = stream.pos + r.done
  BY DEF Written, TypeOK, Streams
<1>2. length' \in {length, stream'.pos}
  BY DEF Written
<1>3. QED
  BY <1>1, <1>2 DEF TypeOK

LEMMA WriteElementsSound ==
    ASSUME TypeOK, NEW n \in 0..MaxCount, WriteElements(n)
    PROVE  Sound
<1>1. PICK r \in Fwrite(n) :
        LET status == WriteStatus(r.done, n, r.err) IN
        /\ Written(r)
        /\ info' = [info EXCEPT !.error = status]
        /\ Report("write", status, n, r.done, r.fault)
  BY DEF WriteElements
<1> DEFINE status == WriteStatus(r.done, n, r.err)
<1>2. Usable /\ UsesStream
  BY DEF WriteElements
<1>3. /\ r.done \in 0..n /\ stream.pos + r.done \in 0..MaxLength
      /\ r.err \in BOOLEAN /\ r.fault \in BOOLEAN
      /\ r.fault <=> r.done < n
  BY FwriteBounds
<1>4. n \in Nat /\ r.done \in 0..MaxCount /\ MaxCount \in Nat
  BY <1>3, CountAssumption
<1>5. /\ status \in {"SEC_FILE_SUCCESS", "SEC_FILE_WRITE_DISK_FULL",
                     "SEC_FILE_READ_WRITE_ERROR"}
      /\ status = "SEC_FILE_SUCCESS" => r.done = n
      /\ status = "SEC_FILE_WRITE_DISK_FULL" => r.done < n
  BY <1>3, <1>4, WriteStatusRange
<1>6. status \in eSecureFileError \ {Failed}
  BY <1>5 DEF eSecureFileError, OpenErrors, Failed
<1>7. /\ stream' \in Streams /\ stream'.state = stream.state
      /\ length' \in 0..MaxLength
  BY <1>1, <1>3, WrittenType
<1>8. /\ status = "SEC_FILE_SUCCESS" => ~r.fault /\ ("write" \in {"read", "write"} => r.done = n)
      /\ status = "SEC_FILE_END_OF_FILE_REACHED" => ~r.fault /\ r.done < n /\ stream'.eof
      /\ status = "SEC_FILE_WRITE_DISK_FULL" => r.fault
  <2>1. r.done = n => ~r.fault
    BY <1>3, <1>4
  <2>2. status # "SEC_FILE_END_OF_FILE_REACHED"
    BY <1>5
  <2>3. QED
    BY <1>3, <1>5, <2>1, <2>2
<1>9. "write" \in Calls
  BY DEF Calls
<1> HIDE DEF status
<1>10. /\ info' = [info EXCEPT !.error = status]
       /\ Report("write", status, n, r.done, r.fault)
  BY <1>1 DEF status
<1>11. QED
  BY <1>2, <1>3, <1>4, <1>6, <1>7, <1>8, <1>9, <1>10, UseSound

\* The errors of the calls that move no data.
PlainErrors == {"SEC_FILE_SEEK_FAILURE", "SEC_FILE_FLUSH_FAILURE", "SEC_FILE_FAILURE"}

LEMMA PlainErrorType ==
    PlainErrors \cup {"SEC_FILE_SUCCESS", "SEC_FILE_READ_WRITE_ERROR"}
      \subseteq eSecureFileError \ {Failed}
  BY DEF PlainErrors, eSecureFileError, OpenErrors, Failed

\* A call that moves no data, uses the stream and succeeds or fails plainly.
LEMMA PlainUseSound ==
    ASSUME TypeOK, Usable, UsesStream, NEW call \in Calls \ {"read", "write"},
           NEW e \in PlainErrors \cup {"SEC_FILE_SUCCESS"}, NEW fault \in BOOLEAN,
           stream' \in Streams, stream'.state = stream.state, length' = length,
           info' = [info EXCEPT !.error = e], Report(call, e, 0, 0, fault),
           e = "SEC_FILE_SUCCESS" => ~fault
    PROVE  Sound
<1>1. e \in eSecureFileError \ {Failed}
  BY PlainErrorType
<1>2. 0 \in 0..MaxCount /\ length' \in 0..MaxLength
  BY CountAssumption DEF TypeOK
<1>3. e # "SEC_FILE_END_OF_FILE_REACHED" /\ e # "SEC_FILE_WRITE_DISK_FULL"
  BY DEF PlainErrors
<1>4. QED
  BY <1>1, <1>2, <1>3, UseSound

LEMMA PositionedSound ==
    ASSUME TypeOK, NEW call \in Calls \ {"read", "write"}, NEW onFail \in PlainErrors,
           NEW Moved, \A s \in Moved : s \in Streams /\ s.state = stream.state,
           Positioned(call, Moved, onFail)
    PROVE  Sound
<1>1. Usable /\ UsesStream /\ length' = length
  BY DEF Positioned
<1>2. CASE /\ stream' \in Moved
           /\ info' = [info EXCEPT !.error = "SEC_FILE_SUCCESS"]
           /\ Report(call, "SEC_FILE_SUCCESS", 0, 0, FALSE)
  BY <1>1, <1>2, PlainUseSound
<1>3. CASE /\ UNCHANGED stream
           /\ info' = [info EXCEPT !.error = onFail]
           /\ Report(call, onFail, 0, 0, TRUE)
  <2>1. stream' \in Streams /\ stream'.state = stream.state
    BY <1>3 DEF TypeOK
  <2>2. onFail # "SEC_FILE_SUCCESS"
    BY DEF PlainErrors
  <2>3. QED
    BY <1>1, <1>3, <2>1, <2>2, PlainUseSound
<1>4. QED
  BY <1>2, <1>3 DEF Positioned

LEMMA RewindStreamSound ==
    ASSUME TypeOK, RewindStream
    PROVE  Sound
<1>1. PICK o \in Outcomes :
        /\ stream' = [stream EXCEPT !.pos = IF o = "ok" THEN 0 ELSE @,
                                    !.eof = FALSE, !.err = FALSE]
        /\ info' = [info EXCEPT !.error =
                      IF o = "ok" THEN "SEC_FILE_SUCCESS" ELSE "SEC_FILE_SEEK_FAILURE"]
        /\ Report("rewind", info'.error, 0, 0, o = "fails")
  BY DEF RewindStream
<1> DEFINE e == IF o = "ok" THEN "SEC_FILE_SUCCESS" ELSE "SEC_FILE_SEEK_FAILURE"
<1>2. Usable /\ UsesStream /\ length' = length
  BY DEF RewindStream
<1>3. e \in PlainErrors \cup {"SEC_FILE_SUCCESS"}
  BY DEF PlainErrors
<1>4. stream' \in Streams /\ stream'.state = stream.state
  <2>1. PICK p \in 0..MaxLength : stream' = [stream EXCEPT !.pos = p, !.eof = FALSE, !.err = FALSE]
    <3>1. CASE o = "ok"
      <4>1. 0 \in 0..MaxLength
        BY LengthAssumption
      <4>2. stream' = [stream EXCEPT !.pos = 0, !.eof = FALSE, !.err = FALSE]
        BY <1>1, <3>1
      <4>3. QED
        BY <4>1, <4>2
    <3>2. CASE o # "ok"
      <4>1. stream.pos \in 0..MaxLength
        BY DEF TypeOK, Streams
      <4>2. stream' = [stream EXCEPT !.pos = stream.pos, !.eof = FALSE, !.err = FALSE]
        BY <1>1, <3>2
      <4>3. QED
        BY <4>1, <4>2
    <3>3. QED
      BY <3>1, <3>2
  <2>2. QED
    BY <2>1 DEF TypeOK, Streams
<1>5. info'.error = e
  BY <1>1 DEF TypeOK, secureFileInfo
<1>6. e = "SEC_FILE_SUCCESS" => ~(o = "fails")
  BY DEF Outcomes
<1>7. "rewind" \in Calls \ {"read", "write"} /\ (o = "fails") \in BOOLEAN
  BY DEF Calls
<1> HIDE DEF e
<1>8. info' = [info EXCEPT !.error = e] /\ Report("rewind", e, 0, 0, o = "fails")
  <2>1. info' = [info EXCEPT !.error = e]
    BY <1>1 DEF e
  <2>2. QED
    BY <1>1, <1>5, <2>1
<1>9. QED
  BY <1>2, <1>3, <1>4, <1>6, <1>7, <1>8, PlainUseSound

LEMMA FlushStreamSound ==
    ASSUME TypeOK, FlushStream
    PROVE  Sound
<1>1. Usable /\ UsesStream /\ length' = length /\ "flush" \in Calls \ {"read", "write"}
  BY DEF FlushStream, Calls
<1>2. CASE /\ UNCHANGED stream
           /\ info' = [info EXCEPT !.error = "SEC_FILE_SUCCESS"]
           /\ Report("flush", "SEC_FILE_SUCCESS", 0, 0, FALSE)
  <2>1. stream' \in Streams /\ stream'.state = stream.state
    BY <1>2 DEF TypeOK
  <2>2. QED
    BY <1>1, <1>2, <2>1, PlainUseSound
<1>3. CASE /\ \E b \in {stream.err, TRUE} : stream' = [stream EXCEPT !.err = b]
           /\ info' = [info EXCEPT !.error = IF stream'.err THEN "SEC_FILE_FLUSH_FAILURE"
                                                           ELSE "SEC_FILE_FAILURE"]
           /\ Report("flush", info'.error, 0, 0, TRUE)
  <2> DEFINE e == IF stream'.err THEN "SEC_FILE_FLUSH_FAILURE" ELSE "SEC_FILE_FAILURE"
  <2>1. stream' \in Streams /\ stream'.state = stream.state
    BY <1>3 DEF TypeOK, Streams
  <2>2. e \in PlainErrors \cup {"SEC_FILE_SUCCESS"} /\ e # "SEC_FILE_SUCCESS"
    BY DEF PlainErrors
  <2>3. info'.error = e
    BY <1>3 DEF TypeOK, secureFileInfo
  <2> HIDE DEF e
  <2>4. info' = [info EXCEPT !.error = e] /\ Report("flush", e, 0, 0, TRUE)
    BY <1>3, <2>3 DEF e
  <2>5. QED
    BY <1>1, <2>1, <2>2, <2>4, PlainUseSound
<1>4. QED
  BY <1>2, <1>3 DEF FlushStream

LEMMA PrintTextSound ==
    ASSUME TypeOK, Usable, NEW format \in Formats, PrintText(format)
    PROVE  Sound
<1> DEFINE refused == [done |-> 0, err |-> stream.err, fault |-> FALSE]
           asked == IF format = "rejected" THEN 0 ELSE 1
<1>1. PICK r \in IF Verified(format) > 0 THEN Fwrite(1) ELSE {refused} :
        LET status == IF r.done = 0 \/ r.err THEN "SEC_FILE_READ_WRITE_ERROR"
                                             ELSE "SEC_FILE_SUCCESS" IN
        /\ Written(r)
        /\ info' = [info EXCEPT !.error = status]
        /\ Report("print", status, asked, r.done, r.fault)
  BY DEF PrintText
<1> DEFINE status == IF r.done = 0 \/ r.err THEN "SEC_FILE_READ_WRITE_ERROR"
                                            ELSE "SEC_FILE_SUCCESS"
<1>2. Written(r)
  BY <1>1
<1>3. UsesStream
  BY DEF PrintText
<1>4. 1 \in 0..MaxCount /\ 0 \in 0..MaxCount
  BY CountAssumption
<1>5. /\ r.done \in 0..1 /\ stream.pos + r.done \in 0..MaxLength
      /\ r.err \in BOOLEAN /\ r.fault \in BOOLEAN
      /\ r.fault => r.err
  <2>1. CASE r \in Fwrite(1)
    BY <1>4, <2>1, FwriteBounds
  <2>2. CASE r = refused
    <3>1. stream.pos \in 0..MaxLength /\ stream.err \in BOOLEAN
      BY DEF TypeOK, Streams
    <3>2. stream.pos + 0 = stream.pos
      BY <3>1
    <3>3. QED
      BY <2>2, <3>1, <3>2
  <2>3. QED
    BY <1>1, <2>1, <2>2
<1>6. /\ stream' \in Streams /\ stream'.state = stream.state
      /\ length' \in 0..MaxLength
  <2>1. /\ r.done \in 0..1 /\ r.err \in BOOLEAN
        /\ stream.pos + r.done \in 0..MaxLength
    BY <1>5
  <2>2. QED
    BY <1>2, <1>4, <2>1, WrittenType
<1>7. status \in eSecureFileError \ {Failed}
  BY PlainErrorType
<1>8. /\ status = "SEC_FILE_SUCCESS"
           => ~r.fault /\ ("print" \in {"read", "write"} => r.done = asked)
      /\ status # "SEC_FILE_END_OF_FILE_REACHED"
      /\ status # "SEC_FILE_WRITE_DISK_FULL"
  <2>1. CASE r.done = 0 \/ r.err
    <3>1. status = "SEC_FILE_READ_WRITE_ERROR"
      BY <2>1
    <3>2. QED
      BY <3>1
  <2>2. CASE ~(r.done = 0 \/ r.err)
    <3>1. status = "SEC_FILE_SUCCESS" /\ ~r.fault
      BY <1>5, <2>2
    <3>2. QED
      BY <3>1
  <2>3. QED
    BY <2>1, <2>2
<1>9. /\ "print" \in Calls /\ asked \in 0..MaxCount /\ r.done \in 0..MaxCount
  <2>1. r.done \in {0, 1}
    BY <1>5
  <2>2. QED
    BY <1>4, <2>1 DEF Calls
<1> HIDE DEF status, asked
<1>10. /\ info' = [info EXCEPT !.error = status]
       /\ Report("print", status, asked, r.done, r.fault)
  BY <1>1 DEF status, asked
<1>11. QED
  BY <1>3, <1>5, <1>6, <1>7, <1>8, <1>9, <1>10, UseSound

-----------------------------------------------------------------------------
(* Closing, the one call that changes what the handle tells                *)

ClosesStream ==
    /\ info.file /\ UsesStream
    /\ stream'.state = "closed"
    /\ \/ ~info'.file /\ info'.error = "SEC_FILE_SUCCESS"
       \/ info'.file /\ info'.error = Failed

ClosesNothing ==
    /\ ~info.file /\ ~info'.file
    /\ info'.error = "SEC_FILE_SUCCESS"
    /\ UNCHANGED <<stream, misused>>

LEMMA CloseEffect ==
    ASSUME TypeOK, secure_Close_File
    PROVE  /\ TypeOK' /\ StatusMatchesOutcome'
           /\ Disciplined => info.error # Failed
           /\ ClosesStream \/ ClosesNothing
<1>1. Disciplined => info.error # Failed
  BY DEF secure_Close_File
<1>2. CASE info.file
  <2>1. PICK o \in Outcomes :
          /\ info' = IF o = "ok" THEN [error |-> "SEC_FILE_SUCCESS", file |-> FALSE]
                                 ELSE [info EXCEPT !.error = Failed]
          /\ Report("close", info'.error, 0, 0, o = "fails")
    BY <1>2 DEF secure_Close_File
  <2>2. /\ UsesStream /\ stream' = [stream EXCEPT !.state = "closed"]
        /\ length' = length
    BY <1>2 DEF secure_Close_File
  <2>3. stream' \in Streams /\ stream'.state = "closed"
    BY <2>2 DEF TypeOK, Streams
  <2>4. /\ info' \in secureFileInfo
        /\ \/ o = "ok" /\ ~info'.file /\ info'.error = "SEC_FILE_SUCCESS"
           \/ o # "ok" /\ info'.file /\ info'.error = Failed
    <3>1. CASE o = "ok"
      BY <2>1, <3>1 DEF secureFileInfo, eSecureFileError
    <3>2. CASE o # "ok"
      BY <1>2, <2>1, <3>2 DEF TypeOK, secureFileInfo, eSecureFileError
    <3>3. QED
      BY <3>1, <3>2
  <2>5. 0 \in 0..MaxCount /\ "close" \in Calls /\ (o = "fails") \in BOOLEAN
    BY CountAssumption DEF Calls
  <2>6. info'.error \in eSecureFileError
    BY <2>4 DEF secureFileInfo
  <2>7. /\ ret' \in Returns /\ ret'.call = "close" /\ ret'.status = info'.error
        /\ ret'.fault = (o = "fails")
    BY <2>1, <2>5, <2>6 DEF Report, Returns
  <2>8. misused' \in BOOLEAN
    BY <2>2 DEF TypeOK, UsesStream
  <2>9. TypeOK'
    BY <2>2, <2>3, <2>4, <2>7, <2>8 DEF TypeOK
  <2>10. StatusMatchesOutcome'
    <3>1. info'.error \in {"SEC_FILE_SUCCESS", Failed}
      BY <2>4
    <3>2. info'.error = "SEC_FILE_SUCCESS" => o = "ok"
      BY <2>4 DEF Failed
    <3>3. QED
      BY <2>7, <3>1, <3>2 DEF StatusMatchesOutcome, Failed
  <2>11. ClosesStream
    BY <1>2, <2>2, <2>3, <2>4 DEF ClosesStream
  <2>12. QED
    BY <1>1, <2>9, <2>10, <2>11
<1>3. CASE ~info.file
  <2>1. Answer("close", "SEC_FILE_SUCCESS") /\ UNCHANGED <<stream, length, misused>>
    BY <1>3 DEF secure_Close_File
  <2>2. "close" \in Calls /\ "SEC_FILE_SUCCESS" \in eSecureFileError \ {Failed}
    BY DEF Calls, eSecureFileError, Failed
  <2>3. /\ TypeOK' /\ StatusMatchesOutcome'
        /\ info'.file = info.file /\ info'.error = "SEC_FILE_SUCCESS"
    BY <2>1, <2>2, AnswerSound
  <2>4. ClosesNothing
    BY <1>3, <2>1, <2>3 DEF ClosesNothing
  <2>5. QED
    BY <1>1, <2>3, <2>4
<1>4. QED
  BY <1>2, <1>3

-----------------------------------------------------------------------------
(* Every call                                                              *)

LEMMA CallSound ==
    ASSUME TypeOK, Next, ~secure_Close_File
    PROVE  Sound
<1> USE DEF Calls
<1>1. CASE secure_Read_File
  BY <1>1, RefusedSound, BadBufferSound, ReadElementsSound DEF secure_Read_File
<1>2. CASE secure_Write_File
  BY <1>2, RefusedSound, BadBufferSound, WriteElementsSound DEF secure_Write_File
<1>3. \A s \in {stream} \cup SoughtTo(0..MaxLength) : s \in Streams /\ s.state = stream.state
  BY DEF SoughtTo, TypeOK, Streams
<1>4. /\ "SEC_FILE_SEEK_FAILURE" \in PlainErrors
      /\ "SEC_FILE_FAILURE" \in PlainErrors
  BY DEF PlainErrors
<1>5. CASE secure_Seek_File
  BY <1>3, <1>4, <1>5, RefusedSound, PositionedSound DEF secure_Seek_File
<1>6. CASE secure_Rewind_File
  BY <1>6, RefusedSound, RewindStreamSound DEF secure_Rewind_File
<1>7. CASE secure_Tell_File
  BY <1>3, <1>4, <1>7, RefusedSound, PositionedSound DEF secure_Tell_File
<1>8. CASE secure_Flush_File
  BY <1>8, RefusedSound, FlushStreamSound DEF secure_Flush_File
<1>9. CASE secure_GetPos_File
  BY <1>3, <1>4, <1>9, RefusedSound, NullPositionSound, PositionedSound
     DEF secure_GetPos_File
<1>10. CASE secure_SetPos_File
  BY <1>3, <1>4, <1>10, RefusedSound, NullPositionSound, PositionedSound
     DEF secure_SetPos_File
<1>11. ASSUME NEW format \in Formats, secure_fprintf_File(format)
       PROVE  Sound
  <2>1. CASE ~info.file
    <3>1. /\ Report("print", "SEC_FILE_INVALID_SECURE_FILE", 0, 0, FALSE)
          /\ UNCHANGED <<info, stream, length, misused>>
      BY <1>11, <2>1 DEF secure_fprintf_File, secure_vfprintf_File, Usable
    <3>2. "SEC_FILE_INVALID_SECURE_FILE" \in eSecureFileError /\ 0 \in 0..MaxCount
      BY CountAssumption DEF eSecureFileError
    <3>3. ret' \in Returns /\ ret'.status = "SEC_FILE_INVALID_SECURE_FILE"
      BY <3>1, <3>2, ReportType
    <3>4. TypeOK' /\ StatusMatchesOutcome'
      BY <3>1, <3>3 DEF TypeOK, StatusMatchesOutcome
    <3>5. KeepsHandle
      BY <3>1 DEF KeepsHandle
    <3>6. QED
      BY <3>4, <3>5 DEF Sound
  <2>2. CASE info.file /\ info.error = Failed
    <3>1. Refused("print")
      BY <1>11, <2>2 DEF secure_fprintf_File, secure_vfprintf_File, Usable, Refused
    <3>2. QED
      BY <3>1, RefusedSound
  <2>3. CASE Usable /\ format = "null"
    <3>1. /\ Answer("print", "SEC_FILE_INVALID_PARAMETER")
          /\ UNCHANGED <<stream, length, misused>>
      BY <1>11, <2>3 DEF secure_fprintf_File, secure_vfprintf_File, Usable
    <3>2. BadBuffer("print")
      BY <2>3, <3>1 DEF BadBuffer
    <3>3. QED
      BY <3>2, BadBufferSound
  <2>4. CASE Usable /\ format # "null"
    <3>1. PrintText(format)
      BY <1>11, <2>4 DEF secure_fprintf_File, secure_vfprintf_File, Usable
    <3>2. QED
      BY <2>4, <3>1, PrintTextSound
  <2>5. QED
    BY <2>1, <2>2, <2>3, <2>4 DEF Usable
<1>12. QED
  BY <1>1, <1>2, <1>5, <1>6, <1>7, <1>8, <1>9, <1>10, <1>11 DEF Next

-----------------------------------------------------------------------------
(* Theorems                                                                *)

LEMMA InitType == Init => TypeOK /\ StatusMatchesOutcome
<1> SUFFICES ASSUME Init PROVE TypeOK /\ StatusMatchesOutcome
  OBVIOUS
<1>1. info \in secureFileInfo /\ info.error \in OpenErrors \cup {"SEC_FILE_SUCCESS"}
  <2>1. CASE info = [error |-> "SEC_FILE_SUCCESS", file |-> TRUE]
    BY <2>1 DEF secureFileInfo, eSecureFileError
  <2>2. CASE \E e \in OpenErrors : info = [error |-> e, file |-> FALSE]
    BY <2>2 DEF secureFileInfo, eSecureFileError
  <2>3. QED
    BY <2>1, <2>2 DEF Init
<1>2. stream \in Streams
  <2>1. 0 \in 0..MaxLength
    BY LengthAssumption
  <2>2. \E s \in {"open", "none"} :
          stream = [state |-> s, pos |-> 0, eof |-> FALSE, err |-> FALSE]
    BY DEF Init
  <2>3. QED
    BY <2>1, <2>2 DEF Streams
<1>3. ret \in Returns /\ ret.call = "open" /\ ret.status = info.error /\ ret.fault = FALSE
  BY <1>1, CountAssumption DEF Init, Returns, Calls, secureFileInfo
<1>4. QED
  BY <1>1, <1>2, <1>3 DEF Init, TypeOK, StatusMatchesOutcome, OpenErrors

LEMMA NextType == TypeOK /\ StatusMatchesOutcome /\ [Next]_vars
                    => TypeOK' /\ StatusMatchesOutcome'
<1> SUFFICES ASSUME TypeOK, StatusMatchesOutcome, [Next]_vars
             PROVE  TypeOK' /\ StatusMatchesOutcome'
  OBVIOUS
<1>1. CASE secure_Close_File
  BY <1>1, CloseEffect
<1>2. CASE Next /\ ~secure_Close_File
  BY <1>2, CallSound DEF Sound
<1>3. CASE UNCHANGED vars
  BY <1>3 DEF vars, TypeOK, StatusMatchesOutcome
<1>4. QED
  BY <1>1, <1>2, <1>3

\* Every variable keeps its type: no call moves the stream past the longest
\* file or leaves an error secure_file.h does not list.
THEOREM TypeCorrect == Spec => []TypeOK
<1>1. TypeOK /\ StatusMatchesOutcome /\ [Next]_vars => TypeOK' /\ StatusMatchesOutcome'
  BY NextType
<1>2. QED
  BY <1>1, InitType, PTL DEF Spec

\* Reads, writes and all other calls report what the C library did: success
\* only for the full count, end of file only at the end.
THEOREM StatusCorrect == Spec => []StatusMatchesOutcome
<1>1. TypeOK /\ StatusMatchesOutcome /\ [Next]_vars => TypeOK' /\ StatusMatchesOutcome'
  BY NextType
<1>2. QED
  BY <1>1, InitType, PTL DEF Spec

\* Before anything is known of the calls made, the handle and the stream agree.
HandleInv == HandleTellsStream /\ NoStaleUse

LEMMA InitHandle == Init => HandleInv
  BY DEF Init, HandleInv, HandleTellsStream, NoStaleUse, OpenErrors, Failed

\* A call that keeps the handle keeps the invariant: the guard on the handle's
\* error is what stands between a broken handle and the C library.
LEMMA KeepsHandleInv ==
    ASSUME TypeOK, HandleInv, KeepsHandle
    PROVE  HandleInv'
<1> USE DEF HandleInv, HandleTellsStream, NoStaleUse
<1>1. Usable => stream.state = "open"
  BY DEF Usable
<1>2. ~misused'
  BY <1>1 DEF KeepsHandle, UsesStream
<1>3. HandleTellsStream'
  BY DEF KeepsHandle
<1>4. QED
  BY <1>2, <1>3

LEMMA NextHandle ==
    ASSUME Disciplined, TypeOK, HandleInv, [Next]_vars
    PROVE  HandleInv'
<1>1. CASE secure_Close_File
  <2>1. info.error # Failed /\ (ClosesStream \/ ClosesNothing)
    BY <1>1, CloseEffect
  <2>2. CASE ClosesStream
    BY <2>1, <2>2 DEF ClosesStream, UsesStream, HandleInv, HandleTellsStream, NoStaleUse,
                      Failed
  <2>3. CASE ClosesNothing
    BY <2>1, <2>3 DEF ClosesNothing, HandleInv, HandleTellsStream, NoStaleUse, Failed
  <2>4. QED
    BY <2>1, <2>2, <2>3
<1>2. CASE Next /\ ~secure_Close_File
  BY <1>2, CallSound, KeepsHandleInv DEF Sound
<1>3. CASE UNCHANGED vars
  BY <1>3 DEF vars, HandleInv, HandleTellsStream, NoStaleUse
<1>4. QED
  BY <1>1, <1>2, <1>3

LEMMA HandleInvariant ==
    ASSUME Disciplined
    PROVE  Spec => []HandleInv
<1>1. TypeOK /\ HandleInv /\ [Next]_vars => HandleInv'
  BY NextHandle
<1>2. QED
  BY <1>1, InitHandle, TypeCorrect, PTL DEF Spec

\* The error and the FILE pointer in the handle together always tell whether the
\* C library's stream is still there: after whichever calls, in whichever order,
\* by a caller that makes no second close after one that failed.
THEOREM HandleTellsStreamCorrect ==
    ASSUME Disciplined
    PROVE  Spec => []HandleTellsStream
<1>1. HandleInv => HandleTellsStream
  BY DEF HandleInv
<1>2. QED
  BY <1>1, HandleInvariant, PTL

\* For the same caller no order of calls hands a stream fclose has destroyed to
\* the C library.
THEOREM NoStaleUseCorrect ==
    ASSUME Disciplined
    PROVE  Spec => []NoStaleUse
<1>1. HandleInv => NoStaleUse
  BY DEF HandleInv
<1>2. QED
  BY <1>1, HandleInvariant, PTL

\* For such a caller a handle is FileHandle: open while its stream lives,
\* closed once, and broken for good when that fails.
THEOREM ImplementsHandle ==
    ASSUME Disciplined
    PROVE  Spec => KeepsHandlePromise
<1> DEFINE phase == IF info.error = Failed THEN "broken"
                    ELSE IF info.file THEN "open" ELSE "absent"
           live == stream.state = "open"
<1>1. Init => Handle!Init
  BY DEF Init, Handle!Init, OpenErrors, Failed
<1>2. TypeOK /\ HandleInv /\ [Next]_vars => [Handle!Next]_(Handle!handle)
  <2> SUFFICES ASSUME TypeOK, HandleInv, [Next]_vars
               PROVE  [Handle!Next]_(Handle!handle)
    OBVIOUS
  <2> USE DEF Handle!Next, Handle!Close, Handle!CloseFails, Handle!handle
  <2>1. CASE secure_Close_File
    <3>1. info.error # Failed /\ (ClosesStream \/ ClosesNothing)
      BY <2>1, CloseEffect
    <3>2. CASE ClosesStream
      BY <3>1, <3>2 DEF ClosesStream, Failed
    <3>3. CASE ClosesNothing
      BY <3>1, <3>3 DEF ClosesNothing, Failed
    <3>4. QED
      BY <3>1, <3>2, <3>3
  <2>2. CASE Next /\ ~secure_Close_File
    <3>1. KeepsHandle
      BY <2>2, CallSound DEF Sound
    <3>2. QED
      BY <3>1 DEF KeepsHandle
  <2>3. CASE UNCHANGED vars
    BY <2>3 DEF vars
  <2>4. QED
    BY <2>1, <2>2, <2>3
<1>3. QED
  <2>1. Spec => []TypeOK
    BY TypeCorrect
  <2>2. Spec => []HandleInv
    BY HandleInvariant
  <2>3. QED
    BY <1>1, <1>2, <2>1, <2>2, PTL DEF Spec, KeepsHandlePromise, Handle!Spec

=============================================================================
