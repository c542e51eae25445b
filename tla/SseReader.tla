----------------------------- MODULE SseReader -----------------------------
(***************************************************************************)
(* The reader of Server-Sent Events under the OpenAI-compatible and Gemini *)
(* decoders (internal/sse/sse.go): a line scanner over the response body,  *)
(* and Next, which collects lines into a record until a blank one ends it. *)
(*                                                                         *)
(* The host may send any line at any time, a line longer than the scanner  *)
(* holds, end the body, or lose the connection; in the last two cases what *)
(* it had sent of a line is still handed out as one, without its newline.  *)
(***************************************************************************)
EXTENDS Subsequences

CONSTANTS
  Lines,    \* the lines a host may send
  MaxLines  \* bound: lines of one body

(***************************************************************************)
(* A line is cut at its first colon into a field and a value, whose first  *)
(* character may be a space. A blank line has no field and no colon, a     *)
(* comment no field. Trailing carriage returns are cut off every line      *)
(* before it is looked at and do not appear here, nor does the newline     *)
(* that the scanner cut the line at.                                       *)
(***************************************************************************)
ASSUME SseAssumption ==
  /\ MaxLines \in Nat
  /\ \A l \in Lines :
       /\ l.field \in STRING /\ l.value \in Seq(STRING \ {"\n"})
       /\ ~ l.colon => l.value = <<>>

VARIABLES
  readerPc,          \* idle: between calls; reading: in Next's loop
  name, data, seen,  \* Next's locals: the record under collection
  scanDone,          \* Reader.done
  scanErr,           \* Reader.err: nil, too_long, transport
  records,           \* history: the events Next returned true for
  told,              \* history: what Next returned last: nothing, true, false
  body,              \* history: the lines scanned
  lineWire           \* what ended the body: open, eof, too_long, transport

readerVars == <<readerPc, name, data, seen, scanDone, scanErr, records, told, body, lineWire>>

ReaderInit ==
  /\ readerPc = "idle"
  /\ name = <<>> /\ data = <<>> /\ seen = FALSE
  /\ scanDone = FALSE
  /\ scanErr = "nil"
  /\ records = <<>>
  /\ told = "nothing"
  /\ body = <<>>
  /\ lineWire = "open"

-----------------------------------------------------------------------------

Blank(l)   == l.field = "" /\ ~ l.colon
Comment(l) == l.field = "" /\ l.colon

\* One space after the colon is framing.
Value(l) == IF l.value # <<>> /\ Head(l.value) = " " THEN Tail(l.value) ELSE l.value

\* data grows by a line of the record. It is nil, and gets no newline, until
\* a line has brought something: nil and empty are one value here, since
\* appending nothing to nil leaves nil.
Joined(old, v) == IF old = <<>> THEN v ELSE old \o <<"\n">> \o v

\* The loop's body for a line that is not blank.
Collect(l) ==
  /\ name' = IF l.field = "event" THEN Value(l) ELSE name
  /\ data' = IF l.field = "data" THEN Joined(data, Value(l)) ELSE data
  /\ seen' = (seen \/ l.field \in {"event", "data"})
  /\ UNCHANGED <<readerPc, records, told>>

\* Next returns true with the record collected.
Surface ==
  /\ readerPc' = "idle" /\ told' = "true"
  /\ records' = Append(records, [name |-> name, data |-> data])
  /\ UNCHANGED <<name, data, seen>>

\* A blank line: a record, named or with data, is surfaced.
EndRecord ==
  IF seen THEN Surface
  ELSE name' = <<>> /\ data' = <<>> /\ UNCHANGED <<readerPc, seen, records, told>>

\* Next starts with nothing collected, and returns false for ever once the
\* body is done with.
CallReader ==
  /\ readerPc = "idle"
  /\ name' = <<>> /\ data' = <<>> /\ seen' = FALSE
  /\ IF scanDone THEN told' = "false" /\ UNCHANGED readerPc ELSE readerPc' = "reading" /\ UNCHANGED told
  /\ UNCHANGED <<scanDone, scanErr, records, body, lineWire>>

\* The scanner hands out a line: one with its newline while the body is open,
\* or the rest of a body that ended in the middle of one, which is blank
\* if only its carriage return came.
ScanLine ==
  /\ readerPc = "reading" /\ lineWire = "open"
  /\ Len(body) < MaxLines
  /\ lineWire' \in {"open", "eof", "transport"}
  /\ \E l \in Lines :
       /\ body' = Append(body, l)
       /\ CASE Blank(l)   -> EndRecord
            [] Comment(l) -> UNCHANGED <<readerPc, name, data, seen, records, told>>
            [] OTHER      -> Collect(l)
  /\ UNCHANGED <<scanDone, scanErr>>

\* The body ends after a newline, is cut off there, or its next line does not
\* fit the scanner's buffer.
BodyEnds ==
  /\ readerPc = "reading" /\ lineWire = "open"
  /\ lineWire' \in {"eof", "transport", "too_long"}
  /\ UNCHANGED <<readerPc, name, data, seen, scanDone, scanErr, records, told, body>>

\* Mutant: the record under collection is surfaced whatever ended the body.
ScanEndsTrusting ==
  /\ readerPc = "reading" /\ lineWire # "open"
  /\ scanDone' = TRUE
  /\ scanErr' = IF lineWire = "eof" THEN "nil" ELSE lineWire
  /\ IF seen THEN Surface
     ELSE readerPc' = "idle" /\ told' = "false" /\ UNCHANGED <<name, data, seen, records>>
  /\ UNCHANGED <<body, lineWire>>

\* Mutant: the scanner's error is not looked at.
ScanEndsUnchecked ==
  /\ readerPc = "reading" /\ lineWire # "open"
  /\ scanDone' = TRUE
  /\ IF seen THEN Surface
     ELSE readerPc' = "idle" /\ told' = "false" /\ UNCHANGED <<name, data, seen, records>>
  /\ UNCHANGED <<scanErr, body, lineWire>>

\* Scan returns false. After an error there is no more record; at the end of
\* the body the lines collected are one although no blank line follows them.
ScanEnds ==
  /\ readerPc = "reading" /\ lineWire # "open"
  /\ scanDone' = TRUE
  /\ scanErr' = IF lineWire = "eof" THEN "nil" ELSE lineWire
  /\ IF lineWire = "eof" /\ seen THEN Surface
     ELSE readerPc' = "idle" /\ told' = "false" /\ UNCHANGED <<name, data, seen, records>>
  /\ UNCHANGED <<body, lineWire>>

ReaderNext == CallReader \/ ScanLine \/ BodyEnds \/ ScanEnds

ReaderSpec == ReaderInit /\ [][ReaderNext]_readerVars

-----------------------------------------------------------------------------
(* Properties. The records of a body are read off all of its lines at      *)
(* once: blank lines part them.                                            *)

\* The lines that tell of the record under way after the first n.
Group(lines, n) ==
  FlattenSeq([i \in 1 .. n |->
    IF lines[i].field \in {"event", "data"} /\ \A k \in i .. n : ~ Blank(lines[k])
      THEN <<lines[i]>> ELSE <<>>])

Values(group, field) ==
  FlattenSeq([i \in DOMAIN group |-> IF group[i].field = field THEN <<Value(group[i])>> ELSE <<>>])

\* As the SSE specification has it: every value, and a newline between two.
Payload(values) == FlattenSeq([i \in DOMAIN values |-> IF i = 1 THEN values[i] ELSE <<"\n">> \o values[i]])

Trimmed(s) ==
  FlattenSeq([i \in DOMAIN s |-> IF \A j \in 1 .. i : s[j] = "\n" THEN <<>> ELSE <<s[i]>>])

RecordOf(group) ==
  LET names == Values(group, "event")
  IN  [name |-> IF names = <<>> THEN <<>> ELSE Last(names),
       data |-> Trimmed(Payload(Values(group, "data")))]

\* The record that would end there, if any line tells of one.
RecordAfter(lines, n) ==
  IF Group(lines, n) = <<>> THEN <<>> ELSE <<RecordOf(Group(lines, n))>>

\* The records of these lines, but for those that end after so many of them.
RecordsOf(lines, skipped) ==
  FlattenSeq([i \in DOMAIN lines |->
    IF Blank(lines[i]) /\ i - 1 \notin skipped THEN RecordAfter(lines, i - 1) ELSE <<>>])

\* What Next was to surface by now. The lines a body ends in are a record
\* without a blank line after them, if the end was a clean one.
Due(skipped) ==
  RecordsOf(body, skipped)
    \o IF scanDone /\ lineWire = "eof" /\ Len(body) \notin skipped THEN RecordAfter(body, Len(body)) ELSE <<>>

\* Where a record would end that has a name and no data field.
BareNames ==
  {n \in 0 .. Len(body) : Group(body, n) # <<>> /\ Values(Group(body, n), "data") = <<>>}

\* Whatever lines come and however the body ends, Next has surfaced every
\* record of the lines so far that has a data field, once and in order, each
\* under its last event name with the data lines joined as the SSE specification
\* joins them, leading newlines excepted; at the end of a body that ended
\* cleanly, the record it ends in; and nothing of a record that an error cut off.
\* A bare event name may have been surfaced among them, as the code has it, or
\* skipped, as a comment of Next says.
RecordsFaithful == \E skipped \in SUBSET BareNames : records = Due(skipped)

\* Next returns false when the body is over, and Err tells a body that came to
\* its end from one that was cut off or has a line too long; for good.
EndTold ==
  told = "false" => lineWire # "open" /\ scanErr = (IF lineWire = "eof" THEN "nil" ELSE lineWire)
=============================================================================
