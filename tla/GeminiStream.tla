---------------------------- MODULE GeminiStream ----------------------------
(***************************************************************************)
(* The streaming decoder of the Gemini adapter (provider/gemini/gemini.go).*)
(* A record may carry several parts, so one turn of Next's loop may queue  *)
(* several events, which later calls hand out before anything is read. The *)
(* terminal event comes after the end of the body, and a finishReason is   *)
(* the only sign that the response is whole.                               *)
(*                                                                         *)
(* The provider may send any record at any time, drop the connection, or   *)
(* end it.                                                                 *)
(***************************************************************************)
EXTENDS Sequences, Subsequences

CONSTANTS
  Frames,    \* the records a provider may send
  MaxFrames  \* bound: records read on one connection

(***************************************************************************)
(* A record is one of                                                      *)
(*   [kind |-> "skip"]   no data, or nothing json.Unmarshal accepts        *)
(*   [kind |-> "error"]  a chunk with an error object                      *)
(*   a chunk: usage (0: both counts are zero), whether it has a candidate, *)
(*   and that candidate's finishReason ("" for none) and content parts. A  *)
(*   part has a function call ("" for none) or a text.                     *)
(***************************************************************************)
ChunkFields == {"kind", "usage", "candidate", "finish", "parts"}

ASSUME GeminiAssumption ==
  /\ MaxFrames \in Nat
  /\ \A f \in Frames :
       \/ f.kind \in {"skip", "error"}
       \/ /\ f.kind = "chunk" /\ DOMAIN f = ChunkFields
          /\ f.usage \in Nat /\ f.candidate \in BOOLEAN
          /\ f.parts \in Seq(Range(f.parts))

VARIABLES
  pc,          \* idle: between calls; reading: in Next's loop
  queued,      \* stream.queued
  usage,       \* stream.usage
  stopReason,  \* stream.stopReason
  flushed, done, sawTerminal, closed,  \* the flags of that name
  err,         \* nil, provider, transport, truncated
  log,         \* history: the events Next returned true for
  sent,        \* history: the records read
  wire         \* the connection: open, eof, broken

vars == <<pc, queued, usage, stopReason, flushed, done, sawTerminal, closed,
          err, log, sent, wire>>

Init ==
  /\ pc = "idle"
  /\ queued = <<>>
  /\ usage = 0
  /\ stopReason = ""
  /\ flushed = FALSE
  /\ done = FALSE
  /\ sawTerminal = FALSE
  /\ closed = FALSE
  /\ err = "nil"
  /\ log = <<>>
  /\ sent = <<>>
  /\ wire = "open"

-----------------------------------------------------------------------------
(* What a candidate means.                                                 *)

MapFinishReason(s, hasCalls) ==
  IF hasCalls THEN "tool_use" ELSE
    CASE s = "STOP"       -> "end_turn"
      [] s = "MAX_TOKENS" -> "max_tokens"
      [] s \in {"SAFETY", "RECITATION", "BLOCKLIST", "PROHIBITED_CONTENT", "SPII"} -> "refusal"
      [] OTHER            -> "unknown"

HasCalls(parts) == \E i \in DOMAIN parts : parts[i].call # ""

\* A function call wins over text in the same part, and its name serves as
\* its id; a part with neither says nothing.
EventsOf(part) ==
  IF part.call # "" THEN <<[type |-> "tool", id |-> part.call, name |-> part.call]>>
  ELSE IF part.text # "" THEN <<[type |-> "text", text |-> part.text]>>
  ELSE <<>>

\* Mutant: the calls of a candidate come before its text.
PartsCallsFirst(parts) ==
  LET Kind(calls) == FlattenSeq([i \in DOMAIN parts |->
        IF (parts[i].call # "") = calls THEN EventsOf(parts[i]) ELSE <<>>])
  IN  Kind(TRUE) \o Kind(FALSE)

PartsFromCandidate(parts) == FlattenSeq([i \in DOMAIN parts |-> EventsOf(parts[i])])

\* Next returns true with event e.
Return(e) == pc' = "idle" /\ log' = Append(log, e) /\ UNCHANGED err

\* Next returns false.
ReturnFalse(e) == pc' = "idle" /\ err' = e /\ UNCHANGED log

-----------------------------------------------------------------------------
(* Actions.                                                                *)

\* Next on a stream with events left over from the last record.
HandOutQueued ==
  /\ pc = "idle"
  /\ ~ done /\ err = "nil"
  /\ queued # <<>>
  /\ queued' = Tail(queued)
  /\ Return(Head(queued))
  /\ UNCHANGED <<usage, stopReason, flushed, done, sawTerminal, closed, sent, wire>>

\* Mutant: a stream that failed is read further.
CallNextForgettingErr ==
  /\ pc = "idle"
  /\ ~ done
  /\ queued = <<>>
  /\ pc' = "reading"
  /\ UNCHANGED <<queued, usage, stopReason, flushed, done, sawTerminal, closed,
                 err, log, sent, wire>>

\* Next with nothing left over goes to the connection.
CallNext ==
  /\ pc = "idle"
  /\ ~ done /\ err = "nil"
  /\ queued = <<>>
  /\ pc' = "reading"
  /\ UNCHANGED <<queued, usage, stopReason, flushed, done, sawTerminal, closed,
                 err, log, sent, wire>>

\* The reader yields record f. After Close it may: records can be buffered.
Reads(f) ==
  /\ pc = "reading"
  /\ wire = "open"
  /\ Len(sent) < MaxFrames
  /\ sent' = Append(sent, f)
  /\ UNCHANGED <<closed, wire, flushed, done>>

ReadSkipped(f) ==
  /\ f.kind = "skip"
  /\ Reads(f)
  /\ UNCHANGED <<pc, queued, usage, stopReason, sawTerminal, err, log>>

ReadErrorChunk(f) ==
  /\ f.kind = "error"
  /\ Reads(f)
  /\ ReturnFalse("provider")
  /\ UNCHANGED <<queued, usage, stopReason, sawTerminal>>

\* A chunk without candidates, as a record of usage alone or a blocked prompt.
ReadBareChunk(f) ==
  /\ f.kind = "chunk" /\ ~ f.candidate
  /\ Reads(f)
  /\ usage' = IF f.usage > 0 THEN f.usage ELSE usage
  /\ UNCHANGED <<pc, queued, stopReason, sawTerminal, err, log>>

ReadCandidate(f) ==
  /\ f.kind = "chunk" /\ f.candidate
  /\ Reads(f)
  /\ usage' = IF f.usage > 0 THEN f.usage ELSE usage
  /\ IF f.finish # ""
       THEN stopReason' = MapFinishReason(f.finish, HasCalls(f.parts)) /\ sawTerminal' = TRUE
       ELSE UNCHANGED <<stopReason, sawTerminal>>
  /\ LET events == PartsFromCandidate(f.parts)
     IN  IF events # <<>>
           THEN queued' = Tail(events) /\ Return(Head(events))
           ELSE UNCHANGED <<pc, queued, err, log>>

\* The read fails: the transport, the request's context, a closed body, or a
\* record longer than the reader takes.
ReadFails ==
  /\ pc = "reading"
  /\ wire = "open"
  /\ wire' = "broken"
  /\ ReturnFalse("transport")
  /\ UNCHANGED <<queued, usage, stopReason, flushed, done, sawTerminal, closed, sent>>

\* Mutant: an end of file is the end of the response.
ReadEOFTrusting ==
  /\ pc = "reading"
  /\ wire # "broken"
  /\ wire' = "eof"
  /\ IF ~ flushed
       THEN /\ flushed' = TRUE
            /\ Return([type |-> "done", usage |-> usage,
                       stop |-> IF stopReason = "" THEN "unknown" ELSE stopReason])
            /\ UNCHANGED done
       ELSE done' = TRUE /\ ReturnFalse("nil") /\ UNCHANGED flushed
  /\ UNCHANGED <<queued, usage, stopReason, sawTerminal, closed, sent>>

\* The connection has ended, now or in an earlier call: a truncated response,
\* or the terminal event, or the end.
ReadEOF ==
  /\ pc = "reading"
  /\ wire # "broken"
  /\ wire' = "eof"
  /\ \/ /\ ~ sawTerminal /\ ~ flushed
        /\ ReturnFalse("truncated")
        /\ UNCHANGED <<flushed, done>>
     \/ /\ sawTerminal /\ ~ flushed
        /\ flushed' = TRUE
        /\ Return([type |-> "done", usage |-> usage,
                   stop |-> IF stopReason = "" THEN "unknown" ELSE stopReason])
        /\ UNCHANGED done
     \/ /\ flushed
        /\ done' = TRUE
        /\ ReturnFalse("nil")
        /\ UNCHANGED flushed
  /\ UNCHANGED <<queued, usage, stopReason, sawTerminal, closed, sent>>

Close ==
  /\ pc = "idle"
  /\ ~ closed
  /\ closed' = TRUE
  /\ UNCHANGED <<pc, queued, usage, stopReason, flushed, done, sawTerminal, err,
                 log, sent, wire>>

ReadRecord(f) == ReadSkipped(f) \/ ReadErrorChunk(f) \/ ReadBareChunk(f) \/ ReadCandidate(f)

Next ==
  \/ HandOutQueued
  \/ CallNext
  \/ \E f \in Frames : ReadRecord(f)
  \/ ReadFails
  \/ ReadEOF
  \/ Close

Spec == Init /\ [][Next]_vars

-----------------------------------------------------------------------------
(* Properties.                                                             *)

\* The terminal event was delivered, and what was delivered but for it.
HasDone == log # <<>> /\ Last(log).type = "done"
Content == IF HasDone THEN Front(log) ELSE log

\* The chunks there may be, those with a candidate, and those whose candidate
\* says why the model stopped.
Chunks     == {f \in Frames : f.kind = "chunk"}
Candidates == {f \in Chunks : f.candidate}
Finished   == {f \in Candidates : f.finish # ""}

\* A truncated answer is never passed off as a whole one: the terminal event
\* and a clean end are only ever seen after a finishReason (sawTerminal).
NoTruncatedAnswer == HasDone \/ done => \E i \in DOMAIN sent : sent[i] \in Finished

\* The parts of some records, one after the other.
PartsOf(records) ==
  LET from == Among(records, Candidates)
  IN  FlattenSeq([i \in DOMAIN from |-> from[i].parts])

\* What parts are to the consumer, taken one by one.
Said(parts) ==
  FlattenSeq([i \in DOMAIN parts |->
    IF parts[i].call # ""
      THEN <<[type |-> "tool", id |-> parts[i].call, name |-> parts[i].call]>>
      ELSE IF parts[i].text = "" THEN <<>>
      ELSE <<[type |-> "text", text |-> parts[i].text]>>])

Expected == Said(PartsOf(sent))

\* Text and calls are delivered once each in the order they were sent, across
\* records and within one: what was delivered and what is queued is always all
\* there was, and nothing is left in the queue when the terminal event comes.
DeliveredInOrder ==
  /\ Content \o queued = Expected
  /\ HasDone => queued = <<>>

\* The terminal event carries the last totals the provider sent, and the stop
\* reason of its last candidate to give one.
TotalsFaithful ==
  HasDone =>
    LET used == Among(sent, {f \in Chunks : f.usage > 0})
        last == Last(Among(sent, Finished))
    IN  /\ Last(log).usage = IF used = <<>> THEN 0 ELSE Last(used).usage
        /\ Last(log).stop = MapFinishReason(last.finish, HasCalls(last.parts))

\* What the consumer has been given is what the provider sent, in both
\* respects.
LogFaithful == DeliveredInOrder /\ TotalsFaithful

\* The decoder is a Stream: nothing after the terminal event, no clean end
\* without it, and a failure is final.
Contract == INSTANCE StreamContract WITH
  Content <- {"text", "tool"}, Dones <- {"done"},
  log <- [i \in DOMAIN log |-> log[i].type],
  mode <- IF err # "nil" THEN "failed" ELSE IF done THEN "ended" ELSE "open"

KeepsContract == Contract!ContractSpec

\* docs/feature-matrix.md: a response containing any function call reports
\* StopToolUse regardless of its finishReason.
CallMeansToolUse ==
  HasDone /\ (\E i \in DOMAIN log : log[i].type = "tool") => Last(log).stop = "tool_use"
=============================================================================
