----------------------------- MODULE OaiStream -----------------------------
(***************************************************************************)
(* The streaming decoder shared by the OpenAI-compatible providers         *)
(* (internal/oai/oai.go): the consumer is inside Next, which reads one SSE *)
(* record after the other until it has an event to return, or between two  *)
(* calls. Tool calls arrive in fragments, interleaved by index, and are    *)
(* held back until the provider says the response is over.                 *)
(*                                                                         *)
(* The provider may send any record at any time, drop the connection, or   *)
(* end it; only after [DONE] does it send no more records.                 *)
(***************************************************************************)
EXTENDS Integers, Subsequences

CONSTANTS
  Frames,    \* the records a provider may send
  MaxFrames  \* bound: records read on one connection

(***************************************************************************)
(* A record is one of                                                      *)
(*   [kind |-> "skip"]   no data, or nothing json.Unmarshal accepts        *)
(*   [kind |-> "DONE"]   the sentinel                                      *)
(*   [kind |-> "error"]  a chunk with an error object                      *)
(*   a chunk: usage (0: both counts are zero), whether it has a choice,    *)
(*   and that choice's finish_reason, tool-call fragments and text ("" for *)
(*   none). A fragment's args are the pieces of JSON it carries.           *)
(***************************************************************************)
ChunkFields == {"kind", "usage", "choice", "finish", "tools", "text"}

Fragment == [idx : Int, id : STRING, name : STRING, args : Seq(STRING)]

ASSUME OaiAssumption ==
  /\ MaxFrames \in Nat
  /\ \A f \in Frames :
       \/ f.kind \in {"skip", "DONE", "error"}
       \/ /\ f.kind = "chunk" /\ DOMAIN f = ChunkFields
          /\ f.usage \in Nat /\ f.choice \in BOOLEAN /\ f.tools \in Seq(Fragment)

VARIABLES
  pc,          \* idle: between calls; reading: in Next's loop
  pending,     \* stream.pending: index -> call under assembly
  order,       \* stream.order
  usage,       \* stream.usage
  stopReason,  \* stream.stopReason
  flushed, done, sawTerminal, closed,  \* the flags of that name
  err,         \* nil, provider, transport, truncated
  log,         \* history: the events Next returned true for
  sent,        \* history: the records read
  wire         \* the connection: open, eof, broken

vars == <<pc, pending, order, usage, stopReason, flushed, done, sawTerminal,
          closed, err, log, sent, wire>>

Init ==
  /\ pc = "idle"
  /\ pending = <<>>
  /\ order = <<>>
  /\ usage = 0
  /\ stopReason = ""
  /\ flushed = FALSE
  /\ done = FALSE
  /\ sawTerminal = FALSE
  /\ closed = FALSE
  /\ err = "nil"
  /\ log = <<>>
  /\ sent = <<>>
  /\ wire = "open"

-----------------------------------------------------------------------------
(* Assembly.                                                               *)

MapFinishReason(s) ==
  CASE s \in {"stop", "end_turn"}            -> "end_turn"
    [] s \in {"length", "max_tokens"}        -> "max_tokens"
    [] s \in {"tool_calls", "function_call"} -> "tool_use"
    [] s \in {"content_filter", "refusal"}   -> "refusal"
    [] OTHER                                 -> "unknown"

EmptyCall == [id |-> "", name |-> "", args |-> <<>>]

\* Mutant: every fragment starts its call over.
AccumulateOverwriting(buf, tc) ==
  [calls |-> [i \in DOMAIN buf.calls \cup {tc.idx} |->
                IF i = tc.idx THEN [id |-> tc.id, name |-> tc.name, args |-> tc.args]
                ELSE buf.calls[i]],
   order |-> IF tc.idx \in DOMAIN buf.calls THEN buf.order ELSE Append(buf.order, tc.idx)]

\* One fragment into the buffer of pending calls.
Accumulate(buf, tc) ==
  LET old == IF tc.idx \in DOMAIN buf.calls THEN buf.calls[tc.idx] ELSE EmptyCall
      new == [id   |-> IF tc.id # "" THEN tc.id ELSE old.id,
              name |-> IF tc.name # "" THEN tc.name ELSE old.name,
              args |-> old.args \o tc.args]
  IN  [calls |-> [i \in DOMAIN buf.calls \cup {tc.idx} |->
                    IF i = tc.idx THEN new ELSE buf.calls[i]],
       order |-> IF tc.idx \in DOMAIN buf.calls THEN buf.order
                 ELSE Append(buf.order, tc.idx)]

\* The fragments of a chunk, one after the other.
Accumulated(buf, tools) ==
  LET after[n \in 0 .. Len(tools)] ==
        IF n = 0 THEN buf ELSE Accumulate(after[n - 1], tools[n])
  IN  after[Len(tools)]

ToolEvent(call) ==
  [type |-> "tool", id |-> call.id, name |-> call.name,
   args |-> IF call.args = <<>> THEN <<"{}">> ELSE call.args]

DoneEvent(u, reason) ==
  [type |-> "done", usage |-> u, stop |-> IF reason = "" THEN "unknown" ELSE reason]

Named == {i \in DOMAIN order : pending[order[i]].name # ""}

\* Next returns true with event e.
Return(e) == pc' = "idle" /\ log' = Append(log, e) /\ UNCHANGED err

\* Next returns false.
ReturnFalse(e) == pc' = "idle" /\ err' = e /\ UNCHANGED log

\* finish: the next complete call, skipping those that never got a name; then
\* the terminal event; then the end. Every call of Next comes back to it.
Finish ==
  IF Named # {}
    THEN LET n == CHOOSE i \in Named : \A j \in Named : i <= j
         IN  /\ order' = SubSeq(order, n + 1, Len(order))
             /\ pending' = [i \in Range(order') |-> pending[i]]
             /\ Return(ToolEvent(pending[order[n]]))
             /\ UNCHANGED <<flushed, done>>
    ELSE /\ order' = <<>> /\ pending' = <<>>
         /\ IF ~ flushed
              THEN flushed' = TRUE /\ Return(DoneEvent(usage, stopReason)) /\ UNCHANGED done
              ELSE done' = TRUE /\ ReturnFalse("nil") /\ UNCHANGED flushed

-----------------------------------------------------------------------------
(* Actions.                                                                *)

\* Mutant: a stream that failed is read further.
CallNextForgettingErr ==
  /\ pc = "idle"
  /\ ~ done
  /\ pc' = "reading"
  /\ UNCHANGED <<pending, order, usage, stopReason, flushed, done, sawTerminal,
                 closed, err, log, sent, wire>>

\* The consumer calls Next on a stream that has neither ended nor failed.
CallNext ==
  /\ pc = "idle"
  /\ ~ done /\ err = "nil"
  /\ pc' = "reading"
  /\ UNCHANGED <<pending, order, usage, stopReason, flushed, done, sawTerminal,
                 closed, err, log, sent, wire>>

\* The reader yields record f. After Close it may: records can be buffered.
Reads(f) ==
  /\ pc = "reading"
  /\ wire = "open"
  /\ Len(sent) < MaxFrames
  /\ sent # <<>> => sent[Len(sent)].kind # "DONE"
  /\ sent' = Append(sent, f)
  /\ UNCHANGED <<closed, wire>>

ReadSkipped(f) ==
  /\ f.kind = "skip"
  /\ Reads(f)
  /\ UNCHANGED <<pc, pending, order, usage, stopReason, flushed, done, sawTerminal, err, log>>

ReadSentinel(f) ==
  /\ f.kind = "DONE"
  /\ Reads(f)
  /\ sawTerminal' = TRUE
  /\ Finish
  /\ UNCHANGED <<usage, stopReason>>

ReadErrorChunk(f) ==
  /\ f.kind = "error"
  /\ Reads(f)
  /\ ReturnFalse("provider")
  /\ UNCHANGED <<pending, order, usage, stopReason, flushed, done, sawTerminal>>

\* A chunk without choices, as the one that carries the final usage is.
ReadBareChunk(f) ==
  /\ f.kind = "chunk" /\ ~ f.choice
  /\ Reads(f)
  /\ usage' = IF f.usage > 0 THEN f.usage ELSE usage
  /\ UNCHANGED <<pc, pending, order, stopReason, flushed, done, sawTerminal, err, log>>

ReadChoice(f) ==
  /\ f.kind = "chunk" /\ f.choice
  /\ Reads(f)
  /\ usage' = IF f.usage > 0 THEN f.usage ELSE usage
  /\ IF f.finish # ""
       THEN stopReason' = MapFinishReason(f.finish) /\ sawTerminal' = TRUE
       ELSE UNCHANGED <<stopReason, sawTerminal>>
  /\ LET buf == Accumulated([calls |-> pending, order |-> order], f.tools)
     IN  pending' = buf.calls /\ order' = buf.order
  /\ IF f.text # ""
       THEN Return([type |-> "text", text |-> f.text])
       ELSE UNCHANGED <<pc, err, log>>
  /\ UNCHANGED <<flushed, done>>

\* The read fails: the transport, the request's context, a closed body, or a
\* record longer than the reader takes.
ReadFails ==
  /\ pc = "reading"
  /\ wire = "open"
  /\ wire' = "broken"
  /\ ReturnFalse("transport")
  /\ UNCHANGED <<pending, order, usage, stopReason, flushed, done, sawTerminal, closed, sent>>

\* Mutant: an end of file is the end of the response.
ReadEOFTrusting ==
  /\ pc = "reading"
  /\ wire # "broken"
  /\ wire' = "eof"
  /\ Finish
  /\ UNCHANGED <<usage, stopReason, sawTerminal, closed, sent>>

\* The connection has ended, now or in an earlier call.
ReadEOF ==
  /\ pc = "reading"
  /\ wire # "broken"
  /\ wire' = "eof"
  /\ IF ~ sawTerminal /\ ~ flushed
       THEN ReturnFalse("truncated") /\ UNCHANGED <<pending, order, flushed, done>>
       ELSE Finish
  /\ UNCHANGED <<usage, stopReason, sawTerminal, closed, sent>>

Close ==
  /\ pc = "idle"
  /\ ~ closed
  /\ closed' = TRUE
  /\ UNCHANGED <<pc, pending, order, usage, stopReason, flushed, done, sawTerminal,
                 err, log, sent, wire>>

ReadRecord(f) ==
  \/ ReadSkipped(f)
  \/ ReadSentinel(f)
  \/ ReadErrorChunk(f)
  \/ ReadBareChunk(f)
  \/ ReadChoice(f)

Next ==
  \/ CallNext
  \/ \E f \in Frames : ReadRecord(f)
  \/ ReadFails
  \/ ReadEOF
  \/ Close

Spec == Init /\ [][Next]_vars

-----------------------------------------------------------------------------
(* Properties.                                                             *)

\* The terminal event was delivered, and what was delivered but for it.
HasDone == log # <<>> /\ Last(log).type = "done"
Content == IF HasDone THEN Front(log) ELSE log

\* The chunks there may be, those that give usage, those with a choice, and
\* those whose choice has text or says why the model stopped.
Chunks     == {f \in Frames : f.kind = "chunk"}
Used       == {f \in Chunks : f.usage > 0}
WithChoice == {f \in Chunks : f.choice}
Texts      == {f \in WithChoice : f.text # ""}
Finished   == {f \in WithChoice : f.finish # ""}

\* The provider has said that the response is over.
Signalled == \E i \in DOMAIN sent : sent[i].kind = "DONE" \/ sent[i] \in Finished

\* A truncated answer is never passed off as a whole one: the terminal event,
\* a tool call, or a clean end is only ever seen after the provider's own
\* signal, whichever of its two forms it takes (sawTerminal).
NoTruncatedAnswer ==
  (\E i \in DOMAIN log : log[i].type \in {"tool", "done"}) \/ done => Signalled

\* The text of some records, one event for each that has any.
TextsOf(records) ==
  LET from == Among(records, Texts)
  IN  [i \in DOMAIN from |-> [type |-> "text", text |-> from[i].text]]

\* The fragments of some records, one after the other.
FragmentsOf(records) ==
  LET from == Among(records, WithChoice)
  IN  FlattenSeq([i \in DOMAIN from |-> from[i].tools])

\* The call of index i, put together from all its fragments at once: the last
\* id and name it was given, and all the arguments.
IdOf(frags, i) ==
  LET given == Among(frags, {tc \in Fragment : tc.idx = i /\ tc.id # ""})
  IN  IF given = <<>> THEN "" ELSE Last(given).id
NameOf(frags, i) ==
  LET given == Among(frags, {tc \in Fragment : tc.idx = i /\ tc.name # ""})
  IN  IF given = <<>> THEN "" ELSE Last(given).name
ArgsOf(frags, i) ==
  FlattenSeq([j \in DOMAIN frags |-> IF frags[j].idx = i THEN frags[j].args ELSE <<>>])

\* The indices in the order the provider began their calls.
Begun(frags) ==
  FlattenSeq([j \in DOMAIN frags |->
    IF \A k \in 1 .. j - 1 : frags[k].idx # frags[j].idx THEN <<frags[j].idx>> ELSE <<>>])

\* The calls of some indices, but for those that never got a name.
CallsOf(frags, indices) ==
  FlattenSeq([k \in DOMAIN indices |->
    IF NameOf(frags, indices[k]) = "" THEN <<>>
    ELSE LET args == ArgsOf(frags, indices[k])
         IN  <<[type |-> "tool", id |-> IdOf(frags, indices[k]),
                name |-> NameOf(frags, indices[k]),
                args |-> IF args = <<>> THEN <<"{}">> ELSE args]>>])

WholeCalls == CallsOf(FragmentsOf(sent), Begun(FragmentsOf(sent)))

\* Text is delivered unchanged and in order, all there is of it before the first
\* tool call. Tool calls are delivered whole, once each, in the order the
\* provider began them, however their fragments were interleaved; and all of
\* them before the terminal event, which is the last.
DeliveredInOrder ==
  /\ IsPrefix(TextsOf(sent), Content)
  /\ IsPrefix(Content, TextsOf(sent) \o WholeCalls)
  /\ HasDone => Content = TextsOf(sent) \o WholeCalls

\* The terminal event carries the last usage and the last finish_reason the
\* provider sent, wherever in the stream they came.
TotalsFaithful ==
  HasDone =>
    LET used     == Among(sent, Used)
        finished == Among(sent, Finished)
    IN  /\ Last(log).usage = IF used = <<>> THEN 0 ELSE Last(used).usage
        /\ Last(log).stop = IF finished = <<>> THEN "unknown"
                            ELSE MapFinishReason(Last(finished).finish)

\* What the consumer has been given is what the provider sent, in both
\* respects.
LogFaithful == DeliveredInOrder /\ TotalsFaithful

\* The decoder is a Stream: nothing after the terminal event, no clean end
\* without it, and a failure is final.
Contract == INSTANCE StreamContract WITH
  Content <- {"text", "tool"}, Dones <- {"done"},
  log <- [i \in DOMAIN log |-> log[i].type],
  mode <- IF err # "nil" THEN "failed" ELSE IF done THEN "ended" ELSE "open"

KeepsContract == Contract!ContractSpec

=============================================================================
