--------------------------- MODULE AnthropicStream ---------------------------
(***************************************************************************)
(* The streaming decoder of the Anthropic adapter                          *)
(* (provider/anthropic/anthropic.go), over the SDK's event stream and its  *)
(* accumulator. Text and thinking are passed on as they come. Tool calls   *)
(* and totals are taken from the accumulated message once the stream has   *)
(* ended, and only if that message has a stop reason.                      *)
(*                                                                         *)
(* The SDK is not part of this repository: Accumulate is what the adapter  *)
(* relies on, a message put together from its events, which refuses a      *)
(* delta that belongs to no block.                                         *)
(***************************************************************************)
EXTENDS Sequences, Subsequences

CONSTANTS
  Events,    \* the events a provider may send
  MaxEvents  \* bound: events read on one connection

(***************************************************************************)
(* An event is one of                                                      *)
(*   [kind |-> "other"]                 ping, content_block_stop, ...      *)
(*   [kind |-> "start", usage]          message_start                      *)
(*   [kind |-> "block", type, id, name] content_block_start                *)
(*   [kind |-> "delta", type, piece]    content_block_delta                *)
(*   [kind |-> "stop", stop, output]    message_delta                      *)
(* Blocks and deltas have a type, text, thinking or tool; a delta's piece  *)
(* is "" when it is empty. An event of type error ends the SDK's stream.   *)
(***************************************************************************)
ASSUME AnthropicAssumption ==
  /\ MaxEvents \in Nat
  /\ \A e \in Events :
       /\ e.kind \in {"other", "start", "block", "delta", "stop"}
       /\ e.kind \in {"block", "delta"} => e.type \in {"text", "thinking", "tool"}
       /\ e.kind = "start" =>
            e.usage \in [input : Nat, output : Nat, cacheRead : Nat, cacheWrite : Nat]

VARIABLES
  pc,      \* idle: between calls; reading: in Next's loop
  acc,     \* stream.acc: blocks, stop reason, usage
  queued,  \* stream.queued
  flushed, done, closed,  \* the flags of that name
  err,     \* nil, accumulate, provider, truncated
  log,     \* history: the events Next returned true for
  sent,    \* history: the SDK events read
  wire     \* the SDK's stream: open, eof, failed

vars == <<pc, acc, queued, flushed, done, closed, err, log, sent, wire>>

NoUsage == [input |-> 0, output |-> 0, cacheRead |-> 0, cacheWrite |-> 0]

Init ==
  /\ pc = "idle"
  /\ acc = [content |-> <<>>, stop |-> "", usage |-> NoUsage]
  /\ queued = <<>>
  /\ flushed = FALSE
  /\ done = FALSE
  /\ closed = FALSE
  /\ err = "nil"
  /\ log = <<>>
  /\ sent = <<>>
  /\ wire = "open"

-----------------------------------------------------------------------------
(* The SDK's accumulator.                                                  *)

Accumulates(e) == e.kind = "delta" => acc.content # <<>>

Accumulate(e) ==
  CASE e.kind = "start" -> [content |-> <<>>, stop |-> "", usage |-> e.usage]
    [] e.kind = "block" ->
         [acc EXCEPT !.content =
            Append(@, [type |-> e.type, id |-> e.id, name |-> e.name, body |-> <<>>])]
    [] e.kind = "delta" ->
         [acc EXCEPT !.content[Len(acc.content)].body =
            IF e.piece = "" THEN @ ELSE Append(@, e.piece)]
    [] e.kind = "stop"  -> [content |-> acc.content, stop |-> e.stop,
                            usage |-> [acc.usage EXCEPT !.output = e.output]]
    [] e.kind = "other" -> acc

-----------------------------------------------------------------------------
(* What the accumulated message means.                                     *)

MapStopReason(s) ==
  CASE s \in {"end_turn", "tool_use", "stop_sequence", "refusal"}      -> s
    [] s \in {"max_tokens", "model_context_window_exceeded"} -> "max_tokens"
    [] OTHER                                                 -> "unknown"

\* Anthropic's input count leaves the cache out; skyl's includes it.
UsageFrom(u) == [u EXCEPT !.input = @ + u.cacheRead + u.cacheWrite]

ToolEvent(block) ==
  [type |-> "tool", id |-> block.id, name |-> block.name,
   args |-> IF block.body = <<>> THEN <<"{}">> ELSE block.body]

\* Mutant: only the last block of a message can be a call.
CallsFromLastBlock(content) ==
  IF content # <<>> /\ content[Len(content)].type = "tool"
    THEN <<ToolEvent(content[Len(content)])>> ELSE <<>>

\* The tool calls of partsFromMessage; finish takes no other part from it.
CallsFromMessage(content) ==
  FlattenSeq([i \in DOMAIN content |->
    IF content[i].type = "tool" THEN <<ToolEvent(content[i])>> ELSE <<>>])

\* Next returns true with event e.
Return(e) == pc' = "idle" /\ log' = Append(log, e) /\ UNCHANGED err

\* Next returns false.
ReturnFalse(e) == pc' = "idle" /\ err' = e /\ UNCHANGED log

Flushed == Append(CallsFromMessage(acc.content),
                  [type |-> "done", usage |-> UsageFrom(acc.usage),
                   stop |-> MapStopReason(acc.stop)])

\* Mutant: every call of finish flushes the message again.
FinishReflushing ==
  /\ queued' = Tail(Flushed)
  /\ flushed' = TRUE
  /\ Return(Head(Flushed))
  /\ UNCHANGED done

\* finish: the calls and the terminal event are queued once and handed out one
\* by one; after the last comes the end.
Finish ==
  LET waiting == IF flushed THEN queued ELSE Flushed
  IN  /\ flushed' = TRUE
      /\ IF waiting # <<>>
           THEN queued' = Tail(waiting) /\ Return(Head(waiting)) /\ UNCHANGED done
           ELSE done' = TRUE /\ ReturnFalse("nil") /\ UNCHANGED queued

-----------------------------------------------------------------------------
(* Actions.                                                                *)

\* Next on a stream with calls, or the terminal event, left to hand out.
HandOutQueued ==
  /\ pc = "idle"
  /\ ~ done /\ err = "nil"
  /\ queued # <<>>
  /\ queued' = Tail(queued)
  /\ Return(Head(queued))
  /\ UNCHANGED <<acc, flushed, done, closed, sent, wire>>

\* Next with nothing left to hand out goes to the SDK.
CallNext ==
  /\ pc = "idle"
  /\ ~ done /\ err = "nil"
  /\ queued = <<>>
  /\ pc' = "reading"
  /\ UNCHANGED <<acc, queued, flushed, done, closed, err, log, sent, wire>>

\* The deltas that are passed on at once.
Says(e) == e.kind = "delta" /\ e.type # "tool" /\ e.piece # ""

\* One turn of the loop: the SDK yields event e. A message starts only once.
ReadEvent(e) ==
  /\ pc = "reading"
  /\ wire = "open"
  /\ Len(sent) < MaxEvents
  /\ e.kind = "start" => sent = <<>>
  /\ sent' = Append(sent, e)
  /\ \/ /\ ~ Accumulates(e)
        /\ ReturnFalse("accumulate")
        /\ UNCHANGED acc
     \/ /\ Accumulates(e) /\ Says(e)
        /\ acc' = Accumulate(e)
        /\ Return([type |-> e.type, body |-> e.piece])
     \/ /\ Accumulates(e) /\ ~ Says(e)
        /\ acc' = Accumulate(e)
        /\ UNCHANGED <<pc, err, log>>
  /\ UNCHANGED <<queued, flushed, done, closed, wire>>

\* The SDK's stream fails: the transport, the request's context, or an error
\* event in the middle of the stream.
ReadFails ==
  /\ pc = "reading"
  /\ wire = "open"
  /\ wire' = "failed"
  /\ ReturnFalse("provider")
  /\ UNCHANGED <<acc, queued, flushed, done, closed, sent>>

\* Mutant: the end of the SDK's stream is the end of the response.
ReadEndTrusting ==
  /\ pc = "reading"
  /\ wire # "failed"
  /\ wire' = "eof"
  /\ Finish
  /\ UNCHANGED <<acc, closed, sent>>

\* The SDK's stream has ended without an error, now or in an earlier call.
ReadEnd ==
  /\ pc = "reading"
  /\ wire # "failed"
  /\ wire' = "eof"
  /\ IF acc.stop = "" /\ ~ flushed
       THEN ReturnFalse("truncated") /\ UNCHANGED <<queued, flushed, done>>
       ELSE Finish
  /\ UNCHANGED <<acc, closed, sent>>

Close ==
  /\ pc = "idle"
  /\ ~ closed
  /\ closed' = TRUE
  /\ UNCHANGED <<pc, acc, queued, flushed, done, err, log, sent, wire>>

Next ==
  \/ HandOutQueued
  \/ CallNext
  \/ \E e \in Events : ReadEvent(e)
  \/ ReadFails
  \/ ReadEnd
  \/ Close

Spec == Init /\ [][Next]_vars

-----------------------------------------------------------------------------
(* Properties.                                                             *)

HasDone == log # <<>> /\ Last(log).type = "done"

\* A truncated answer is never passed off as a whole one: a tool call, the
\* terminal event and a clean end are only seen after the provider has given
\* its stop reason.
NoTruncatedAnswer ==
  (\E i \in DOMAIN log : log[i].type \in {"tool", "done"}) \/ done =>
    \E i \in DOMAIN sent : sent[i].kind = "stop" /\ sent[i].stop # ""

\* What a transcript amounts to, read off it. Its text and thinking, as sent:
Spoken(records) ==
  FlattenSeq([i \in DOMAIN records |->
    IF records[i].kind = "delta" /\ records[i].type # "tool" /\ records[i].piece # ""
      THEN <<[type |-> records[i].type, body |-> records[i].piece]>> ELSE <<>>])

\* where its blocks start;
BlockStarts(records) ==
  FlattenSeq([i \in DOMAIN records |-> IF records[i].kind = "block" THEN <<i>> ELSE <<>>])

\* the pieces sent after a block's start and before the next one's;
Pieces(records, start) ==
  FlattenSeq([i \in DOMAIN records |->
    IF /\ start < i /\ records[i].kind = "delta" /\ records[i].piece # ""
       /\ \A k \in start + 1 .. i : records[k].kind # "block"
      THEN <<records[i].piece>> ELSE <<>>])

\* its calls;
CallAt(records, start) ==
  [type |-> "tool", id |-> records[start].id, name |-> records[start].name,
   args |-> IF Pieces(records, start) = <<>> THEN <<"{}">> ELSE Pieces(records, start)]

Calls(records) ==
  LET starts == BlockStarts(records)
  IN  FlattenSeq([b \in DOMAIN starts |->
        IF records[starts[b]].type = "tool" THEN <<CallAt(records, starts[b])>> ELSE <<>>])

\* and its totals: the input count is the whole prompt, its cached parts
\* included, the output count and the stop reason are the last ones sent.
Prompt(records) ==
  IF records # <<>> /\ records[1].kind = "start" THEN records[1].usage ELSE NoUsage

LastStop(records) ==
  LET stops == Among(records, {e \in Events : e.kind = "stop"})
  IN  IF stops = <<>> THEN [stop |-> "", output |-> Prompt(records).output] ELSE Last(stops)

DoneOf(records) ==
  [type |-> "done", stop |-> MapStopReason(LastStop(records).stop),
   usage |-> [Prompt(records) EXCEPT !.input = @ + Prompt(records).cacheRead + Prompt(records).cacheWrite,
                                     !.output = LastStop(records).output]]

Told(records) == Spoken(records) \o Append(Calls(records), DoneOf(records))

\* Everything the provider sent reaches the consumer once and in order: text
\* and thinking as they come, then every call whole, then the terminal event
\* with the totals, whose arrival leaves nothing behind. What is spoken is held
\* back only by an accumulator that refuses it.
LogFaithful ==
  /\ IsPrefix(log, Told(sent))
  /\ err # "accumulate" => Len(log) >= Len(Spoken(sent))
  /\ HasDone \/ done => log = Told(sent)

\* The decoder is a Stream: nothing after the terminal event, no clean end
\* without it, and a failure is final.
Contract == INSTANCE StreamContract WITH
  Content <- {"text", "thinking", "tool"}, Dones <- {"done"},
  log <- [i \in DOMAIN log |-> log[i].type],
  mode <- IF err # "nil" THEN "failed" ELSE IF done THEN "ended" ELSE "open"

KeepsContract == Contract!ContractSpec
=============================================================================
