----------------------------- MODULE Telemetry -----------------------------
(***************************************************************************)
(* The OpenTelemetry hook (otel/otel.go) on one call of a client: what it  *)
(* records of the attempts of Complete, Models or Stream, and then of the  *)
(* stream, whose consumer is ObservedStream's. Which failures are retried  *)
(* and when is Client's matter; here an attempt that fails may be followed *)
(* by another, or be the last.                                             *)
(***************************************************************************)
EXTENDS ObservedStream

CONSTANTS
  Counts,       \* what usages say: usage -> its input and output counts
  Failures,     \* errors an attempt may end with: kind and cause
  MaxAttempts   \* bound: attempts of the call

ASSUME TelemetryAssumption ==
  /\ MaxAttempts \in Nat
  /\ DOMAIN Counts = ({d.usage : d \in Dones} \ {NilUsage}) \cup {NoUsage}
  /\ \A u \in DOMAIN Counts : Counts[u] \in [input : Nat, output : Nat]
  /\ Counts[NoUsage] = [input |-> 0, output |-> 0]
  /\ \A e \in Failures : DOMAIN e = {"kind", "cause"} /\ e.kind \notin {"", "nil"}

VARIABLES
  op,           \* complete, models, stream
  recordSpans,  \* config.recordSpans; the gateway's metrics have none
  stage,        \* calling: in the retry loop; streaming; returned
  attempts,     \* history: how each attempt ended, NoError or a failure
  answer,       \* history: the usage of the response Complete returned
  durations,    \* points of gen_ai.client.operation.duration
  tokens,       \* points of gen_ai.client.token.usage
  spans         \* spans ended

recorded == <<durations, tokens, spans>>
callVars == <<op, recordSpans, stage, attempts, answer>>
allVars  == <<vars, callVars, recorded>>

NoError == [kind |-> "nil", cause |-> "nil"]

TelemetryInit ==
  /\ Init
  /\ op \in {"complete", "models", "stream"}
  /\ recordSpans \in BOOLEAN
  /\ stage = "calling"
  /\ attempts = <<>>
  /\ answer = NoUsage
  /\ durations = <<>> /\ tokens = <<>> /\ spans = <<>>

-----------------------------------------------------------------------------
(* The hook.                                                               *)

OperationName(o) == IF o = "models" THEN "list_models" ELSE "chat"

\* The sentinel an error wraps comes before its cause; "" for no error.
ErrorTypeOf(e) ==
  IF e = NoError THEN ""
  ELSE IF e.kind # "none" THEN e.kind
  ELSE CASE e.cause = "canceled" -> "canceled"
         [] e.cause = "deadline" -> "timeout"
         [] OTHER                -> "unknown"

Attributes(ev) == [name |-> OperationName(ev.op), error |-> ErrorTypeOf(ev.err)]

\* Zero is "not reported".
TokenPoint(type, n, ev) ==
  IF n > 0 THEN <<[type |-> type, n |-> n, of |-> Attributes(ev)]>> ELSE <<>>

TokenPoints(ev) ==
  TokenPoint("input", Counts[ev.usage].input, ev) \o TokenPoint("output", Counts[ev.usage].output, ev)

SpanOf(ev) == [of |-> Attributes(ev), stop |-> ev.stop, failed |-> ev.err # NoError]

\* Mutant: the handshake is recorded as an operation too.
RecordHandshakeToo(ev) ==
  /\ durations' = Append(durations, Attributes(ev))
  /\ tokens' = tokens \o TokenPoints(ev)
  /\ spans' = IF recordSpans THEN Append(spans, SpanOf(ev)) ELSE spans

\* record: a stream is recorded when it ends, its handshakes never.
Record(ev) ==
  IF ev.op = "stream" THEN UNCHANGED recorded
  ELSE /\ durations' = Append(durations, Attributes(ev))
       /\ tokens' = tokens \o TokenPoints(ev)
       /\ spans' = IF recordSpans THEN Append(spans, SpanOf(ev)) ELSE spans

-----------------------------------------------------------------------------
(* The call.                                                               *)

AttemptFails ==
  /\ stage = "calling"
  /\ Len(attempts) < MaxAttempts
  /\ \E e \in Failures :
       /\ attempts' = Append(attempts, e)
       /\ Record([op |-> op, err |-> e, usage |-> NoUsage, stop |-> ""])
  /\ stage' \in {"calling", "returned"}
  /\ UNCHANGED <<vars, op, recordSpans, answer>>

AttemptSucceeds ==
  /\ stage = "calling"
  /\ Len(attempts) < MaxAttempts
  /\ attempts' = Append(attempts, NoError)
  /\ answer' \in IF op = "complete" THEN DOMAIN Counts ELSE {NoUsage}
  /\ Record([op |-> op, err |-> NoError, usage |-> answer',
             stop |-> IF op = "complete" THEN "end_turn" ELSE ""])
  /\ stage' = IF op = "stream" THEN "streaming" ELSE "returned"
  /\ UNCHANGED <<vars, op, recordSpans>>

\* The stream goes on, and the hook is told if it is reported in this step. Its
\* error is one of those an attempt may end with.
StreamStep ==
  /\ stage = "streaming"
  /\ Next
  /\ IF Len(reports') > Len(reports)
       THEN LET r == Last(reports')
            IN  \E e \in IF r.failed THEN Failures ELSE {NoError} :
                  Record([op |-> "stream_end", err |-> e, usage |-> r.usage, stop |-> r.stop])
       ELSE UNCHANGED recorded
  /\ UNCHANGED callVars

TelemetryNext == AttemptFails \/ AttemptSucceeds \/ StreamStep

TelemetrySpec == TelemetryInit /\ [][TelemetryNext]_allVars

-----------------------------------------------------------------------------
(* Properties.                                                             *)

Positive(n) == IF n > 0 THEN 1 ELSE 0

\* What was billed as far as the caller was told: the response's usage, or that
\* of the done event of a stream it had not closed before.
Billed ==
  IF op # "stream" THEN Counts[answer]
  ELSE IF completed /\ reports[1].completed THEN Counts[reports[1].usage]
  ELSE Counts[NoUsage]

\* The metrics count every unary attempt once, failed ones under their error,
\* and every stream once when it ends, however often its consumer closes it and
\* whether or not it reads on; a call's tokens are counted once, in each
\* direction that was reported, with the attributes of the operation that used
\* them. A stream that never starts is in no metric, and spans follow the
\* durations.
RecordedOnce ==
  /\ op # "stream" =>
       durations = [i \in DOMAIN attempts |->
         [name |-> OperationName(op), error |-> ErrorTypeOf(attempts[i])]]
  /\ op = "stream" =>
       /\ Len(durations) = IF HasDone \/ closed THEN 1 ELSE 0
       /\ durations # <<>> => (durations[1].error # "" <=> reports[1].failed)
  /\ Len(tokens) = Positive(Billed.input) + Positive(Billed.output)
  /\ \A d \in {"input", "output"} : Billed[d] > 0 =>
       \E i \in DOMAIN tokens :
         tokens[i] = [type |-> d, n |-> Billed[d], of |-> durations[Len(durations)]]
  /\ Len(spans) = IF recordSpans THEN Len(durations) ELSE 0
=============================================================================
