------------------------ MODULE StreamConsumerProofs ------------------------
(***************************************************************************)
(* The two consumers of a stream, whatever it delivers. The hooks of the   *)
(* observed stream hear of it exactly once, and what they hear is true.    *)
(* The response of the gateway's handler is never written by two           *)
(* goroutines at once, nor after the handler, ends with a terminal frame,  *)
(* and its upstream is closed exactly when the handler leaves.             *)
(***************************************************************************)
EXTENDS Telemetry, GatewayStream, SequenceLemmas

(* The observed stream: any content, any done event, and any order of Next *)
(* and Close.                                                              *)

\* The part of the type invariant the argument needs.
Typed ==
  /\ log \in Seq(Content \cup Dones)
  /\ fired \in BOOLEAN /\ completed \in BOOLEAN /\ closed \in BOOLEAN
  /\ reports = IF fired THEN <<reports[1]>> ELSE <<>>

Inv == Typed /\ WrapperInvariant /\ ReportTruthful

\* Delivering an event ends the stream's content exactly when it is a done
\* event, and only a stream without one delivers.
LEMMA DeliverFacts ==
  ASSUME Inv, NEW e \in Content \cup Dones, Deliver(e)
  PROVE  /\ ~ HasDone /\ log' # <<>> /\ log'[Len(log')] = e
         /\ HasDone' <=> e \in Dones
         /\ log' \in Seq(Content \cup Dones)
         /\ mode = "open" /\ mode' = mode /\ closed' = closed
<1>1. log \in Seq(Content \cup Dones)
  BY DEF Inv, Typed
<1> QED
  BY <1>1 DEF Deliver, HasDone

\* A report that was made stays, and a report is made only where none was.
LEMMA EmitFacts ==
  ASSUME Inv, NEW c, NEW u, NEW st, Emit(c, u, st)
  PROVE  /\ fired' = TRUE
         /\ reports' = IF fired THEN <<reports[1]>>
                       ELSE <<[completed |-> c, failed |-> mode = "failed",
                               usage |-> u, stop |-> st]>>
<1>1. reports = IF fired THEN <<reports[1]>> ELSE <<>>
  BY DEF Inv, Typed
<1>2. CASE fired
  BY <1>1, <1>2 DEF Emit
<1>3. CASE ~ fired
  <2> DEFINE r == [completed |-> c, failed |-> mode = "failed", usage |-> u, stop |-> st]
  <2>1. reports = <<>> /\ reports' = Append(reports, r) /\ fired'
    BY <1>1, <1>3 DEF Emit
  <2> HIDE DEF r
  <2>2. reports' = <<r>>
    BY <2>1
  <2> QED
    BY <1>3, <2>2 DEF Emit, r
<1> QED
  BY <1>2, <1>3

LEMMA InitHolds == Init => Inv
<1> SUFFICES ASSUME Init PROVE Inv
  OBVIOUS
<1>1. /\ log = <<>> /\ mode = "open" /\ closed = FALSE /\ ~ HasDone
      /\ usage = NoUsage /\ completed = FALSE /\ fired = FALSE /\ reports = <<>>
  BY DEF Init, ContractInit, HasDone
<1>2. log \in Seq(Content \cup Dones)
  BY <1>1
<1> QED
  BY <1>1, <1>2 DEF Inv, Typed, WrapperInvariant, ReportTruthful

\* An event passes that is not the last: the wrapper only lets it through.
LEMMA ContentHolds ==
  ASSUME Inv, NEW e \in Content, NextEvent(e)
  PROVE  Inv'
<1>1. e \notin Dones
  BY ContractAssumption
<1>2. Deliver(e) /\ UNCHANGED wrapperVars
  BY <1>1 DEF NextEvent, Sees
<1>3. /\ ~ HasDone /\ ~ HasDone' /\ log' \in Seq(Content \cup Dones)
      /\ mode' = mode /\ closed' = closed
  BY <1>1, <1>2, DeliverFacts
<1> QED
  BY <1>2, <1>3 DEF Inv, Typed, WrapperInvariant, ReportTruthful, wrapperVars

\* The done event passes: reported now, unless Close came first.
LEMMA DoneHolds ==
  ASSUME Inv, NEW e \in Dones, NextEvent(e)
  PROVE  Inv'
<1>1. /\ Deliver(e) /\ completed' = TRUE
      /\ usage' = UsageOf(e)
      /\ Emit(TRUE, UsageOf(e), e.stop)
  BY DEF NextEvent, Sees
<1>2. /\ ~ HasDone /\ HasDone' /\ log' \in Seq(Content \cup Dones)
      /\ log'[Len(log')] = e
      /\ mode = "open" /\ mode' = mode /\ closed' = closed
  BY <1>1, DeliverFacts
<1>3. /\ fired' = TRUE
      /\ reports' = IF fired THEN <<reports[1]>>
                    ELSE <<[completed |-> TRUE, failed |-> mode = "failed",
                            usage |-> UsageOf(e), stop |-> e.stop]>>
  BY <1>1, EmitFacts
<1>4. usage = NoUsage /\ (fired <=> closed)
  BY <1>2 DEF Inv, WrapperInvariant
<1>5. Typed' /\ WrapperInvariant'
  BY <1>1, <1>2, <1>3 DEF Inv, Typed, WrapperInvariant
<1>6. CASE fired
  BY <1>2, <1>3, <1>4, <1>5, <1>6 DEF Inv, Typed, ReportTruthful
<1>7. CASE ~ fired
  BY <1>1, <1>2, <1>3, <1>4, <1>5, <1>7 DEF Inv, ReportTruthful, UsageOf
<1> QED
  BY <1>6, <1>7

\* Close, the consumer's own or CollectStream's: reports what the wrapper knows.
LEMMA CloseHolds ==
  ASSUME Inv, Release, Emit(completed, usage, stopReason),
         UNCHANGED <<usage, stopReason, completed>>
  PROVE  Inv'
<1>1. closed' = TRUE /\ UNCHANGED <<log, mode, usage, completed>> /\ HasDone' = HasDone
  BY DEF Release, HasDone
<1>2. /\ fired' = TRUE
      /\ reports' = IF fired THEN <<reports[1]>>
                    ELSE <<[completed |-> completed, failed |-> mode = "failed",
                            usage |-> usage, stop |-> stopReason]>>
  BY EmitFacts
<1>3. Typed' /\ WrapperInvariant'
  BY <1>1, <1>2 DEF Inv, Typed, WrapperInvariant
<1>4. CASE fired
  BY <1>1, <1>2, <1>3, <1>4 DEF Inv, Typed, ReportTruthful
<1>5. CASE ~ fired
  <2>1. ~ completed /\ usage = NoUsage
    BY <1>5 DEF Inv, WrapperInvariant
  <2> QED
    BY <1>1, <1>2, <1>3, <1>5, <2>1 DEF Inv, ReportTruthful
<1> QED
  BY <1>4, <1>5

\* Next returns false: the wrapper does nothing.
LEMMA FalseHolds ==
  ASSUME Inv, NextFalse
  PROVE  Inv'
<1>1. /\ UNCHANGED <<log, closed, usage, stopReason, completed, fired, reports>>
      /\ mode' = "ended" => HasDone
      /\ HasDone' = HasDone
  BY DEF NextFalse, EndCleanly, EndFailed, wrapperVars, HasDone
<1> QED
  BY <1>1 DEF Inv, Typed, WrapperInvariant, ReportTruthful

\* The wrapper's bookkeeping is right in every behaviour.
THEOREM Invariance == Spec => []Inv
<1>1. Inv /\ [Next]_vars => Inv'
  <2> SUFFICES ASSUME Inv, [Next]_vars PROVE Inv'
    OBVIOUS
  <2>1. ASSUME NEW e \in Content \cup Dones, NextEvent(e) PROVE Inv'
    BY <2>1, ContentHolds, DoneHolds
  <2>2. CASE NextFalse
    BY <2>2, FalseHolds
  <2>3. CASE CloseStream
    BY <2>3, CloseHolds DEF CloseStream
  <2>4. CASE CollectReturn
    BY <2>4, CloseHolds DEF CollectReturn
  <2>5. CASE UNCHANGED vars
    BY <2>5 DEF vars, contractVars, wrapperVars, Inv, Typed, WrapperInvariant,
                ReportTruthful, HasDone
  <2> QED
    BY <2>1, <2>2, <2>3, <2>4, <2>5 DEF Next
<1> QED
  BY <1>1, InitHolds, PTL DEF Spec

\* OpStreamEnd fires once, from the done event or Close on, and not before.
THEOREM Once == Spec => []ReportedOnce
<1>1. Inv => ReportedOnce
  BY DEF Inv, Typed, WrapperInvariant, ReportedOnce
<1> QED
  BY <1>1, Invariance, PTL

\* HookEvent.Completed, Usage and StopReason say what happened to the stream.
THEOREM Truthful == Spec => []ReportTruthful
  BY Invariance, PTL DEF Inv

-----------------------------------------------------------------------------
(* CollectStream.                                                          *)

\* What CollectStream has gathered is what the stream has delivered, until it
\* returns: its text and calls then too, and a stop reason that Assembled has
\* looked at.
CollectInvariant ==
  /\ mode \in {"open", "ended", "failed"} /\ outcome \in {"none", "error", "response"}
  /\ resp = [text |-> resp.text, calls |-> resp.calls, usage |-> resp.usage, stop |-> resp.stop]
  /\ collecting => resp.text = Of("text") /\ resp.calls = Of("tool")
  /\ collecting /\ outcome = "none" =>
       IF HasDone
         THEN /\ resp.stop \in {"unknown", log[Len(log)].stop}
              /\ log[Len(log)].usage # NilUsage => resp.usage = log[Len(log)].usage
         ELSE resp.stop = "unknown"
  /\ outcome # "none" =>
       collecting /\ closed /\ mode # "open" /\ (outcome = "error" <=> mode = "failed")
  /\ outcome = "response" =>
       /\ log[Len(log)].usage # NilUsage => resp.usage = log[Len(log)].usage
       /\ resp.stop = "unknown" => resp.calls = <<>>
       /\ resp.stop \in {"unknown", "tool_use", log[Len(log)].stop}

\* Gathering an event adds it to what is kept of its type.
LEMMA GatheredFacts ==
  ASSUME Inv, CollectInvariant, collecting, NEW e \in Content \cup Dones, Deliver(e)
  PROVE  /\ Gathered(e).text = Of("text")' /\ Gathered(e).calls = Of("tool")'
         /\ Gathered(e) = [text |-> Gathered(e).text, calls |-> Gathered(e).calls,
                           usage |-> Gathered(e).usage, stop |-> Gathered(e).stop]
         /\ e \in Content => Gathered(e).stop = resp.stop /\ Gathered(e).usage = resp.usage
         /\ e \in Dones =>
              /\ Gathered(e).stop = IF e.stop # "" THEN e.stop ELSE resp.stop
              /\ e.usage # NilUsage => Gathered(e).usage = e.usage
<1>1. log \in Seq(Content \cup Dones) /\ log' = Append(log, e)
  BY DEF Inv, Typed, Deliver
<1>2. \A type : Of(type)' = IF e.type = type THEN Append(Of(type), e) ELSE Of(type)
  BY <1>1, AmongAppend DEF Of
<1>3. /\ resp = [text |-> resp.text, calls |-> resp.calls, usage |-> resp.usage, stop |-> resp.stop]
      /\ resp.text = Of("text") /\ resp.calls = Of("tool")
  BY DEF CollectInvariant
<1>4. CASE e \in Dones
  <2>1. e.type = "done"
    BY <1>4, ObservedAssumption
  <2> QED
    BY <1>2, <1>3, <1>4, <2>1, ContractAssumption DEF Gathered
<1>5. CASE e \in Content
  <2>1. e.type \in {"text", "thinking", "tool"} /\ e \notin Dones
    BY <1>5, ObservedAssumption, ContractAssumption
  <2> QED
    BY <1>2, <1>3, <1>5, <2>1 DEF Gathered
<1> QED
  BY <1>4, <1>5

LEMMA StepCollects ==
  ASSUME Inv, CollectInvariant, [Next]_vars
  PROVE  CollectInvariant'
<1> USE DEF CollectInvariant
<1>0. UNCHANGED log => (HasDone' = HasDone /\ \A type : Of(type)' = Of(type))
  BY DEF HasDone, Of
<1>1. ASSUME NEW e \in Content \cup Dones, NextEvent(e) PROVE CollectInvariant'
  <2>1. /\ outcome = "none" /\ Deliver(e) /\ UNCHANGED <<collecting, outcome>>
        /\ resp' = IF collecting THEN Gathered(e) ELSE resp
    BY <1>1 DEF NextEvent
  <2>2. /\ ~ HasDone /\ log' # <<>> /\ log'[Len(log')] = e /\ (HasDone' <=> e \in Dones)
        /\ UNCHANGED mode
    BY <2>1, DeliverFacts
  <2>3. CASE collecting
    BY <2>1, <2>2, <2>3, GatheredFacts
  <2>4. CASE ~ collecting
    BY <2>1, <2>2, <2>4
  <2> QED
    BY <2>3, <2>4
<1>2. CASE NextFalse
  <2>1. UNCHANGED <<log, closed, collecting, resp, outcome>> /\ mode = "open"
        /\ mode' \in {"ended", "failed"}
    BY <1>2 DEF NextFalse, EndCleanly, EndFailed, collectVars
  <2> QED
    BY <1>0, <2>1
<1>3. CASE CloseStream
  <2>1. UNCHANGED <<log, mode, collecting, resp, outcome>> /\ ~ collecting
    BY <1>3 DEF CloseStream, Release, collectVars
  <2> QED
    BY <1>0, <2>1
<1>4. CASE CollectReturn
  <2>1. /\ collecting /\ mode # "open" /\ outcome = "none" /\ closed' = TRUE
        /\ UNCHANGED <<log, mode, collecting>>
        /\ IF mode = "failed" THEN outcome' = "error" /\ resp' = resp
           ELSE outcome' = "response" /\ resp' = Assembled(resp)
    BY <1>4 DEF CollectReturn, Release
  <2>2. CASE mode = "failed"
    BY <1>0, <2>1, <2>2
  <2>3. CASE mode # "failed"
    <3>1. HasDone
      BY <2>1, <2>3 DEF Inv, WrapperInvariant
    <3>2. /\ resp' = [text |-> resp.text, calls |-> resp.calls, usage |-> resp.usage,
                      stop |-> resp'.stop]
          /\ resp'.stop = IF resp.stop = "unknown" /\ resp.calls # <<>> THEN "tool_use"
                          ELSE resp.stop
      BY <2>1, <2>3 DEF Assembled
    <3> QED
      BY <1>0, <2>1, <2>3, <3>1, <3>2
  <2> QED
    BY <2>2, <2>3
<1>5. CASE UNCHANGED vars
  BY <1>0, <1>5 DEF vars, contractVars, wrapperVars, collectVars
<1> QED
  BY <1>1, <1>2, <1>3, <1>4, <1>5 DEF Next

LEMMA CollectInit == Init => CollectInvariant
<1> SUFFICES ASSUME Init PROVE CollectInvariant
  OBVIOUS
<1>1. /\ log = <<>> /\ mode = "open" /\ outcome = "none"
      /\ resp = [text |-> <<>>, calls |-> <<>>, usage |-> NoUsage, stop |-> "unknown"]
  BY DEF Init, ContractInit
<1>2. ~ HasDone /\ Of("text") = <<>> /\ Of("tool") = <<>>
  BY <1>1, AmongEmpty DEF HasDone, Of
<1> QED
  BY <1>1, <1>2 DEF CollectInvariant

\* CollectStream returns a response only for a stream that ended cleanly, with all
\* of its text and calls in order; and it has closed the stream by then.
THEOREM Collected == Spec => []CollectFaithful
<1>1. Init => Inv /\ CollectInvariant
  BY InitHolds, CollectInit
<1>2. Inv /\ CollectInvariant /\ [Next]_vars => CollectInvariant'
  BY StepCollects
<1>3. Inv /\ CollectInvariant => CollectFaithful
  BY DEF Inv, Typed, WrapperInvariant, CollectInvariant, CollectFaithful
<1> QED
  BY <1>1, <1>2, <1>3, Invariance, PTL DEF Spec

-----------------------------------------------------------------------------
(* A stream with the telemetry hook, after the attempts that opened it.    *)

\* The hook only listens: with it the stream takes the same steps.
LEMMA TelemetryListens == TelemetrySpec => Spec
<1>1. TelemetryInit => Init
  BY DEF TelemetryInit
<1>2. [TelemetryNext]_allVars => [Next]_vars
  <2>1. AttemptFails \/ AttemptSucceeds => UNCHANGED vars
    BY DEF AttemptFails, AttemptSucceeds
  <2>2. StreamStep => Next
    BY DEF StreamStep
  <2>3. UNCHANGED allVars => UNCHANGED vars
    BY DEF allVars
  <2> QED
    BY <2>1, <2>2, <2>3 DEF TelemetryNext
<1> QED
  BY <1>1, <1>2, PTL DEF TelemetrySpec, Spec

\* CollectStream is as true to the stream where a hook listens.
THEOREM CollectedWithTelemetry == TelemetrySpec => []CollectFaithful
  BY TelemetryListens, Collected, PTL

\* OpStreamEnd fires once also where a hook records it and attempts went before.
THEOREM OnceWithTelemetry == TelemetrySpec => []ReportedOnce
  BY TelemetryListens, Once, PTL

\* What the telemetry hook is told of a stream is what happened to it.
THEOREM TruthfulWithTelemetry == TelemetrySpec => []ReportTruthful
  BY TelemetryListens, Truthful, PTL

-----------------------------------------------------------------------------
(* What the telemetry hook records.                                        *)

LEMMA PointsAreSeq ==
  ASSUME NEW ev
  PROVE  \E S : TokenPoints(ev) \in Seq(S)
<1> DEFINE p == [type |-> "input", n |-> Counts[ev.usage].input, of |-> Attributes(ev)]
           q == [type |-> "output", n |-> Counts[ev.usage].output, of |-> Attributes(ev)]
<1>1. /\ TokenPoint("input", Counts[ev.usage].input, ev) \in Seq({p, q})
      /\ TokenPoint("output", Counts[ev.usage].output, ev) \in Seq({p, q})
  <2>1. <<p>> \in Seq({p, q}) /\ <<q>> \in Seq({p, q}) /\ <<>> \in Seq({p, q})
    <3> HIDE DEF p, q
    <3> QED
      OBVIOUS
  <2> QED
    BY <2>1 DEF TokenPoint
<1> HIDE DEF p, q
<1> QED
  BY <1>1, ConcatProperties DEF TokenPoints

\* The points a recorded operation gives each metric: none or one per
\* direction, with its count and its attributes.
LEMMA TokenPointsFacts ==
  ASSUME NEW ev, ev.usage \in DOMAIN Counts
  PROVE  LET ps == TokenPoints(ev)
             c  == Counts[ev.usage]
         IN  /\ Len(ps) = Positive(c.input) + Positive(c.output)
             /\ \A d \in {"input", "output"} : c[d] > 0 =>
                  \E i \in DOMAIN ps : ps[i] = [type |-> d, n |-> c[d], of |-> Attributes(ev)]
<1> DEFINE c == Counts[ev.usage]
           a(d) == [type |-> d, n |-> c[d], of |-> Attributes(ev)]
<1>1. c.input \in Nat /\ c.output \in Nat
  BY TelemetryAssumption
<1>2. TokenPoints(ev) = (IF c.input > 0 THEN <<a("input")>> ELSE <<>>)
                        \o (IF c.output > 0 THEN <<a("output")>> ELSE <<>>)
  BY DEF TokenPoints, TokenPoint
<1> HIDE DEF c, a
<1>3. CASE c.input > 0 /\ c.output > 0
  <2>1. TokenPoints(ev) = <<a("input"), a("output")>>
    <3>1. TokenPoints(ev) = <<a("input")>> \o <<a("output")>>
      BY <1>2, <1>3
    <3>2. ASSUME NEW x, NEW y PROVE <<x>> \o <<y>> = <<x, y>>
      <4>1. <<x>> \in Seq({x, y}) /\ <<y>> \in Seq({x, y}) /\ <<x, y>> \in Seq({x, y})
        OBVIOUS
      <4>2. /\ <<x>> \o <<y>> \in Seq({x, y}) /\ Len(<<x>> \o <<y>>) = 2
            /\ (<<x>> \o <<y>>)[1] = x /\ (<<x>> \o <<y>>)[2] = y
        BY <4>1, ConcatProperties
      <4>3. /\ Len(<<x, y>>) = 2
            /\ \A i \in 1 .. 2 : (<<x>> \o <<y>>)[i] = <<x, y>>[i]
        <5>1. <<x, y>>[1] = x /\ <<x, y>>[2] = y /\ 1 .. 2 = {1, 2}
          OBVIOUS
        <5> QED
          BY <4>2, <5>1
      <4> QED
        BY <4>1, <4>2, <4>3, SeqEqual
    <3> QED
      BY <3>1, <3>2
  <2>2. /\ Len(TokenPoints(ev)) = 2 /\ 1 \in DOMAIN TokenPoints(ev) /\ 2 \in DOMAIN TokenPoints(ev)
        /\ TokenPoints(ev)[1] = a("input") /\ TokenPoints(ev)[2] = a("output")
    BY <2>1
  <2>3. Positive(c.input) + Positive(c.output) = 2
    BY <1>3 DEF Positive
  <2> QED
    BY <2>2, <2>3 DEF a, c
<1>4. CASE c.input > 0 /\ ~ c.output > 0
  BY <1>1, <1>2, <1>4 DEF Positive, a, c
<1>5. CASE ~ c.input > 0 /\ c.output > 0
  BY <1>1, <1>2, <1>5 DEF Positive, a, c
<1>6. CASE ~ c.input > 0 /\ ~ c.output > 0
  BY <1>1, <1>2, <1>6 DEF Positive, a, c
<1> QED
  BY <1>3, <1>4, <1>5, <1>6

\* An operation without usage gives the token metric nothing.
LEMMA NothingBilled ==
  ASSUME NEW ev, ev.usage = NoUsage
  PROVE  TokenPoints(ev) = <<>>
<1>1. TokenPoint("input", 0, ev) = <<>> /\ TokenPoint("output", 0, ev) = <<>>
  BY DEF TokenPoint
<1>2. Counts[ev.usage].input = 0 /\ Counts[ev.usage].output = 0
  <2>1. Counts[NoUsage] = [input |-> 0, output |-> 0]
    BY TelemetryAssumption
  <2> QED
    BY <2>1
<1> QED
  BY <1>1, <1>2 DEF TokenPoints

\* A failure has an error type, and success none.
LEMMA FailuresNamed ==
  ASSUME NEW e \in Failures \cup {NoError}
  PROVE  ErrorTypeOf(e) # "" <=> e # NoError
<1>1. CASE e = NoError
  BY <1>1 DEF ErrorTypeOf
<1>2. CASE e # NoError
  <2>1. e.kind # ""
    BY <1>2, TelemetryAssumption
  <2> QED
    BY <1>2, <2>1 DEF ErrorTypeOf
<1> QED
  BY <1>1, <1>2

LEMMA FailuresAreErrors == NoError \notin Failures
  BY TelemetryAssumption DEF NoError

\* The end of a stream as the hook hears it, with the error it is told.
EndOf(e) == [op |-> "stream_end", err |-> e, usage |-> reports[1].usage, stop |-> reports[1].stop]

\* Until the stream is open nothing has happened to it. A unary call has a
\* duration for every attempt, and no token before it has returned; a stream has
\* no point before it is reported, and those of its report from then on.
RecordInvariant ==
  /\ op \in {"complete", "models", "stream"}
  /\ stage \in {"calling", "streaming", "returned"}
  /\ attempts \in Seq(Failures \cup {NoError})
  /\ answer \in DOMAIN Counts
  /\ stage = "streaming" => op = "stream"
  /\ stage # "streaming" => log = <<>> /\ ~ closed /\ reports = <<>>
  /\ stage = "calling" => answer = NoUsage /\ tokens = <<>>
  /\ op # "stream" =>
       /\ durations = [i \in DOMAIN attempts |->
            [name |-> OperationName(op), error |-> ErrorTypeOf(attempts[i])]]
       /\ Len(tokens) = Positive(Counts[answer].input) + Positive(Counts[answer].output)
       /\ \A d \in {"input", "output"} : Counts[answer][d] > 0 =>
            \E i \in DOMAIN tokens : tokens[i] =
              [type |-> d, n |-> Counts[answer][d], of |-> durations[Len(durations)]]
       /\ Len(spans) = IF recordSpans THEN Len(durations) ELSE 0
       /\ \E S : spans \in Seq(S)
  /\ op = "stream" /\ reports = <<>> => durations = <<>> /\ tokens = <<>> /\ spans = <<>>
  /\ op = "stream" /\ reports # <<>> =>
       \E e \in Failures \cup {NoError} :
         /\ reports[1].failed <=> e # NoError
         /\ durations = <<Attributes(EndOf(e))>>
         /\ tokens = TokenPoints(EndOf(e))
         /\ spans = IF recordSpans THEN <<SpanOf(EndOf(e))>> ELSE <<>>

LEMMA RecordInit == TelemetryInit => RecordInvariant
<1> SUFFICES ASSUME TelemetryInit PROVE RecordInvariant
  OBVIOUS
<1>1. /\ log = <<>> /\ closed = FALSE /\ reports = <<>> /\ stage = "calling"
      /\ attempts = <<>> /\ answer = NoUsage
      /\ durations = <<>> /\ tokens = <<>> /\ spans = <<>>
      /\ op \in {"complete", "models", "stream"}
  BY DEF TelemetryInit, Init, ContractInit
<1>2. NoUsage \in DOMAIN Counts /\ Counts[NoUsage] = [input |-> 0, output |-> 0]
  BY TelemetryAssumption
<1>3. durations = [i \in DOMAIN attempts |->
        [name |-> OperationName(op), error |-> ErrorTypeOf(attempts[i])]]
  BY <1>1
<1>4. \E S : spans \in Seq(S)
  BY <1>1
<1> QED
  BY <1>1, <1>2, <1>3, <1>4 DEF RecordInvariant, Positive

\* One more attempt of a unary call, with the usage of its answer: NoUsage for
\* one that failed.
LEMMA AttemptRecorded ==
  ASSUME RecordInvariant, stage = "calling", op # "stream",
         NEW e \in Failures \cup {NoError}, NEW st,
         attempts' = Append(attempts, e), answer' \in DOMAIN Counts,
         Record([op |-> op, err |-> e, usage |-> answer', stop |-> st]),
         UNCHANGED <<vars, op, recordSpans>>,
         stage' \in {"calling", "returned"},
         stage' = "calling" => answer' = NoUsage
  PROVE  RecordInvariant'
<1> DEFINE ev == [op |-> op, err |-> e, usage |-> answer', stop |-> st]
           a  == [name |-> OperationName(op), error |-> ErrorTypeOf(e)]
<1>1. Attributes(ev) = a
  BY DEF Attributes
<1>2. /\ durations' = Append(durations, a)
      /\ tokens' = tokens \o TokenPoints(ev)
      /\ spans' = IF recordSpans THEN Append(spans, SpanOf(ev)) ELSE spans
  BY <1>1 DEF Record
<1>3. tokens' = TokenPoints(ev)
  <2>1. tokens = <<>>
    BY DEF RecordInvariant
  <2>2. \E S : TokenPoints(ev) \in Seq(S)
    BY PointsAreSeq
  <2> QED
    BY <1>2, <2>1, <2>2, ConcatEmptySeq
<1>4. /\ durations' = [i \in DOMAIN attempts' |->
           [name |-> OperationName(op'), error |-> ErrorTypeOf(attempts'[i])]]
      /\ Len(durations') = Len(durations) + 1
      /\ durations'[Len(durations')] = a
  <2> DEFINE F(x) == [name |-> OperationName(op), error |-> ErrorTypeOf(x)]
  <2>1. attempts \in Seq(Failures \cup {NoError}) /\ durations = [i \in DOMAIN attempts |-> F(attempts[i])]
    BY DEF RecordInvariant
  <2> HIDE DEF F
  <2>2. /\ DOMAIN attempts = 1 .. Len(attempts) /\ Len(attempts) \in Nat
        /\ DOMAIN attempts' = 1 .. Len(attempts) + 1
        /\ \A i \in DOMAIN attempts' : attempts'[i] = IF i = Len(attempts) + 1 THEN e ELSE attempts[i]
    BY <2>1, LenProperties, AppendProperties
  <2>3. durations \in [1 .. Len(attempts) -> {F(attempts[i]) : i \in DOMAIN attempts}]
    BY <2>1, <2>2
  <2>4. durations \in Seq({F(attempts[i]) : i \in DOMAIN attempts}) /\ Len(durations) = Len(attempts)
    BY <2>2, <2>3, FunctionIsSeq
  <2>5. /\ DOMAIN durations' = 1 .. Len(attempts) + 1
        /\ Len(durations') = Len(attempts) + 1
        /\ durations'[Len(attempts) + 1] = a
        /\ \A i \in 1 .. Len(attempts) : durations'[i] = durations[i]
        /\ durations' = [i \in DOMAIN durations' |-> durations'[i]]
    <3>1. \E S : durations \in Seq(S)
      BY <2>4
    <3>2. Append(durations, a) = [i \in DOMAIN Append(durations, a) |-> Append(durations, a)[i]]
      BY <3>1
    <3> QED
      BY <1>2, <2>4, <3>1, <3>2, AppendSeq
  <2>6. \A i \in DOMAIN attempts' : durations'[i] = F(attempts'[i])
    BY <2>1, <2>2, <2>5 DEF F
  <2>7. durations' = [i \in DOMAIN attempts' |-> F(attempts'[i])]
    BY <2>2, <2>5, <2>6
  <2> QED
    BY <2>2, <2>4, <2>5, <2>7 DEF F
<1>5. /\ Len(tokens') = Positive(Counts[answer'].input) + Positive(Counts[answer'].output)
      /\ \A d \in {"input", "output"} : Counts[answer'][d] > 0 =>
           \E i \in DOMAIN tokens' : tokens'[i] =
             [type |-> d, n |-> Counts[answer'][d], of |-> durations'[Len(durations')]]
  <2>1. ev.usage = answer' /\ Attributes(ev) = durations'[Len(durations')]
    BY <1>1, <1>4
  <2> HIDE DEF ev
  <2> QED
    BY <1>3, <2>1, TokenPointsFacts
<1>6. /\ Len(spans') = IF recordSpans' THEN Len(durations') ELSE 0
      /\ \E S : spans' \in Seq(S)
  <2>1. /\ Len(spans) = IF recordSpans THEN Len(durations) ELSE 0
        /\ \E S : spans \in Seq(S)
    BY DEF RecordInvariant
  <2>2. CASE recordSpans
    <3>1. spans' = Append(spans, SpanOf(ev)) /\ Len(spans) = Len(durations)
      BY <1>2, <2>1, <2>2
    <3>2. Len(spans') = Len(spans) + 1 /\ \E S : spans' \in Seq(S)
      <4> HIDE DEF ev
      <4> QED
        BY <2>1, <3>1, AppendSeq
    <3> QED
      BY <1>4, <2>2, <3>1, <3>2
  <2>3. CASE ~ recordSpans
    BY <1>2, <2>1, <2>3
  <2> QED
    BY <2>2, <2>3
<1>7. attempts' \in Seq(Failures \cup {NoError})
  BY AppendProperties DEF RecordInvariant
<1>8. stage' = "calling" => tokens' = <<>>
  BY <1>3, NothingBilled
<1>9. log' = log /\ closed' = closed /\ reports' = reports /\ op' = op /\ recordSpans' = recordSpans
  BY DEF vars, contractVars, wrapperVars
<1>10. /\ op' \in {"complete", "models", "stream"} /\ op' # "stream"
       /\ log' = <<>> /\ ~ closed' /\ reports' = <<>>
       /\ stage' \in {"calling", "returned"}
  BY <1>9 DEF RecordInvariant
<1>11. /\ op' # "stream" =>
            /\ durations' = [i \in DOMAIN attempts' |->
                 [name |-> OperationName(op'), error |-> ErrorTypeOf(attempts'[i])]]
            /\ Len(tokens') = Positive(Counts[answer'].input) + Positive(Counts[answer'].output)
            /\ \A d \in {"input", "output"} : Counts[answer'][d] > 0 =>
                 \E i \in DOMAIN tokens' : tokens'[i] =
                   [type |-> d, n |-> Counts[answer'][d], of |-> durations'[Len(durations')]]
            /\ Len(spans') = IF recordSpans' THEN Len(durations') ELSE 0
            /\ \E S : spans' \in Seq(S)
  <2> HIDE DEF a, ev
  <2> QED
    BY <1>4, <1>5, <1>6
<1> QED
  BY <1>7, <1>8, <1>10, <1>11 DEF RecordInvariant

\* The attempts that open a stream are not recorded.
LEMMA HandshakeUnrecorded ==
  ASSUME RecordInvariant, stage = "calling", op = "stream",
         attempts' \in Seq(Failures \cup {NoError}), answer' = NoUsage,
         UNCHANGED <<vars, op, recordSpans, recorded>>,
         stage' \in {"calling", "streaming", "returned"}
  PROVE  RecordInvariant'
<1>1. /\ log' = log /\ closed' = closed /\ reports' = reports /\ op' = op /\ recordSpans' = recordSpans
      /\ durations' = durations /\ tokens' = tokens /\ spans' = spans
  BY DEF vars, contractVars, wrapperVars, recorded
<1>2. answer' \in DOMAIN Counts
  BY TelemetryAssumption
<1>3. reports = <<>> /\ log = <<>> /\ ~ closed
  BY DEF RecordInvariant
<1> QED
  BY <1>1, <1>2, <1>3 DEF RecordInvariant

\* A step of the stream makes its one report, or none.
LEMMA ReportsGrow ==
  ASSUME Inv, Next
  PROVE  \/ reports' = reports
         \/ reports = <<>> /\ reports' = <<reports'[1]>> /\ reports'[1].failed \in BOOLEAN
<1>1. ASSUME NEW c, NEW u, NEW st, Emit(c, u, st)
      PROVE  \/ reports' = reports
             \/ reports = <<>> /\ reports' = <<reports'[1]>> /\ reports'[1].failed \in BOOLEAN
  <2>1. reports = IF fired THEN <<reports[1]>> ELSE <<>>
    BY DEF Inv, Typed
  <2>2. CASE fired
    BY <1>1, <2>1, <2>2, EmitFacts
  <2>3. CASE ~ fired
    <3> DEFINE r == [completed |-> c, failed |-> mode = "failed", usage |-> u, stop |-> st]
    <3>1. reports = <<>> /\ reports' = <<r>>
      BY <1>1, <2>1, <2>3, EmitFacts
    <3>2. r.failed \in BOOLEAN
      OBVIOUS
    <3> HIDE DEF r
    <3>3. reports'[1] = r
      BY <3>1
    <3> QED
      BY <3>1, <3>2, <3>3
  <2> QED
    BY <2>2, <2>3, <2>1 DEF Inv, Typed
<1>2. ASSUME NEW e \in Content \cup Dones, NextEvent(e)
      PROVE  \/ UNCHANGED reports
             \/ Emit(TRUE, UsageOf(e), e.stop)
  BY <1>2 DEF NextEvent, Sees, wrapperVars
<1>3. NextFalse => UNCHANGED reports
  BY DEF NextFalse, wrapperVars
<1>4. CloseStream \/ CollectReturn => Emit(completed, usage, stopReason)
  BY DEF CloseStream, CollectReturn
<1> QED
  BY <1>1, <1>2, <1>3, <1>4 DEF Next

\* A stream's report is recorded when it is made.
LEMMA StreamRecorded ==
  ASSUME Inv, RecordInvariant, StreamStep
  PROVE  RecordInvariant'
<1>1. /\ stage = "streaming" /\ op = "stream" /\ Next
      /\ UNCHANGED <<op, recordSpans, stage, attempts, answer>>
  BY DEF StreamStep, callVars, RecordInvariant
<1>2. CASE reports' = reports
  <2>1. UNCHANGED <<durations, tokens, spans>>
    <3>1. ~ (Len(reports') > Len(reports))
      <4>1. reports = IF fired THEN <<reports[1]>> ELSE <<>>
        BY DEF Inv, Typed
      <4>2. Len(reports) \in Nat
        BY <4>1
      <4> QED
        BY <1>2, <4>2
    <3> QED
      BY <3>1 DEF StreamStep, recorded
  <2>2. \A e : EndOf(e)' = EndOf(e)
    BY <1>2 DEF EndOf
  <2> QED
    BY <1>1, <1>2, <2>1, <2>2 DEF RecordInvariant
<1>3. CASE reports = <<>> /\ reports' = <<reports'[1]>> /\ reports'[1].failed \in BOOLEAN
  <2>1. Len(reports') > Len(reports) /\ Last(reports') = reports'[1] /\ reports' # <<>>
    <3>1. Len(reports) = 0 /\ Len(reports') = 1
      BY <1>3
    <3> QED
      BY <1>3, <3>1 DEF Last
  <2>2. PICK e \in IF reports'[1].failed THEN Failures ELSE {NoError} :
          Record([op |-> "stream_end", err |-> e, usage |-> reports'[1].usage, stop |-> reports'[1].stop])
    BY <2>1 DEF StreamStep
  <2> DEFINE ev == [op |-> "stream_end", err |-> e, usage |-> reports'[1].usage, stop |-> reports'[1].stop]
  <2>3. /\ durations' = Append(durations, Attributes(ev))
        /\ tokens' = tokens \o TokenPoints(ev)
        /\ spans' = IF recordSpans THEN Append(spans, SpanOf(ev)) ELSE spans
    BY <2>2 DEF Record
  <2>4. durations = <<>> /\ tokens = <<>> /\ spans = <<>>
    BY <1>1, <1>3 DEF RecordInvariant
  <2>5. \E S : TokenPoints(ev) \in Seq(S)
    BY PointsAreSeq
  <2>6. /\ durations' = <<Attributes(ev)>>
        /\ tokens' = TokenPoints(ev)
        /\ spans' = IF recordSpans THEN <<SpanOf(ev)>> ELSE <<>>
    BY <2>3, <2>4, <2>5, ConcatEmptySeq
  <2>7. e \in Failures \cup {NoError} /\ (reports'[1].failed <=> e # NoError)
    BY <1>3, <2>2, FailuresAreErrors
  <2>8. ev = EndOf(e)'
    BY DEF EndOf
  <2>9. \E x \in Failures \cup {NoError} :
          /\ reports'[1].failed <=> x # NoError
          /\ durations' = <<Attributes(EndOf(x)')>>
          /\ tokens' = TokenPoints(EndOf(x)')
          /\ spans' = IF recordSpans THEN <<SpanOf(EndOf(x)')>> ELSE <<>>
    BY <2>6, <2>7, <2>8
  <2> QED
    BY <1>1, <2>1, <2>9 DEF RecordInvariant
<1> QED
  BY <1>1, <1>2, <1>3, ReportsGrow

LEMMA StepRecords ==
  ASSUME Inv, RecordInvariant, [TelemetryNext]_allVars
  PROVE  RecordInvariant'
<1>1. ASSUME NEW e \in Failures, stage = "calling",
             attempts' = Append(attempts, e),
             Record([op |-> op, err |-> e, usage |-> NoUsage, stop |-> ""]),
             stage' \in {"calling", "returned"},
             UNCHANGED <<vars, op, recordSpans, answer>>
      PROVE  RecordInvariant'
  <2>1. answer' = NoUsage /\ answer' \in DOMAIN Counts
    BY <1>1, TelemetryAssumption DEF RecordInvariant
  <2>2. attempts' \in Seq(Failures \cup {NoError})
    BY <1>1, AppendProperties DEF RecordInvariant
  <2>3. CASE op = "stream"
    <3>1. UNCHANGED recorded
      BY <1>1, <2>3 DEF Record
    <3> QED
      BY <1>1, <2>1, <2>2, <2>3, <3>1, HandshakeUnrecorded
  <2>4. CASE op # "stream"
    BY <1>1, <2>1, <2>4, AttemptRecorded
  <2> QED
    BY <2>3, <2>4
<1>2. CASE AttemptSucceeds
  <2>1. /\ stage = "calling" /\ attempts' = Append(attempts, NoError)
        /\ stage' = IF op = "stream" THEN "streaming" ELSE "returned"
        /\ UNCHANGED <<vars, op, recordSpans>>
        /\ answer' \in IF op = "complete" THEN DOMAIN Counts ELSE {NoUsage}
    BY <1>2 DEF AttemptSucceeds
  <2>2. PICK st : Record([op |-> op, err |-> NoError, usage |-> answer', stop |-> st])
    BY <1>2 DEF AttemptSucceeds
  <2>3. attempts' \in Seq(Failures \cup {NoError})
    BY <2>1, AppendProperties DEF RecordInvariant
  <2>4. answer' \in DOMAIN Counts
    BY <2>1, TelemetryAssumption
  <2>5. CASE op = "stream"
    <3>1. UNCHANGED recorded
      BY <2>2, <2>5 DEF Record
    <3> QED
      BY <2>1, <2>3, <2>5, <3>1, HandshakeUnrecorded
  <2>6. CASE op # "stream"
    BY <2>1, <2>2, <2>4, <2>6, AttemptRecorded
  <2> QED
    BY <2>5, <2>6
<1>3. CASE UNCHANGED allVars
  BY <1>3 DEF allVars, vars, contractVars, wrapperVars, callVars, recorded, RecordInvariant, EndOf
<1>4. AttemptFails => RecordInvariant'
  BY <1>1 DEF AttemptFails
<1> QED
  BY <1>2, <1>3, <1>4, StreamRecorded DEF TelemetryNext

\* What the invariant says of the metrics is what is promised.
LEMMA RecordedThen ==
  ASSUME Inv, RecordInvariant
  PROVE  RecordedOnce
<1>1. CASE op # "stream"
  BY <1>1 DEF RecordInvariant, RecordedOnce, Billed
<1>2. CASE op = "stream" /\ reports = <<>>
  <2>1. durations = <<>> /\ tokens = <<>> /\ spans = <<>>
    BY <1>2 DEF RecordInvariant
  <2>2. ~ HasDone /\ ~ closed /\ ~ completed
    BY <1>2 DEF Inv, Typed, WrapperInvariant
  <2>3. Billed = [input |-> 0, output |-> 0]
    BY <1>2, <2>2, TelemetryAssumption DEF Billed
  <2> QED
    BY <1>2, <2>1, <2>2, <2>3 DEF RecordedOnce, Positive
<1>3. CASE op = "stream" /\ reports # <<>>
  <2>1. PICK e \in Failures \cup {NoError} :
          /\ reports[1].failed <=> e # NoError
          /\ durations = <<Attributes(EndOf(e))>>
          /\ tokens = TokenPoints(EndOf(e))
          /\ spans = IF recordSpans THEN <<SpanOf(EndOf(e))>> ELSE <<>>
    BY <1>3 DEF RecordInvariant
  <2>2. HasDone \/ closed
    BY <1>3 DEF Inv, Typed, WrapperInvariant
  <2>3. /\ reports[1].usage \in DOMAIN Counts
        /\ Billed = Counts[reports[1].usage]
    <3>1. CASE reports[1].completed /\ HasDone
      <4>1. log[Len(log)] \in Dones
        BY <3>1 DEF HasDone
      <4>2. \/ reports[1].usage = NoUsage
            \/ log[Len(log)].usage # NilUsage /\ reports[1].usage = log[Len(log)].usage
        BY <1>3, <3>1 DEF Inv, ReportTruthful
      <4>3. reports[1].usage \in DOMAIN Counts
        BY <4>1, <4>2, TelemetryAssumption
      <4>4. completed
        BY <3>1 DEF Inv, WrapperInvariant
      <4> QED
        BY <1>3, <3>1, <4>3, <4>4 DEF Billed
    <3>2. CASE ~ (reports[1].completed /\ HasDone)
      <4>1. ~ reports[1].completed /\ reports[1].usage = NoUsage
        BY <1>3, <3>2 DEF Inv, ReportTruthful
      <4> QED
        BY <1>3, <4>1, TelemetryAssumption DEF Billed
    <3> QED
      BY <3>1, <3>2
  <2>4. EndOf(e).usage = reports[1].usage /\ EndOf(e).err = e
    BY DEF EndOf
  <2>5. Len(durations) = 1 /\ durations[1] = Attributes(EndOf(e)) /\ durations # <<>>
    BY <2>1
  <2>6. durations[1].error # "" <=> reports[1].failed
    BY <2>1, <2>4, <2>5, FailuresNamed DEF Attributes
  <2>7. /\ Len(tokens) = Positive(Billed.input) + Positive(Billed.output)
        /\ \A d \in {"input", "output"} : Billed[d] > 0 =>
             \E i \in DOMAIN tokens :
               tokens[i] = [type |-> d, n |-> Billed[d], of |-> durations[Len(durations)]]
    BY <2>1, <2>3, <2>4, <2>5, TokenPointsFacts
  <2>8. Len(spans) = IF recordSpans THEN Len(durations) ELSE 0
    BY <2>1, <2>5
  <2> QED
    BY <1>3, <2>2, <2>5, <2>6, <2>7, <2>8 DEF RecordedOnce
<1> QED
  BY <1>1, <1>2, <1>3

\* The metrics count every unary attempt and every stream once, and a call's
\* tokens once in each direction, whatever is retried, closed early or read on.
THEOREM Metered == TelemetrySpec => []RecordedOnce
<1>1. TelemetrySpec => []Inv
  BY TelemetryListens, Invariance, PTL
<1>2. Inv /\ RecordInvariant /\ [TelemetryNext]_allVars => RecordInvariant'
  BY StepRecords
<1>3. Inv /\ RecordInvariant => RecordedOnce
  BY RecordedThen
<1> QED
  BY <1>1, <1>2, <1>3, RecordInit, PTL DEF TelemetrySpec

-----------------------------------------------------------------------------
(* The gateway's handler: any number of events and of beats.               *)

LEMMA RequestInitTyped == RequestInit => TypeOK
<1> SUFFICES ASSUME RequestInit PROVE TypeOK
  OBVIOUS
<1>1. doneClosed \in IF beat = "none" THEN {FALSE} ELSE BOOLEAN
  BY DEF RequestInit
<1>2. log \in Seq(Content \cup Dones) /\ mode = "open" /\ closed = FALSE
  BY DEF RequestInit, ContractInit
<1>3. out \in Seq(Content \cup Dones \cup {"error", "keep-alive"})
  BY DEF RequestInit
<1> QED
  BY <1>1, <1>2, <1>3 DEF RequestInit, TypeOK, HandlerPCs

\* What the handler and the heartbeat append to the response are frames.
LEMMA FrameTyped ==
  ASSUME TypeOK, NEW f \in Content \cup Dones \cup {"error", "keep-alive"},
         WriteSucceeds(f)
  PROVE  out' \in Seq(Content \cup Dones \cup {"error", "keep-alive"})
  BY DEF TypeOK, WriteSucceeds

\* While an event is being written there is one.
EventAtHand == pc \in {"lock", "marshal", "writing"} => log # <<>>

\* The event delivered last is the last frame before the next is asked for. The
\* handler leaves its loop for a client that left, for an event that could not
\* be encoded, or with a terminal frame written.
EndInvariant ==
  /\ pc = "start" => log = <<>>
  /\ pc \in {"start", "next"} => ok
  /\ mode = "ended" => HasDone
  /\ pc = "next" /\ log # <<>> => LastFrame(log[Len(log)])
  /\ pc = "unlock" /\ ok => LastFrame(log[Len(log)])
  /\ pc = "unlock" /\ ~ ok => client = "gone" \/ NotEncodable
  /\ pc = "errUnlock" => client = "gone" \/ LastFrame("error")
  /\ pc \in {"stop", "wait", "close", "returned"} /\ client # "gone" =>
       NotEncodable \/ \E f \in Dones \cup {"error"} : LastFrame(f)

LEMMA EventTyped ==
  ASSUME TypeOK, EventAtHand, pc = "writing"
  PROVE  log[Len(log)] \in Content \cup Dones
  BY DEF TypeOK, EventAtHand

\* Every step of either goroutine, of the client and of net/http keeps every
\* variable in its type.
LEMMA StepTyped ==
  ASSUME TypeOK, EventAtHand, MutexInvariant, [RequestNext]_requestVars
  PROVE  TypeOK'
<1> USE DEF TypeOK, HandlerPCs
<1>1. CASE Begin
  BY <1>1, ZenonT(60) DEF Begin, contractVars, MutexInvariant
<1>2. ASSUME NEW e \in Content \cup Dones, NextDelivers(e) PROVE TypeOK'
  <2>1. log' \in Seq(Content \cup Dones) /\ UNCHANGED <<mode, closed>>
    BY <1>2 DEF NextDelivers, Deliver
  <2> QED
    BY <1>2, <2>1, ZenonT(60) DEF NextDelivers
<1>3. CASE NextEnds \/ NextFails
  BY <1>3, ZenonT(60) DEF NextEnds, NextFails, EndCleanly, EndFailed
<1>4. CASE HandlerLocks
  <2>1. /\ UNCHANGED <<log, mode, closed, ok, beat, doneClosed, client, ctxDone, out>>
        /\ pc' \in {"marshal", "errWriting"} /\ writeMu' = "handler"
    BY <1>4 DEF HandlerLocks, LockForEvent, LockForError, Lock, contractVars
  <2> QED
    BY <2>1, ZenonT(60)
<1>5. CASE MarshalEvent
  <2>1. /\ UNCHANGED <<log, mode, closed, beat, doneClosed, writeMu, client, ctxDone, out>>
        /\ pc' \in {"unlock", "writing"} /\ ok' \in BOOLEAN
    BY <1>5 DEF MarshalEvent, contractVars
  <2> QED
    BY <2>1, ZenonT(60)
<1>6. CASE WriteEvent
  <2>1. out' \in Seq(Content \cup Dones \cup {"error", "keep-alive"})
    BY <1>6, EventTyped, FrameTyped DEF WriteEvent, WriteFails
  <2>2. /\ UNCHANGED <<log, mode, closed, beat, doneClosed, writeMu, client, ctxDone>>
        /\ pc' = "unlock" /\ ok' \in BOOLEAN
    BY <1>6 DEF WriteEvent, contractVars
  <2> QED
    BY <2>1, <2>2, ZenonT(60)
<1>7. CASE WriteErrorFrame
  <2>1. out' \in Seq(Content \cup Dones \cup {"error", "keep-alive"})
    BY <1>7, FrameTyped DEF WriteErrorFrame, WriteFails
  <2>2. /\ UNCHANGED <<log, mode, closed, ok, beat, doneClosed, writeMu, client, ctxDone>>
        /\ pc' = "errUnlock"
    BY <1>7 DEF WriteErrorFrame, contractVars
  <2> QED
    BY <2>1, <2>2, ZenonT(60)
<1>8. CASE UnlockAfterEvent \/ UnlockAfterError
  BY <1>8, ZenonT(60) DEF UnlockAfterEvent, UnlockAfterError, Unlock, contractVars
<1>9. CASE StopBeat \/ AwaitBeat \/ CloseUpstream
  BY <1>9, ZenonT(60) DEF StopBeat, AwaitBeat, CloseUpstream, Release, contractVars
<1>10. CASE BeatStops \/ BeatTicks \/ BeatLocks \/ BeatUnlocks
  BY <1>10, ZenonT(60) DEF BeatStops, BeatTicks, BeatLocks, BeatUnlocks, Lock, Unlock,
               contractVars, handlerVars
<1>11. CASE BeatWrites
  <2>1. out' \in Seq(Content \cup Dones \cup {"error", "keep-alive"})
    BY <1>11, FrameTyped DEF BeatWrites, WriteFails
  <2>2. /\ UNCHANGED <<log, mode, closed, pc, ok, doneClosed, writeMu, client, ctxDone>>
        /\ beat = "writing" /\ beat' \in {"unlock", "leave"}
    BY <1>11 DEF BeatWrites, contractVars, handlerVars
  <2>3. doneClosed' \in BOOLEAN /\ beat' # "none"
    BY <2>2
  <2> QED
    BY <2>1, <2>2, <2>3, ZenonT(60)
<1>12. CASE ClientChanges \/ ContextEnds
  BY <1>12, ZenonT(60) DEF ClientChanges, ContextEnds, contractVars, handlerVars
<1>13. CASE UNCHANGED requestVars
  <2>1. UNCHANGED <<log, mode, closed, pc, ok, beat, doneClosed, writeMu, client, ctxDone, out>>
    BY <1>13 DEF requestVars, contractVars, handlerVars
  <2>2. TypeOK' <=> TypeOK
    BY <2>1
  <2> QED
    BY <2>2
<1> QED
  BY <1>1, <1>2, <1>3, <1>4, <1>5, <1>6, <1>7, <1>8, <1>9, <1>10, <1>11, <1>12, <1>13
  DEF RequestNext, HandlerRuns, NextReturns, HandlerWrites

\* The handler asks for the lock with an event in hand.
LEMMA StepKeepsEvent ==
  ASSUME TypeOK, EventAtHand, [RequestNext]_requestVars
  PROVE  EventAtHand'
<1> USE DEF EventAtHand
<1>1. ASSUME NEW e \in Content \cup Dones, NextDelivers(e) PROVE EventAtHand'
  BY <1>1 DEF NextDelivers, Deliver, TypeOK
<1>2. CASE NextEnds \/ NextFails
  BY <1>2 DEF NextEnds, NextFails
<1>3. CASE HandlerLocks \/ HandlerWrites
  BY <1>3 DEF HandlerLocks, LockForEvent, LockForError, HandlerWrites, WriteEvent,
              WriteErrorFrame, contractVars
<1>4. CASE HandlerRuns
  BY <1>4 DEF HandlerRuns, Begin, MarshalEvent, UnlockAfterEvent, UnlockAfterError,
              StopBeat, AwaitBeat, CloseUpstream, contractVars
<1>5. CASE \/ BeatStops \/ BeatTicks \/ BeatLocks \/ BeatWrites \/ BeatUnlocks
           \/ ClientChanges \/ ContextEnds \/ UNCHANGED requestVars
  BY <1>5 DEF BeatStops, BeatTicks, BeatLocks, BeatWrites, BeatUnlocks, ClientChanges,
              ContextEnds, requestVars, contractVars, handlerVars
<1> QED
  BY <1>1, <1>2, <1>3, <1>4, <1>5 DEF RequestNext, NextReturns

\* The mutex changes hands only at its holder's steps, and the handler leaves
\* only once the heartbeat has.
LEMMA StepExclusive ==
  ASSUME TypeOK, MutexInvariant, [RequestNext]_requestVars
  PROVE  MutexInvariant'
<1> USE DEF MutexInvariant
<1>1. CASE HandlerRuns
  BY <1>1 DEF HandlerRuns, Begin, MarshalEvent, UnlockAfterEvent, UnlockAfterError,
              StopBeat, AwaitBeat, CloseUpstream, Unlock, TypeOK, HandlerPCs
<1>2. CASE NextReturns
  BY <1>2 DEF NextReturns, NextDelivers, NextEnds, NextFails
<1>3. CASE HandlerLocks
  BY <1>3 DEF HandlerLocks, LockForEvent, LockForError, Lock
<1>4. CASE HandlerWrites
  BY <1>4 DEF HandlerWrites, WriteEvent, WriteErrorFrame
<1>5. CASE BeatStops \/ BeatTicks
  BY <1>5 DEF BeatStops, BeatTicks, handlerVars, TypeOK
<1>6. CASE BeatLocks
  BY <1>6 DEF BeatLocks, Lock, handlerVars, TypeOK
<1>7. CASE BeatWrites
  BY <1>7 DEF BeatWrites, handlerVars, TypeOK
<1>8. CASE BeatUnlocks
  BY <1>8 DEF BeatUnlocks, Unlock, handlerVars, TypeOK
<1>9. CASE ClientChanges \/ ContextEnds \/ UNCHANGED requestVars
  BY <1>9 DEF ClientChanges, ContextEnds, requestVars, handlerVars
<1> QED
  BY <1>1, <1>2, <1>3, <1>4, <1>5, <1>6, <1>7, <1>8, <1>9 DEF RequestNext

\* Only the handler's last step closes the upstream.
LEMMA StepReleases ==
  ASSUME TypeOK, UpstreamReleased, [RequestNext]_requestVars
  PROVE  UpstreamReleased'
<1> USE DEF UpstreamReleased
<1>1. CASE CloseUpstream
  BY <1>1 DEF CloseUpstream, Release
<1>2. CASE Begin \/ MarshalEvent \/ UnlockAfterEvent \/ UnlockAfterError \/ StopBeat \/ AwaitBeat
  BY <1>2 DEF Begin, MarshalEvent, UnlockAfterEvent, UnlockAfterError, StopBeat, AwaitBeat,
              contractVars
<1>3. CASE NextReturns
  BY <1>3 DEF NextReturns, NextDelivers, NextEnds, NextFails, Deliver, EndCleanly, EndFailed
<1>4. CASE HandlerLocks \/ HandlerWrites
  BY <1>4 DEF HandlerLocks, LockForEvent, LockForError, HandlerWrites, WriteEvent,
              WriteErrorFrame, contractVars
<1>5. CASE \/ BeatStops \/ BeatTicks \/ BeatLocks \/ BeatWrites \/ BeatUnlocks
           \/ ClientChanges \/ ContextEnds \/ UNCHANGED requestVars
  BY <1>5 DEF BeatStops, BeatTicks, BeatLocks, BeatWrites, BeatUnlocks, ClientChanges,
              ContextEnds, requestVars, contractVars, handlerVars
<1> QED
  BY <1>1, <1>2, <1>3, <1>4, <1>5 DEF RequestNext, HandlerRuns

-----------------------------------------------------------------------------
(* How the response ends.                                                  *)

\* A frame just written is the last, and a comment leaves the last one the last.
LEMMA WriteFacts ==
  ASSUME TypeOK, NEW f \in Content \cup Dones \cup {"error", "keep-alive"}, WriteSucceeds(f)
  PROVE  /\ LastFrame(f)'
         /\ f = "keep-alive" => \A g : LastFrame(g) => LastFrame(g)'
<1>1. /\ out \in Seq(Content \cup Dones \cup {"error", "keep-alive"})
      /\ out' = Append(out, f)
  BY DEF TypeOK, WriteSucceeds
<1>2. /\ Len(out) \in Nat
      /\ DOMAIN out = 1 .. Len(out) /\ DOMAIN out' = 1 .. Len(out) + 1
      /\ \A i \in 1 .. Len(out) : out'[i] = out[i]
      /\ out'[Len(out) + 1] = f
  BY <1>1
<1>3. LastFrame(f)'
  BY <1>2 DEF LastFrame
<1>4. ASSUME f = "keep-alive", NEW g, LastFrame(g) PROVE LastFrame(g)'
  <2>1. PICK i \in DOMAIN out : out[i] = g /\ \A j \in DOMAIN out : j > i => out[j] = "keep-alive"
    BY <1>4 DEF LastFrame
  <2>2. i \in DOMAIN out' /\ out'[i] = g
    BY <1>2, <2>1
  <2>3. \A j \in DOMAIN out' : j > i => out'[j] = "keep-alive"
    BY <1>2, <1>4, <2>1
  <2> QED
    BY <2>2, <2>3 DEF LastFrame
<1> QED
  BY <1>3, <1>4

LEMMA StepEnds ==
  ASSUME TypeOK, EventAtHand, EndInvariant, [RequestNext]_requestVars
  PROVE  EndInvariant'
<1> USE DEF EndInvariant, NotEncodable
<1>1. CASE Begin
  BY <1>1 DEF Begin, contractVars, HasDone
<1>2. ASSUME NEW e \in Content \cup Dones, NextDelivers(e) PROVE EndInvariant'
  <2>1. pc' = "lock" /\ UNCHANGED mode /\ mode = "open"
    BY <1>2 DEF NextDelivers, Deliver
  <2> QED
    BY <2>1
<1>3. CASE NextEnds
  <2>1. /\ pc = "next" /\ pc' = "stop" /\ log # <<>> /\ log[Len(log)] \in Dones
        /\ UNCHANGED <<log, out, client>>
    BY <1>3 DEF NextEnds, EndCleanly, HasDone
  <2>2. \E f \in Dones \cup {"error"} : LastFrame(f)'
    BY <2>1 DEF LastFrame
  <2> QED
    BY <2>1, <2>2 DEF HasDone
<1>4. CASE NextFails
  BY <1>4 DEF NextFails, EndFailed
<1>5. CASE HandlerLocks
  BY <1>5 DEF HandlerLocks, LockForEvent, LockForError, contractVars, HasDone
<1>6. CASE MarshalEvent
  <2>1. /\ \/ pc' = "unlock" /\ ~ ok' /\ log[Len(log)] \in Unmarshalable
           \/ pc' = "writing"
        /\ pc = "marshal" /\ UNCHANGED <<log, mode>>
    BY <1>6 DEF MarshalEvent, contractVars
  <2> QED
    BY <2>1 DEF EventAtHand, HasDone
<1>7. CASE WriteEvent
  <2>1. /\ pc = "writing" /\ pc' = "unlock" /\ UNCHANGED <<log, mode, client>>
        /\ \/ WriteSucceeds(log[Len(log)]) /\ ok'
           \/ client = "gone" /\ ~ ok'
    BY <1>7 DEF WriteEvent, WriteFails, contractVars
  <2>2. WriteSucceeds(log[Len(log)]) => LastFrame(log[Len(log)])'
    BY <2>1, EventTyped, WriteFacts DEF LastFrame
  <2> QED
    BY <2>1, <2>2 DEF HasDone
<1>8. CASE UnlockAfterEvent
  <2>1. /\ pc = "unlock" /\ pc' = IF ok THEN "next" ELSE "stop"
        /\ UNCHANGED <<log, mode, ok, client, out>>
    BY <1>8 DEF UnlockAfterEvent, contractVars
  <2>2. CASE ok
    BY <2>1, <2>2 DEF LastFrame, HasDone
  <2>3. CASE ~ ok
    BY <2>1, <2>3 DEF HasDone
  <2> QED
    BY <2>2, <2>3
<1>9. CASE WriteErrorFrame
  <2>1. /\ pc' = "errUnlock" /\ UNCHANGED <<log, mode, client>>
        /\ WriteSucceeds("error") \/ client = "gone"
    BY <1>9 DEF WriteErrorFrame, WriteFails, contractVars
  <2>2. WriteSucceeds("error") => LastFrame("error")'
    BY WriteFacts
  <2> QED
    BY <2>1, <2>2 DEF HasDone
<1>10. CASE UnlockAfterError
  <2>1. pc = "errUnlock" /\ pc' = "stop" /\ UNCHANGED <<log, mode, client, out>>
    BY <1>10 DEF UnlockAfterError, contractVars
  <2>2. client = "gone" \/ \E f \in Dones \cup {"error"} : LastFrame(f)'
    BY <2>1 DEF LastFrame
  <2> QED
    BY <2>1, <2>2 DEF HasDone
<1>11. CASE StopBeat \/ AwaitBeat \/ CloseUpstream
  <2>1. /\ pc \in {"stop", "wait", "close"} /\ pc' \in {"wait", "close", "returned"}
        /\ UNCHANGED <<log, mode, client, out>>
    BY <1>11 DEF StopBeat, AwaitBeat, CloseUpstream, Release, contractVars
  <2> QED
    BY <2>1 DEF LastFrame, HasDone
<1>12. CASE BeatWrites
  <2>1. UNCHANGED <<log, mode, pc, ok, client>> /\ (WriteSucceeds("keep-alive") \/ UNCHANGED out)
    BY <1>12 DEF BeatWrites, WriteFails, contractVars, handlerVars
  <2>2. CASE WriteSucceeds("keep-alive")
    <3>1. /\ LastFrame(log[Len(log)]) => LastFrame(log[Len(log)])'
          /\ LastFrame("error") => LastFrame("error")'
          /\ \A f \in Dones : LastFrame(f) => LastFrame(f)'
      BY <2>1, <2>2, WriteFacts DEF LastFrame
    <3> QED
      BY <2>1, <3>1 DEF HasDone
  <2>3. CASE UNCHANGED out
    BY <2>1, <2>3 DEF LastFrame, HasDone
  <2> QED
    BY <2>1, <2>2, <2>3
<1>13. CASE BeatStops \/ BeatTicks \/ BeatLocks \/ BeatUnlocks \/ ContextEnds \/ UNCHANGED requestVars
  <2>1. UNCHANGED <<log, mode, pc, ok, client, out>>
    BY <1>13 DEF BeatStops, BeatTicks, BeatLocks, BeatUnlocks, ContextEnds, requestVars,
                 contractVars, handlerVars
  <2> QED
    BY <2>1 DEF LastFrame, HasDone
<1>14. CASE ClientChanges
  <2>1. client # "gone" /\ UNCHANGED <<log, mode, pc, ok, out>>
    BY <1>14 DEF ClientChanges, contractVars, handlerVars
  <2> QED
    BY <2>1 DEF LastFrame, HasDone
<1> QED
  BY <1>1, <1>2, <1>3, <1>4, <1>5, <1>6, <1>7, <1>8, <1>9, <1>10, <1>11, <1>12, <1>13, <1>14
  DEF RequestNext, HandlerRuns, NextReturns, HandlerWrites

-----------------------------------------------------------------------------
(* What of the stream has been forwarded.                                  *)

\* All of the log has been forwarded, or all but its last event.
Whole == Forwarded = log
Short == log # <<>> /\ log = Append(Forwarded, log[Len(log)])

\* The handler has one event in hand at most. It leaves its loop with it in hand
\* when the write fails, and an error frame follows a whole log only.
ForwardInvariant ==
  /\ pc \in {"start", "next"} => Whole
  /\ pc \in {"lock", "marshal", "writing"} => Short
  /\ pc = "unlock" => IF ok THEN Whole ELSE Short
  /\ pc \in {"errLock", "errWriting"} => mode = "failed" /\ Whole
  /\ pc = "errUnlock" => mode = "failed" /\ (Whole \/ Forwarded = Append(log, "error"))
  /\ pc \in {"stop", "wait", "close", "returned"} =>
       Whole \/ Short \/ (mode = "failed" /\ Forwarded = Append(log, "error"))

Frame == Content \cup Dones \cup {"error", "keep-alive"}
Data  == Content \cup Dones \cup {"error"}

\* Every data frame written is forwarded, a comment is not.
LEMMA WriteForwards ==
  ASSUME TypeOK, NEW f \in Frame, WriteSucceeds(f)
  PROVE  Forwarded' = IF f \in Data THEN Append(Forwarded, f) ELSE Forwarded
  BY AmongAppend DEF TypeOK, WriteSucceeds, Forwarded, Frame, Data

LEMMA CommentsForwardNothing == "keep-alive" \notin Data
  BY GatewayAssumption DEF Data

LEMMA StepForwards ==
  ASSUME TypeOK, EventAtHand, ForwardInvariant, [RequestNext]_requestVars
  PROVE  ForwardInvariant'
<1> USE DEF ForwardInvariant
<1>0. UNCHANGED <<log, out>> => (Forwarded' = Forwarded /\ Whole' = Whole /\ Short' = Short)
  BY DEF Forwarded, Whole, Short
<1>1. CASE Begin
  BY <1>0, <1>1 DEF Begin, contractVars
<1>2. ASSUME NEW e \in Content \cup Dones, NextDelivers(e) PROVE ForwardInvariant'
  <2>1. pc = "next" /\ pc' = "lock" /\ log' = Append(log, e) /\ UNCHANGED out
    BY <1>2 DEF NextDelivers, Deliver
  <2>2. Forwarded' = log
    BY <2>1 DEF Forwarded, Whole
  <2>3. log' # <<>> /\ log'[Len(log')] = e
    BY <2>1, AppendProperties DEF TypeOK
  <2> QED
    BY <2>1, <2>2, <2>3 DEF Short
<1>3. CASE NextEnds \/ NextFails
  BY <1>0, <1>3 DEF NextEnds, NextFails, EndCleanly, EndFailed
<1>4. CASE HandlerLocks
  BY <1>0, <1>4 DEF HandlerLocks, LockForEvent, LockForError, contractVars
<1>5. CASE MarshalEvent
  BY <1>0, <1>5 DEF MarshalEvent, contractVars
<1>6. CASE WriteEvent
  <2>1. /\ pc = "writing" /\ pc' = "unlock" /\ UNCHANGED <<log, mode>>
        /\ \/ WriteSucceeds(log[Len(log)]) /\ ok' = TRUE
           \/ UNCHANGED out /\ ok' = FALSE
    BY <1>6 DEF WriteEvent, WriteFails, contractVars
  <2>2. CASE WriteSucceeds(log[Len(log)]) /\ ok' = TRUE
    <3>1. log[Len(log)] \in Frame /\ log[Len(log)] \in Data
      BY <2>1, EventTyped DEF Frame, Data
    <3>2. Forwarded' = Append(Forwarded, log[Len(log)])
      BY <2>2, <3>1, WriteForwards
    <3> QED
      BY <2>1, <2>2, <3>2 DEF Short, Whole
  <2>3. CASE UNCHANGED out /\ ok' = FALSE
    BY <1>0, <2>1, <2>3
  <2> QED
    BY <2>1, <2>2, <2>3
<1>7. CASE UnlockAfterEvent \/ UnlockAfterError
  BY <1>0, <1>7 DEF UnlockAfterEvent, UnlockAfterError, contractVars
<1>8. CASE WriteErrorFrame
  <2>1. /\ pc = "errWriting" /\ pc' = "errUnlock" /\ UNCHANGED <<log, mode>>
        /\ WriteSucceeds("error") \/ UNCHANGED out
    BY <1>8 DEF WriteErrorFrame, WriteFails, contractVars
  <2>2. WriteSucceeds("error") => Forwarded' = Append(Forwarded, "error")
    BY WriteForwards DEF Frame, Data
  <2> QED
    BY <1>0, <2>1, <2>2 DEF Whole
<1>9. CASE StopBeat \/ AwaitBeat \/ CloseUpstream
  BY <1>0, <1>9 DEF StopBeat, AwaitBeat, CloseUpstream, Release, contractVars
<1>10. CASE BeatWrites
  <2>1. /\ UNCHANGED <<log, mode, pc, ok>>
        /\ WriteSucceeds("keep-alive") \/ UNCHANGED out
    BY <1>10 DEF BeatWrites, WriteFails, contractVars, handlerVars
  <2>2. Forwarded' = Forwarded
    BY <1>0, <2>1, WriteForwards, CommentsForwardNothing DEF Frame
  <2> QED
    BY <2>1, <2>2 DEF Whole, Short
<1>11. CASE \/ BeatStops \/ BeatTicks \/ BeatLocks \/ BeatUnlocks
            \/ ClientChanges \/ ContextEnds \/ UNCHANGED requestVars
  <2>1. UNCHANGED <<log, out, mode, pc, ok>>
    BY <1>11 DEF BeatStops, BeatTicks, BeatLocks, BeatUnlocks, ClientChanges, ContextEnds,
                 requestVars, contractVars, handlerVars
  <2> QED
    BY <1>0, <2>1
<1> QED
  BY <1>1, <1>2, <1>3, <1>4, <1>5, <1>6, <1>7, <1>8, <1>9, <1>10, <1>11
  DEF RequestNext, HandlerRuns, NextReturns, HandlerWrites

\* What was forwarded at any point is a beginning of the stream.
LEMMA ForwardedIsPrefix ==
  ASSUME TypeOK, ForwardInvariant
  PROVE  ForwardedInOrder
<1>1. /\ log \in Seq(Content \cup Dones) /\ Len(log) \in Nat
      /\ Forwarded \in Seq(Data)
  BY LenProperties, AmongTyped DEF TypeOK, Forwarded, Data
<1>2. CASE Whole
  <2>1. Forwarded = SubSeq(log, 1, Len(log))
    BY <1>1, <1>2, SubSeqFull DEF Whole
  <2> QED
    BY <1>1, <2>1 DEF ForwardedInOrder
<1>3. CASE Short
  <2> DEFINE n == Len(log) - 1
  <2>1. n \in 0 .. Len(log)
    BY <1>1, <1>3, EmptySeq DEF Short
  <2>2. Forwarded = SubSeq(log, 1, n)
    <3>1. log = Append(Forwarded, log[Len(log)])
      BY <1>3 DEF Short
    <3> QED
      BY <1>1, <3>1
  <2> QED
    BY <2>1, <2>2 DEF ForwardedInOrder
<1>4. CASE mode = "failed" /\ Forwarded = Append(log, "error")
  BY <1>1, <1>4 DEF ForwardedInOrder
<1> QED
  BY <1>2, <1>3, <1>4 DEF ForwardInvariant, TypeOK, HandlerPCs

RequestInv ==
  /\ TypeOK /\ EventAtHand
  /\ MutexInvariant /\ UpstreamReleased
  /\ EndInvariant /\ ForwardInvariant

\* The inductive invariant.
THEOREM RequestInvariance == RequestSpec => []RequestInv
<1>1. RequestInit => RequestInv
  <2> SUFFICES ASSUME RequestInit PROVE RequestInv
    OBVIOUS
  <2>1. Forwarded = log
    BY AmongEmpty DEF RequestInit, ContractInit, Forwarded
  <2> QED
    BY <2>1, RequestInitTyped
    DEF RequestInit, ContractInit, RequestInv, EventAtHand, MutexInvariant,
        UpstreamReleased, EndInvariant, ForwardInvariant, Whole
<1>2. RequestInv /\ [RequestNext]_requestVars => RequestInv'
  BY StepTyped, StepKeepsEvent, StepExclusive, StepReleases, StepEnds, StepForwards
  DEF RequestInv
<1> QED
  BY <1>1, <1>2, PTL DEF RequestSpec

\* Every variable keeps its type, whatever the stream delivers.
THEOREM TypeCorrect == RequestSpec => []TypeOK
  BY RequestInvariance, PTL DEF RequestInv

\* No two goroutines write to the response at once, and none does after the
\* handler: the reason for the mutex and for waiting in stopBeat.
THEOREM Exclusive == RequestSpec => []ResponseExclusive
<1>1. RequestInv => ResponseExclusive
  BY DEF RequestInv, TypeOK, MutexInvariant, ResponseExclusive, HandlerWriting, BeatWriting
<1> QED
  BY <1>1, RequestInvariance, PTL

\* The paid upstream request is released on every path out of the handler, and
\* not before.
THEOREM Released == RequestSpec => []UpstreamReleased
  BY RequestInvariance, PTL DEF RequestInv

\* A client that stays is told how the response ended on every path out of the
\* handler, save for an event that cannot be encoded.
THEOREM EndSent == RequestSpec => []TerminalFrameSent
<1>1. RequestInv => TerminalFrameSent
  BY DEF RequestInv, EndInvariant, TerminalFrameSent
<1> QED
  BY <1>1, RequestInvariance, PTL

\* The client reads the provider's events in their order, none left out, and an
\* error frame only after all of the events of a stream that failed, whatever the
\* heartbeat writes between them.
THEOREM InOrder == RequestSpec => []ForwardedInOrder
<1>1. RequestInv => ForwardedInOrder
  BY ForwardedIsPrefix DEF RequestInv
<1> QED
  BY <1>1, RequestInvariance, PTL
=============================================================================
