--------------------------- MODULE ObservedStream ---------------------------
(***************************************************************************)
(* The stream Client.Stream hands out: a provider's stream in a wrapper    *)
(* that reports its outcome to the hooks (observedstream.go), read by one  *)
(* consumer. The consumer is either a loop of its own making, which may    *)
(* call Next and Close in any legal order, abandon the stream, drain it    *)
(* without closing it or close it twice; or CollectStream (stream.go).     *)
(*                                                                         *)
(* The provider's stream is StreamContract's; OaiStream is one that keeps  *)
(* that contract.                                                          *)
(***************************************************************************)
EXTENDS StreamContract, Subsequences

CONSTANTS
  NoUsage,    \* the zero Usage
  NilUsage,   \* a done event without one
  MaxEvents   \* bound: events the provider's stream delivers

ASSUME ObservedAssumption ==
  /\ \A d \in Dones : d.type = "done" /\ DOMAIN d = {"type", "usage", "stop"}
  /\ \A e \in Content : e.type \in {"text", "thinking", "tool"}
  /\ MaxEvents \in Nat

VARIABLES
  collecting,  \* the consumer is CollectStream
  usage,       \* observedStream.usage
  stopReason,  \* observedStream.stopReason
  completed,   \* observedStream.completed
  fired,       \* observedStream.fired
  reports,     \* the OpStreamEnd events the hooks were given
  resp,        \* what CollectStream has gathered
  outcome      \* how CollectStream returned

wrapperVars == <<usage, stopReason, completed, fired, reports>>
collectVars == <<collecting, resp, outcome>>
vars == <<contractVars, wrapperVars, collectVars>>

Init ==
  /\ ContractInit
  /\ collecting \in BOOLEAN
  /\ usage = NoUsage
  /\ stopReason = ""
  /\ completed = FALSE
  /\ fired = FALSE
  /\ reports = <<>>
  /\ resp = [text |-> <<>>, calls |-> <<>>, usage |-> NoUsage, stop |-> "unknown"]
  /\ outcome = "none"

-----------------------------------------------------------------------------
(* The wrapper.                                                            *)

\* Mutant: the latch is missing.
EmitUnlatched(c, u, s) ==
  /\ fired' = TRUE
  /\ reports' = Append(reports,
       [completed |-> c, failed |-> mode = "failed", usage |-> u, stop |-> s])

\* emit: one report, whichever of the terminal event and Close comes first.
Emit(c, u, s) ==
  /\ fired' = TRUE
  /\ reports' = IF fired THEN reports
                ELSE Append(reports,
                       [completed |-> c, failed |-> mode = "failed", usage |-> u, stop |-> s])

\* A done event need not carry usage.
UsageOf(e) == IF e.usage # NilUsage THEN e.usage ELSE usage

\* Mutant: the totals are recorded after the report.
SeesLate(e) ==
  IF e \in Dones
    THEN /\ completed' = TRUE
         /\ usage' = UsageOf(e)
         /\ stopReason' = e.stop
         /\ Emit(TRUE, usage, stopReason)
    ELSE UNCHANGED wrapperVars

\* What Next does with the event the inner stream just advanced to.
Sees(e) ==
  IF e \in Dones
    THEN /\ completed' = TRUE
         /\ usage' = UsageOf(e)
         /\ stopReason' = e.stop
         /\ Emit(TRUE, UsageOf(e), e.stop)
    ELSE UNCHANGED wrapperVars

-----------------------------------------------------------------------------
(* CollectStream: what it makes of one event, and of the end.              *)

\* Mutant: the first call of a turn is the one kept.
GatheredFirstCall(e) ==
  CASE e.type = "text"     -> [resp EXCEPT !.text = Append(@, e)]
    [] e.type = "tool"     -> [resp EXCEPT !.calls = IF @ = <<>> THEN <<e>> ELSE @]
    [] e.type = "thinking" -> resp
    [] e.type = "done"     ->
         [resp EXCEPT !.usage = IF e.usage # NilUsage THEN e.usage ELSE @,
                      !.stop = IF e.stop # "" THEN e.stop ELSE @]

Gathered(e) ==
  CASE e.type = "text"     -> [resp EXCEPT !.text = Append(@, e)]
    [] e.type = "tool"     -> [resp EXCEPT !.calls = Append(@, e)]
    [] e.type = "thinking" -> resp
    [] e.type = "done"     ->
         [resp EXCEPT !.usage = IF e.usage # NilUsage THEN e.usage ELSE @,
                      !.stop = IF e.stop # "" THEN e.stop ELSE @]

\* A turn that called tools and says nothing else about why it ended.
Assembled(r) ==
  IF r.stop = "unknown" /\ r.calls # <<>> THEN [r EXCEPT !.stop = "tool_use"] ELSE r

-----------------------------------------------------------------------------
(* Actions: what the consumer calls. A Next after the last changes nothing.*)

NextEvent(e) ==
  /\ outcome = "none"
  /\ Len(log) < MaxEvents
  /\ Deliver(e)
  /\ Sees(e)
  /\ resp' = IF collecting THEN Gathered(e) ELSE resp
  /\ UNCHANGED <<collecting, outcome>>

NextFalse ==
  /\ EndCleanly \/ EndFailed
  /\ UNCHANGED <<wrapperVars, collectVars>>

\* The consumer's own Close, at any time and as often as it likes.
CloseStream ==
  /\ ~ collecting
  /\ Release
  /\ Emit(completed, usage, stopReason)
  /\ UNCHANGED <<usage, stopReason, completed, collectVars>>

\* CollectStream returns once Next is false, and its deferred Close runs.
CollectReturn ==
  /\ collecting
  /\ mode # "open"
  /\ outcome = "none"
  /\ IF mode = "failed"
       THEN outcome' = "error" /\ UNCHANGED resp
       ELSE outcome' = "response" /\ resp' = Assembled(resp)
  /\ Release
  /\ Emit(completed, usage, stopReason)
  /\ UNCHANGED <<usage, stopReason, completed, collecting>>

Next ==
  \/ \E e \in Content \cup Dones : NextEvent(e)
  \/ NextFalse
  \/ CloseStream
  \/ CollectReturn

Spec == Init /\ [][Next]_vars

-----------------------------------------------------------------------------
(* Properties.                                                             *)

\* A stream is reported exactly once, from the moment its done event passes
\* or it is closed, whichever comes first: drained without Close, abandoned,
\* closed twice, or collected. Before that it is not reported at all, and it
\* never ends cleanly unreported (OpStreamEnd).
ReportedOnce ==
  /\ Len(reports) = IF HasDone \/ closed THEN 1 ELSE 0
  /\ mode = "ended" => reports # <<>>

\* A report tells a completed stream from an abandoned one: it claims
\* completion only for a stream whose done event was delivered, and then
\* carries that event's usage and stop reason; a stream abandoned before it
\* claims neither usage nor completion, also when its done event is delivered
\* to the consumer after Close.
ReportTruthful ==
  reports # <<>> =>
    LET r == reports[1]
    IN  \/ /\ r.completed /\ HasDone
           /\ r.stop = log[Len(log)].stop
           /\ r.usage = IF log[Len(log)].usage = NilUsage THEN NoUsage ELSE log[Len(log)].usage
           /\ ~ r.failed
        \/ ~ r.completed /\ closed /\ r.usage = NoUsage

\* The wrapper's fields follow the stream: what the two properties above rest on.
WrapperInvariant ==
  /\ completed <=> HasDone
  /\ fired <=> HasDone \/ closed
  /\ mode = "ended" => HasDone
  /\ ~ HasDone => usage = NoUsage

Of(type) == Among(log, {e \in Content \cup Dones : e.type = type})

\* CollectStream returns a response only for a stream that ended cleanly, and
\* it holds every text fragment and every tool call the stream delivered, in
\* order, with the done event's totals. It leaves nothing behind: when it has
\* returned, the stream is closed, the hooks have been told, and a failure was
\* not made a response.
CollectFaithful ==
  /\ outcome = "response" =>
       /\ mode = "ended" /\ HasDone
       /\ resp.text = Of("text") /\ resp.calls = Of("tool")
       /\ log[Len(log)].usage # NilUsage => resp.usage = log[Len(log)].usage
       /\ resp.stop = "unknown" => resp.calls = <<>>
       /\ resp.stop \in {"unknown", "tool_use", log[Len(log)].stop}
  /\ outcome # "none" =>
       /\ closed
       /\ Len(reports) = 1
       /\ outcome = "error" <=> mode = "failed"
=============================================================================
