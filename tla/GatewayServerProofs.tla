------------------------- MODULE GatewayServerProofs -------------------------
(***************************************************************************)
(* Whatever requests come and whenever the signal does: only callers with  *)
(* a configured token are let in, no more than the cap allows, and an      *)
(* orderly stop takes nobody by surprise. And whatever the environment is, *)
(* it decides: the process has all of the configuration given, or none.    *)
(***************************************************************************)
EXTENDS Environment, FiniteSetTheorems, SequenceLemmas

Accepted == {cfg.auth} \cup {cfg.rotation[l] : l \in DOMAIN cfg.rotation}

\* What is known of a request in each of its phases: before it is read it has
\* no answer and no slot, it has one in every handler, and it is cut only by
\* the exit.
PhasesInvariant ==
  \A r \in Requests :
    /\ phase[r] \in {"absent", "connected"} => answer[r] = 0
    /\ inFlight[r] => phase[r] \in AtWork \cup {"cut"}
    /\ phase[r] \in {"handler", "upstream", "streaming"} => inFlight[r]
    /\ phase[r] = "cut" => proc = "exited"

\* Server.tokens holds nothing the operator did not configure.
TokensInvariant == DOMAIN tokens \subseteq Accepted

\* What is in flight got there with a configured token and is told nothing of it.
CallersInvariant ==
  \A r \in Requests : inFlight[r] => token[r] \in Accepted /\ answer[r] # 401

BudgetInvariant == cfg.limit > 0 => Cardinality(InFlight) <= cfg.limit

\* How far the process is tells whether readiness has failed and the grace
\* period is over.
StopInvariant ==
  /\ OrderlyStop
  /\ proc \in {"draining", "grace", "closing"} => draining
  /\ proc = "closing" => graceOver

Inv ==
  TypeOK /\ PhasesInvariant /\ TokensInvariant /\ CallersInvariant
  /\ BudgetInvariant /\ StopInvariant

\* A caller is authorized only with a configured token.
LEMMA AuthorizedAccepted ==
  ASSUME TokensInvariant, NEW t, Authorized(t)
  PROVE  t \in Accepted
  BY DEF TokensInvariant, Authorized, Label

\* The statuses the gateway chooses itself.
LEMMA OwnStatuses ==
  /\ 200 \in Statuses \ {0, 401}
  /\ 204 \in Statuses /\ 401 \in Statuses /\ 404 \in Statuses /\ 429 \in Statuses /\ 503 \in Statuses
  BY DEF Statuses

\* No answer from inside the router's throttled part is a 401.
LEMMA AnswersInside ==
  /\ \A r \in Requests : Rejections(r) \subseteq Statuses \ {0, 401}
  /\ \A kind : UpstreamStatus(kind) \in Statuses \ {0, 401}
<1>1. ASSUME NEW r \in Requests PROVE Rejections(r) \subseteq Statuses \ {0, 401}
  BY DEF Rejections, Statuses
<1>2. ASSUME NEW kind PROVE UpstreamStatus(kind) \in Statuses \ {0, 401}
  BY DEF UpstreamStatus, Statuses
<1> QED
  BY <1>1, <1>2

-----------------------------------------------------------------------------
(* What the steps have in common.                                          *)

\* A step of one request leaves the process and every other request alone.
OnlyChanges(r) ==
  /\ UNCHANGED procVars
  /\ \A q \in Requests \ {r} :
       /\ phase'[q] = phase[q] /\ call'[q] = call[q] /\ token'[q] = token[q]
       /\ inFlight'[q] = inFlight[q] /\ answer'[q] = answer[q] /\ gone'[q] = gone[q]

\* A request that is read is not yet in flight, and is answered or let in.
LEMMA RouteStep ==
  ASSUME TypeOK, PhasesInvariant, TokensInvariant,
         NEW r \in Requests, NEW c \in Calls, NEW t \in Tokens, Route(r, c, t)
  PROVE  /\ TypeOK' /\ OnlyChanges(r)
         /\ proc # "exited" /\ phase[r] = "connected" /\ ~ inFlight[r]
         /\ \/ phase'[r] = "answered" /\ ~ inFlight'[r]
            \/ /\ phase'[r] = "handler" /\ inFlight'[r]
               /\ token'[r] \in Accepted /\ answer'[r] = 0 /\ ~ Full
<1>1. Arrive(r, c, t)
  BY DEF Route, AnswerProbe, AnswerPreflight, RefuseToken, RefuseLoad, Admit
<1>2. proc # "exited" /\ phase[r] = "connected" /\ ~ inFlight[r] /\ answer[r] = 0
  BY <1>1 DEF Arrive, Running, PhasesInvariant, AtWork, TypeOK
<1>3. ASSUME NEW status \in Statuses, Answered(r, status)
      PROVE  TypeOK' /\ OnlyChanges(r) /\ phase'[r] = "answered" /\ ~ inFlight'[r]
  BY <1>1, <1>2, <1>3
  DEF Answered, MoveTo, OnlyChanges, Phases, AtWork, TypeOK, Arrive, procVars
<1>4. CASE AnswerProbe(r, c, t)
  <2> DEFINE status == ProbeStatus(c)
  <2>1. status \in Statuses
    BY OwnStatuses DEF ProbeStatus
  <2>2. Answered(r, status)
    BY <1>4 DEF AnswerProbe
  <2> HIDE DEF status
  <2> QED
    BY <1>2, <1>3, <2>1, <2>2
<1>5. CASE AnswerPreflight(r, c, t)
  BY <1>2, <1>3, <1>5, OwnStatuses DEF AnswerPreflight
<1>6. CASE RefuseToken(r, c, t)
  BY <1>2, <1>3, <1>6, OwnStatuses DEF RefuseToken
<1>7. CASE RefuseLoad(r, c, t)
  BY <1>2, <1>3, <1>7, OwnStatuses DEF RefuseLoad
<1>8. CASE Admit(r, c, t)
  <2>1. t \in Accepted /\ ~ Full
    BY <1>8, AuthorizedAccepted DEF Admit
  <2>2. TypeOK' /\ OnlyChanges(r)
    BY <1>1, <1>8 DEF Admit, MoveTo, OnlyChanges, Phases, AtWork, TypeOK, Arrive, procVars
  <2> QED
    BY <1>1, <1>2, <1>8, <2>1, <2>2 DEF Admit, MoveTo, Arrive, TypeOK
<1> QED
  BY <1>4, <1>5, <1>6, <1>7, <1>8 DEF Route

\* What Respond does to the request it answers.
LEMMA RespondStep ==
  ASSUME TypeOK, NEW r \in Requests, NEW status \in Statuses \ {0, 401}, Respond(r, status)
  PROVE  /\ TypeOK' /\ OnlyChanges(r) /\ inFlight'[r] = inFlight[r] /\ token'[r] = token[r]
         /\ phase'[r] = "answered" /\ answer'[r] \in Statuses \ {0, 401}
<1>1. "answered" \in Phases
  BY DEF Phases, AtWork
<1>2. status \in Statuses
  OBVIOUS
<1>3. TypeOK'
  BY <1>1, <1>2 DEF Respond, Answered, MoveTo, TypeOK, procVars
<1>4. /\ phase' = [phase EXCEPT ![r] = "answered"] /\ answer' = [answer EXCEPT ![r] = status]
      /\ UNCHANGED <<procVars, call, token, inFlight, gone>>
  BY DEF Respond, Answered, MoveTo
<1>5. phase \in [Requests -> Phases] /\ answer \in [Requests -> Statuses]
  BY DEF TypeOK
<1>6. phase'[r] = "answered"
  BY <1>4, <1>5
<1>7. answer'[r] = status
  BY <1>4, <1>5
<1>8. OnlyChanges(r) /\ inFlight'[r] = inFlight[r] /\ token'[r] = token[r]
  <2>1. \A q \in Requests \ {r} : phase'[q] = phase[q]
    BY <1>4, <1>5
  <2>2. \A q \in Requests \ {r} : answer'[q] = answer[q]
    BY <1>4, <1>5
  <2> QED
    BY <1>4, <2>1, <2>2 DEF OnlyChanges
<1> QED
  BY <1>3, <1>6, <1>7, <1>8

\* A request in a handler goes on there, or is given an answer that is no 401.
LEMMA InsideStep ==
  ASSUME TypeOK, PhasesInvariant, NEW r \in Requests,
         Handle(r) \/ ProviderAnswers(r) \/ ProviderFails(r) \/ ContextDone(r) \/ StreamEnds(r)
  PROVE  /\ TypeOK' /\ OnlyChanges(r)
         /\ proc # "exited" /\ inFlight[r] /\ inFlight'[r] /\ token'[r] = token[r]
         /\ phase'[r] \in {"upstream", "streaming", "answered"}
         /\ answer'[r] = answer[r] \/ answer'[r] \in Statuses \ {0, 401}
<1>1. proc # "exited" /\ inFlight[r]
  BY DEF Handle, AnswerProviders, Reject, CallProvider, ProviderAnswers, ProviderFails,
         ContextDone, StreamEnds, Running, PhasesInvariant
<1>2. CASE AnswerProviders(r) \/ (ProviderAnswers(r) /\ call[r] # "stream")
  <2>1. Respond(r, 200)
    BY <1>2 DEF AnswerProviders, ProviderAnswers
  <2> QED
    BY <1>1, <2>1, RespondStep, OwnStatuses
<1>3. CASE Reject(r)
  <2>1. PICK status \in Rejections(r) : Respond(r, status)
    BY <1>3 DEF Reject
  <2> QED
    BY <1>1, <2>1, RespondStep, AnswersInside
<1>4. CASE ProviderFails(r) \/ ContextDone(r)
  <2>1. \E kind : Respond(r, UpstreamStatus(kind))
    BY <1>4 DEF ProviderFails, ContextDone
  <2> QED
    BY <1>1, <2>1, RespondStep, AnswersInside
<1>5. CASE CallProvider(r) \/ StreamEnds(r)
  <2>1. PICK p \in {"upstream", "answered"} : phase' = [phase EXCEPT ![r] = p]
    BY <1>5 DEF CallProvider, StreamEnds, MoveTo
  <2>2. UNCHANGED <<procVars, call, token, inFlight, answer, gone>>
    BY <1>5 DEF CallProvider, StreamEnds
  <2>3. phase \in [Requests -> Phases] /\ p \in Phases
    BY <2>1 DEF TypeOK, Phases, AtWork
  <2>4. TypeOK'
    BY <2>1, <2>2, <2>3 DEF TypeOK, procVars
  <2> QED
    BY <1>1, <2>1, <2>2, <2>3, <2>4 DEF OnlyChanges
<1>6. CASE ProviderAnswers(r) /\ call[r] = "stream"
  <2>1. "streaming" \in Phases /\ 200 \in Statuses
    BY OwnStatuses DEF Phases, AtWork
  <2>2. /\ phase' = [phase EXCEPT ![r] = "streaming"]
        /\ answer' = [answer EXCEPT ![r] = 200]
        /\ UNCHANGED <<procVars, call, token, inFlight, gone>>
    BY <1>6 DEF ProviderAnswers, MoveTo
  <2>3. TypeOK' /\ OnlyChanges(r)
    BY <2>1, <2>2 DEF OnlyChanges, TypeOK, procVars
  <2>4. phase \in [Requests -> Phases] /\ answer \in [Requests -> Statuses]
    BY DEF TypeOK
  <2>5. phase'[r] = "streaming"
    BY <2>2, <2>4
  <2>6. answer'[r] = 200
    BY <2>2, <2>4
  <2> QED
    BY <1>1, <2>2, <2>3, <2>5, <2>6, OwnStatuses
<1> QED
  BY <1>2, <1>3, <1>4, <1>5, <1>6 DEF Handle

\* A request that is over is in flight no more.
LEMMA EndStep ==
  ASSUME TypeOK, NEW r \in Requests, Panic(r) \/ Return(r)
  PROVE  /\ TypeOK' /\ OnlyChanges(r)
         /\ proc # "exited" /\ phase'[r] = "ended" /\ ~ inFlight'[r]
<1>1. proc # "exited" /\ Forget(r)
  BY DEF Panic, Return, Running
<1>2. "ended" \in Phases /\ "healthz" \in Calls /\ 0 \in Statuses
  BY DEF Phases, Over, Calls, Probes, Statuses
<1> QED
  BY <1>1, <1>2 DEF TypeOK, Forget, MoveTo, OnlyChanges, procVars

\* Connections come and go without touching what is in flight.
LEMMA ConnectionStep ==
  ASSUME TypeOK, NEW r \in Requests, Connect(r) \/ HangUp(r) \/ CloseIdle(r)
  PROVE  /\ TypeOK' /\ OnlyChanges(r)
         /\ proc # "exited"
         /\ inFlight'[r] = inFlight[r] /\ token'[r] = token[r] /\ answer'[r] = answer[r]
         /\ \/ phase[r] = "absent" /\ phase'[r] = "connected"
            \/ phase[r] = "connected" /\ phase'[r] = "dropped"
            \/ phase[r] \in AtWork /\ phase'[r] = phase[r]
<1>1. proc # "exited" /\ UNCHANGED <<procVars, call, token, inFlight, answer>>
  BY DEF Connect, HangUp, CloseIdle, Running
<1>2. /\ gone' \in [Requests -> BOOLEAN]
      /\ \A q \in Requests \ {r} : gone'[q] = gone[q]
  BY DEF Connect, HangUp, CloseIdle, TypeOK
<1>3. /\ phase' \in [Requests -> Phases]
      /\ \A q \in Requests \ {r} : phase'[q] = phase[q]
      /\ \/ phase[r] = "absent" /\ phase'[r] = "connected"
         \/ phase[r] = "connected" /\ phase'[r] = "dropped"
         \/ phase[r] \in AtWork /\ phase'[r] = phase[r]
  BY DEF Connect, HangUp, CloseIdle, MoveTo, TypeOK, Phases, Over, AtWork
<1>4. TypeOK'
  BY <1>1, <1>2, <1>3 DEF TypeOK, procVars
<1> QED
  BY <1>1, <1>2, <1>3, <1>4 DEF OnlyChanges

\* A step of the process ends every request or leaves all of them alone, up to
\* the end of their connections.
LEMMA ProcessStep ==
  ASSUME TypeOK, Process
  PROVE  /\ TypeOK' /\ proc # "exited"
         /\ UNCHANGED <<cfg, inFlight, token, answer>>
         /\ tokens' = tokens \/ tokens' \in TokenMaps(cfg)
         /\ \/ proc' # "exited" /\ phase' = phase
            \/ proc' = "exited" /\ \A r \in Requests :
                 phase'[r] = IF phase[r] \in AtWork THEN "cut"
                             ELSE IF phase[r] = "connected" THEN "dropped" ELSE phase[r]
<1> USE DEF TypeOK
<1>1. ASSUME NEW code \in {0, 1}, Exit(code), proc # "exited",
             UNCHANGED <<signalled, listener, draining, graceOver, cfg>>
      PROVE  /\ TypeOK'
             /\ UNCHANGED <<cfg, inFlight, token, answer>> /\ proc' = "exited"
             /\ \A r \in Requests :
                  phase'[r] = IF phase[r] \in AtWork THEN "cut"
                              ELSE IF phase[r] = "connected" THEN "dropped" ELSE phase[r]
  BY <1>1 DEF Exit, Phases, Over
<1>2. CASE ListenerError \/ ShutdownReturns \/ ReturnFromMain
  BY <1>1, <1>2 DEF ListenerError, ShutdownReturns, ReturnFromMain
<1>3. CASE Start
  BY <1>1, <1>3 DEF Start, reqVars
<1>4. CASE Listen \/ AcceptFails \/ Signal \/ Drain \/ Shutdown \/ GraceExpires
  BY <1>4 DEF Listen, AcceptFails, Signal, Drain, Shutdown, GraceExpires, Running, reqVars
<1>5. CASE CloseAnyway
  BY <1>5 DEF CloseAnyway
<1> QED
  BY <1>2, <1>3, <1>4, <1>5 DEF Process

-----------------------------------------------------------------------------
(* The inductive invariant, part by part.                                  *)

\* A step of a request is one of these four.
LEMMA RequestSplits ==
  ASSUME NEW r \in Requests, Request(r)
  PROVE  \/ \E c \in Calls, t \in Tokens : Route(r, c, t)
         \/ Handle(r) \/ ProviderAnswers(r) \/ ProviderFails(r) \/ ContextDone(r) \/ StreamEnds(r)
         \/ Panic(r) \/ Return(r)
         \/ Connect(r) \/ HangUp(r) \/ CloseIdle(r)
  BY DEF Request

\* Every variable keeps its type, and a request its place among the phases.
LEMMA StepPhases ==
  ASSUME TypeOK, PhasesInvariant, TokensInvariant, [Next]_vars
  PROVE  TypeOK' /\ PhasesInvariant'
<1>1. CASE Process
  <2>1. /\ TypeOK' /\ proc # "exited" /\ UNCHANGED <<inFlight, answer>>
        /\ \/ proc' # "exited" /\ phase' = phase
           \/ proc' = "exited" /\ \A r \in Requests :
                phase'[r] = IF phase[r] \in AtWork THEN "cut"
                            ELSE IF phase[r] = "connected" THEN "dropped" ELSE phase[r]
    BY <1>1, ProcessStep
  <2> QED
    BY <2>1 DEF PhasesInvariant, AtWork
<1>2. ASSUME NEW r \in Requests, Request(r) PROVE TypeOK' /\ PhasesInvariant'
  <2>1. ASSUME NEW q \in Requests \ {r}, OnlyChanges(r)
        PROVE  /\ phase'[q] = phase[q] /\ inFlight'[q] = inFlight[q] /\ answer'[q] = answer[q]
               /\ proc' = proc
    BY <2>1 DEF OnlyChanges, procVars
  <2>2. CASE \E c \in Calls, t \in Tokens : Route(r, c, t)
    BY <2>1, <2>2, RouteStep DEF PhasesInvariant, AtWork, OnlyChanges, procVars
  <2>3. CASE Handle(r) \/ ProviderAnswers(r) \/ ProviderFails(r) \/ ContextDone(r) \/ StreamEnds(r)
    BY <2>1, <2>3, InsideStep DEF PhasesInvariant, AtWork, OnlyChanges, procVars
  <2>4. CASE Panic(r) \/ Return(r)
    BY <2>1, <2>4, EndStep DEF PhasesInvariant, AtWork, OnlyChanges, procVars
  <2>5. CASE Connect(r) \/ HangUp(r) \/ CloseIdle(r)
    BY <2>1, <2>5, ConnectionStep DEF PhasesInvariant, AtWork, OnlyChanges, procVars
  <2> QED
    BY <1>2, <2>2, <2>3, <2>4, <2>5, RequestSplits
<1>3. CASE UNCHANGED vars
  BY <1>3 DEF vars, procVars, reqVars, TypeOK, PhasesInvariant
<1> QED
  BY <1>1, <1>2, <1>3 DEF Next

\* The tokens are set once, from the configuration.
LEMMA StepTokens ==
  ASSUME TypeOK, PhasesInvariant, TokensInvariant, [Next]_vars
  PROVE  TokensInvariant'
<1>1. CASE Process
  <2>1. cfg' = cfg /\ (tokens' = tokens \/ tokens' \in TokenMaps(cfg))
    BY <1>1, ProcessStep
  <2>2. \A m \in TokenMaps(cfg) : DOMAIN m = Accepted
    BY DEF TokenMaps, Accepted
  <2> QED
    BY <2>1, <2>2 DEF TokensInvariant, Accepted
<1>2. ASSUME NEW r \in Requests, Request(r) PROVE TokensInvariant'
  <2>1. OnlyChanges(r)
    BY <1>2, RequestSplits, RouteStep, InsideStep, EndStep, ConnectionStep
  <2> QED
    BY <2>1 DEF OnlyChanges, procVars, TokensInvariant, Accepted
<1>3. CASE UNCHANGED vars
  BY <1>3 DEF vars, procVars, TokensInvariant, Accepted
<1> QED
  BY <1>1, <1>2, <1>3 DEF Next

\* Only the middleware lets a request in, with a configured token and no answer.
LEMMA StepCallers ==
  ASSUME TypeOK, PhasesInvariant, TokensInvariant, CallersInvariant, [Next]_vars
  PROVE  CallersInvariant'
<1>1. CASE Process
  BY <1>1, ProcessStep DEF CallersInvariant, Accepted
<1>2. ASSUME NEW r \in Requests, Request(r) PROVE CallersInvariant'
  <2>1. ASSUME OnlyChanges(r),
               inFlight'[r] => token'[r] \in Accepted /\ answer'[r] # 401
        PROVE  CallersInvariant'
    BY <2>1 DEF CallersInvariant, OnlyChanges, procVars, Accepted
  <2>2. CASE \E c \in Calls, t \in Tokens : Route(r, c, t)
    BY <2>1, <2>2, RouteStep
  <2>3. CASE Handle(r) \/ ProviderAnswers(r) \/ ProviderFails(r) \/ ContextDone(r) \/ StreamEnds(r)
    BY <2>1, <2>3, InsideStep DEF CallersInvariant
  <2>4. CASE Panic(r) \/ Return(r)
    BY <2>1, <2>4, EndStep
  <2>5. CASE Connect(r) \/ HangUp(r) \/ CloseIdle(r)
    BY <2>1, <2>5, ConnectionStep DEF CallersInvariant
  <2> QED
    BY <1>2, <2>2, <2>3, <2>4, <2>5, RequestSplits
<1>3. CASE UNCHANGED vars
  BY <1>3 DEF vars, procVars, reqVars, CallersInvariant, Accepted
<1> QED
  BY <1>1, <1>2, <1>3 DEF Next

\* Whatever does not let a request in keeps within the budget.
LEMMA BudgetShrinks ==
  ASSUME BudgetInvariant, TypeOK, cfg' = cfg, InFlight' \subseteq InFlight
  PROVE  BudgetInvariant'
<1>1. IsFiniteSet(InFlight)
  BY ServerAssumption, FS_Subset DEF InFlight
<1>2. Cardinality(InFlight') <= Cardinality(InFlight)
  BY <1>1, FS_Subset
<1>3. /\ Cardinality(InFlight) \in Nat /\ Cardinality(InFlight') \in Nat
      /\ cfg.limit \in Nat
  BY <1>1, FS_Subset, FS_CardinalityType, ServerAssumption DEF TypeOK
<1> QED
  BY <1>2, <1>3 DEF BudgetInvariant

\* Letting one in takes a slot that was free.
LEMMA StepBudget ==
  ASSUME TypeOK, PhasesInvariant, TokensInvariant, BudgetInvariant, [Next]_vars
  PROVE  BudgetInvariant'
<1>1. CASE Process
  <2>1. cfg' = cfg /\ InFlight' \subseteq InFlight
    BY <1>1, ProcessStep DEF InFlight
  <2> QED
    BY <2>1, BudgetShrinks
<1>2. ASSUME NEW r \in Requests, Request(r) PROVE BudgetInvariant'
  <2>1. ASSUME OnlyChanges(r), inFlight'[r] => inFlight[r] PROVE BudgetInvariant'
    <3>1. cfg' = cfg /\ InFlight' \subseteq InFlight
      BY <2>1 DEF OnlyChanges, procVars, InFlight
    <3> QED
      BY <3>1, BudgetShrinks
  <2>2. CASE \E c \in Calls, t \in Tokens : Route(r, c, t)
    <3>1. OnlyChanges(r) /\ (~ inFlight'[r] \/ ~ Full) /\ ~ inFlight[r]
      BY <2>2, RouteStep
    <3>2. CASE inFlight'[r]
      <4>1. InFlight' = InFlight \cup {r} /\ r \notin InFlight /\ cfg' = cfg
        BY <3>1, <3>2 DEF InFlight, OnlyChanges, procVars
      <4>2. IsFiniteSet(InFlight)
        BY ServerAssumption, FS_Subset DEF InFlight
      <4>3. Cardinality(InFlight') = Cardinality(InFlight) + 1
        BY <4>1, <4>2, FS_AddElement
      <4>4. Cardinality(InFlight) \in Nat /\ cfg.limit \in Nat
        BY <4>2, FS_CardinalityType, ServerAssumption DEF TypeOK
      <4>5. cfg.limit > 0 => ~ (Cardinality(InFlight) >= cfg.limit)
        BY <3>1, <3>2 DEF Full
      <4> QED
        BY <4>1, <4>3, <4>4, <4>5 DEF BudgetInvariant
    <3> QED
      BY <2>1, <3>1, <3>2
  <2>3. CASE Handle(r) \/ ProviderAnswers(r) \/ ProviderFails(r) \/ ContextDone(r) \/ StreamEnds(r)
    BY <2>1, <2>3, InsideStep
  <2>4. CASE Panic(r) \/ Return(r)
    BY <2>1, <2>4, EndStep
  <2>5. CASE Connect(r) \/ HangUp(r) \/ CloseIdle(r)
    BY <2>1, <2>5, ConnectionStep
  <2> QED
    BY <1>2, <2>2, <2>3, <2>4, <2>5, RequestSplits
<1>3. CASE UNCHANGED vars
  <2>1. cfg' = cfg /\ InFlight' \subseteq InFlight
    BY <1>3 DEF vars, procVars, reqVars, InFlight
  <2> QED
    BY <2>1, BudgetShrinks
<1> QED
  BY <1>1, <1>2, <1>3 DEF Next

\* A process that failed does not exit with the status of one that stopped.
LEMMA CodesDiffer == 0 # 1
  OBVIOUS

\* Readiness fails on the way to the listener's end, and a request is cut with
\* status 0 only by the exit that follows the grace period.
LEMMA StepStops ==
  ASSUME TypeOK, PhasesInvariant, TokensInvariant, StopInvariant, [Next]_vars
  PROVE  StopInvariant'
<1> USE DEF StopInvariant, OrderlyStop, TypeOK
<1>1. CASE Start \/ ListenerError
  <2>1. /\ UNCHANGED <<listener, draining, graceOver>>
        /\ proc' = "serving" \/ (proc' = "exited" /\ exitCode' = 1)
    BY <1>1 DEF Start, ListenerError, Exit
  <2>2. listener' = "closed" => draining'
    BY <2>1
  <2>3. proc' \notin {"draining", "grace", "closing"}
    BY <2>1
  <2>4. ~ (proc' = "exited" /\ exitCode' = 0)
    BY <2>1, CodesDiffer, Zenon
  <2> QED
    BY <2>2, <2>3, <2>4
<1>2. CASE Listen \/ AcceptFails \/ Signal
  BY <1>2 DEF Listen, AcceptFails, Signal, Running, reqVars
<1>3. CASE Drain \/ Shutdown \/ GraceExpires \/ CloseAnyway
  BY <1>3 DEF Drain, Shutdown, GraceExpires, CloseAnyway, reqVars
<1>4. CASE ReturnFromMain
  BY <1>4 DEF ReturnFromMain, Exit
<1>5. CASE ShutdownReturns
  <2>1. /\ proc = "grace" /\ proc' = "exited" /\ exitCode' = 0
        /\ UNCHANGED <<listener, draining, graceOver>>
    BY <1>5 DEF ShutdownReturns, Exit
  <2>2. \A r \in Requests : phase'[r] # "cut"
    BY <1>5 DEF ShutdownReturns, Exit, PhasesInvariant, AtWork, Over
  <2> QED
    BY <2>1, <2>2
<1>6. ASSUME NEW r \in Requests, Request(r) PROVE StopInvariant'
  <2>1. OnlyChanges(r) /\ proc # "exited"
    BY <1>6, RequestSplits, RouteStep, InsideStep, EndStep, ConnectionStep
  <2> QED
    BY <2>1 DEF OnlyChanges, procVars
<1>7. CASE UNCHANGED vars
  BY <1>7 DEF vars, procVars, reqVars
<1> QED
  BY <1>1, <1>2, <1>3, <1>4, <1>5, <1>6, <1>7 DEF Next, Process

-----------------------------------------------------------------------------
(* Theorems.                                                               *)

LEMMA InitInv == Init => Inv
<1>1. ASSUME Init PROVE TypeOK /\ PhasesInvariant /\ CallersInvariant /\ StopInvariant
  <2>1. "absent" \in Phases /\ "healthz" \in Calls /\ 0 \in Statuses
    BY DEF Phases, Calls, Probes, Statuses
  <2>2. TypeOK
    BY <1>1, <2>1 DEF Init, TypeOK
  <2>3. PhasesInvariant /\ CallersInvariant
    BY <1>1 DEF Init, PhasesInvariant, CallersInvariant
  <2>4. StopInvariant
    BY <1>1 DEF Init, StopInvariant, OrderlyStop
  <2> QED
    BY <2>2, <2>3, <2>4
<1>2. ASSUME Init PROVE TokensInvariant
  BY <1>2 DEF Init, TokensInvariant
<1>3. ASSUME Init PROVE BudgetInvariant
  <2>1. InFlight = {}
    BY <1>3 DEF Init, InFlight
  <2> QED
    <3>1. Cardinality(InFlight) = 0
      BY <2>1, FS_EmptySet
    <3>2. cfg.limit \in Nat
      BY <1>3, ServerAssumption DEF Init
    <3> QED
      BY <3>1, <3>2 DEF BudgetInvariant
<1> QED
  BY <1>1, <1>2, <1>3 DEF Inv

\* The inductive invariant.
THEOREM Invariance == Spec => []Inv
<1>1. Inv /\ [Next]_vars => Inv'
  BY StepPhases, StepTokens, StepCallers, StepBudget, StepStops DEF Inv
<1> QED
  BY <1>1, InitInv, PTL DEF Spec

\* Every variable keeps its type, whatever clients and providers do.
THEOREM TypeCorrect == Spec => []TypeOK
  BY Invariance, PTL DEF Inv

\* No request gets behind the token without one the operator configured, no
\* more get there than the cap allows, and none that did is told 401.
THEOREM CallersOnly == Spec => []TokenDecides
<1>1. Inv => TokenDecides
  BY DEF Inv, TokenDecides, CallersInvariant, PhasesInvariant, BudgetInvariant, InFlight, Accepted
<1> QED
  BY <1>1, Invariance, PTL

\* The listener is closed only after readiness has failed, and a process that
\* exits with status 0 has cut off requests only after their grace period.
THEOREM Orderly == Spec => []OrderlyStop
  BY Invariance, PTL DEF Inv, StopInvariant
-----------------------------------------------------------------------------
(* The same for a process configured by its environment.                   *)

\* ConfigFromEnv picks the configuration; from there on the gateway is the same.
LEMMA EnvironmentOnlyConfigures == EnvSpec => Spec
<1>1. EnvInit => Init
  BY DEF EnvInit
<1>2. [EnvNext]_<<vars, env>> => [Next]_vars
  BY DEF EnvNext, Next
<1> QED
  BY <1>1, <1>2, PTL DEF EnvSpec, Spec

\* Whatever the environment says, only tokens of the configuration it makes get
\* a request behind the authentication, within that configuration's cap.
THEOREM CallersOnlyFromEnvironment == EnvSpec => []TokenDecides
  BY EnvironmentOnlyConfigures, CallersOnly, PTL

\* Whatever the environment says, the stop is orderly.
THEOREM OrderlyFromEnvironment == EnvSpec => []OrderlyStop
  BY EnvironmentOnlyConfigures, Orderly, PTL

-----------------------------------------------------------------------------
(* The environment decides.                                                *)

\* The largest of some of the first numbers.
LEMMA MaxOf ==
  ASSUME NEW n \in Nat, NEW S \in SUBSET (1 .. n), S # {}
  PROVE  Max(S) \in S /\ \A x \in S : Max(S) >= x
<1> DEFINE HasMax(k) == \A A \in SUBSET (1 .. k) : A # {} => \E m \in A : \A x \in A : m >= x
           T == {k \in Nat : HasMax(k)}
<1>1. 0 \in T
  <2>1. \A A \in SUBSET (1 .. 0) : A = {}
    OBVIOUS
  <2> QED
    BY <2>1
<1>2. ASSUME NEW k \in T PROVE k + 1 \in T
  <2>1. k \in Nat /\ HasMax(k)
    OBVIOUS
  <2>2. ASSUME NEW A \in SUBSET (1 .. k + 1), A # {} PROVE \E m \in A : \A x \in A : m >= x
    <3>1. CASE k + 1 \in A
      BY <2>1, <3>1
    <3>2. CASE k + 1 \notin A
      <4>1. A \in SUBSET (1 .. k)
        BY <2>1, <3>2
      <4> QED
        BY <2>1, <2>2, <4>1
    <3> QED
      BY <3>1, <3>2
  <2> QED
    BY <2>1, <2>2
<1>3. T \in SUBSET Nat
  OBVIOUS
<1> HIDE DEF T
<1>4. T = Nat
  BY <1>1, <1>2, <1>3, NatSetInduction
<1>5. \E m \in S : \A x \in S : m >= x
  BY <1>4 DEF T
<1> QED
  BY <1>5 DEF Max

LEMMA NotMore == \A x, y \in Nat : x >= y /\ ~ (x > y) => x = y
  OBVIOUS

\* What there is to know of a configuration that NewServer accepts.
LEMMA ConfigFacts ==
  ASSUME NEW e \in Environments, Valid(ConfigOf(e))
  PROVE  LET c == ConfigOf(e)
             labelled == {i \in DOMAIN e.authTokens : e.authTokens[i].label # ""}
         IN  /\ Parses(e) /\ c = ConfigFromEnv(e)
             /\ \A i \in DOMAIN e.authTokens : e.authTokens[i].label # "" <=> e.authTokens[i].token # ""
             /\ "" \notin DOMAIN c.rotation
             /\ \A l \in DOMAIN c.rotation :
                  \E i \in labelled : c.rotation[l] = e.authTokens[i].token
             /\ \A i \in labelled :
                  (\A j \in DOMAIN e.authTokens :
                     j > i => e.authTokens[j].label # e.authTokens[i].label) =>
                  \E l \in DOMAIN c.rotation : c.rotation[l] = e.authTokens[i].token
<1> DEFINE c == ConfigOf(e)
           labelled == {i \in DOMAIN e.authTokens : e.authTokens[i].label # ""}
<1>a. Len(e.authTokens) \in Nat /\ DOMAIN e.authTokens = 1 .. Len(e.authTokens)
  BY EnvironmentAssumption
<1>b. \A x \in DOMAIN e.authTokens : x \in Nat
  BY <1>a
<1>1. Parses(e)
  <2> SUFFICES ASSUME ~ Parses(e) PROVE FALSE
    OBVIOUS
  <2>1. ConfigOf(e).providers = {}
    BY DEF ConfigOf, NoConfig
  <2> QED
    BY <2>1 DEF Valid
<1>2. c = ConfigFromEnv(e)
  BY <1>1 DEF ConfigOf
<1>3. \A i \in DOMAIN e.authTokens : e.authTokens[i].label # "" <=> e.authTokens[i].token # ""
  <2> TAKE i \in DOMAIN e.authTokens
  <2>1. CASE i \in SplitTokens(e)
    BY <1>1, <2>1 DEF Parses
  <2>2. CASE i \notin SplitTokens(e)
    <3>1. e.authTokens[i].label = "" /\ ~ e.authTokens[i].colon
      BY <2>2 DEF SplitTokens
    <3> QED
      BY <3>1, EnvironmentAssumption
  <2> QED
    BY <2>1, <2>2
<1>4. SplitTokens(e) = labelled
  BY <1>1 DEF SplitTokens, Parses
<1> DEFINE Labels == {e.authTokens[i].label : i \in labelled}
           With(l) == {i \in labelled : e.authTokens[i].label = l}
<1>5. c.rotation = [l \in Labels |-> e.authTokens[Max(With(l))].token]
  <2>1. c.rotation = ParseLabelledTokens(e)
    BY <1>2 DEF ConfigFromEnv
  <2>2. ParseLabelledTokens(e) = [l \in Labels |-> e.authTokens[Max(With(l))].token]
    <3>1. ParseLabelledTokens(e) =
            [l \in {e.authTokens[i].label : i \in labelled} |->
               e.authTokens[Max({i \in labelled : e.authTokens[i].label = l})].token]
      BY <1>4, Zenon DEF ParseLabelledTokens
    <3> QED
      BY <3>1, Zenon
  <2> QED
    BY <2>1, <2>2
<1>6. ASSUME NEW l \in Labels
      PROVE  Max(With(l)) \in With(l) /\ \A x \in With(l) : Max(With(l)) >= x
  <2>1. With(l) # {} /\ With(l) \in SUBSET DOMAIN e.authTokens
    OBVIOUS
  <2> HIDE DEF With
  <2> QED
    BY <1>a, <2>1, MaxOf
<1>7. DOMAIN c.rotation = Labels /\ "" \notin Labels
  BY <1>5
<1>8. \A l \in Labels : c.rotation[l] = e.authTokens[Max(With(l))].token
  BY <1>5
<1> HIDE DEF c
<1>9. \A l \in Labels : \E i \in labelled : c.rotation[l] = e.authTokens[i].token
  BY <1>6, <1>8
<1>10. ASSUME NEW i \in labelled,
              \A j \in DOMAIN e.authTokens : j > i => e.authTokens[j].label # e.authTokens[i].label
       PROVE  \E l \in Labels : c.rotation[l] = e.authTokens[i].token
  <2> DEFINE l == e.authTokens[i].label
             k == Max(With(l))
  <2>1. l \in Labels /\ i \in With(l)
    OBVIOUS
  <2>2. k \in With(l) /\ k >= i
    BY <1>6, <2>1
  <2>3. k \in DOMAIN e.authTokens /\ e.authTokens[k].label = l /\ i \in DOMAIN e.authTokens
    BY <2>2
  <2> HIDE DEF k, With
  <2>4. k \in Nat /\ i \in Nat
    BY <2>3, <1>b, Zenon
  <2>5. ~ (k > i)
    BY <1>10, <2>3
  <2>6. k = i
    BY <2>2, <2>4, <2>5, NotMore, Zenon
  <2> USE DEF k, With
  <2> QED
    BY <1>8, <2>1, <2>6
<1> QED
  BY <1>1, <1>2, <1>3, <1>7, <1>9, <1>10 DEF c

-----------------------------------------------------------------------------

\* The process got past NewServer and has not failed since.
Started == proc # "starting" /\ ~ (proc = "exited" /\ exitCode = 1)

\* Nothing comes in before NewServer has accepted the configuration, and its
\* map of tokens is what it made of it.
StartInvariant ==
  /\ proc = "starting" => listener = "unopened" /\ \A r \in Requests : phase[r] = "absent"
  /\ Started => Valid(cfg) /\ tokens \in TokenMaps(cfg)

\* Who was refused had no token of the configuration; probes do not get into the
\* throttled part, where any handler may answer with 200.
AnswersInvariant ==
  \A r \in Requests :
    /\ answer[r] = 401 => token[r] \notin Accepted
    /\ inFlight[r] => call[r] \notin Probes
    /\ call[r] = "metrics" /\ answer[r] = 200 => cfg.metrics

ChosenInvariant == env \in Environments /\ cfg = ConfigOf(env)

EnvironmentInvariant == Inv /\ ChosenInvariant /\ StartInvariant /\ AnswersInvariant

LEMMA AcceptedAuthorized ==
  ASSUME ChosenInvariant, StartInvariant, Started, NEW t \in Accepted
  PROVE  Authorized(t)
<1>1. Valid(cfg) /\ tokens \in TokenMaps(cfg) /\ "" \notin DOMAIN cfg.rotation
  BY ConfigFacts DEF StartInvariant, ChosenInvariant
<1>2. /\ t \in DOMAIN tokens
      /\ tokens[t] \in IF LabelsOf(cfg, t) = {} THEN {"default"} ELSE LabelsOf(cfg, t)
  BY <1>1 DEF TokenMaps, Accepted
<1>3. tokens[t] # ""
  BY <1>1, <1>2 DEF LabelsOf
<1> QED
  BY <1>2, <1>3 DEF Authorized, Label

LEMMA StartStep ==
  ASSUME Inv, StartInvariant, [Next]_vars
  PROVE  StartInvariant'
<1> USE DEF Inv
<1>1. CASE Start
  <2>1. cfg' = cfg /\ proc' # "starting"
    BY <1>1 DEF Start, Exit
  <2>2. CASE Valid(cfg) /\ tokens' \in TokenMaps(cfg)
    BY <2>1, <2>2 DEF StartInvariant
  <2>3. CASE Exit(1)
    BY <2>1, <2>3 DEF StartInvariant, Started, Exit
  <2> QED
    BY <1>1, <2>2, <2>3 DEF Start
<1>2. CASE Process /\ ~ Start
  <2>1. /\ UNCHANGED <<cfg, tokens>>
        /\ proc = "starting" => proc' = "starting" /\ UNCHANGED <<listener, phase>>
        /\ proc # "starting" => proc' # "starting"
    BY <1>2 DEF Process, Listen, AcceptFails, Signal, ListenerError, Drain, Shutdown, GraceExpires,
                ShutdownReturns, CloseAnyway, ReturnFromMain, Exit, Running, reqVars, StartInvariant
  <2>2. proc # "exited"
    BY <1>2, ProcessStep
  <2>3. Started' => Started
    BY <2>1, <2>2 DEF Started
  <2> QED
    BY <2>1, <2>3 DEF StartInvariant
<1>3. ASSUME NEW r \in Requests, Request(r) PROVE StartInvariant'
  <2>1. OnlyChanges(r)
    BY <1>3, RequestSplits, RouteStep, InsideStep, EndStep, ConnectionStep
  <2>2. CASE proc = "starting"
    <3>1. listener = "unopened" /\ \A q \in Requests : phase[q] = "absent" /\ ~ inFlight[q]
      BY <2>2 DEF StartInvariant, PhasesInvariant, AtWork
    <3>2. FALSE
      <4>1. ~ \E c \in Calls, t \in Tokens : Route(r, c, t)
        BY <3>1, RouteStep
      <4>2. ~ (Handle(r) \/ ProviderAnswers(r) \/ ProviderFails(r) \/ ContextDone(r) \/ StreamEnds(r))
        BY <3>1, InsideStep
      <4>3. ~ (Panic(r) \/ Return(r))
        BY <3>1 DEF Panic, Return
      <4>4. ~ (Connect(r) \/ HangUp(r) \/ CloseIdle(r))
        BY <3>1 DEF Connect, HangUp, CloseIdle, AtWork
      <4> QED
        BY <1>3, <4>1, <4>2, <4>3, <4>4, RequestSplits
    <3> QED
      BY <3>2
  <2>3. CASE proc # "starting"
    BY <2>1, <2>3 DEF OnlyChanges, procVars, StartInvariant, Started
  <2> QED
    BY <2>2, <2>3
<1>4. CASE UNCHANGED vars
  BY <1>4 DEF vars, procVars, reqVars, StartInvariant, Started
<1> QED
  BY <1>1, <1>2, <1>3, <1>4 DEF Next

\* What the middleware makes of a request that is read.
LEMMA RouteAnswers ==
  ASSUME EnvironmentInvariant, NEW r \in Requests, NEW c \in Calls, NEW t \in Tokens, Route(r, c, t)
  PROVE  /\ answer'[r] = 401 => token'[r] \notin Accepted
         /\ inFlight'[r] => call'[r] \notin Probes
         /\ call'[r] = "metrics" /\ answer'[r] = 200 => cfg.metrics
<1> USE DEF EnvironmentInvariant, Inv
<1>1. Arrive(r, c, t) /\ ~ inFlight[r] /\ answer[r] = 0
  <2>1. Arrive(r, c, t)
    BY DEF Route, AnswerProbe, AnswerPreflight, RefuseToken, RefuseLoad, Admit
  <2> QED
    BY <2>1 DEF Arrive, PhasesInvariant, AtWork
<1>2. token'[r] = t /\ call'[r] = c
  BY <1>1 DEF Arrive, TypeOK
<1>3. Started
  BY <1>1 DEF Arrive, Running, Started, StartInvariant
<1>4. ASSUME NEW status, Answered(r, status) PROVE answer'[r] = status /\ ~ inFlight'[r]
  BY <1>1, <1>4 DEF Answered, TypeOK
<1>5. CASE AnswerProbe(r, c, t)
  <2>1. answer'[r] = ProbeStatus(c) /\ ~ inFlight'[r]
    BY <1>4, <1>5 DEF AnswerProbe
  <2>2. ProbeStatus(c) # 401 /\ (c = "metrics" /\ ~ cfg.metrics => ProbeStatus(c) # 200)
    BY DEF ProbeStatus
  <2> QED
    BY <1>2, <2>1, <2>2
<1>6. CASE AnswerPreflight(r, c, t) \/ RefuseLoad(r, c, t)
  BY <1>2, <1>4, <1>6 DEF AnswerPreflight, RefuseLoad, Protected, Probes
<1>7. CASE RefuseToken(r, c, t)
  <2>1. answer'[r] = 401 /\ ~ inFlight'[r]
    BY <1>4, <1>7 DEF RefuseToken
  <2>2. t \notin Accepted
    BY <1>3, <1>7, AcceptedAuthorized DEF RefuseToken
  <2> QED
    BY <1>2, <2>1, <2>2
<1>8. CASE Admit(r, c, t)
  BY <1>1, <1>2, <1>8 DEF Admit, Protected
<1> QED
  BY <1>5, <1>6, <1>7, <1>8 DEF Route

LEMMA AnswersStep ==
  ASSUME EnvironmentInvariant, [Next]_vars
  PROVE  AnswersInvariant'
<1> USE DEF EnvironmentInvariant, Inv
<1>1. CASE Process
  <2>1. UNCHANGED <<cfg, inFlight, token, answer>>
    BY <1>1, ProcessStep
  <2>2. UNCHANGED call
    BY <1>1 DEF Process, Start, Listen, AcceptFails, Signal, ListenerError, Drain, Shutdown,
                GraceExpires, ShutdownReturns, CloseAnyway, ReturnFromMain, Exit, reqVars
  <2> QED
    BY <2>1, <2>2 DEF AnswersInvariant, Accepted
<1>2. ASSUME NEW r \in Requests, Request(r) PROVE AnswersInvariant'
  <2>1. ASSUME OnlyChanges(r),
               answer'[r] = 401 => token'[r] \notin Accepted,
               inFlight'[r] => call'[r] \notin Probes,
               (call'[r] = "metrics" /\ answer'[r] = 200) => cfg.metrics
        PROVE  AnswersInvariant'
    <3>1. cfg' = cfg
      BY <2>1 DEF OnlyChanges, procVars
    <3>2. ASSUME NEW q \in Requests
          PROVE  /\ answer'[q] = 401 => token'[q] \notin Accepted
                 /\ inFlight'[q] => call'[q] \notin Probes
                 /\ call'[q] = "metrics" /\ answer'[q] = 200 => cfg.metrics
      <4>1. CASE q = r
        BY <2>1, <4>1
      <4>2. CASE q # r
        <5>1. /\ answer'[q] = answer[q] /\ token'[q] = token[q]
              /\ inFlight'[q] = inFlight[q] /\ call'[q] = call[q]
          BY <2>1, <4>2 DEF OnlyChanges
        <5> QED
          BY <5>1 DEF AnswersInvariant
      <4> QED
        BY <4>1, <4>2
    <3> QED
      BY <3>1, <3>2 DEF AnswersInvariant, Accepted
  <2>2. CASE \E c \in Calls, t \in Tokens : Route(r, c, t)
    BY <2>1, <2>2, RouteStep, RouteAnswers
  <2>3. CASE Handle(r) \/ ProviderAnswers(r) \/ ProviderFails(r) \/ ContextDone(r) \/ StreamEnds(r)
    <3>1. UNCHANGED call
      BY <2>3 DEF Handle, AnswerProviders, Reject, CallProvider, ProviderAnswers, ProviderFails,
                  ContextDone, StreamEnds, Respond
    <3>2. /\ OnlyChanges(r) /\ inFlight[r] /\ inFlight'[r] /\ token'[r] = token[r]
          /\ answer'[r] = answer[r] \/ answer'[r] # 401
      BY <2>3, InsideStep
    <3>3. call[r] \notin Probes
      BY <3>2 DEF AnswersInvariant
    <3> QED
      BY <2>1, <3>1, <3>2, <3>3 DEF AnswersInvariant, Probes
  <2>4. CASE Panic(r) \/ Return(r)
    <3>1. OnlyChanges(r) /\ ~ inFlight'[r]
      BY <2>4, EndStep
    <3>2. answer'[r] = 0
      BY <2>4 DEF Panic, Return, Forget, TypeOK
    <3> QED
      BY <2>1, <3>1, <3>2
  <2>5. CASE Connect(r) \/ HangUp(r) \/ CloseIdle(r)
    <3>1. UNCHANGED call
      BY <2>5 DEF Connect, HangUp, CloseIdle
    <3>2. OnlyChanges(r) /\ inFlight'[r] = inFlight[r] /\ token'[r] = token[r] /\ answer'[r] = answer[r]
      BY <2>5, ConnectionStep
    <3> QED
      BY <2>1, <3>1, <3>2 DEF AnswersInvariant
  <2> QED
    BY <1>2, <2>2, <2>3, <2>4, <2>5, RequestSplits
<1>3. CASE UNCHANGED vars
  BY <1>3 DEF vars, procVars, reqVars, AnswersInvariant, Accepted
<1> QED
  BY <1>1, <1>2, <1>3 DEF Next

LEMMA EnvironmentStep ==
  EnvironmentInvariant /\ [EnvNext]_<<vars, env>> => EnvironmentInvariant'
<1> SUFFICES ASSUME EnvironmentInvariant, [EnvNext]_<<vars, env>> PROVE EnvironmentInvariant'
  OBVIOUS
<1>1. [Next]_vars /\ env' = env
  BY DEF EnvNext, Next
<1>2. Inv'
  BY <1>1, StepPhases, StepTokens, StepCallers, StepBudget, StepStops DEF EnvironmentInvariant, Inv
<1>3. cfg' = cfg
  <2>1. CASE Process
    BY <2>1, ProcessStep DEF EnvironmentInvariant, Inv
  <2>2. ASSUME NEW r \in Requests, Request(r) PROVE cfg' = cfg
    BY <2>2, RequestSplits, RouteStep, InsideStep, EndStep, ConnectionStep
    DEF EnvironmentInvariant, Inv, OnlyChanges, procVars
  <2> QED
    BY <1>1, <2>1, <2>2 DEF Next, vars, procVars
<1>4. ChosenInvariant'
  BY <1>1, <1>3 DEF EnvironmentInvariant, ChosenInvariant
<1> QED
  BY <1>1, <1>2, <1>4, StartStep, AnswersStep DEF EnvironmentInvariant

LEMMA EnvironmentStarts == EnvInit => EnvironmentInvariant
<1> SUFFICES ASSUME EnvInit PROVE EnvironmentInvariant
  OBVIOUS
<1>1. Inv
  BY InitInv DEF EnvInit
<1>2. ChosenInvariant
  BY DEF EnvInit, ChosenInvariant
<1>3. StartInvariant
  BY DEF EnvInit, Init, StartInvariant, Started
<1>4. AnswersInvariant
  <2> SUFFICES ASSUME NEW r \in Requests
               PROVE  answer[r] # 401 /\ ~ inFlight[r] /\ call[r] # "metrics"
    BY DEF AnswersInvariant
  <2>1. answer[r] = 0 /\ inFlight[r] = FALSE /\ call[r] = "healthz"
    BY DEF EnvInit, Init
  <2> QED
    BY <2>1
<1> QED
  BY <1>1, <1>2, <1>3, <1>4 DEF EnvironmentInvariant

-----------------------------------------------------------------------------

\* A variable that is set is an integer.
LEMMA NumberFacts ==
  ASSUME NEW e \in Environments, NEW v
  PROVE  /\ Number(e, v) \in Int
         /\ v \in DOMAIN e.parsed => Number(e, v) = e.parsed[v].n
         /\ v \notin DOMAIN e.parsed => Number(e, v) = 0
<1>1. \A w \in DOMAIN e.parsed : e.parsed[w].n \in Int
  BY EnvironmentAssumption
<1>2. CASE v \in DOMAIN e.parsed
  <2>1. Number(e, v) = e.parsed[v].n
    BY <1>2, Zenon DEF Number
  <2> QED
    BY <1>1, <1>2, <2>1, Zenon
<1>3. CASE v \notin DOMAIN e.parsed
  <2>1. Number(e, v) = 0
    BY <1>3, Zenon DEF Number
  <2>2. 0 \in Int
    OBVIOUS
  <2> QED
    BY <1>3, <2>1, <2>2, Zenon
<1> QED
  BY <1>2, <1>3

\* ClientPolicy in one expression.
LEMMA PolicyFields ==
  ASSUME NEW e \in Environments
  PROVE  LET p == ClientPolicy(e)
             n == Number(e, "MAX_RETRIES")
             base == Number(e, "RETRY_BASE_DELAY")
             max == Number(e, "RETRY_MAX_DELAY")
             d == Number(e, "RETRY_AFTER_CAP")
         IN  /\ p.maxRetries = IF "MAX_RETRIES" \in DOMAIN e.parsed /\ n >= 0 THEN n ELSE DefaultPolicy.maxRetries
             /\ p.baseDelay = IF base > 0 THEN base ELSE DefaultPolicy.baseDelay
             /\ p.maxDelay = IF max > 0 THEN max ELSE DefaultPolicy.maxDelay
             /\ p.retryAfterCap = IF d > 0 THEN d ELSE DefaultPolicy.retryAfterCap
<1> DEFINE n == Number(e, "MAX_RETRIES")
           base == Number(e, "RETRY_BASE_DELAY")
           max == Number(e, "RETRY_MAX_DELAY")
           d == Number(e, "RETRY_AFTER_CAP")
           given == "MAX_RETRIES" \in DOMAIN e.parsed
           retries == IF given THEN WithMaxRetries(DefaultPolicy, n) ELSE DefaultPolicy
           delays == IF base > 0 \/ max > 0 THEN WithRetryDelay(retries, base, max) ELSE retries
           p == IF d > 0 THEN WithRetryAfterCap(delays, d) ELSE delays
           Fields == {"maxRetries", "baseDelay", "maxDelay", "retryAfterCap"}
<1>1. ClientPolicy(e) = p
  BY Zenon DEF ClientPolicy
<1>2. n \in Int /\ base \in Int /\ max \in Int /\ d \in Int
  BY NumberFacts
<1> HIDE DEF n, base, max, d, given
<1>3. DefaultPolicy \in PolicyType
  BY PolicyAssumption
<1>4. /\ retries = [maxRetries |-> IF given /\ n >= 0 THEN n ELSE DefaultPolicy.maxRetries,
                    baseDelay |-> DefaultPolicy.baseDelay,
                    maxDelay |-> DefaultPolicy.maxDelay,
                    retryAfterCap |-> DefaultPolicy.retryAfterCap]
  BY <1>2, <1>3 DEF WithMaxRetries, PolicyType
<1> HIDE DEF retries
<1>5. /\ delays = [maxRetries |-> retries.maxRetries,
                   baseDelay |-> IF base > 0 THEN base ELSE retries.baseDelay,
                   maxDelay |-> IF max > 0 THEN max ELSE retries.maxDelay,
                   retryAfterCap |-> retries.retryAfterCap]
  BY <1>2, <1>4 DEF WithRetryDelay
<1> HIDE DEF delays
<1>6. /\ p = [maxRetries |-> delays.maxRetries,
              baseDelay |-> delays.baseDelay,
              maxDelay |-> delays.maxDelay,
              retryAfterCap |-> IF d > 0 THEN d ELSE delays.retryAfterCap]
  BY <1>2, <1>5 DEF WithRetryAfterCap
<1> HIDE DEF p
<1>7. /\ p.maxRetries = IF given /\ n >= 0 THEN n ELSE DefaultPolicy.maxRetries
      /\ p.baseDelay = IF base > 0 THEN base ELSE DefaultPolicy.baseDelay
      /\ p.maxDelay = IF max > 0 THEN max ELSE DefaultPolicy.maxDelay
      /\ p.retryAfterCap = IF d > 0 THEN d ELSE DefaultPolicy.retryAfterCap
  BY <1>4, <1>5, <1>6
<1> QED
  BY <1>1, <1>7 DEF n, base, max, d, given

\* Once the gateway serves, its environment was well-formed and decides.
THEOREM ConfiguredByEnvironment == EnvSpec => []EnvironmentDecides
<1> SUFFICES EnvironmentInvariant => EnvironmentDecides
  BY EnvironmentStarts, EnvironmentStep, PTL DEF EnvSpec
<1> SUFFICES ASSUME EnvironmentInvariant, Started PROVE EnvironmentDecides
  BY DEF EnvironmentDecides, Started
<1> DEFINE labelled == {i \in DOMAIN env.authTokens : env.authTokens[i].label # ""}
<1>1. env \in Environments /\ cfg = ConfigOf(env) /\ Valid(cfg) /\ Inv
  BY DEF EnvironmentInvariant, ChosenInvariant, StartInvariant
<1>2. /\ Parses(env) /\ cfg = ConfigFromEnv(env)
      /\ \A i \in DOMAIN env.authTokens : env.authTokens[i].label # "" <=> env.authTokens[i].token # ""
      /\ \A l \in DOMAIN cfg.rotation : \E i \in labelled : cfg.rotation[l] = env.authTokens[i].token
      /\ \A i \in labelled :
           (\A j \in DOMAIN env.authTokens : j > i => env.authTokens[j].label # env.authTokens[i].label) =>
           \E l \in DOMAIN cfg.rotation : cfg.rotation[l] = env.authTokens[i].token
  BY <1>1, ConfigFacts
<1>3. /\ cfg.auth = env.auth /\ env.auth # ""
      /\ cfg.limit = IF Number(env, "MAX_CONCURRENT") > 0 THEN Number(env, "MAX_CONCURRENT") ELSE 0
      /\ cfg.metrics = (Number(env, "METRICS") = 1)
  <2>1. env.auth # ""
    <3>1. cfg.auth = env.auth
      BY <1>2, Zenon DEF ConfigFromEnv
    <3> QED
      BY <1>1, <3>1 DEF Valid
  <2>2. ConfigFromEnv(env).auth = env.auth
    BY DEF ConfigFromEnv
  <2>3. ConfigFromEnv(env).limit = IF Number(env, "MAX_CONCURRENT") > 0 THEN Number(env, "MAX_CONCURRENT") ELSE 0
    BY DEF ConfigFromEnv
  <2>4. ConfigFromEnv(env).metrics = (Number(env, "METRICS") = 1)
    BY Zenon DEF ConfigFromEnv
  <2> QED
    BY <1>2, <2>1, <2>2, <2>3, <2>4, Zenon
<1>4. \A v \in DOMAIN env.parsed : env.parsed[v].ok
  BY <1>2 DEF Parses
<1>5. Accepted \subseteq {env.auth} \cup Listed
  <2>1. ASSUME NEW l \in DOMAIN cfg.rotation PROVE cfg.rotation[l] \in Listed
    <3>1. PICK i \in labelled : cfg.rotation[l] = env.authTokens[i].token
      BY <1>2
    <3> QED
      BY <3>1, Zenon DEF Listed
  <2> QED
    BY <1>3, <2>1, Zenon DEF Accepted
<1>6. {env.auth} \cup Kept \subseteq Accepted
  <2>1. ASSUME NEW t \in Kept PROVE \E l \in DOMAIN cfg.rotation : cfg.rotation[l] = t
    <3>1. PICK i \in labelled :
            /\ t = env.authTokens[i].token
            /\ \A j \in DOMAIN env.authTokens : j > i => env.authTokens[j].label # env.authTokens[i].label
      BY <2>1 DEF Kept
    <3> HIDE DEF labelled
    <3>2. \E l \in DOMAIN cfg.rotation : cfg.rotation[l] = env.authTokens[i].token
      BY <1>2, <3>1, Zenon
    <3> QED
      BY <3>1, <3>2, Zenon
  <2> QED
    BY <1>3, <2>1, Zenon DEF Accepted
<1>7. \A r \in InFlight : token[r] \in {env.auth} \cup Listed
  BY <1>1, <1>5 DEF Inv, CallersInvariant, InFlight
<1>8. \A r \in Requests : answer[r] = 401 => token[r] \notin {env.auth} \cup Kept
  BY <1>6 DEF EnvironmentInvariant, AnswersInvariant
<1>9. "MAX_CONCURRENT" \in DOMAIN env.parsed /\ env.parsed["MAX_CONCURRENT"].n > 0 =>
        Cardinality(InFlight) <= env.parsed["MAX_CONCURRENT"].n
  BY <1>1, <1>3, NumberFacts DEF Inv, BudgetInvariant
<1>10. \A r \in Requests : call[r] = "metrics" /\ answer[r] = 200 =>
         "METRICS" \in DOMAIN env.parsed /\ env.parsed["METRICS"].n = 1
  <2>1. cfg.metrics => "METRICS" \in DOMAIN env.parsed /\ env.parsed["METRICS"].n = 1
    <3>1. cfg.metrics => Number(env, "METRICS") = 1
      BY <1>3
    <3>2. /\ "METRICS" \in DOMAIN env.parsed => Number(env, "METRICS") = env.parsed["METRICS"].n
          /\ "METRICS" \notin DOMAIN env.parsed => Number(env, "METRICS") = 0
      BY <1>1, NumberFacts
    <3> QED
      BY <3>1, <3>2
  <2> QED
    BY <2>1 DEF EnvironmentInvariant, AnswersInvariant
<1>11. /\ Decides("MAX_RETRIES", 0, ClientPolicy(env).maxRetries, DefaultPolicy.maxRetries)
       /\ Decides("RETRY_BASE_DELAY", 1, ClientPolicy(env).baseDelay, DefaultPolicy.baseDelay)
       /\ Decides("RETRY_MAX_DELAY", 1, ClientPolicy(env).maxDelay, DefaultPolicy.maxDelay)
       /\ Decides("RETRY_AFTER_CAP", 1, ClientPolicy(env).retryAfterCap, DefaultPolicy.retryAfterCap)
  BY <1>1, PolicyFields, NumberFacts DEF Decides
<1>12. /\ Decides("ATTEMPT_TIMEOUT", 1, ClientTimeout(env), DefaultTimeout)
       /\ Decides("REQUEST_TIMEOUT", 1, ServerLimits(env).request, DefaultLimits.request)
  BY <1>1, NumberFacts DEF Decides, ClientTimeout, ServerLimits
<1> QED
  BY <1>2, <1>3, <1>4, <1>7, <1>8, <1>9, <1>10, <1>11, <1>12 DEF EnvironmentDecides
=============================================================================
