---------------------------- MODULE GatewayServer ----------------------------
(***************************************************************************)
(* The gateway process: its configuration (gateway/config.go hands it to   *)
(* NewServer), the middleware and handlers in front of the providers       *)
(* (gateway/server.go), and the way from a signal to the exit              *)
(* (gateway/cmd/skyl-gateway/main.go).                                     *)
(*                                                                         *)
(* Requests run concurrently with each other and with the shutdown; their  *)
(* clients may leave at any time. net/http and chi are not part of this    *)
(* repository: Connect, HangUp, the listener, Shutdown's wait for its      *)
(* connections and the throttle's budget are what the code relies on.      *)
(* What a streaming handler does once its response has begun is            *)
(* GatewayStream's matter.                                                 *)
(***************************************************************************)
EXTENDS Naturals, FiniteSets

CONSTANTS
  Requests,  \* connections, each with at most one request
  Configs,   \* the configurations the process may be started with
  Tokens     \* what a request may carry as its bearer token

(***************************************************************************)
(* A configuration has the registered providers, the default provider and  *)
(* the token ("" when unset), the rotation tokens by label, the cap on     *)
(* requests in flight (0: none), whether CORS origins are listed, and      *)
(* whether it has a MetricsHandler, which is external.                     *)
(***************************************************************************)
ConfigFields == {"providers", "default", "auth", "rotation", "limit", "origins", "metrics"}

Probes == {"healthz", "readyz", "metrics"}
Unary  == {"models", "chat"}
Calls  == Probes \cup Unary \cup {"preflight", "providers", "stream"}

ASSUME ServerAssumption ==
  /\ IsFiniteSet(Requests)
  /\ \A c \in Configs : DOMAIN c = ConfigFields /\ c.limit \in Nat

VARIABLES
  \* the process
  proc,       \* starting, serving, draining, grace, closing, exited
  exitCode,   \* its status; meaningless before it has exited
  signalled,  \* whether it has got its signal
  listener,   \* unopened, open, failed, closed
  draining,   \* Server.draining
  graceOver,  \* whether the context given to Shutdown is done
  cfg,        \* its configuration
  tokens,     \* Server.tokens: from accepted token to label
  \* the requests
  phase,      \* see Over and AtWork below
  call,       \* what is asked for
  token,      \* the token it carries
  inFlight,   \* whether it is inside the throttled part of the router
  answer,     \* the status it was answered with, 0 before
  gone        \* whether its client has left

procVars == <<proc, exitCode, signalled, listener, draining, graceOver, cfg, tokens>>
reqVars  == <<phase, call, token, inFlight, answer, gone>>
vars     == <<procVars, reqVars>>

-----------------------------------------------------------------------------
(* Configuration.                                                          *)

\* What NewServer accepts.
Valid(c) ==
  /\ c.providers # {}
  /\ c.auth # ""
  /\ c.default \in c.providers \cup {""}
  /\ \A l \in DOMAIN c.rotation : c.rotation[l] # ""

LabelsOf(c, t) == {l \in DOMAIN c.rotation : c.rotation[l] = t}

\* The maps NewServer may build. A rotation token replaces the primary one of
\* the same value; of two labels with one token the iteration order decides.
TokenMaps(c) ==
  LET accepted == {c.auth} \cup {c.rotation[l] : l \in DOMAIN c.rotation}
  IN  {m \in [accepted -> {"default"} \cup DOMAIN c.rotation] :
         \A t \in accepted :
           m[t] \in IF LabelsOf(c, t) = {} THEN {"default"} ELSE LabelsOf(c, t)}

\* authenticate: the label of the token presented, "" for none.
Label(t) == IF t \in DOMAIN tokens THEN tokens[t] ELSE ""

-----------------------------------------------------------------------------
(* The router.                                                             *)

\* Where a request is: in its handler, waiting for its provider, streaming its
\* answer, or answered.
AtWork == {"handler", "upstream", "streaming", "answered"}

\* How a connection ends: its handler returned, the process exited under its
\* handler, or it was closed before a request had been read.
Over == {"ended", "cut", "dropped"}

Phases == {"absent", "connected"} \cup AtWork \cup Over

\* A preflight is for the authenticated part too, unless CORS answers it.
Protected(c) == c \notin Probes /\ ~ (c = "preflight" /\ cfg.origins)

\* Mutant: any token will do.
AuthorizedIfAny(t) == t # ""

Authorized(t) == Label(t) # ""

InFlight == {r \in Requests : inFlight[r]}

Full == cfg.limit > 0 /\ Cardinality(InFlight) >= cfg.limit

\* The statuses decodeChat, resolve and writeUpstreamError may answer with.
Rejections(r) ==
  CASE call[r] \in {"chat", "stream"} -> {400, 404}
    [] call[r] = "models"             -> {404}
    [] call[r] = "preflight"          -> {405}
    [] OTHER                          -> {}

UpstreamErrors ==
  {"auth", "rate_limit", "not_found", "bad_request", "unsupported", "refusal", "server", "unknown"}

UpstreamStatus(kind) ==
  CASE kind = "rate_limit"                     -> 429
    [] kind = "not_found"                      -> 404
    [] kind \in {"bad_request", "unsupported"} -> 400
    [] kind = "refusal"                        -> 422
    [] OTHER                                   -> 502

Statuses == {0, 200, 204, 400, 401, 404, 405, 422, 429, 500, 502, 503}

Init ==
  /\ proc = "starting"
  /\ exitCode = 0
  /\ signalled = FALSE
  /\ listener = "unopened"
  /\ draining = FALSE
  /\ graceOver = FALSE
  /\ cfg \in Configs
  /\ tokens = [t \in {} |-> ""]
  /\ phase = [r \in Requests |-> "absent"]
  /\ call = [r \in Requests |-> "healthz"]
  /\ token = [r \in Requests |-> ""]
  /\ inFlight = [r \in Requests |-> FALSE]
  /\ answer = [r \in Requests |-> 0]
  /\ gone = [r \in Requests |-> FALSE]

-----------------------------------------------------------------------------
(* The process.                                                            *)

Running == proc # "exited"

\* The process ends, whatever its requests are doing.
Exit(code) ==
  /\ proc' = "exited"
  /\ exitCode' = code
  /\ phase' = [r \in Requests |->
       IF phase[r] \in AtWork THEN "cut"
       ELSE IF phase[r] = "connected" THEN "dropped" ELSE phase[r]]
  /\ UNCHANGED <<call, token, inFlight, answer, gone>>

\* NewServer, and the goroutine that will listen.
Start ==
  /\ proc = "starting"
  /\ \/ /\ Valid(cfg)
        /\ proc' = "serving"
        /\ tokens' \in TokenMaps(cfg)
        /\ UNCHANGED <<exitCode, reqVars>>
     \/ /\ ~ Valid(cfg)
        /\ Exit(1)
        /\ UNCHANGED tokens
  /\ UNCHANGED <<signalled, listener, draining, graceOver, cfg>>

\* ListenAndServe binds the address or cannot. After Shutdown it does neither.
Listen ==
  /\ proc \in {"serving", "draining"}
  /\ listener = "unopened"
  /\ listener' \in {"open", "failed"}
  /\ UNCHANGED <<proc, exitCode, signalled, draining, graceOver, cfg, tokens, reqVars>>

\* Accept fails for good; the connections it has accepted live on.
AcceptFails ==
  /\ Running
  /\ listener = "open"
  /\ listener' = "failed"
  /\ UNCHANGED <<proc, exitCode, signalled, draining, graceOver, cfg, tokens, reqVars>>

Signal ==
  /\ Running
  /\ ~ signalled
  /\ signalled' = TRUE
  /\ UNCHANGED <<proc, exitCode, listener, draining, graceOver, cfg, tokens, reqVars>>

\* The select takes the listener's error. If a signal is there too it may as
\* well take that, and the error is forgotten.
ListenerError ==
  /\ proc = "serving"
  /\ listener = "failed"
  /\ Exit(1)
  /\ UNCHANGED <<signalled, listener, draining, graceOver, cfg, tokens>>

\* The select takes the signal: StartDraining, and the sleep begins.
Drain ==
  /\ proc = "serving"
  /\ signalled
  /\ proc' = "draining"
  /\ draining' = TRUE
  /\ UNCHANGED <<exitCode, signalled, listener, graceOver, cfg, tokens, reqVars>>

\* drainDelay has passed. Shutdown closes the listener and waits.
Shutdown ==
  /\ proc = "draining"
  /\ proc' = "grace"
  /\ listener' = IF listener = "failed" THEN "failed" ELSE "closed"
  /\ UNCHANGED <<exitCode, signalled, draining, graceOver, cfg, tokens, reqVars>>

\* Mutant: Shutdown is given a context without a deadline.
GraceNeverExpires == FALSE /\ UNCHANGED vars

GraceExpires ==
  /\ proc = "grace"
  /\ ~ graceOver
  /\ graceOver' = TRUE
  /\ UNCHANGED <<proc, exitCode, signalled, listener, draining, cfg, tokens, reqVars>>

\* Shutdown closes a connection on which no request has been read.
CloseIdle(r) ==
  /\ proc = "grace"
  /\ phase[r] = "connected"
  /\ phase' = [phase EXCEPT ![r] = "dropped"]
  /\ UNCHANGED <<procVars, call, token, inFlight, answer, gone>>

\* Mutant: the process closes its listener and leaves.
ShutdownReturnsAtOnce ==
  /\ proc = "grace"
  /\ Exit(0)
  /\ UNCHANGED <<signalled, listener, draining, graceOver, cfg, tokens>>

\* Shutdown has seen every connection idle.
ShutdownReturns ==
  /\ proc = "grace"
  /\ \A r \in Requests : phase[r] \in {"absent"} \cup Over
  /\ Exit(0)
  /\ UNCHANGED <<signalled, listener, draining, graceOver, cfg, tokens>>

\* Shutdown gives up at the end of the grace period; Close severs what is left.
CloseAnyway ==
  /\ proc = "grace"
  /\ graceOver
  /\ proc' = "closing"
  /\ gone' = [r \in Requests |-> gone[r] \/ phase[r] \in AtWork]
  /\ UNCHANGED <<exitCode, signalled, listener, draining, graceOver, cfg, tokens,
                 phase, call, token, inFlight, answer>>

\* The process returns from main without waiting for the handlers.
ReturnFromMain ==
  /\ proc = "closing"
  /\ Exit(0)
  /\ UNCHANGED <<signalled, listener, draining, graceOver, cfg, tokens>>

-----------------------------------------------------------------------------
(* A request.                                                              *)

MoveTo(r, p) == phase' = [phase EXCEPT ![r] = p]

Connect(r) ==
  /\ Running
  /\ listener = "open"
  /\ phase[r] = "absent"
  /\ MoveTo(r, "connected")
  /\ UNCHANGED <<procVars, call, token, inFlight, answer, gone>>

HangUp(r) ==
  /\ Running
  /\ phase[r] \in AtWork \cup {"connected"}
  /\ ~ gone[r]
  /\ gone' = [gone EXCEPT ![r] = TRUE]
  /\ phase' = [phase EXCEPT ![r] = IF @ = "connected" THEN "dropped" ELSE @]
  /\ UNCHANGED <<procVars, call, token, inFlight, answer>>

\* A request for c with token t is read, even in the grace period: its
\* connection may be too young to have been closed as idle.
Arrive(r, c, t) ==
  /\ Running /\ proc # "closing"
  /\ phase[r] = "connected"
  /\ call' = [call EXCEPT ![r] = c]
  /\ token' = [token EXCEPT ![r] = t]
  /\ UNCHANGED <<procVars, gone>>

\* The handler it has reached is about to return with this status.
Answered(r, status) ==
  /\ MoveTo(r, "answered")
  /\ answer' = [answer EXCEPT ![r] = status]
  /\ UNCHANGED inFlight

\* Without a MetricsHandler there is no such route.
ProbeStatus(c) ==
  CASE c = "readyz" /\ draining        -> 503
    [] c = "metrics" /\ ~ cfg.metrics  -> 404
    [] OTHER                           -> 200

AnswerProbe(r, c, t) ==
  /\ Arrive(r, c, t)
  /\ c \in Probes
  /\ Answered(r, ProbeStatus(c))

\* cors answers a preflight, whatever its origin, and looks at no token.
AnswerPreflight(r, c, t) ==
  /\ Arrive(r, c, t)
  /\ c = "preflight" /\ cfg.origins
  /\ Answered(r, 204)

RefuseToken(r, c, t) ==
  /\ Arrive(r, c, t)
  /\ Protected(c) /\ ~ Authorized(t)
  /\ Answered(r, 401)

RefuseLoad(r, c, t) ==
  /\ Arrive(r, c, t)
  /\ Protected(c) /\ Authorized(t)
  /\ Full
  /\ Answered(r, 429)

Admit(r, c, t) ==
  /\ Arrive(r, c, t)
  /\ Protected(c) /\ Authorized(t)
  /\ ~ Full
  /\ MoveTo(r, "handler")
  /\ inFlight' = [inFlight EXCEPT ![r] = TRUE]
  /\ UNCHANGED answer

\* A response is written from inside the throttled part.
Respond(r, status) ==
  /\ Answered(r, status)
  /\ UNCHANGED <<procVars, call, token, gone>>

AnswerProviders(r) ==
  /\ Running
  /\ phase[r] = "handler"
  /\ call[r] = "providers"
  /\ Respond(r, 200)

\* The body does not decode, the provider is unknown, or the request is invalid.
Reject(r) ==
  /\ Running
  /\ phase[r] = "handler"
  /\ \E status \in Rejections(r) : Respond(r, status)

\* The Client is called: Complete or Models, which get RequestTimeout, or Stream.
CallProvider(r) ==
  /\ Running
  /\ phase[r] = "handler"
  /\ call[r] \in Unary \cup {"stream"}
  /\ MoveTo(r, "upstream")
  /\ UNCHANGED <<procVars, call, token, inFlight, answer, gone>>

ProviderAnswers(r) ==
  /\ Running
  /\ phase[r] = "upstream"
  /\ IF call[r] = "stream"
       THEN /\ MoveTo(r, "streaming")
            /\ answer' = [answer EXCEPT ![r] = 200]
            /\ UNCHANGED <<procVars, call, token, inFlight, gone>>
       ELSE Respond(r, 200)

ProviderFails(r) ==
  /\ Running
  /\ phase[r] = "upstream"
  /\ \E kind \in UpstreamErrors : Respond(r, UpstreamStatus(kind))

\* Mutant: no handler has a timeout.
HasTimeoutNever(r) == FALSE

HasTimeout(r) == call[r] \in Unary

\* The context of the call is done, and the Client reports that.
ContextDone(r) ==
  /\ Running
  /\ phase[r] = "upstream"
  /\ gone[r] \/ HasTimeout(r)
  /\ Respond(r, UpstreamStatus("unknown"))

\* The stream's handler is through: see GatewayStream.
StreamEnds(r) ==
  /\ Running
  /\ phase[r] = "streaming"
  /\ MoveTo(r, "answered")
  /\ UNCHANGED <<procVars, call, token, inFlight, answer, gone>>

\* Nothing is left of a request that is over.
Forget(r) ==
  /\ MoveTo(r, "ended")
  /\ call' = [call EXCEPT ![r] = "healthz"]
  /\ token' = [token EXCEPT ![r] = ""]
  /\ inFlight' = [inFlight EXCEPT ![r] = FALSE]
  /\ answer' = [answer EXCEPT ![r] = 0]
  /\ UNCHANGED <<procVars, gone>>

\* A handler panics. Recoverer answers for it if it has not begun to, and the
\* throttle has its slot back; logRequests does not get to its line.
Panic(r) ==
  /\ Running
  /\ phase[r] \in {"handler", "upstream", "streaming"}
  /\ Forget(r)

\* The handler returns: the throttle has its slot back, and logRequests writes
\* its line.
Return(r) ==
  /\ Running
  /\ phase[r] = "answered"
  /\ Forget(r)

-----------------------------------------------------------------------------

Process ==
  \/ Start \/ Listen \/ AcceptFails \/ Signal \/ ListenerError \/ Drain \/ Shutdown
  \/ GraceExpires \/ ShutdownReturns \/ CloseAnyway \/ ReturnFromMain

\* The middleware, from the request that is read to its handler or its refusal.
Route(r, c, t) ==
  \/ AnswerProbe(r, c, t) \/ AnswerPreflight(r, c, t)
  \/ RefuseToken(r, c, t) \/ RefuseLoad(r, c, t) \/ Admit(r, c, t)

Handle(r) == AnswerProviders(r) \/ Reject(r) \/ CallProvider(r)

Request(r) ==
  \/ Connect(r) \/ HangUp(r) \/ CloseIdle(r)
  \/ \E c \in Calls, t \in Tokens : Route(r, c, t)
  \/ Handle(r)
  \/ ProviderAnswers(r) \/ ProviderFails(r) \/ ContextDone(r)
  \/ StreamEnds(r) \/ Panic(r) \/ Return(r)

Next == Process \/ \E r \in Requests : Request(r)

Spec == Init /\ [][Next]_vars

(***************************************************************************)
(* The process and its timers run. A request that was let in is handled; a *)
(* Client returns once the context it was given is done, as CallReturns    *)
(* shows. A response to a client that reads nothing may block its handler, *)
(* so a handler need only return when the client has left. No provider     *)
(* owes an answer.                                                         *)
(***************************************************************************)
Fairness ==
  /\ WF_vars(Start) /\ WF_vars(Drain \/ ListenerError) /\ WF_vars(Shutdown)
  /\ WF_vars(GraceExpires) /\ WF_vars(ShutdownReturns \/ CloseAnyway)
  /\ WF_vars(ReturnFromMain)
  /\ \A r \in Requests :
       /\ WF_vars(Handle(r)) /\ WF_vars(ContextDone(r))
       /\ WF_vars(gone[r] /\ (StreamEnds(r) \/ Return(r)))

-----------------------------------------------------------------------------
(* Properties.                                                             *)

TypeOK ==
  /\ proc \in {"starting", "serving", "draining", "grace", "closing", "exited"}
  /\ exitCode \in {0, 1}
  /\ signalled \in BOOLEAN
  /\ listener \in {"unopened", "open", "failed", "closed"}
  /\ draining \in BOOLEAN
  /\ graceOver \in BOOLEAN
  /\ cfg \in Configs
  /\ phase \in [Requests -> Phases]
  /\ call \in [Requests -> Calls]
  /\ token \in [Requests -> Tokens \cup {""}]
  /\ inFlight \in [Requests -> BOOLEAN]
  /\ answer \in [Requests -> Statuses]
  /\ gone \in [Requests -> BOOLEAN]

\* The token decides. What is in flight behind it was let in by a token the
\* operator configured, at most as many as the cap allows, while probes, bad
\* tokens, panics and hang-ups come and go; and a 401 is about the caller's
\* token, never about the one the gateway itself presents to a provider.
TokenDecides ==
  /\ \A r \in InFlight : token[r] \in {cfg.auth} \cup {cfg.rotation[l] : l \in DOMAIN cfg.rotation}
  /\ \A r \in Requests : phase[r] \in {"handler", "upstream", "streaming"} => inFlight[r]
  /\ \A r \in InFlight : answer[r] # 401
  /\ cfg.limit > 0 => Cardinality(InFlight) <= cfg.limit

\* An orderly stop takes nobody by surprise: the listener is closed only when
\* readiness has failed, and a process that exits with status 0 has cut off a
\* request only at the end of its grace period.
OrderlyStop ==
  /\ listener = "closed" => draining
  /\ proc = "exited" /\ exitCode = 0 =>
       draining /\ (graceOver \/ \A r \in Requests : phase[r] # "cut")

\* A signal ends the process, whatever its requests, their clients and their
\* providers do.
SignalEnds == signalled ~> proc = "exited"

\* A request whose client leaves is over in the end, and one that is not a
\* stream does not wait for its provider for ever, even if the client does.
RequestsReleased ==
  \A r \in Requests :
    /\ gone[r] ~> phase[r] \in Over
    /\ phase[r] = "upstream" /\ call[r] \in Unary ~> phase[r] # "upstream"

=============================================================================
