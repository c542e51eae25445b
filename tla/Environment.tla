----------------------------- MODULE Environment -----------------------------
(***************************************************************************)
(* The gateway process from the environment it is started with:            *)
(* ConfigFromEnv (gateway/config.go) and then GatewayServer. An operator   *)
(* has no other way to configure it.                                       *)
(***************************************************************************)
EXTENDS GatewayServer, RetryPolicy, Sequences, FiniteSetsExt

CONSTANTS
  Environments,    \* the environments the process may be started in
  DefaultTimeout,  \* of a client's attempt, see skyl.New
  DefaultLimits    \* RequestTimeout and HeartbeatInterval, see NewServer

(***************************************************************************)
(* An environment has                                                      *)
(*   keys        the providers whose API key is set                        *)
(*   compat      whether SKYL_COMPAT_BASE_URL is set, and SKYL_COMPAT_NAME *)
(*   default     SKYL_DEFAULT_PROVIDER                                     *)
(*   auth        SKYL_AUTH_TOKEN                                           *)
(*   authTokens  SKYL_AUTH_TOKENS, cut at its commas: each item is what    *)
(*               is before and after its first colon, trimmed              *)
(*   origins     SKYL_ALLOWED_ORIGINS, cut at its commas and trimmed       *)
(*   parsed      every other variable that is set: whether its value is a  *)
(*               number, duration or boolean as it should be, and which;   *)
(*               1 is true                                                 *)
(* with "" and <<>> for what is not set.                                   *)
(***************************************************************************)
ParsedVariables ==
  {"MAX_RETRIES", "RETRY_BASE_DELAY", "RETRY_MAX_DELAY", "RETRY_AFTER_CAP", "ATTEMPT_TIMEOUT",
   "METRICS", "REQUEST_TIMEOUT", "INCLUDE_RAW", "MAX_CONCURRENT", "HEARTBEAT_INTERVAL"}

ASSUME EnvironmentAssumption ==
  \A e \in Environments :
    /\ Len(e.authTokens) \in Nat /\ DOMAIN e.authTokens = 1 .. Len(e.authTokens)
    /\ DOMAIN e.parsed \subseteq ParsedVariables
    /\ \A v \in DOMAIN e.parsed : e.parsed[v].ok \in BOOLEAN /\ e.parsed[v].n \in Int
    /\ \A i \in DOMAIN e.authTokens : ~ e.authTokens[i].colon => e.authTokens[i].token = ""

VARIABLE env

-----------------------------------------------------------------------------
(* ConfigFromEnv.                                                          *)

\* splitList drops what is blank: the places of the other items.
SplitTokens(e)  == {i \in DOMAIN e.authTokens : e.authTokens[i].label # "" \/ e.authTokens[i].colon}
SplitOrigins(e) == {i \in DOMAIN e.origins : e.origins[i] # ""}

\* Mutant: a value that does not parse counts as not set.
ParsesIfTokens(e) ==
  \A i \in SplitTokens(e) : e.authTokens[i].label # "" /\ e.authTokens[i].token # ""

\* Whether ConfigFromEnv has no error to return.
Parses(e) ==
  /\ \A v \in DOMAIN e.parsed : e.parsed[v].ok
  /\ \A i \in SplitTokens(e) : e.authTokens[i].label # "" /\ e.authTokens[i].token # ""

\* An integer or a duration; zero when it is not set.
Number(e, v) == IF v \in DOMAIN e.parsed THEN e.parsed[v].n ELSE 0

ProvidersOf(e) ==
  e.keys \cup IF ~ e.compat.url THEN {} ELSE {IF e.compat.name = "" THEN "compat" ELSE e.compat.name}

\* parseLabelledTokens: of two tokens with one label the later is kept.
ParseLabelledTokens(e) ==
  [l \in {e.authTokens[i].label : i \in SplitTokens(e)} |->
     e.authTokens[Max({i \in SplitTokens(e) : e.authTokens[i].label = l})].token]

\* A negative cap is no cap: see Server.routes.
ConfigFromEnv(e) ==
  [providers |-> ProvidersOf(e), default |-> e.default, auth |-> e.auth,
   rotation  |-> ParseLabelledTokens(e),
   limit     |-> IF Number(e, "MAX_CONCURRENT") > 0 THEN Number(e, "MAX_CONCURRENT") ELSE 0,
   origins   |-> SplitOrigins(e) # {},
   metrics   |-> Number(e, "METRICS") = 1]

\* With an error the process has no more of a configuration than the empty one,
\* and does not get as far as NewServer, which would refuse that too.
NoConfig ==
  [providers |-> {}, default |-> "", auth |-> "", rotation |-> [l \in {} |-> ""],
   limit |-> 0, origins |-> FALSE, metrics |-> FALSE]

ConfigOf(e) == IF Parses(e) THEN ConfigFromEnv(e) ELSE NoConfig

\* clientOptionsFromEnv, applied in their order to what New starts from.
ClientPolicy(e) ==
  LET retries == IF "MAX_RETRIES" \in DOMAIN e.parsed
                 THEN WithMaxRetries(DefaultPolicy, Number(e, "MAX_RETRIES")) ELSE DefaultPolicy
      base    == Number(e, "RETRY_BASE_DELAY")
      max     == Number(e, "RETRY_MAX_DELAY")
      delays  == IF base > 0 \/ max > 0 THEN WithRetryDelay(retries, base, max) ELSE retries
  IN  IF Number(e, "RETRY_AFTER_CAP") > 0
        THEN WithRetryAfterCap(delays, Number(e, "RETRY_AFTER_CAP")) ELSE delays

ClientTimeout(e) ==
  IF Number(e, "ATTEMPT_TIMEOUT") > 0 THEN Number(e, "ATTEMPT_TIMEOUT") ELSE DefaultTimeout

\* What NewServer makes of the two intervals; a heartbeat of 0 here is none.
ServerLimits(e) ==
  [request   |-> IF Number(e, "REQUEST_TIMEOUT") > 0 THEN Number(e, "REQUEST_TIMEOUT")
                 ELSE DefaultLimits.request,
   heartbeat |-> CASE Number(e, "HEARTBEAT_INTERVAL") > 0 -> Number(e, "HEARTBEAT_INTERVAL")
                   [] Number(e, "HEARTBEAT_INTERVAL") = 0 -> DefaultLimits.heartbeat
                   [] OTHER                               -> 0]

-----------------------------------------------------------------------------

EnvInit ==
  /\ env \in Environments
  /\ Init
  /\ cfg = ConfigOf(env)

EnvNext ==
  \/ Process /\ UNCHANGED env
  \/ \E r \in Requests : Request(r) /\ UNCHANGED env

EnvSpec == EnvInit /\ [][EnvNext]_<<vars, env>> /\ Fairness

-----------------------------------------------------------------------------
(* Properties.                                                             *)

Listed == {env.authTokens[i].token : i \in {i \in DOMAIN env.authTokens : env.authTokens[i].label # ""}}

\* The tokens that no later one of the same label replaces.
Kept == {env.authTokens[i].token : i \in {i \in DOMAIN env.authTokens :
           /\ env.authTokens[i].label # ""
           /\ \A j \in DOMAIN env.authTokens :
                j > i => env.authTokens[j].label # env.authTokens[i].label}}

\* A variable with a value above the least that counts decides, and alone.
Decides(v, least, chosen, default) ==
  chosen = IF v \in DOMAIN env.parsed /\ env.parsed[v].n >= least THEN env.parsed[v].n ELSE default

\* docs/gateway.md: the gateway never starts with a partially applied
\* configuration. Once it serves, no variable that is set was malformed and each
\* has its effect whatever the others say; and its callers are those the
\* operator listed: no other token gets in, and none is refused but one whose
\* label is given again to a later one.
EnvironmentDecides ==
  proc # "starting" /\ ~ (proc = "exited" /\ exitCode = 1) =>
    /\ \A v \in DOMAIN env.parsed : env.parsed[v].ok
    /\ env.auth # ""
    /\ \A i \in DOMAIN env.authTokens : env.authTokens[i].label # "" <=> env.authTokens[i].token # ""
    /\ \A r \in InFlight : token[r] \in {env.auth} \cup Listed
    /\ \A r \in Requests : answer[r] = 401 => token[r] \notin {env.auth} \cup Kept
    /\ "MAX_CONCURRENT" \in DOMAIN env.parsed /\ env.parsed["MAX_CONCURRENT"].n > 0 =>
         Cardinality(InFlight) <= env.parsed["MAX_CONCURRENT"].n
    /\ \A r \in Requests : call[r] = "metrics" /\ answer[r] = 200 =>
         "METRICS" \in DOMAIN env.parsed /\ env.parsed["METRICS"].n = 1
    /\ Decides("MAX_RETRIES", 0, ClientPolicy(env).maxRetries, DefaultPolicy.maxRetries)
    /\ Decides("RETRY_BASE_DELAY", 1, ClientPolicy(env).baseDelay, DefaultPolicy.baseDelay)
    /\ Decides("RETRY_MAX_DELAY", 1, ClientPolicy(env).maxDelay, DefaultPolicy.maxDelay)
    /\ Decides("RETRY_AFTER_CAP", 1, ClientPolicy(env).retryAfterCap, DefaultPolicy.retryAfterCap)
    /\ Decides("ATTEMPT_TIMEOUT", 1, ClientTimeout(env), DefaultTimeout)
    /\ Decides("REQUEST_TIMEOUT", 1, ServerLimits(env).request, DefaultLimits.request)
=============================================================================
