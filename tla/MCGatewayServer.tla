--------------------------- MODULE MCGatewayServer ---------------------------
(* Environment, and with it GatewayServer, on a small instance: a capped      *)
(* server with CORS and labelled tokens, one of them the primary token again  *)
(* and one replaced by another of its label; an uncapped server with settings *)
(* that are ignored; and environments in which none must start.               *)
EXTENDS Environment, TLC

CONSTANTS r1, r2

MCRequests == {r1, r2}
MCTokens   == {"new", "old", "stale"}

Value(n) == [ok |-> TRUE, n |-> n]
Garbage  == [ok |-> FALSE, n |-> 0]

Item(label, tok) == [label |-> label, colon |-> TRUE, token |-> tok]
Blank == [label |-> "", colon |-> FALSE, token |-> ""]

Nothing == [v \in {} |-> Value(0)]

Open ==
  [keys |-> {"gemini"}, compat |-> [url |-> TRUE, name |-> ""], default |-> "compat", auth |-> "new",
   authTokens |-> <<>>, origins |-> <<>>,
   parsed |-> ("MAX_RETRIES" :> Value(-1)) @@ ("RETRY_MAX_DELAY" :> Value(9)) @@ ("MAX_CONCURRENT" :> Value(-1))
                @@ ("ATTEMPT_TIMEOUT" :> Value(0)) @@ ("HEARTBEAT_INTERVAL" :> Value(-1))]

Capped ==
  [keys |-> {"anthropic", "openai"}, compat |-> [url |-> TRUE, name |-> "openai"], default |-> "", auth |-> "new",
   authTokens |-> <<Item("a", "stale"), Item("b", "new"), Blank, Item("a", "old")>>, origins |-> <<"here", "">>,
   parsed |-> ("MAX_RETRIES" :> Value(0)) @@ ("RETRY_BASE_DELAY" :> Value(2)) @@ ("RETRY_AFTER_CAP" :> Value(7))
                @@ ("MAX_CONCURRENT" :> Value(1)) @@ ("REQUEST_TIMEOUT" :> Value(6)) @@ ("METRICS" :> Value(1))]

MCEnvironments ==
  {Open, Capped,
   [Open EXCEPT !.auth = ""], [Open EXCEPT !.default = "anthropic"],
   [Open EXCEPT !.parsed["MAX_CONCURRENT"] = Garbage], [Open EXCEPT !.parsed = "INCLUDE_RAW" :> Garbage],
   [Open EXCEPT !.authTokens = <<Item("a", "")>>], [Open EXCEPT !.authTokens = <<Item("", "old")>>],
   [keys |-> {}, compat |-> [url |-> FALSE, name |-> "x"], default |-> "", auth |-> "new",
    authTokens |-> <<>>, origins |-> <<>>, parsed |-> Nothing]}

MCConfigs == {ConfigOf(e) : e \in MCEnvironments}

MCDefaultPolicy == [maxRetries |-> 3, baseDelay |-> 1, maxDelay |-> 4, retryAfterCap |-> 5]
MCDefaultLimits == [request |-> 12, heartbeat |-> 2]
=============================================================================
