---------------------------- MODULE RetryPolicy ----------------------------
(***************************************************************************)
(* The retry policy of skyl's Client: how its options are applied, which   *)
(* provider failures are worth another attempt, and how long to wait       *)
(* before it (retry.go, the classification half of errors.go, and the      *)
(* options of skyl.go).                                                    *)
(*                                                                         *)
(* Durations are integers of a signed word: HalfWord stands for 2^63, so   *)
(* that the left shift in backoff wraps where the code's wraps.            *)
(***************************************************************************)
EXTENDS Integers

CONSTANTS
  HalfWord,      \* durations are -HalfWord .. HalfWord-1 (2^63 in the code)
  MaxShift,      \* the cap on the exponent (20 in the code)
  DefaultPolicy  \* what New starts from, before the options are applied

Durations == -HalfWord .. HalfWord - 1

\* maxDelay stays below the largest duration: rand.Int64N(ceiling + 1) panics
\* for ceiling = MaxInt64, so a policy with that maxDelay cannot wait at all.
PolicyType == [maxRetries    : Nat,
               baseDelay     : 1 .. HalfWord - 1,
               maxDelay      : 1 .. HalfWord - 2,
               retryAfterCap : 1 .. HalfWord - 1]

ASSUME PolicyAssumption ==
  /\ HalfWord \in Nat \ {0}
  /\ MaxShift \in Nat
  /\ DefaultPolicy \in PolicyType

-----------------------------------------------------------------------------
(* The options: a value an option does not accept is ignored.              *)

WithMaxRetries(p, n) == IF n >= 0 THEN [p EXCEPT !.maxRetries = n] ELSE p

WithRetryDelay(p, base, max) ==
  [p EXCEPT !.baseDelay = IF base > 0 THEN base ELSE @,
            !.maxDelay  = IF max > 0 THEN max ELSE @]

WithRetryAfterCap(p, d) == IF d > 0 THEN [p EXCEPT !.retryAfterCap = d] ELSE p

-----------------------------------------------------------------------------
(* Provider failures. class tells how errors.As and errors.Is see one:     *)
(*   none    no error                                                      *)
(*   ctx     a *skyl.Error whose cause is the cancelled or expired context *)
(*   cert    a *skyl.Error whose cause is a rejected certificate           *)
(*   api     any other *skyl.Error, with its kind and status               *)
(*   plain   an error no adapter classified                                *)
(*   bare    the ErrUnsupported sentinel itself                            *)

Classes == {"none", "ctx", "cert", "api", "plain", "bare"}
Kinds   == {"nil", "auth", "not_found", "rate_limit", "server", "bad_request",
            "unsupported", "refusal"}

ErrorType == [class : Classes, kind : Kinds, status : Nat, hint : Int]

NoError == [class |-> "none", kind |-> "nil", status |-> 0, hint |-> 0]

\* An HTTP status as a sentinel; "nil" for a status that is no failure.
ClassifyStatus(status) ==
  CASE status \in {401, 403, 407} -> "auth"
    [] status = 404               -> "not_found"
    [] status = 429               -> "rate_limit"
    [] status \in {408, 409}      -> "server"
    [] status >= 500              -> "server"
    [] status \in (400 .. 499) \ {401, 403, 404, 407, 408, 409, 429}
                                  -> "bad_request"
    [] OTHER                      -> "nil"

\* A provider answered with a failing status and, maybe, a Retry-After.
HttpError(status, hint) ==
  [class |-> "api", kind |-> ClassifyStatus(status), status |-> status, hint |-> hint]

\* No reply at all: transportError, a *skyl.Error with neither kind nor status
\* whose cause, when it is one errors.Is or errors.As looks for, is the class.
TransportError(class) == [class |-> class, kind |-> "nil", status |-> 0, hint |-> 0]

\* An error that is no *skyl.Error.
Unclassified(class) == [class |-> class, kind |-> "nil", status |-> 0, hint |-> 0]

\* A failure an adapter found in a 2xx reply or while building the request.
AdapterError(kind) == [class |-> "api", kind |-> kind, status |-> 0, hint |-> 0]

Retryable(e) == \/ e.kind \in {"rate_limit", "server"}
                \/ e.kind = "nil" /\ e.status = 0

\* Mutant: a rejected certificate is a transport failure like any other.
ShouldRetryCert(e) ==
  /\ e.class \notin {"none", "ctx"}
  /\ e.class \in {"api", "cert"} => Retryable(e)

ShouldRetry(e) ==
  /\ e.class \notin {"none", "ctx", "cert"}
  /\ e.class = "api" => Retryable(e)

\* errors.Is(err, ErrUnsupported)
IsUnsupported(e) == e.class = "bare" \/ e.kind = "unsupported"

RetryAfterFrom(e) == IF e.class \in {"ctx", "cert", "api"} THEN e.hint ELSE 0

-----------------------------------------------------------------------------
(* Backoff.                                                                *)

Signed(x) == ((x + HalfWord) % (2 * HalfWord)) - HalfWord

ShiftOf(n) == IF n > MaxShift THEN MaxShift ELSE n

Ceiling(p, n) ==
  LET c == Signed(p.baseDelay * 2^ShiftOf(n))
  IN  IF c > p.maxDelay \/ c <= 0 THEN p.maxDelay ELSE c

\* The computed delay gives way to a longer hint, which has a bound of its own.
WithHint(p, computed, hint) ==
  IF hint > 0 /\ hint > computed
    THEN IF hint > p.retryAfterCap THEN p.retryAfterCap ELSE hint
    ELSE computed

\* Mutant: the hint is held to the jitter ceiling.
BackoffClampedToMaxDelay(p, n, hint) ==
  {IF hint > d /\ hint > p.maxDelay THEN p.maxDelay ELSE IF hint > d THEN hint ELSE d :
     d \in 0 .. Ceiling(p, n)}

\* Mutant: the hint is honoured whatever its length.
BackoffUncapped(p, n, hint) ==
  {IF hint > d THEN hint ELSE d : d \in 0 .. Ceiling(p, n)}

\* Every delay backoff may draw before retry n (zero-based): full jitter.
Backoff(p, n, hint) == {WithHint(p, d, hint) : d \in 0 .. Ceiling(p, n)}

LongestDelay(p) == IF p.maxDelay > p.retryAfterCap THEN p.maxDelay ELSE p.retryAfterCap

ShorterOf(a, b) == IF a < b THEN a ELSE b
=============================================================================
