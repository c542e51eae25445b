---------------------------- MODULE ClientProofs ----------------------------
(***************************************************************************)
(* The safety of one call on a skyl.Client, for every retry policy the     *)
(* options can build, every attempt timeout, every word size and every     *)
(* sequence of provider answers; and that a listing of models made with it *)
(* is whole, for every catalogue.                                          *)
(***************************************************************************)
EXTENDS ModelsListing, SequenceLemmas

-----------------------------------------------------------------------------
(* The operators of the policy.                                            *)

LEMMA DelayOptionTyped ==
  ASSUME NEW p \in PolicyType, NEW base \in Int, NEW max \in Int,
         base < HalfWord, max < HalfWord - 1
  PROVE  WithRetryDelay(p, base, max) \in PolicyType
<1> DEFINE b == IF base > 0 THEN base ELSE p.baseDelay
           m == IF max > 0 THEN max ELSE p.maxDelay
<1>1. b \in 1 .. HalfWord - 1 /\ m \in 1 .. HalfWord - 2
  BY PolicyAssumption DEF PolicyType
<1>2. WithRetryDelay(p, base, max) = [p EXCEPT !.baseDelay = b, !.maxDelay = m]
  BY DEF WithRetryDelay
<1> HIDE DEF b, m
<1>3. [p EXCEPT !.baseDelay = b, !.maxDelay = m] \in PolicyType
  BY <1>1 DEF PolicyType
<1> QED
  BY <1>2, <1>3

LEMMA CapOptionTyped ==
  ASSUME NEW p \in PolicyType, NEW d \in Int, d < HalfWord
  PROVE  WithRetryAfterCap(p, d) \in PolicyType
  BY PolicyAssumption DEF WithRetryAfterCap, PolicyType

\* Whatever the options are called with, the Client's policy is well formed:
\* values an option does not accept leave the default in place (New).
LEMMA ConfiguredTyped ==
  ASSUME NEW n \in RetryOptions, NEW d \in DelayOptions, NEW c \in CapOptions
  PROVE  Configured(n, d, c) \in PolicyType
<1>1. DefaultPolicy \in PolicyType
  BY PolicyAssumption
<1>2. WithMaxRetries(DefaultPolicy, n) \in PolicyType
  BY <1>1, ClientAssumption DEF WithMaxRetries, PolicyType
<1>3. /\ d[1] \in Int /\ d[2] \in Int
      /\ d[1] < HalfWord /\ d[2] < HalfWord - 1
  BY ClientAssumption
<1>4. WithRetryDelay(WithMaxRetries(DefaultPolicy, n), d[1], d[2]) \in PolicyType
  BY <1>2, <1>3, DelayOptionTyped
<1>5. c \in Int /\ c < HalfWord
  BY ClientAssumption
<1> QED
  BY <1>4, <1>5, CapOptionTyped DEF Configured

\* The jitter ceiling is positive and within maxDelay, also when the shift
\* wraps to a negative or a small number (backoff).
LEMMA CeilingBounds ==
  ASSUME NEW p \in PolicyType, NEW n \in Nat
  PROVE  Ceiling(p, n) \in 1 .. p.maxDelay
<1>1. p.maxDelay \in Nat \ {0} /\ p.baseDelay \in Nat \ {0}
  BY PolicyAssumption DEF PolicyType
<1>2. ShiftOf(n) \in Nat
  BY PolicyAssumption DEF ShiftOf
<1>3. p.baseDelay * 2^ShiftOf(n) \in Int
  BY <1>1, <1>2
<1>4. Signed(p.baseDelay * 2^ShiftOf(n)) \in Int
  BY <1>3, PolicyAssumption DEF Signed
<1> QED
  BY <1>1, <1>4 DEF Ceiling

\* Every delay backoff draws is at most the longer of maxDelay and the cap on
\* hints, and at least the provider's hint or that cap.
THEOREM BackoffBounds ==
  ASSUME NEW p \in PolicyType, NEW n \in Nat, NEW h \in Int, NEW b \in Backoff(p, n, h)
  PROVE  /\ b \in 0 .. LongestDelay(p)
         /\ h > 0 => b >= ShorterOf(h, p.retryAfterCap)
<1>1. /\ p.maxDelay \in Nat /\ p.retryAfterCap \in Nat
      /\ LongestDelay(p) \in Nat
      /\ p.maxDelay <= LongestDelay(p)
      /\ p.retryAfterCap <= LongestDelay(p)
  BY PolicyAssumption DEF PolicyType, LongestDelay
<1>2. PICK d \in 0 .. Ceiling(p, n) : b = WithHint(p, d, h)
  BY DEF Backoff
<1>3. d \in Nat /\ d <= p.maxDelay
  BY <1>1, CeilingBounds
<1>4. b \in 0 .. LongestDelay(p)
  BY <1>1, <1>2, <1>3 DEF WithHint
<1>5. h > 0 => b >= ShorterOf(h, p.retryAfterCap)
  BY <1>1, <1>2, <1>3 DEF WithHint, ShorterOf
<1> QED
  BY <1>4, <1>5

\* A longer hint never shortens the wait, provided hints may delay a retry at
\* least as long as the jitter may. With the cap below maxDelay it can.
THEOREM LongerHintNeverShortens ==
  ASSUME NEW p \in PolicyType, p.retryAfterCap >= p.maxDelay,
         NEW d \in 0 .. p.maxDelay, NEW g \in Int, NEW h \in Int, g <= h
  PROVE  WithHint(p, d, g) <= WithHint(p, d, h)
  BY PolicyAssumption DEF PolicyType, WithHint

\* Failures worth retrying are errors, and never the context's own.
LEMMA ShouldRetryFacts ==
  ASSUME NEW e \in ErrorType, ShouldRetry(e)
  PROVE  e.class \notin {"none", "ctx", "cert"}
  BY DEF ShouldRetry

LEMMA ErrorTypes ==
  /\ NoError \in ErrorType
  /\ \A e \in Failures : e \in ErrorType
  /\ \A e \in ErrorType : RetryAfterFrom(e) \in Int
  BY ClientAssumption
  DEF NoError, Failures, TransportError, ErrorType, Classes, Kinds, RetryAfterFrom

LEMMA LongestDelayTyped ==
  ASSUME NEW p \in PolicyType
  PROVE  LongestDelay(p) \in 0 .. HalfWord - 1
  BY PolicyAssumption DEF PolicyType, LongestDelay
-----------------------------------------------------------------------------
(* The call.                                                               *)

\* One more event at the end of what the hooks saw; the others stand.
LEMMA EmitAppends ==
  ASSUME SafetyInvariant, NEW e \in ErrorType, Emit(e)
  PROVE  /\ Len(hooks) \in Nat
         /\ hooks' \in Seq(HookType)
         /\ hooks' # <<>>
         /\ Len(hooks') = Len(hooks) + 1
         /\ hooks'[Len(hooks')] = [op |-> op, attempt |-> attempt, err |-> e]
         /\ \A i \in 1 .. Len(hooks) : hooks'[i] = hooks[i]
<1>1. attempt \in Nat /\ op \in Ops /\ hooks \in Seq(HookType)
  BY DEF SafetyInvariant, TypeOK, PolicyType
<1>2. [op |-> op, attempt |-> attempt, err |-> e] \in HookType
  BY <1>1 DEF HookType
<1> QED
  BY <1>1, <1>2 DEF Emit

\* While the provider works, the hooks have seen every attempt but this one.
LEMMA CallState ==
  ASSUME SafetyInvariant, pc = "call"
  PROVE  /\ Len(hooks) = attempt
         /\ calls = attempt + 1
         /\ attempt \in Nat /\ attempt <= policy.maxRetries
         /\ policy.maxRetries \in Nat
         /\ result = "none"
         /\ hooks \in Seq(HookType)
  BY DEF SafetyInvariant, TypeOK, LoopInvariant, OneHookPerAttempt, Finished, PolicyType

\* An attempt that ends, however it ends, adds its own report to the hooks.
LEMMA AttemptReported ==
  ASSUME SafetyInvariant, pc = "call", NEW e \in ErrorType, Emit(e),
         pc' # "call", UNCHANGED <<op, calls>>
  PROVE  OneHookPerAttempt'
<1>0. /\ Len(hooks) = attempt /\ calls = attempt + 1 /\ attempt \in Nat
  BY CallState
<1>1. /\ Len(hooks') = calls /\ Len(hooks') = Len(hooks) + 1
      /\ hooks'[Len(hooks')] = [op |-> op, attempt |-> attempt, err |-> e]
      /\ \A i \in 1 .. Len(hooks) : hooks'[i] = hooks[i]
  BY <1>0, EmitAppends
<1>2. \A i \in 1 .. Len(hooks') : hooks'[i].attempt = i - 1 /\ hooks'[i].op = op
  <2> TAKE i \in 1 .. Len(hooks')
  <2>1. CASE i = Len(hooks')
    BY <2>1, <1>0, <1>1
  <2>2. CASE i # Len(hooks')
    <3>1. i \in 1 .. Len(hooks)
      BY <2>2, <1>0, <1>1
    <3> QED
      BY <3>1, <1>1 DEF SafetyInvariant, OneHookPerAttempt
  <2> QED
    BY <2>1, <2>2
<1> QED
  BY <1>1, <1>2 DEF OneHookPerAttempt, Finished

\* The reports of the earlier attempts stand when one more ends.
LEMMA EarlierReportsStand ==
  ASSUME SafetyInvariant, pc = "call", NEW e \in ErrorType, Emit(e),
         UNCHANGED <<op, calls>>
  PROVE  OnlyCurableFailuresRetried'
<1>1. calls - 1 = Len(hooks) /\ Len(hooks) \in Nat
  BY CallState
<1>2. /\ Len(hooks') = Len(hooks) + 1
      /\ \A i \in 1 .. Len(hooks) : hooks'[i] = hooks[i]
  BY EmitAppends
<1>3. \A i \in 1 .. calls - 1 : i <= Len(hooks') /\ hooks'[i] = hooks[i]
  BY <1>1, <1>2
<1> QED
  BY <1>1, <1>3 DEF SafetyInvariant, OnlyCurableFailuresRetried

\* The invariant holds when a call begins.
LEMMA InitSafe == Init => SafetyInvariant
<1> SUFFICES ASSUME Init PROVE SafetyInvariant
  OBVIOUS
<1>1. policy \in PolicyType
  BY ConfiguredTyped DEF Init
<1>2. TypeOK
  <2>1. policy.maxRetries \in Nat /\ HalfWord \in Nat \ {0}
    BY <1>1, PolicyAssumption DEF PolicyType
  <2>2. hooks \in Seq(HookType) /\ timeout \in Int /\ lastErr \in ErrorType
    BY ErrorTypes, ClientAssumption DEF Init
  <2>3. attempt \in 0 .. policy.maxRetries /\ delay \in 0 .. HalfWord - 1
    BY <2>1 DEF Init
  <2> QED
    BY <1>1, <2>2, <2>3 DEF Init, TypeOK, Results
<1>3. LongestDelay(policy) \in Nat
  BY <1>1, LongestDelayTyped, PolicyAssumption
<1>4. WaitBounded
  BY <1>3 DEF Init, WaitBounded
<1> QED
  BY <1>2, <1>4
  DEF Init, SafetyInvariant, LoopInvariant, OneHookPerAttempt, Finished,
      OnlyCurableFailuresRetried, ResultExplained, HintHonoured

\* Starting an attempt, first or later.
LEMMA StartSafe ==
  ASSUME SafetyInvariant, FirstAttempt \/ Wake
  PROVE  SafetyInvariant'
<1> USE DEF SafetyInvariant, StartAttempt
<1>1. UNCHANGED <<policy, timeout, op, attempt, ctxDone, lastErr, delay, hooks, waited, result>>
  BY DEF FirstAttempt, Wake, config
<1>2. /\ pc' = "call" /\ calls' = calls + 1 /\ expired' = FALSE
      /\ late' = IF ctxDone THEN late + 1 ELSE late
  BY DEF FirstAttempt, Wake
<1>3. calls = attempt /\ late = 0 /\ result = "none" /\ Len(hooks) = calls
  BY DEF FirstAttempt, Wake, LoopInvariant, OneHookPerAttempt, Finished
<1>4. calls \in Nat /\ late \in Nat
  BY DEF TypeOK
<1>5. TypeOK'
  <2>1. late' \in Nat /\ calls' \in Nat
    BY <1>2, <1>4
  <2> QED
    BY <1>1, <1>2, <2>1 DEF TypeOK
<1>6. LoopInvariant'
  BY <1>1, <1>2, <1>3, <1>4 DEF LoopInvariant, TypeOK
<1>7. OneHookPerAttempt'
  BY <1>1, <1>2, <1>3, <1>4 DEF OneHookPerAttempt, Finished
<1>8. OnlyCurableFailuresRetried'
  <2> SUFFICES ASSUME NEW i \in 1 .. calls
               PROVE  /\ i <= Len(hooks)
                      /\ ShouldRetry(hooks[i].err)
                      /\ hooks[i].err.class \notin {"cert", "ctx", "none"}
                      /\ op = "models" => ~ IsUnsupported(hooks[i].err)
    BY <1>1, <1>2, <1>4 DEF OnlyCurableFailuresRetried
  <2>1. CASE i \in 1 .. calls - 1
    BY <2>1 DEF OnlyCurableFailuresRetried
  <2>2. CASE i = calls
    <3>1. pc = "sleep"
      BY <2>2, <1>4 DEF FirstAttempt, Wake, LoopInvariant
    <3>2. hooks[i].err = lastErr /\ i <= Len(hooks)
      BY <2>2, <3>1, <1>3, <1>4 DEF LoopInvariant
    <3>3. ShouldRetry(lastErr) /\ (op = "models" => ~ IsUnsupported(lastErr))
      BY <3>1 DEF LoopInvariant
    <3> QED
      BY <3>2, <3>3, ShouldRetryFacts DEF TypeOK
  <2> QED
    BY <2>1, <2>2, <1>4
<1>9. ResultExplained' /\ HintHonoured' /\ WaitBounded'
  BY <1>1, <1>2, <1>3 DEF ResultExplained, HintHonoured, WaitBounded
<1> QED
  BY <1>5, <1>6, <1>7, <1>8, <1>9

\* A failed attempt that will be retried: the only step that draws a delay.
LEMMA WaitSafe ==
  ASSUME SafetyInvariant, NEW e \in Failures, FailAndWait(e)
  PROVE  SafetyInvariant'
<1>1. /\ pc = "call" /\ ~ Stops(e) /\ attempt < policy.maxRetries /\ Emit(e)
      /\ lastErr' = e /\ attempt' = attempt + 1 /\ pc' = "sleep"
      /\ UNCHANGED <<policy, timeout, op, ctxDone, expired, result, calls, late>>
  BY DEF FailAndWait, RetriesLeft, config
<1>2. e \in ErrorType
  BY ErrorTypes
<1>3. policy \in PolicyType /\ attempt \in Nat /\ RetryAfterFrom(e) \in Int
  BY <1>1, <1>2, CallState, ErrorTypes DEF SafetyInvariant, TypeOK
<1>4. PICK d \in Backoff(policy, attempt, RetryAfterFrom(e)) :
        delay' = d /\ waited' = waited + d
  BY DEF FailAndWait
<1>5. /\ d \in 0 .. LongestDelay(policy)
      /\ RetryAfterFrom(e) > 0 => d >= ShorterOf(RetryAfterFrom(e), policy.retryAfterCap)
  BY <1>3, BackoffBounds
<1>6. LongestDelay(policy) \in 0 .. HalfWord - 1
  BY <1>3, LongestDelayTyped
<1>7. TypeOK'
  <2>1. hooks' \in Seq(HookType)
    BY <1>1, <1>2, EmitAppends
  <2>2. attempt' \in 0 .. policy'.maxRetries
    BY <1>1, <1>3 DEF PolicyType
  <2>3. delay' \in 0 .. HalfWord - 1 /\ waited' \in Nat
    BY <1>4, <1>5, <1>6, PolicyAssumption DEF SafetyInvariant, TypeOK
  <2> QED
    BY <1>1, <1>2, <2>1, <2>2, <2>3 DEF SafetyInvariant, TypeOK
<1>8. LoopInvariant'
  <2>1. hooks' # <<>> /\ hooks'[Len(hooks')].err = e
    <3>1. /\ hooks' # <<>>
          /\ hooks'[Len(hooks')] = [op |-> op, attempt |-> attempt, err |-> e]
      BY <1>1, <1>2, EmitAppends
    <3> QED
      BY <3>1
  <2>2. ShouldRetry(e) /\ ~ ctxDone /\ (op = "models" => ~ IsUnsupported(e))
    BY <1>1 DEF Stops
  <2>3. late = 0
    BY <2>2 DEF SafetyInvariant, LoopInvariant
  <2> QED
    BY <1>1, <2>1, <2>2, <2>3, CallState DEF LoopInvariant
<1>9. OneHookPerAttempt' /\ OnlyCurableFailuresRetried'
  BY <1>1, <1>2, AttemptReported, EarlierReportsStand
<1>10. ResultExplained'
  BY <1>1, CallState DEF ResultExplained
<1>11. HintHonoured'
  BY <1>1, <1>4, <1>5, <1>6 DEF HintHonoured
<1>12. WaitBounded'
  <2>1. waited <= attempt * LongestDelay(policy)
    BY DEF SafetyInvariant, WaitBounded
  <2>2. waited \in Nat
    BY DEF SafetyInvariant, TypeOK
  <2>3. (attempt + 1) * LongestDelay(policy) = attempt * LongestDelay(policy) + LongestDelay(policy)
    BY <1>3, <1>6
  <2>4. attempt * LongestDelay(policy) \in Nat
    BY <1>3, <1>6
  <2> QED
    BY <1>1, <1>4, <1>5, <1>6, <2>1, <2>2, <2>3, <2>4 DEF WaitBounded
<1> QED
  BY <1>7, <1>8, <1>9, <1>10, <1>11, <1>12 DEF SafetyInvariant

\* An attempt that ends the call: success, a failure not worth retrying, or
\* the budget spent.
LEMMA ConclusionSafe ==
  ASSUME SafetyInvariant,
         Succeed \/ (\E e \in Failures : FailForGood(e) \/ GiveUp(e))
  PROVE  SafetyInvariant'
<1>1. /\ pc = "call" /\ pc' = "returned"
      /\ UNCHANGED <<policy, timeout, op, attempt, ctxDone, expired, delay, calls, late, waited>>
  BY DEF Succeed, FailForGood, GiveUp, Return, config
<1> DEFINE Ends(e) ==
             /\ Emit(e) /\ lastErr' \in {lastErr, e}
             /\ \/ result' = "ok" /\ e = NoError
                \/ result' = "error" /\ lastErr' = e /\ e.class # "none" /\ Stops(e)
                \/ /\ result' = "gaveUp" /\ lastErr' = e /\ e.class # "none"
                   /\ ~ Stops(e) /\ ~ attempt < policy.maxRetries
<1>2. PICK e \in ErrorType : Ends(e)
  <2>1. CASE Succeed
    <3>1. Ends(NoError)
      BY <2>1 DEF Succeed, Return
    <3> QED
      BY <3>1, ErrorTypes
  <2>2. ASSUME NEW e \in Failures, FailForGood(e) PROVE Ends(e)
    BY <2>2 DEF FailForGood, Return
  <2>3. ASSUME NEW e \in Failures, GiveUp(e) PROVE Ends(e)
    BY <2>3 DEF GiveUp, Return, RetriesLeft
  <2> HIDE DEF Ends
  <2> QED
    BY <2>1, <2>2, <2>3, ErrorTypes
<1>3. TypeOK'
  BY <1>1, <1>2, EmitAppends DEF SafetyInvariant, TypeOK, Results
<1>4. LoopInvariant'
  BY <1>1, <1>2, CallState DEF SafetyInvariant, LoopInvariant
<1>5. OneHookPerAttempt' /\ OnlyCurableFailuresRetried'
  BY <1>1, <1>2, AttemptReported, EarlierReportsStand
<1>6. ResultExplained'
  <2>1. hooks' # <<>> /\ hooks'[Len(hooks')].err = e
    <3>1. /\ hooks' # <<>>
          /\ hooks'[Len(hooks')] = [op |-> op, attempt |-> attempt, err |-> e]
      BY <1>1, <1>2, EmitAppends
    <3> QED
      BY <3>1
  <2> QED
    BY <1>1, <1>2, <2>1, CallState DEF ResultExplained, Stops
<1>7. HintHonoured' /\ WaitBounded'
  BY <1>1 DEF SafetyInvariant, HintHonoured, WaitBounded
<1> QED
  BY <1>3, <1>4, <1>5, <1>6, <1>7 DEF SafetyInvariant

\* The steps that add nothing to the history: a rejected request, a wait cut
\* short, and the two contexts ending.
LEMMA QuietSafe ==
  ASSUME SafetyInvariant,
         Reject \/ StopWaiting \/ AttemptExpires \/ CallerDone
  PROVE  SafetyInvariant'
<1>1. UNCHANGED <<policy, timeout, op, attempt, lastErr, delay, hooks, calls, late, waited>>
  BY DEF Reject, StopWaiting, AttemptExpires, CallerDone, config
<1>2. /\ ctxDone => ctxDone'
      /\ ctxDone' \in BOOLEAN /\ expired' \in BOOLEAN
      /\ \/ UNCHANGED <<pc, result>>
         \/ pc = "start" /\ pc' = "returned" /\ result' = "invalid" /\ op # "models"
         \/ pc = "sleep" /\ pc' = "returned" /\ result' = "waiting" /\ ctxDone'
  BY DEF SafetyInvariant, TypeOK, Reject, StopWaiting, AttemptExpires, CallerDone, Return
<1>3. TypeOK'
  BY <1>1, <1>2 DEF SafetyInvariant, TypeOK, Results
<1>4. LoopInvariant'
  BY <1>1, <1>2 DEF SafetyInvariant, TypeOK, LoopInvariant
<1>5. OneHookPerAttempt'
  BY <1>1, <1>2 DEF SafetyInvariant, OneHookPerAttempt, Finished
<1>6. OnlyCurableFailuresRetried'
  BY <1>1 DEF SafetyInvariant, OnlyCurableFailuresRetried
<1>7. ResultExplained'
  BY <1>1, <1>2 DEF SafetyInvariant, TypeOK, LoopInvariant, ResultExplained
<1>8. HintHonoured' /\ WaitBounded'
  BY <1>1, <1>2 DEF SafetyInvariant, HintHonoured, WaitBounded
<1> QED
  BY <1>3, <1>4, <1>5, <1>6, <1>7, <1>8 DEF SafetyInvariant

LEMMA StutterSafe ==
  ASSUME SafetyInvariant, UNCHANGED vars
  PROVE  SafetyInvariant'
  BY DEF SafetyInvariant, TypeOK, LoopInvariant, OneHookPerAttempt, Finished,
         OnlyCurableFailuresRetried, ResultExplained, HintHonoured, WaitBounded, vars

\* The strengthened invariant, for every behaviour of the call.
THEOREM Safety == Spec => []SafetyInvariant
<1>1. Init => SafetyInvariant
  BY InitSafe
<1>2. SafetyInvariant /\ [Next]_vars => SafetyInvariant'
  BY StartSafe, WaitSafe, ConclusionSafe, QuietSafe, StutterSafe
  DEF Next, ProviderAnswers
<1> QED
  BY <1>1, <1>2, PTL DEF Spec

-----------------------------------------------------------------------------
(* What the invariant gives, property by property.                         *)

\* Every variable keeps its type: in particular the delay stays a duration of
\* the word, and the attempt number within the policy's budget.
THEOREM TypeCorrect == Spec => []TypeOK
  BY Safety, PTL DEF SafetyInvariant

\* Hooks see every attempt once, in order, whatever it was worth (emit).
THEOREM HooksComplete == Spec => []OneHookPerAttempt
  BY Safety, PTL DEF SafetyInvariant

\* No attempt follows a success, a permanent failure, a rejected certificate
\* or a dead context (shouldRetry and the loops' early returns).
THEOREM RetriesCurable == Spec => []OnlyCurableFailuresRetried
  BY Safety, PTL DEF SafetyInvariant

\* The verdict a call returns is the one its history justifies.
THEOREM VerdictJustified == Spec => []ResultExplained
  BY Safety, PTL DEF SafetyInvariant

\* A cancelled caller pays for at most one further provider call, for any
\* number of retries.
THEOREM LateCallBound == Spec => []AtMostOneLateCall
<1>1. SafetyInvariant => AtMostOneLateCall
  BY DEF SafetyInvariant, LoopInvariant, AtMostOneLateCall
<1> QED
  BY <1>1, Safety, PTL

\* Retry-After is a lower bound on the wait, up to the cap, and the cap and the
\* ceiling together an upper one (backoff).
THEOREM HintsHonoured == Spec => []HintHonoured
  BY Safety, PTL DEF SafetyInvariant

\* The total wait is bounded by the retries made, whatever the provider hints.
THEOREM TotalWaitBounded == Spec => []WaitBounded
  BY Safety, PTL DEF SafetyInvariant

-----------------------------------------------------------------------------
(* The refinement.                                                         *)

\* An attempt begins where the promise allows one: within the budget.
LEMMA StartRefines ==
  ASSUME SafetyInvariant, FirstAttempt \/ Wake
  PROVE  Promise!Try
<1>1. pc \in {"start", "sleep"} /\ pc' = "call" /\ calls' = calls + 1
      /\ UNCHANGED <<policy, ctxDone, result>>
  BY DEF FirstAttempt, Wake, StartAttempt, config
<1>2. calls = attempt /\ calls \in Nat /\ policy.maxRetries \in Nat
      /\ attempt \in 0 .. policy.maxRetries
  BY <1>1 DEF SafetyInvariant, TypeOK, LoopInvariant, PolicyType
<1> QED
  BY <1>1, <1>2 DEF Promise!Try, Phase

\* A failure to be retried is one the promise lets the call survive.
LEMMA WaitRefines ==
  ASSUME SafetyInvariant, NEW e \in Failures, FailAndWait(e)
  PROVE  Promise!TryFails
<1>1. /\ pc = "call" /\ pc' = "sleep" /\ ~ ctxDone /\ attempt < policy.maxRetries
      /\ UNCHANGED <<policy, calls, ctxDone, result>>
  BY DEF FailAndWait, RetriesLeft, Stops, config
<1>2. calls = attempt + 1 /\ attempt \in Nat /\ policy.maxRetries \in Nat
  BY <1>1, CallState
<1> QED
  BY <1>1, <1>2 DEF Promise!TryFails, Phase

\* Every way of returning is a verdict the promise knows, from its phase.
LEMMA ReturnRefines ==
  ASSUME SafetyInvariant,
         \/ Reject \/ StopWaiting \/ Succeed
         \/ \E e \in Failures : FailForGood(e) \/ GiveUp(e)
  PROVE  \E v \in Promise!Verdicts : Promise!Conclude(v)
<1>1. pc' = "returned" /\ UNCHANGED <<policy, calls, ctxDone>>
  BY DEF Reject, StopWaiting, Succeed, FailForGood, GiveUp, Return, config
<1>2. CASE Reject
  BY <1>1, <1>2 DEF Reject, Return, Promise!Conclude, Promise!Verdicts, Phase
<1>3. CASE StopWaiting
  BY <1>1, <1>3 DEF StopWaiting, Return, Promise!Conclude, Promise!Verdicts, Phase
<1>4. CASE Succeed \/ \E e \in Failures : FailForGood(e)
  BY <1>1, <1>4 DEF Succeed, FailForGood, Return, Promise!Conclude, Promise!Verdicts, Phase
<1>5. CASE \E e \in Failures : GiveUp(e)
  <2>1. pc = "call" /\ result' = "gaveUp" /\ ~ attempt < policy.maxRetries
    BY <1>5 DEF GiveUp, Return, RetriesLeft
  <2>2. calls = policy.maxRetries + 1
    BY <2>1, CallState
  <2> QED
    BY <1>1, <2>1, <2>2 DEF Promise!Conclude, Promise!Verdicts, Phase
<1> QED
  BY <1>2, <1>3, <1>4, <1>5

\* The call implements CallSpec, for every policy and every provider.
THEOREM Refinement == Spec => KeepsPromise
<1>1. Init => Promise!Init
  <2> SUFFICES ASSUME Init PROVE Promise!Init
    OBVIOUS
  <2>1. policy.maxRetries \in Nat
    BY InitSafe DEF SafetyInvariant, TypeOK, PolicyType
  <2> QED
    BY <2>1 DEF Init, Promise!Init, Phase
<1>2. SafetyInvariant /\ [Next]_vars => [Promise!Next]_Promise!vars
  <2> SUFFICES ASSUME SafetyInvariant, [Next]_vars PROVE [Promise!Next]_Promise!vars
    OBVIOUS
  <2>1. CASE FirstAttempt \/ Wake
    BY <2>1, StartRefines DEF Promise!Next
  <2>2. CASE \E e \in Failures : FailAndWait(e)
    BY <2>2, WaitRefines DEF Promise!Next
  <2>3. CASE \/ Reject \/ StopWaiting \/ Succeed
             \/ \E e \in Failures : FailForGood(e) \/ GiveUp(e)
    BY <2>3, ReturnRefines DEF Promise!Next
  <2>4. CASE CallerDone
    <3>1. pc \in {"start", "call", "sleep"} /\ pc' = pc /\ ctxDone' = TRUE
          /\ UNCHANGED <<policy, calls, result>>
      BY <2>4 DEF CallerDone, config, SafetyInvariant, TypeOK
    <3>2. Phase # "closed" /\ Phase' = Phase
      BY <3>1 DEF Phase
    <3> QED
      BY <3>1, <3>2 DEF Promise!Next, Promise!Cancel
  <2>5. CASE AttemptExpires
    BY <2>5 DEF AttemptExpires, config, Promise!vars, Phase
  <2>6. CASE UNCHANGED vars
    BY <2>6 DEF vars, Promise!vars, Phase
  <2> QED
    BY <2>1, <2>2, <2>3, <2>4, <2>5, <2>6 DEF Next, ProviderAnswers
<1> QED
  BY <1>1, <1>2, Safety, PTL DEF Spec, KeepsPromise, Promise!Spec
-----------------------------------------------------------------------------
(* A listing, page after page, is still that call.                         *)

\* A step of ModelsListing is one of the call's, or one the call does not see:
\* a page that names another arrives within the attempt.
LEMMA ListingStepRefines == [ListingNext]_allVars => [Next]_vars
<1> SUFFICES ASSUME [ListingNext]_allVars PROVE [Next]_vars
  OBVIOUS
<1>1. CASE StartListing
  BY <1>1 DEF StartListing, Next
<1>2. CASE PageArrives
  BY <1>2 DEF PageArrives
<1>3. CASE LastPageArrives
  BY <1>3 DEF LastPageArrives, Next, ProviderAnswers
<1>4. CASE PageFails
  BY <1>4 DEF PageFails, Next, ProviderAnswers
<1>5. CASE ContextChanges
  BY <1>5 DEF ContextChanges, Next
<1>6. CASE WaitEnds
  BY <1>6 DEF WaitEnds, Next
<1>7. CASE UNCHANGED allVars
  BY <1>7 DEF allVars
<1> QED
  BY <1>1, <1>2, <1>3, <1>4, <1>5, <1>6, <1>7 DEF ListingNext

\* Client.Models keeps the promise of a call however many pages an attempt
\* fetches and whichever of them fails: a page is no provider call of its own.
THEOREM ListingKeepsPromise == ListingSpec => KeepsPromise
<1>1. ListingInit => Init
  BY DEF ListingInit
<1>2. ListingSpec => Spec
  BY <1>1, ListingStepRefines, PTL DEF ListingSpec, Spec
<1> QED
  BY <1>2, Refinement, PTL

-----------------------------------------------------------------------------
(* A listing. While there are pages left that were not fetched, token is   *)
(* that of the next one and out has what those before it offer; after that *)
(* the pages lead back and the listing can only fail.                      *)

\* What a listing that returned m has told, and what the first k pages offer.
ToldBy(m) == FlattenSeq([i \in DOMAIN m |-> Named(Last(m[i]))])
OfferedUpTo(k) == FlattenSeq([i \in 1 .. k |-> Ids(catalogue.pages[i])])

Names == {n \in Seq(STRING \cup {"models/"}) : n # <<>> /\ Last(n) \in STRING}

LeadsBack ==
  /\ provider # "oai" /\ catalogue.last # 0 /\ token # 0
  /\ provider = "gemini" => catalogue.last # Len(catalogue.pages) \/ Len(catalogue.pages) = 1

OnTheWay ==
  /\ fetched.out \in Seq(Names)
  /\ fetched.pages \in Nat
  /\ token \in 0 .. Len(catalogue.pages)
  /\ IF fetched.pages < Len(catalogue.pages)
     THEN /\ token = IF fetched.pages = 0 THEN 0 ELSE fetched.pages + 1
          /\ ToldBy(fetched.out) = OfferedUpTo(fetched.pages)
     ELSE LeadsBack

\* The catalogue is one the provider may have.
Catalogued ==
  /\ catalogue.pages \in Seq(Seq(Entries))
  /\ Len(catalogue.pages) \in Nat \ {0}
  /\ catalogue.last \in 0 .. Len(catalogue.pages)
  /\ provider = "oai" => Len(catalogue.pages) = 1

ListingInvariant == Catalogued /\ OnTheWay /\ ListingWhole

\* Tuples of one and of two, whatever their elements are.
LEMMA ShortTuples ==
  ASSUME NEW S, NEW x \in S, NEW y \in S
  PROVE  /\ <<>> \in Seq(S) /\ <<x>> \in Seq(S) /\ <<y, x>> \in Seq(S)
         /\ <<x>> # <<>> /\ <<y, x>> # <<>>
         /\ Last(<<x>>) = x /\ Last(<<y, x>>) = x
  BY DEF Last

LEMMA NamedTyped == \A id \in STRING : Named(id) \in Seq(STRING)
<1> SUFFICES ASSUME NEW id \in STRING PROVE Named(id) \in Seq(STRING)
  OBVIOUS
<1>1. <<>> \in Seq(STRING) /\ <<id>> \in Seq(STRING)
  BY ShortTuples
<1> QED
  BY <1>1, Zenon DEF Named

LEMMA AddedFacts ==
  ASSUME NEW e \in Entries
  PROVE  /\ Added(e) \in Seq(Names)
         /\ Added(e) = <<>> => Named(e.id) = <<>>
         /\ Added(e) # <<>> => \E n \in Names : Added(e) = <<n>> /\ Last(n) = e.id
<1>1. e.id \in STRING
  BY DEF Entries
<1>2. <<"models/", e.id>> \in Names /\ <<e.id>> \in Names
      /\ Last(<<"models/", e.id>>) = e.id /\ Last(<<e.id>>) = e.id
  <2> DEFINE S == STRING \cup {"models/"}
  <2>1. e.id \in S /\ "models/" \in S
    BY <1>1
  <2> HIDE DEF S
  <2>2. /\ <<e.id>> \in Seq(S) /\ <<"models/", e.id>> \in Seq(S)
        /\ <<e.id>> # <<>> /\ <<"models/", e.id>> # <<>>
        /\ Last(<<e.id>>) = e.id /\ Last(<<"models/", e.id>>) = e.id
    BY <2>1, ShortTuples
  <2> QED
    BY <1>1, <2>2, Zenon DEF Names, S
<1>3. ModelInfo(e) \in Names /\ Last(ModelInfo(e)) = e.id
  BY <1>2 DEF ModelInfo
<1>4. CASE Listable(e)
  <2>1. Added(e) = <<ModelInfo(e)>>
    BY <1>4 DEF Added
  <2> QED
    BY <2>1, <1>3
<1>5. CASE ~ Listable(e)
  <2>1. Added(e) = <<>> /\ e.id = ""
    BY <1>5 DEF Added, Listable
  <2>2. <<>> \in Seq(Names)
    OBVIOUS
  <2> QED
    BY <2>1, <2>2, Zenon DEF Named
<1> QED
  BY <1>4, <1>5

\* What a page adds to the listing tells the names that the page offers.
LEMMA PageTold ==
  ASSUME NEW out \in Seq(Names), NEW page \in Seq(Entries)
  PROVE  LET more == FlattenSeq([i \in DOMAIN page |-> Added(page[i])])
         IN  /\ out \o more \in Seq(Names)
             /\ ToldBy(out \o more) = ToldBy(out) \o Ids(page)
             /\ Ids(page) \in Seq(STRING) /\ ToldBy(out) \in Seq(STRING)
<1> DEFINE added == [e \in Entries |-> Added(e)]
           named == [n \in Names |-> Named(Last(n))]
           ids   == [e \in Entries |-> Named(e.id)]
<1>1. /\ added \in [Entries -> Seq(Names)]
      /\ \A e \in Entries : added[e] = Added(e)
  BY AddedFacts
<1>2. /\ named \in [Names -> Seq(STRING)]
      /\ \A n \in Names : named[n] = Named(Last(n))
  <2>1. \A n \in Names : Last(n) \in STRING
    BY DEF Names
  <2> QED
    BY <2>1, NamedTyped
<1>3. /\ ids \in [Entries -> Seq(STRING)]
      /\ \A e \in Entries : ids[e] = Named(e.id)
  <2>1. \A e \in Entries : e.id \in STRING
    BY DEF Entries
  <2> QED
    BY <2>1, NamedTyped
<1> HIDE DEF added, named, ids
<1>4. ASSUME NEW s \in Seq(Entries)
      PROVE  FlattenSeq([i \in DOMAIN s |-> Added(s[i])]) = FlatMap(s, added)
  <2>1. \A i \in DOMAIN s : s[i] \in Entries
    OBVIOUS
  <2>2. [i \in DOMAIN s |-> Added(s[i])] = [i \in DOMAIN s |-> added[s[i]]]
    BY <1>1, <2>1
  <2> QED
    BY <2>2 DEF FlatMap, Mapped
<1>5. ASSUME NEW s \in Seq(Entries) PROVE Ids(s) = FlatMap(s, ids)
  <2>1. \A i \in DOMAIN s : s[i] \in Entries
    OBVIOUS
  <2>2. [i \in DOMAIN s |-> Named(s[i].id)] = [i \in DOMAIN s |-> ids[s[i]]]
    BY <1>3, <2>1
  <2> QED
    BY <2>2 DEF FlatMap, Mapped, Ids
<1>6. ASSUME NEW m \in Seq(Names) PROVE ToldBy(m) = FlatMap(m, named)
  <2>1. \A i \in DOMAIN m : m[i] \in Names
    OBVIOUS
  <2>2. [i \in DOMAIN m |-> Named(Last(m[i]))] = [i \in DOMAIN m |-> named[m[i]]]
    BY <1>2, <2>1
  <2> QED
    BY <2>2 DEF FlatMap, Mapped, ToldBy
<1>7. ASSUME NEW e \in Entries PROVE FlatMap(added[e], named) = ids[e]
  <2>1. CASE Added(e) = <<>>
    BY <2>1, <1>1, <1>3, AddedFacts, FlatMapEmpty
  <2>2. CASE Added(e) # <<>>
    <3>1. PICK n \in Names : Added(e) = <<n>> /\ Last(n) = e.id
      BY <2>2, AddedFacts
    <3>2. /\ <<>> \in Seq(Names) /\ <<n>> = Append(<<>>, n)
          /\ named[n] = Named(e.id) /\ named[n] \in Seq(STRING)
      BY <1>2, <3>1
    <3>3. FlatMap(Append(<<>>, n), named) = FlatMap(<<>>, named) \o named[n]
      BY <1>2, <3>2, FlatMapAppend
    <3>4. FlatMap(<<n>>, named) = <<>> \o named[n]
      BY <3>2, <3>3, FlatMapEmpty
    <3>5. <<>> \o named[n] = named[n]
      BY <3>2
    <3> QED
      BY <1>1, <1>3, <3>1, <3>2, <3>4, <3>5
  <2> QED
    BY <2>1, <2>2
<1> DEFINE Same == {s \in Seq(Entries) : FlatMap(FlatMap(s, added), named) = FlatMap(s, ids)}
<1>8. Same = Seq(Entries)
  <2>1. <<>> \in Same
    BY FlatMapEmpty
  <2>2. ASSUME NEW s \in Same, NEW e \in Entries PROVE Append(s, e) \in Same
    <3>1. s \in Seq(Entries) /\ FlatMap(FlatMap(s, added), named) = FlatMap(s, ids)
      OBVIOUS
    <3>2. FlatMap(Append(s, e), added) = FlatMap(s, added) \o added[e]
      BY <1>1, <3>1, FlatMapAppend
    <3>3. FlatMap(s, added) \in Seq(Names) /\ added[e] \in Seq(Names)
      BY <1>1, <3>1, FlatMapTyped
    <3>4. FlatMap(FlatMap(s, added) \o added[e], named)
            = FlatMap(FlatMap(s, added), named) \o FlatMap(added[e], named)
      BY <1>2, <3>3, FlatMapConcat
    <3>5. FlatMap(Append(s, e), ids) = FlatMap(s, ids) \o ids[e]
      BY <1>3, <3>1, FlatMapAppend
    <3>6. Append(s, e) \in Seq(Entries)
      BY <3>1
    <3> QED
      BY <1>7, <3>1, <3>2, <3>4, <3>5, <3>6
  <2>3. Same \in SUBSET Seq(Entries)
    OBVIOUS
  <2> HIDE DEF Same
  <2> QED
    BY <2>1, <2>2, <2>3, SeqSetInduction
<1> DEFINE more == FlattenSeq([i \in DOMAIN page |-> Added(page[i])])
<1>9. more = FlatMap(page, added)
  BY <1>4
<1>10. more \in Seq(Names)
  BY <1>1, <1>9, FlatMapTyped
<1>11. FlatMap(more, named) = FlatMap(page, ids)
  BY <1>8, <1>9
<1> HIDE DEF more
<1>12. out \o more \in Seq(Names)
  BY <1>10
<1>13. FlatMap(out \o more, named) = FlatMap(out, named) \o FlatMap(more, named)
  BY <1>2, <1>10, FlatMapConcat
<1>14. FlatMap(page, ids) \in Seq(STRING) /\ FlatMap(out, named) \in Seq(STRING)
  BY <1>2, <1>3, FlatMapTyped
<1>15. /\ ToldBy(out \o more) = ToldBy(out) \o Ids(page)
       /\ Ids(page) \in Seq(STRING) /\ ToldBy(out) \in Seq(STRING)
  BY <1>5, <1>6, <1>11, <1>12, <1>13, <1>14
<1> QED
  BY <1>12, <1>15 DEF more

\* What the pages up to one more offer.
LEMMA OfferedGrows ==
  ASSUME Catalogued, NEW k \in Nat, k < Len(catalogue.pages)
  PROVE  OfferedUpTo(k + 1) = OfferedUpTo(k) \o Ids(catalogue.pages[k + 1])
<1> DEFINE f == [i \in 1 .. k |-> Ids(catalogue.pages[i])]
           g == [i \in 1 .. k + 1 |-> Ids(catalogue.pages[i])]
<1>1. \A i \in 1 .. k + 1 : catalogue.pages[i] \in Seq(Entries)
  BY DEF Catalogued
<1>2. \A i \in 1 .. k + 1 : Ids(catalogue.pages[i]) \in Seq(STRING)
  <2>1. <<>> \in Seq(Names)
    OBVIOUS
  <2> QED
    BY <1>1, <2>1, PageTold
<1>3. f \in [1 .. k -> Seq(STRING)] /\ g \in [1 .. k + 1 -> Seq(STRING)]
      /\ (\A i \in 1 .. k : g[i] = f[i]) /\ g[k + 1] = Ids(catalogue.pages[k + 1])
  BY <1>2
<1> HIDE DEF f, g
<1>4. FlattenSeq(g) = FlattenSeq(f) \o g[k + 1]
  BY <1>3, FlattenGrows
<1> QED
  BY <1>3, <1>4 DEF f, g, OfferedUpTo

LEMMA ListingStarts == ListingInit => ListingInvariant
<1> SUFFICES ASSUME ListingInit PROVE ListingInvariant
  OBVIOUS
<1>1. Catalogued
  BY ListingAssumption DEF ListingInit, Catalogued
<1>2. fetched.out = <<>> /\ fetched.pages = 0 /\ token = 0 /\ result = "none"
  BY DEF ListingInit, Nothing, Init
<1>3. ToldBy(<<>>) = <<>> /\ OfferedUpTo(0) = <<>>
  <2>1. [i \in DOMAIN <<>> |-> Named(Last(<<>>[i]))] = <<>>
    OBVIOUS
  <2>2. [i \in 1 .. 0 |-> Ids(catalogue.pages[i])] = <<>>
    OBVIOUS
  <2> QED
    BY <2>1, <2>2, FlattenEmpty DEF ToldBy, OfferedUpTo
<1>4. OnTheWay
  BY <1>1, <1>2, <1>3 DEF OnTheWay, Catalogued
<1> QED
  BY <1>1, <1>2, <1>4 DEF ListingInvariant, ListingWhole

\* The page that arrives is the first, or the one after those fetched.
LEMMA PageFacts ==
  ASSUME Catalogued, OnTheWay
  PROVE  /\ Page \in 1 .. Len(catalogue.pages)
         /\ fetched.pages < Len(catalogue.pages) => Page = fetched.pages + 1
         /\ NextToken = IF Page < Len(catalogue.pages) THEN Page + 1 ELSE catalogue.last
         /\ WithPage.pages = fetched.pages + 1
         /\ WithPage.out \in Seq(Names)
         /\ fetched.pages < Len(catalogue.pages) =>
              ToldBy(WithPage.out) = OfferedUpTo(fetched.pages + 1)
<1>1. /\ Page \in 1 .. Len(catalogue.pages)
      /\ fetched.pages < Len(catalogue.pages) => Page = fetched.pages + 1
  BY DEF Catalogued, OnTheWay, Page
<1>2. catalogue.pages[Page] \in Seq(Entries)
  BY <1>1 DEF Catalogued
<1> DEFINE page == catalogue.pages[Page]
           more == FlattenSeq([i \in DOMAIN page |-> Added(page[i])])
<1>3. WithPage.pages = fetched.pages + 1 /\ WithPage.out = fetched.out \o more
  BY Zenon DEF WithPage
<1> HIDE DEF page
<1>4. /\ fetched.out \o more \in Seq(Names)
      /\ ToldBy(fetched.out \o more) = ToldBy(fetched.out) \o Ids(page)
  BY <1>2, PageTold DEF page, OnTheWay
<1> HIDE DEF more
<1>5. ASSUME fetched.pages < Len(catalogue.pages)
      PROVE  ToldBy(WithPage.out) = OfferedUpTo(fetched.pages + 1)
  <2>1. ToldBy(fetched.out) = OfferedUpTo(fetched.pages) /\ fetched.pages \in Nat
    BY <1>5 DEF OnTheWay
  <2>2. OfferedUpTo(fetched.pages + 1) = OfferedUpTo(fetched.pages) \o Ids(page)
    BY <1>1, <1>5, <2>1, OfferedGrows DEF page
  <2> QED
    BY <1>3, <1>4, <2>1, <2>2
<1> QED
  BY <1>1, <1>3, <1>4, <1>5 DEF NextToken

\* What is said of a listing in a state is said of its variables alone.
LEMMA ListingSame ==
  ASSUME UNCHANGED listing
  PROVE  /\ Catalogued => Catalogued'
         /\ OnTheWay => OnTheWay'
         /\ (ListingWhole /\ (result' = "ok" => result = "ok")) => ListingWhole'
<1>1. Catalogued => Catalogued'
  BY DEF listing, Catalogued
<1>2. OnTheWay => OnTheWay'
  BY DEF listing, OnTheWay, LeadsBack, OfferedUpTo, Ids, ToldBy
<1>3. (ListingWhole /\ (result' = "ok" => result = "ok")) => ListingWhole'
  BY DEF listing, ListingWhole, Told, Offered
<1> QED
  BY <1>1, <1>2, <1>3

LEMMA ListingStep == ListingInvariant /\ [ListingNext]_allVars => ListingInvariant'
<1> SUFFICES ASSUME ListingInvariant, [ListingNext]_allVars PROVE ListingInvariant'
  OBVIOUS
<1> USE DEF ListingInvariant
<1>1. CASE StartListing
  <2>1. /\ token' = 0 /\ fetched'.out = <<>> /\ fetched'.pages = 0 /\ result' = result
        /\ UNCHANGED <<provider, catalogue, models>>
    BY <1>1 DEF StartListing, RestartListing, Nothing, FirstAttempt, Wake, StartAttempt
  <2>2. Catalogued'
    BY <2>1 DEF Catalogued
  <2>3. ToldBy(<<>>) = <<>> /\ OfferedUpTo(0)' = <<>>
    <3>1. [i \in DOMAIN <<>> |-> Named(Last(<<>>[i]))] = <<>>
      OBVIOUS
    <3>2. [i \in 1 .. 0 |-> Ids(catalogue'.pages[i])] = <<>>
      OBVIOUS
    <3> QED
      BY <3>1, <3>2, FlattenEmpty DEF ToldBy, OfferedUpTo, Ids
  <2>4. OnTheWay'
    BY <2>1, <2>2, <2>3 DEF OnTheWay, Catalogued, ToldBy, OfferedUpTo
  <2>5. ListingWhole'
    BY <2>1 DEF ListingWhole, Told, Offered
  <2> QED
    BY <2>2, <2>4, <2>5
<1>2. CASE PageArrives
  <2>1. /\ ~ LastPage /\ fetched' = WithPage /\ token' = NextToken
        /\ UNCHANGED <<result, provider, catalogue, models>>
    BY <1>2 DEF PageArrives, vars
  <2>2. Catalogued'
    BY <2>1 DEF Catalogued
  <2>3. ListingWhole'
    BY <2>1 DEF ListingWhole, Told, Offered
  <2>4. /\ provider # "oai" /\ NextToken # 0 /\ (provider = "gemini" => NextToken # token)
    BY <2>1 DEF LastPage
  <2>5. \A k : OfferedUpTo(k)' = OfferedUpTo(k)
    BY <2>1 DEF OfferedUpTo, Ids
  <2>6. /\ fetched'.out \in Seq(Names) /\ fetched'.pages = fetched.pages + 1
        /\ fetched.pages < Len(catalogue.pages) =>
             ToldBy(fetched.out)' = OfferedUpTo(fetched.pages)'
    BY <2>1, <2>5, PageFacts DEF ToldBy, OfferedUpTo, Ids
  <2>7. OnTheWay'
    <3>1. /\ fetched.pages \in Nat /\ Len(catalogue.pages) \in Nat \ {0}
          /\ catalogue.last \in 0 .. Len(catalogue.pages) /\ token \in 0 .. Len(catalogue.pages)
      BY DEF Catalogued, OnTheWay
    <3>2. NextToken \in 1 .. Len(catalogue.pages)
      BY <2>4, <3>1, PageFacts
    <3>3. CASE fetched.pages >= Len(catalogue.pages)
      <4>1. LeadsBack
        BY <3>1, <3>3 DEF OnTheWay
      <4>2. LeadsBack'
        BY <4>1, <2>1, <2>4 DEF LeadsBack
      <4>3. ~ (fetched'.pages < Len(catalogue'.pages))
        BY <2>1, <2>6, <3>1, <3>3
      <4> QED
        BY <2>1, <2>6, <3>1, <3>2, <4>2, <4>3 DEF OnTheWay
    <3>4. CASE fetched.pages + 1 = Len(catalogue.pages)
      <4>1. Page = Len(catalogue.pages) /\ NextToken = catalogue.last
        BY <3>1, <3>4, PageFacts
      <4>2. (token = 0 /\ Len(catalogue.pages) = 1) \/ token = Len(catalogue.pages)
        <5>1. fetched.pages < Len(catalogue.pages)
          BY <3>1, <3>4
        <5>2. token = IF fetched.pages = 0 THEN 0 ELSE fetched.pages + 1
          BY <5>1 DEF OnTheWay
        <5>3. CASE fetched.pages = 0
          BY <3>4, <5>2, <5>3
        <5>4. CASE fetched.pages # 0
          BY <3>4, <5>2, <5>4
        <5> QED
          BY <5>3, <5>4
      <4>3. LeadsBack'
        BY <2>1, <2>4, <4>1, <4>2 DEF LeadsBack
      <4>4. ~ (fetched'.pages < Len(catalogue'.pages))
        BY <2>1, <2>6, <3>1, <3>4
      <4> QED
        BY <2>1, <2>6, <3>1, <3>2, <4>3, <4>4 DEF OnTheWay
    <3>5. CASE fetched.pages + 1 < Len(catalogue.pages)
      <4>1. Page = fetched.pages + 1 /\ NextToken = Page + 1
        BY <3>1, <3>5, PageFacts
      <4>2. token' = fetched'.pages + 1 /\ fetched'.pages # 0 /\ fetched'.pages \in Nat
        BY <2>1, <2>6, <3>1, <4>1
      <4>3. ToldBy(fetched.out)' = OfferedUpTo(fetched.pages)'
        BY <2>6, <3>1, <3>5
      <4>4. fetched'.pages < Len(catalogue'.pages)
        BY <2>1, <2>6, <3>5
      <4>5. token' \in 0 .. Len(catalogue'.pages)
        BY <2>1, <3>1, <3>2
      <4> QED
        BY <2>6, <4>2, <4>3, <4>4, <4>5 DEF OnTheWay
    <3> QED
      BY <3>1, <3>3, <3>4, <3>5
  <2> QED
    BY <2>2, <2>3, <2>7
<1>3. CASE LastPageArrives
  <2>1. /\ LastPage /\ result' = "ok" /\ models' = WithPage.out
        /\ UNCHANGED <<provider, catalogue, token, fetched>>
    BY <1>3 DEF LastPageArrives, Succeed, Return
  <2>2. Catalogued'
    BY <2>1 DEF Catalogued
  <2>3. OnTheWay'
    BY <2>1 DEF OnTheWay, LeadsBack, OfferedUpTo, Ids, ToldBy
  <2>4. ASSUME ~ (Len(catalogue.pages) = 1 /\ catalogue.last = 1)
        PROVE  /\ ToldBy(WithPage.out) = OfferedUpTo(Len(catalogue.pages))
               /\ provider # "oai" => catalogue.last \in {0, Len(catalogue.pages)}
    <3>1. /\ fetched.pages \in Nat /\ Len(catalogue.pages) \in Nat \ {0}
          /\ catalogue.last \in 0 .. Len(catalogue.pages) /\ token \in 0 .. Len(catalogue.pages)
          /\ provider = "oai" => Len(catalogue.pages) = 1
      BY DEF Catalogued, OnTheWay
    <3>2. provider = "oai" \/ NextToken = 0 \/ (provider = "gemini" /\ NextToken = token)
      BY <2>1 DEF LastPage
    <3>3. fetched.pages < Len(catalogue.pages)
      <4> SUFFICES ASSUME ~ (fetched.pages < Len(catalogue.pages)) PROVE FALSE
        OBVIOUS
      <4>1. LeadsBack
        BY DEF OnTheWay
      <4>2. Page = token /\ provider # "oai" /\ catalogue.last # 0
        BY <4>1 DEF LeadsBack, Page
      <4>3. NextToken = IF token < Len(catalogue.pages) THEN token + 1 ELSE catalogue.last
        BY <4>2, PageFacts
      <4>4. NextToken # 0
        BY <3>1, <4>2, <4>3
      <4>5. provider = "gemini" /\ NextToken = token
        BY <3>2, <4>2, <4>4
      <4>6. token = Len(catalogue.pages) /\ catalogue.last = Len(catalogue.pages)
        BY <3>1, <4>3, <4>5
      <4> QED
        BY <2>4, <4>1, <4>5, <4>6 DEF LeadsBack
    <3>4. Page = fetched.pages + 1
      BY <3>3, PageFacts
    <3>5. (token = 0 /\ fetched.pages = 0) \/ token = Page
      BY <3>1, <3>3, <3>4 DEF OnTheWay
    <3>6. Page = Len(catalogue.pages) /\ (provider # "oai" => catalogue.last \in {0, Page})
      <4>1. /\ Page \in 1 .. Len(catalogue.pages)
            /\ NextToken = IF Page < Len(catalogue.pages) THEN Page + 1 ELSE catalogue.last
        BY PageFacts
      <4>2. CASE provider = "oai"
        <5>1. Len(catalogue.pages) = 1
          BY <3>1, <4>2
        <5>2. Page = 1
          BY <4>1, <5>1
        <5> QED
          BY <4>2, <5>1, <5>2
      <4>3. CASE NextToken = 0
        BY <3>1, <4>1, <4>3
      <4>4. CASE provider # "oai" /\ NextToken = token
        BY <3>1, <3>5, <4>1, <4>4
      <4> QED
        BY <3>2, <4>2, <4>3, <4>4
    <3> QED
      BY <3>3, <3>4, <3>6, PageFacts
  <2>5. OfferedUpTo(Len(catalogue.pages)) = Offered
    <3>1. DOMAIN catalogue.pages = 1 .. Len(catalogue.pages)
      BY DEF Catalogued
    <3> QED
      BY <3>1 DEF OfferedUpTo, Offered
  <2>6. ListingWhole'
    <3>1. Told' = ToldBy(WithPage.out)
      BY <2>1 DEF Told, ToldBy
    <3>2. Offered' = Offered
      BY <2>1 DEF Offered
    <3> QED
      BY <2>1, <2>4, <2>5, <3>1, <3>2 DEF ListingWhole
  <2> QED
    BY <2>2, <2>3, <2>6
<1>4. CASE PageFails
  BY <1>4, ListingSame DEF PageFails, FailForGood, FailAndWait, GiveUp, Return
<1>5. CASE ContextChanges
  BY <1>5, ListingSame DEF ContextChanges, AttemptExpires, CallerDone
<1>6. CASE WaitEnds
  BY <1>6, ListingSame DEF WaitEnds, StopWaiting, Return
<1>7. CASE UNCHANGED allVars
  BY <1>7, ListingSame DEF allVars, vars
<1> QED
  BY <1>1, <1>2, <1>3, <1>4, <1>5, <1>6, <1>7 DEF ListingNext

\* A listing that succeeds is whole, for any catalogue, any number of pages and
\* whichever attempts failed before.
THEOREM CatalogueWhole == ListingSpec => []ListingWhole
<1>1. ListingInvariant => ListingWhole
  BY DEF ListingInvariant
<1> QED
  BY <1>1, ListingStarts, ListingStep, PTL DEF ListingSpec
=============================================================================
