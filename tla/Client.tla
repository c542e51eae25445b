------------------------------- MODULE Client -------------------------------
(***************************************************************************)
(* One call on a skyl.Client: Complete, Stream (up to the handshake; what  *)
(* happens to the stream afterwards is ObservedStream's) or Models. The    *)
(* three share one loop and differ in validation, in the per-attempt       *)
(* timeout and in one early return (skyl.go).                              *)
(*                                                                         *)
(* A Client keeps no state between calls beyond its options, so one call   *)
(* stands for any number of concurrent ones. Around the call run the       *)
(* caller's context, the attempt's own deadline and the backoff timer;     *)
(* each may fire between any two steps.                                    *)
(***************************************************************************)
EXTENDS RetryPolicy, Sequences

CONSTANTS
  RetryOptions,    \* arguments WithMaxRetries is called with
  DelayOptions,    \* pairs WithRetryDelay is called with
  CapOptions,      \* arguments WithRetryAfterCap is called with
  TimeoutOptions,  \* arguments WithTimeout is called with
  Outcomes         \* what a provider may answer besides a context error

ASSUME ClientAssumption ==
  /\ RetryOptions \subseteq Int
  /\ DelayOptions \subseteq Int \X Int
  /\ \A d \in DelayOptions : d[1] < HalfWord /\ d[2] < HalfWord - 1
  /\ CapOptions \subseteq Int
  /\ \A c \in CapOptions : c < HalfWord
  /\ TimeoutOptions \subseteq Int
  /\ Outcomes \subseteq ErrorType

VARIABLES
  policy,     \* Client.policy
  timeout,    \* Client.timeout; not positive: none
  op,         \* which method was called
  pc,         \* start, call (provider called), sleep (backoff), returned
  attempt,    \* the loop variable
  ctxDone,    \* the caller's context is cancelled or past its deadline
  expired,    \* the running attempt's own deadline has passed
  lastErr,    \* the loop's lastErr
  delay,      \* the backoff being slept
  result,     \* how the method returned
  hooks,      \* every event the hooks were given, in order
  calls,      \* history: provider calls started
  late,       \* history: provider calls started after the caller was done
  waited      \* history: the sum of the delays slept

vars == <<policy, timeout, op, pc, attempt, ctxDone, expired, lastErr, delay,
          result, hooks, calls, late, waited>>

config == <<policy, timeout, op>>

Ops     == {"complete", "stream", "models"}
Results == {"none", "ok", "invalid", "error", "waiting", "gaveUp"}

HookType == [op : Ops, attempt : Nat, err : ErrorType]

TypeOK ==
  /\ policy \in PolicyType
  /\ timeout \in Int
  /\ op \in Ops
  /\ pc \in {"start", "call", "sleep", "returned"}
  /\ attempt \in 0 .. policy.maxRetries
  /\ ctxDone \in BOOLEAN
  /\ expired \in BOOLEAN
  /\ lastErr \in ErrorType
  /\ delay \in 0 .. HalfWord - 1
  /\ result \in Results
  /\ hooks \in Seq(HookType)
  /\ calls \in Nat
  /\ late \in Nat
  /\ waited \in Nat

-----------------------------------------------------------------------------
(* New: the defaults with the options applied over them.                   *)

Configured(n, d, c) ==
  WithRetryAfterCap(WithRetryDelay(WithMaxRetries(DefaultPolicy, n), d[1], d[2]), c)

Init ==
  /\ \E n \in RetryOptions, d \in DelayOptions, c \in CapOptions :
       policy = Configured(n, d, c)
  /\ timeout \in TimeoutOptions
  /\ op \in Ops
  /\ pc = "start"
  /\ attempt = 0
  /\ ctxDone \in BOOLEAN
  /\ expired = FALSE
  /\ lastErr = NoError
  /\ delay = 0
  /\ result = "none"
  /\ hooks = <<>>
  /\ calls = 0
  /\ late = 0
  /\ waited = 0

-----------------------------------------------------------------------------
(* The pieces the three loops share.                                       *)

Return(r) == pc' = "returned" /\ result' = r

StartAttempt ==
  /\ pc' = "call"
  /\ expired' = FALSE
  /\ calls' = calls + 1
  /\ late' = IF ctxDone THEN late + 1 ELSE late
  /\ UNCHANGED result

\* Mutant: a failure that will be retried is not reported.
EmitFinalOnly(e) ==
  hooks' = IF ShouldRetry(e) /\ attempt < policy.maxRetries THEN hooks
           ELSE Append(hooks, [op |-> op, attempt |-> attempt, err |-> e])

Emit(e) == hooks' = Append(hooks, [op |-> op, attempt |-> attempt, err |-> e])

\* Mutant: the caller's context is not looked at after a failure.
StopsIgnoringContext(e) == ~ ShouldRetry(e) \/ (op = "models" /\ IsUnsupported(e))

\* The early return after a failed attempt.
Stops(e) ==
  \/ ~ ShouldRetry(e)
  \/ ctxDone
  \/ op = "models" /\ IsUnsupported(e)

\* withTimeout: Complete and Models only. A stream outlives its handshake.
AttemptHasDeadline == op # "stream" /\ timeout > 0

\* Mutant: the attempt's context is not derived from the caller's.
ProviderContextDetached == expired

\* What the provider sees of the caller: a child of the caller's context, or
\* for Stream that context itself.
ProviderContextDone == ctxDone \/ expired

-----------------------------------------------------------------------------
(* Actions.                                                                *)

\* Complete and Stream validate the request before anything else.
Reject ==
  /\ pc = "start"
  /\ op \in {"complete", "stream"}
  /\ Return("invalid")
  /\ UNCHANGED <<config, attempt, ctxDone, expired, lastErr, delay, hooks, calls, late, waited>>

FirstAttempt ==
  /\ pc = "start"
  /\ StartAttempt
  /\ UNCHANGED <<config, attempt, ctxDone, lastErr, delay, hooks, waited>>

\* The provider answers: an adapter may return the context's error only when
\* the context it was given is done. The hooks run before the verdict.
Answers(e) ==
  \/ e \in Outcomes
  \/ e = TransportError("ctx") /\ ProviderContextDone

Succeed ==
  /\ pc = "call"
  /\ Emit(NoError)
  /\ Return("ok")
  /\ UNCHANGED <<config, attempt, ctxDone, expired, lastErr, delay, calls, late, waited>>

FailForGood(e) ==
  /\ pc = "call"
  /\ e.class # "none"
  /\ Answers(e)
  /\ Stops(e)
  /\ Emit(e)
  /\ lastErr' = e
  /\ Return("error")
  /\ UNCHANGED <<config, attempt, ctxDone, expired, delay, calls, late, waited>>

\* Mutant: one retry too many.
RetriesLeftOffByOne == attempt <= policy.maxRetries

RetriesLeft == attempt < policy.maxRetries

FailAndWait(e) ==
  /\ pc = "call"
  /\ e.class # "none"
  /\ Answers(e)
  /\ ~ Stops(e)
  /\ RetriesLeft
  /\ Emit(e)
  /\ lastErr' = e
  /\ attempt' = attempt + 1
  /\ \E d \in Backoff(policy, attempt, RetryAfterFrom(e)) :
       delay' = d /\ waited' = waited + d
  /\ pc' = "sleep"
  /\ UNCHANGED <<config, ctxDone, expired, result, calls, late>>

GiveUp(e) ==
  /\ pc = "call"
  /\ e.class # "none"
  /\ Answers(e)
  /\ ~ Stops(e)
  /\ ~ RetriesLeft
  /\ Emit(e)
  /\ lastErr' = e
  /\ Return("gaveUp")
  /\ UNCHANGED <<config, attempt, ctxDone, expired, delay, calls, late, waited>>

\* The timer fires. When the context is done too, select picks either case;
\* a delay of zero starts no timer and looks at the context alone.
Wake ==
  /\ pc = "sleep"
  /\ delay > 0 \/ ~ ctxDone
  /\ StartAttempt
  /\ UNCHANGED <<config, attempt, ctxDone, lastErr, delay, hooks, waited>>

StopWaiting ==
  /\ pc = "sleep"
  /\ ctxDone
  /\ Return("waiting")
  /\ UNCHANGED <<config, attempt, ctxDone, expired, lastErr, delay, hooks, calls, late, waited>>

\* The attempt's own deadline passes while the provider works.
AttemptExpires ==
  /\ pc = "call"
  /\ AttemptHasDeadline
  /\ ~ expired
  /\ expired' = TRUE
  /\ UNCHANGED <<config, pc, attempt, ctxDone, lastErr, delay, result, hooks, calls, late, waited>>

CallerDone ==
  /\ pc # "returned"
  /\ ~ ctxDone
  /\ ctxDone' = TRUE
  /\ UNCHANGED <<config, pc, attempt, expired, lastErr, delay, result, hooks, calls, late, waited>>

\* What the provider may answer, the context's own error among it.
Failures == Outcomes \cup {TransportError("ctx")}

ProviderAnswers ==
  \/ Succeed
  \/ \E e \in Failures : FailForGood(e) \/ FailAndWait(e) \/ GiveUp(e)

Next ==
  \/ Reject
  \/ FirstAttempt
  \/ ProviderAnswers
  \/ Wake
  \/ StopWaiting
  \/ AttemptExpires
  \/ CallerDone

Spec == Init /\ [][Next]_vars

(***************************************************************************)
(* Fairness: the goroutine running the call is scheduled, timers fire, and *)
(* an adapter returns once a context it was given is done, because every   *)
(* request it makes is bound to that context. A provider that merely hangs *)
(* owes no answer, and a caller need never cancel.                         *)
(***************************************************************************)
Fairness ==
  /\ WF_vars(Reject \/ FirstAttempt)
  /\ WF_vars(Wake \/ StopWaiting)
  /\ WF_vars(AttemptExpires)
  /\ WF_vars(ProviderContextDone /\ ProviderAnswers)

FairSpec == Spec /\ Fairness

-----------------------------------------------------------------------------
(* Properties.                                                             *)

Finished == IF pc = "call" THEN calls - 1 ELSE calls

\* Every attempt that ended was reported to the hooks exactly once, in order,
\* under its own zero-based number; nothing else was (HookEvent, emit).
OneHookPerAttempt ==
  /\ Len(hooks) = Finished
  /\ \A i \in 1 .. Len(hooks) : hooks[i].attempt = i - 1 /\ hooks[i].op = op

\* Quota is never spent on a failure that another attempt cannot cure: every
\* attempt that was followed by another failed for a retryable reason, and a
\* success is never followed by anything (shouldRetry).
OnlyCurableFailuresRetried ==
  \A i \in 1 .. calls - 1 :
    /\ i <= Len(hooks)
    /\ ShouldRetry(hooks[i].err)
    /\ hooks[i].err.class \notin {"cert", "ctx", "none"}
    /\ op = "models" => ~ IsUnsupported(hooks[i].err)

\* The way a call returned agrees with what its last attempt reported: no
\* success after a failure, "giving up" only with the whole budget spent on
\* curable failures, "waiting to retry" only for a caller that was done.
ResultExplained ==
  /\ result = "ok" => hooks # <<>> /\ hooks[Len(hooks)].err = NoError
  /\ result \in {"error", "gaveUp"} =>
       hooks # <<>> /\ hooks[Len(hooks)].err = lastErr /\ lastErr.class # "none"
  /\ result = "error" =>
       ctxDone \/ ~ ShouldRetry(lastErr) \/ (op = "models" /\ IsUnsupported(lastErr))
  /\ result = "gaveUp" => calls = policy.maxRetries + 1 /\ ShouldRetry(lastErr)
  /\ result = "waiting" => ctxDone /\ calls <= policy.maxRetries
  /\ result = "invalid" => calls = 0 /\ op # "models"

\* A caller that is done costs at most one more provider call, however many
\* retries are left: the select in sleep may prefer the timer once, and the
\* check after the attempt ends the loop.
AtMostOneLateCall == late <= 1

\* A retry never comes earlier than the provider asked, up to the cap, even
\* when the cap exceeds the jitter ceiling, and the provider can never hold
\* the call longer than the policy allows (backoff).
HintHonoured ==
  pc = "sleep" =>
    /\ RetryAfterFrom(lastErr) > 0 =>
         delay >= ShorterOf(RetryAfterFrom(lastErr), policy.retryAfterCap)
    /\ delay \in 0 .. LongestDelay(policy)

\* The whole sequence waits no longer than the policy's longest delay times
\* the retries made, whatever hints the provider sends.
WaitBounded == waited <= attempt * LongestDelay(policy)

\* The call implements what it promises its caller.
Phase == CASE pc = "start"    -> "idle"
           [] pc = "call"     -> "trying"
           [] pc = "sleep"    -> "between"
           [] pc = "returned" -> "closed"

Promise == INSTANCE CallSpec WITH
             budget <- policy.maxRetries + 1, tries <- calls, phase <- Phase,
             cancelled <- ctxDone, verdict <- result

KeepsPromise == Promise!Spec

\* A unary call with an attempt timeout returns without the caller's help,
\* even when the provider never answers (WithTimeout); and a caller that is
\* done gets any call back.
CallReturns == ((op # "stream" /\ timeout > 0) \/ ctxDone) ~> (pc = "returned")

\* The loop's own bookkeeping, and what it makes true of the history: the
\* inductive invariant behind the properties above. The number of provider
\* calls follows the loop variable, which FailAndWait advances before the
\* backoff; a late call is the last one; and the failure being slept on is
\* the last one reported.
LoopInvariant ==
  /\ result = "none" <=> pc # "returned"
  /\ pc = "start" => calls = 0 /\ attempt = 0
  /\ pc = "call" => calls = attempt + 1
  /\ pc = "sleep" =>
       /\ calls = attempt
       /\ hooks # <<>>
       /\ hooks[Len(hooks)].err = lastErr
       /\ ShouldRetry(lastErr)
       /\ op = "models" => ~ IsUnsupported(lastErr)
  /\ pc = "returned" => calls <= attempt + 1
  /\ late = 0 \/ (late = 1 /\ ctxDone /\ pc \in {"call", "returned"})

SafetyInvariant ==
  /\ TypeOK
  /\ LoopInvariant
  /\ OneHookPerAttempt
  /\ OnlyCurableFailuresRetried
  /\ ResultExplained
  /\ HintHonoured
  /\ WaitBounded

\* docs/gateway.md says that the attempt timeout bounds a streaming call.
StreamBoundedByAttemptTimeout == (op = "stream" /\ timeout > 0) ~> (pc = "returned")
=============================================================================
