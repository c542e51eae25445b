SPECIFICATION FairSpec
CONSTANTS
  HalfWord = 8
  MaxShift = 1
  DefaultPolicy <- MCDefaultPolicy
  RetryOptions <- MCRetryOptions
  DelayOptions <- MCDelayOptions
  CapOptions <- MCCapOptions
  TimeoutOptions <- MCTimeoutOptions
  Outcomes <- MCOutcomes
INVARIANTS
  OneHookPerAttempt
  OnlyCurableFailuresRetried
  ResultExplained
  AtMostOneLateCall
  HintHonoured
  WaitBounded
PROPERTIES
  KeepsPromise
  CallReturns
\* a call that has returned makes no further step
CHECK_DEADLOCK FALSE
