SPECIFICATION FairSpec
CONSTANTS
  HalfWord = 8
  MaxShift = 1
  DefaultPolicy <- MCDefaultPolicy
  RetryOptions = {0}
  DelayOptions <- MCDelayOptions
  CapOptions = {1}
  TimeoutOptions = {1}
  Outcomes <- MCOutcomes
PROPERTIES
  StreamBoundedByAttemptTimeout
CHECK_DEADLOCK FALSE
