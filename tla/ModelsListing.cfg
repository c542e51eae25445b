SPECIFICATION ListingSpec
CONSTANTS
  HalfWord = 8
  MaxShift = 1
  DefaultPolicy <- MCDefaultPolicy
  RetryOptions <- MCRetryOptions
  DelayOptions <- MCDelayOptions
  CapOptions = {0}
  TimeoutOptions = {0, 1}
  Outcomes <- MCOutcomes
  Catalogues <- MCCatalogues
  MaxPages = 4
INVARIANTS
  ListingWhole
PROPERTIES
  ListingReturns
\* a call that has returned makes no further step
CHECK_DEADLOCK FALSE
