SPECIFICATION TelemetrySpec
CONSTANTS
  t1 = t1
  t2 = t2
  k = k
  c1 = c1
  c2 = c2
  none = none
  nil = nil
  u = u
  Content <- MCContent
  Dones <- MCDones
  NoUsage = none
  NilUsage = nil
  Counts <- MCCounts
  Failures <- MCFailures
  MaxAttempts = 2
  MaxEvents = 4
INVARIANTS
  ReportedOnce
  ReportTruthful
  CollectFaithful
  RecordedOnce
\* a stream that has ended makes no further step
CHECK_DEADLOCK FALSE
