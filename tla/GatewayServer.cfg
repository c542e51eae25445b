SPECIFICATION EnvSpec
CONSTANTS
  r1 = r1
  r2 = r2
  Requests <- MCRequests
  Configs <- MCConfigs
  Tokens <- MCTokens
  Environments <- MCEnvironments
  HalfWord = 16
  MaxShift = 1
  DefaultPolicy <- MCDefaultPolicy
  DefaultTimeout = 8
  DefaultLimits <- MCDefaultLimits
INVARIANTS
  TokenDecides
  OrderlyStop
  EnvironmentDecides
PROPERTIES
  SignalEnds
  RequestsReleased
\* an exited process makes no further step
CHECK_DEADLOCK FALSE
