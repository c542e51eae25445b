SPECIFICATION FairRequestSpec
CONSTANTS
  Content <- MCContent
  Dones = {"done"}
  Unmarshalable = {"badTool"}
  MaxForwarded = 3
  MaxBeats = 2
INVARIANTS
  ResponseExclusive
  ForwardedInOrder
  TerminalFrameSent
  UpstreamReleased
PROPERTIES
  HandlerReturns
\* a handler that has returned makes no further step
CHECK_DEADLOCK FALSE
