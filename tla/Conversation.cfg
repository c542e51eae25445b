SPECIFICATION Spec
CONSTANTS
  UserTurns <- MCUserTurns
  ChatTurns <- MCChatTurns
  Replies <- MCReplies
  Outputs <- MCOutputs
  Plainest <- MCPlainest
  Wishes <- MCWishes
  MaxMessages = 5
  MaxWished = 1
  MaxTokensField = "max_completion_tokens"
  Dotted <- MCDotted
INVARIANTS
  TurnsCarried
  ResultsReachTheirCalls
  AppendedTurnsAccepted
  SettingsCarried
  OptionsCarried
\* a caller may stop at any turn
CHECK_DEADLOCK FALSE
