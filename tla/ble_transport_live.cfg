SPECIFICATION FairSpec
CONSTANTS
  Callers = {t1, t2}
  Commands <- MCCommands
  Answer <- MCLongAnswer
  MtuReplies <- MCMtuReplies
  Strays <- MCStrays
  U16Max = 8
  MaxCalls = 2
  MaxStrays = 1
  MaxLost = 0
PROPERTIES
  OkLeavesQuiet
  EveryExchangeReturns
  ReceiversReturn
