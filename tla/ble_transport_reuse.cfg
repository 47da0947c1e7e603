SPECIFICATION SlowDeviceSpec
CONSTANTS
  Callers = {t1}
  Commands <- MCCommands
  Answer <- MCAnswer
  MtuReplies <- MCMtuReplies
  Strays <- MCStrays
  U16Max = 8
  MaxCalls = 2
  MaxStrays = 0
  MaxLost = 0
INVARIANTS
  AnswersBelongToCalls
