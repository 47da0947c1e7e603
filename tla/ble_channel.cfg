SPECIFICATION Spec
CONSTANTS
  Callers = {t1}
  Commands <- MCCommands
  Answer <- MCAnswer
  MtuReplies <- MCMtuReplies
  Strays <- MCStrays
  U16Max = 11
  MaxCalls = 3
  MaxStrays = 1
  MaxLost = 1
PROPERTIES
  ImplementsChannel
