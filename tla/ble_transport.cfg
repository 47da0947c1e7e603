SPECIFICATION Spec
CONSTANTS
  Callers = {t1, t2}
  Commands <- MCCommands
  Answer <- MCAnswer
  MtuReplies <- MCMtuReplies
  Strays <- MCStrays
  U16Max = 8
  MaxCalls = 3
  MaxStrays = 1
  MaxLost = 1
SYMMETRY Tasks
INVARIANTS
  TypeOK
  OwnAnswer
  DeviceInSync
  SeqIndexNeverWraps
  PacketsFitMtu
PROPERTIES
  SendMovesOn
