SPECIFICATION FairSpec
CONSTANTS
  HidCallers = {h}
  BleCallers = {b}
  OtherApps <- MCOtherApps
  MaxCalls = 3
  MaxUserSteps = 1
INVARIANTS
  TypeOK
  OkMeansNearRan
  NoOpIfNearRuns
  UnhinderedCallOpens
PROPERTIES
  EveryCallReturns
