SPECIFICATION Spec
CONSTANTS
  HidCallers = {h}
  BleCallers = {b}
  OtherApps <- MCOtherApps
  MaxCalls = 2
  MaxUserSteps = 0
INVARIANTS
  MirrorsHid
