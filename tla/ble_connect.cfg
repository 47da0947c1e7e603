SPECIFICATION Spec
CONSTANTS
  Tasks = {t1, t2}
  Peripherals <- MCPeripherals
  NAdapters = 2
  AdapterOf <- MCAdapterOf
  Advertised <- MCAdvertised
  Characteristics <- MCCharacteristics
  Speaks <- MCSpeaks
  MtuReply <- MCMtuReply
  Strays <- MCStrays
  Cached <- MCCached
  MaxCalls = 2
  MaxFaults = 1
  MaxStrays = 1
SYMMETRY Group
INVARIANTS
  TypeOK
  UnhinderedConnectSucceeds
  MtuIsTheDevices
  ScanLeftOnlyByFault
