SPECIFICATION Spec
CONSTANTS
  Tasks = {t1}
  Peripherals <- MCPeripherals
  NAdapters = 2
  AdapterOf <- MCAdapterOf
  Advertised <- MCAdvertised
  Characteristics <- MCCharacteristics
  Speaks <- MCSpeaks
  MtuReply <- MCMtuReply
  Strays <- MCStrays
  Cached <- MCCached
  MaxCalls = 2
  MaxFaults = 0
  MaxStrays = 1
INVARIANTS
  NewTakesAvailable
