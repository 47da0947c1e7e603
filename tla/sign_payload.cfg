SPECIFICATION FairSpec
CONSTANTS
  HidCallers = {h}
  BleCallers = {b}
  Requests <- MCRequests
  ChunkSize = 3
  MaxCalls = 3
INVARIANTS
  TypeOK
  SignedIsWhatWasAsked
  AppHoldsWhatWasSent
  OutcomeAccountsForSignature
  LoopKeepsCount
  SentInSyncWithPrinted
  UnableMeansEmpty
PROPERTIES
  ImplementsService
  EveryCallReturns
