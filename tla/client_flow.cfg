SPECIFICATION Spec
CONSTANTS
  Ledgers = {"mine", "yours"}
  Paths = {"44'/397'/0'/0'/0'", "44'/397'/0'/0'/1'"}
  MaxRuns = 2
INVARIANTS
  TypeOK
  OkMeansOneDevice
  UndisturbedNeverPanics
