SPECIFICATION Spec
CONSTANTS
  Paths = {"44'/397'"}
  Requests = {"r2", "r3"}
  ChunksOf <- MCChunksOf
  ErrorCodes <- MCErrorCodes
  Commands <- AllCommands
  Answers <- AppAnswers
  MaxCalls = 3
INVARIANTS
  TypeOK
  InStepMeansOwn
  KeyCallsOnlyGetKeys
