SPECIFICATION Spec
CONSTANTS
  None = None
  NumWords = 2
  Inputs <- ShortInputs
  MaxMappers = 3
  MaxReducers = 2
CHECK_DEADLOCK FALSE
INVARIANTS
  TypeOK
  SplitKeepsLines
  PartsHoldPairs
  NothingInvented
  ReducedToAnswer
  FinalIsAnswer
