\* Every operation on every pair of families over two variables, one at a time.
\* A behaviour ends when the calls of the model are used up: no deadlock check.
SPECIFICATION FairSpec
CONSTANTS
  N = 2
  Thread = {t1}
  Seeds <- AllFamilies
  Droppable = {}
  CallOps <- Ops
  MaxCalls = 1
  MemoLimit = 3
  CacheCapacity = 2
  NodeCapacity = 20
  RootLess <- CodeLess
INVARIANTS
  TypeOK
  OutcomeExact
  ExpectedResultsPresent
  MemoLimitNotSpurious
CHECK_DEADLOCK FALSE
