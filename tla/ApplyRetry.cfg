\* A call that fails at the memo limit is repeated with a warm shared cache.
\* A behaviour ends when the calls of the model are used up: no deadlock check.
SPECIFICATION FairSpec
CONSTANTS
  N = 3
  Thread = {t1}
  Seeds <- PairSeeds
  Droppable = {}
  CallOps = {"union"}
  MaxCalls = 3
  MemoLimit = 3
  CacheCapacity = 8
  NodeCapacity = 20
  RootLess <- CodeLess
INVARIANTS
  SuccessIndependentOfCache
CHECK_DEADLOCK FALSE
