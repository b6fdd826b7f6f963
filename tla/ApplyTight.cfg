\* Two threads share a cache of two entries and a store that can fill up; both
\* limits are hit, handles are dropped and nodes are collected.
\* A behaviour ends when the calls of the model are used up: no deadlock check.
SPECIFICATION FairSpec
CONSTANTS
  N = 3
  Thread = {t1, t2}
  Seeds <- PairSeeds
  Droppable <- DropLeft
  CallOps = {"union", "difference"}
  MaxCalls = 3
  MemoLimit = 4
  CacheCapacity = 2
  NodeCapacity = 12
  RootLess <- CodeLess
INVARIANTS
  TablesExact
  CacheTablesAgree
  HeldNodesLive
PROPERTIES
  ImplementsFamilyCalls
CHECK_DEADLOCK FALSE
