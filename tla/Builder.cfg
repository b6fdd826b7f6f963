\* The problems on every small graph in every edge order; limits around what
\* the builds need, requested limits, and a token cancelled at any moment.
\* A build stops when it has returned: no deadlock check.
SPECIFICATION FairSpec
CONSTANTS
  V = 6
  MaxEdges = 4
  Orders <- MostOrders
  Problems <- AllProblems
  Settings <- SettingsFor
  InitialState <- InitialOf
  Transition <- TransitionOf
  TransitionFails <- TransitionFailsOf
  Canonicalize <- CanonicalOf
  Finalize <- FinalizeOf
  FinalizeFails <- FinalizeFailsOf
  Accepts <- AcceptsOf
  Refuses <- RefusesOf
INVARIANTS
  PlanTypeOK
  SlotsNeverShared
  SlotsAccountedFor
  StepsDescribeGraph
  TypeOK
  EqualStatesEqualSuffixes
  RunsDecide
  LimitsExact
  StatsAgree
  CancelStopsWork
PROPERTIES
  ImplementsBuildCalls
CHECK_DEADLOCK FALSE
