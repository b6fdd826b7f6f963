\* Graphs over five vertices, with every strategy.
\* The program ends with its space: no deadlock check.
SPECIFICATION Spec
CONSTANTS
  V = 5
  MaxEdges = 4
  Inputs <- SmallInputs
  Listings <- SmallListings
  Foreign <- SmallForeign
  Capacities = {5, 100}
INVARIANTS
  AcceptsExactly
  BreadthFirst
  MapsInverse
CHECK_DEADLOCK FALSE
