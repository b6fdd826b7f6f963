\* Graphs over four vertices whose strategies may return orders of larger graphs.
\* The program ends with its space: no deadlock check.
SPECIFICATION Spec
CONSTANTS
  V = 4
  MaxEdges = 2
  Inputs <- SmallInputs
  Listings <- SmallListings
  Foreign <- SmallForeign
  Capacities = {100}
INVARIANTS
  NeverPanics
CHECK_DEADLOCK FALSE
