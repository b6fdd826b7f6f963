\* One family and then another are built, and both are compacted or imported.
\* The program ends with its import: no deadlock check.
SPECIFICATION FairSpec
CONSTANTS
  N = 3
  Capacity = 11
  Arguments <- SmallArguments
  Maps <- AllMaps
  Destinations <- SomeDestinations
INVARIANTS
  TypeOK
  FamiliesAsAsked
  ChildrenBelow
  NodeLimitsExact
  ImportExact
PROPERTIES
  CallsReturn
CHECK_DEADLOCK FALSE
