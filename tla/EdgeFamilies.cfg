\* Three calls on two spaces of the triangle, beside an iterator.
\* The program makes no further call: no deadlock check.
SPECIFICATION FairSpec
CONSTANTS
  N = 3
  Spaces <- TwoSpaces
  EdgeLists <- SomeLists
  SetLists <- SomeSetLists
  Solutions <- TriangleSolutions
  Ranges <- SomeRanges
  MaxCalls = 3
PROPERTIES
  ImplementsEdgeFamilyCalls
CHECK_DEADLOCK FALSE
