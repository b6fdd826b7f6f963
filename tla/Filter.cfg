\* Every filter call on every family over three variables; a memo of five
\* entries is too small for some of the calls and large enough for others.
\* A behaviour ends when the call returns: no deadlock check.
SPECIFICATION FairSpec
CONSTANTS
  N = 3
  Sources <- AllFamilies
  Requests <- SmallRequests
  MemoLimit = 5
INVARIANTS
  TypeOK
  FilterExact
  MemoLimitExact
PROPERTIES
  CallReturns
CHECK_DEADLOCK FALSE
