\* Two overlapping calls.
\* The number of calls is bounded: no deadlock check.
SPECIFICATION CountingSpec
CONSTANTS
  Thread = {t1, t2}
  NodeId = {n0, n1, n2}
  Initial = {n0}
  MaxCalls = 4
  MaxGcs = 0
INVARIANTS
  CreatedByThisCall
CHECK_DEADLOCK FALSE
