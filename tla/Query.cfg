\* Index and enumeration of every family over three variables under four pairs
\* of limits.  A behaviour ends with a sample, an error or the last set.
SPECIFICATION Spec
CONSTANTS
  N = 3
  Sources <- AllFamilies
  LimitSets <- SomeLimits
  ByteBits = 2
INVARIANTS
  SnapshotExact
  CountsExact
  LimitsExact
  IterationExact
  SamplesUniform
CHECK_DEADLOCK FALSE
