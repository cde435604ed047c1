SPECIFICATION Spec
CONSTANTS
  Callers = {c1, c2}
  Cost = 2
  Burst = 4
  staleThreshold = 1
  MaxTime = 4
  MaxBuckets = 2
SYMMETRY Symmetry
INVARIANTS
  GrantsBounded
  NoDebt
  OneBucketPerEviction
