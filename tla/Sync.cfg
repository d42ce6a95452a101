CONSTANTS
  Contexts = {c1, c2, c3}
  MaxCalls = 2
SPECIFICATION FairSpec
INVARIANTS MutualExclusion NoLostUpdate DepthIsExact
PROPERTY EveryCallReturns
CHECK_DEADLOCK FALSE
