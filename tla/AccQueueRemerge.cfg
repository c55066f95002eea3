\* Binary queue, subtrees of four leaves, enough leaves to merge three times.
CONSTANTS
  hashLength = 2
  subDepth = 2
  MAX_DEPTH = 5
  Zero = 0
  MaxLeaves = 13
  MaxDirect = 5
  OpLimits <- MCOpLimits
  MainDepths <- MCMainDepths
SPECIFICATION SpecTs
INVARIANT MainRootOfAllLeaves
CHECK_DEADLOCK FALSE
