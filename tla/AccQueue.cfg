\* Binary queue, subtrees of four leaves, no new leaf from the thirteenth on.
CONSTANTS
  hashLength = 2
  subDepth = 2
  MAX_DEPTH = 5
  Zero = 0
  MaxLeaves = 13
  MaxDirect = 5
  OpLimits <- MCOpLimits
  MainDepths <- MCMainDepths
SPECIFICATION SpecTs
INVARIANTS
  MainRootIsFresh
  IndexIsPosition
  CountsEveryPosition
  TsQueueConforms
  TsMergesAgree
PROPERTIES
  MergeCommitsToAllLeaves
  LimitedMergeProgresses
CHECK_DEADLOCK FALSE
