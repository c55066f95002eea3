\* Three polls, six users at most, a state tree with room for all the blanks.
CONSTANTS
  hashLength = 2
  subDepth = 1
  MAX_DEPTH = 5
  Zero = 0
  stateTreeDepth = 4
  SrQueueLimits <- MCSrQueueLimits
  MaxPolls = 3
  MaxSignUps = 6
  MaxCrashes = 1
SPECIFICATION MergerSpec
INVARIANTS
  BlockIsLiftable
  SnapshotAtStateIndices
  RootIsReplayable
  DoneHoldsSnapshot
PROPERTIES
  EveryPollMerges
  ScriptsFinish
CHECK_DEADLOCK FALSE
