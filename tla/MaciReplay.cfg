\* Three polls, seven users at most, a state tree with room for all the blanks.
CONSTANTS
  hashLength = 2
  subDepth = 1
  MAX_DEPTH = 5
  Zero = 0
  stateTreeDepth = 4
  SrQueueLimits <- MCSrQueueLimits
  MaxPolls = 3
  MaxSignUps = 7
  MaxCrashes = 0
SPECIFICATION MergerSpec
INVARIANT StateRootIsCorrect
CHECK_DEADLOCK FALSE
