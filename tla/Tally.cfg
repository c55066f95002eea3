\* The contracts of contracts/, whose deadline modifiers check nothing.
CONSTANTS
  hashLength = 2
  subDepth = 1
  MAX_DEPTH = 4
  Zero = 0
  messageTreeDepth = 3
  maxMessages = 5
  SignUpCounts <- MCSignUpCounts
  NumSrQueueOps <- MCNumSrQueueOps
  MaxBatchLength = 2
  Gate = "none"
  tallyBatchSize = 2
SPECIFICATION Spec
INVARIANTS
  TypeOK
  BatchesTileMessages
  EveryMessageOnceInReverse
  ResultsUseFinalCommitment
  BallotsTalliedOnce
  SubsidyPairsOnce
PROPERTIES
  TalliedUnlessLate
  KeepsPromise
CHECK_DEADLOCK FALSE
