\* The contracts of maci-interface, whose deadline is a flag, and the CLI's
\* scripts: two runs of genProofs, one crash.
CONSTANTS
  hashLength = 2
  subDepth = 1
  MAX_DEPTH = 4
  Zero = 0
  messageTreeDepth = 2
  maxMessages = 4
  SignUpCounts <- MCSignUpCounts
  NumSrQueueOps <- MCNumSrQueueOps
  MaxBatchLength = 0
  Gate = "finished"
  tallyBatchSize = 2
  MaxGenerations = 2
  MaxCrashes = 1
SPECIFICATION ProverSpec
INVARIANTS
  ComparedIsAccepted
  ReportsAreTrue
  NoPairSkipped
PROPERTIES
  ProvenAfterCrashes
CHECK_DEADLOCK FALSE
