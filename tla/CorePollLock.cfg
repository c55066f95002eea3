\* Two polls of two batches each.
CONSTANTS
  Elections <- MCTwoPolls
  BlankKey = "pad"
  NoKey = "none"
  maxVoteOptions = 2
  messageBatchSize = 2
  tallyBatchSize = 2
  MM = 2
  WW = 1
  MaxUsers = 2
SPECIFICATION Spec
INVARIANT OnePollAtATime
CHECK_DEADLOCK FALSE
