\* The call and the chain interleaved, four transactions after the first block,
\* or seven of them in one block.
CONSTANTS
  hashLength = 2
  subDepth = 1
  MAX_DEPTH = 3
  Zero = 0
  stateTreeDepth = 3
  messageTreeDepth = 3
  NumSrQueueOps = {1}
  MessageLists <- MCLists
  blocksPerRequest = 1
  Ranges <- MCRanges
  MaxPolls = 2
  MaxTransactions = 9
  MaxBlocks = 4
SPECIFICATION Spec
INVARIANTS
  ReturnsContractState
  QuietCallReturns
CONSTRAINT ShortOrOneBlock
CHECK_DEADLOCK FALSE
