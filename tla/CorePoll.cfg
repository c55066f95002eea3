\* One poll with all kinds of messages, with and without quadratic voting, and
\* two polls of two batches each; batches of two messages and two ballots.
CONSTANTS
  Elections <- MCElections
  BlankKey = "pad"
  NoKey = "none"
  maxVoteOptions = 2
  messageBatchSize = 2
  tallyBatchSize = 2
  MM = 2
  WW = 1
  MaxUsers = 2
SPECIFICATION Spec
INVARIANTS
  TypeOK
  BatchesAreProvable
  CreditsConserved
  ResultsOfFinalBallots
  LockHeldInProgress
PROPERTY EveryPollProcessed
CHECK_DEADLOCK FALSE
