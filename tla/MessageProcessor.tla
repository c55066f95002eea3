-------------------------- MODULE MessageProcessor --------------------------
(***************************************************************************)
(* The MessageProcessor contract (contracts/MessageProcessor.sol) beside   *)
(* the poll it reads: the coordinator submits one proof per batch of       *)
(* messages, from the last batch to the first, each proof moving the state *)
(* and ballot commitment over one batch.                                   *)
(*                                                                         *)
(* The verifier is modelled by the statement a proof can exist for         *)
(* (circuits/circom/processMessages.circom): the merged message tree holds *)
(* a message at every index of the batch below its end and a blank at the  *)
(* others, and the new commitment is the old one moved over these messages *)
(* in reverse order.                                                       *)
(***************************************************************************)
EXTENDS Poll

VARIABLES
  processingComplete,
  numBatchesProcessed,
  currentMessageBatchIndex,
  sbCommitment,
  batches           (* history: the index range of each batch processed     *)

mpVars == <<processingComplete, numBatchesProcessed, currentMessageBatchIndex,
            sbCommitment, batches>>

messageBatchSize == subTreeCapacity

ASSUME MessageBatchSize == messageBatchSize \in Nat \ {0}

MPInit ==
  /\ processingComplete = FALSE
  /\ numBatchesProcessed = 0
  /\ currentMessageBatchIndex = 0
  /\ sbCommitment = Empty
  /\ batches = << >>

\* Mutant: a full last batch is taken for an empty one.
FirstBatchIndexByRemainder(count) == count - (count % messageBatchSize)

\* The start of the last batch, the first one to be processed.
FirstBatchIndex(count) ==
  LET r == count % messageBatchSize
  IN  IF count = 0 THEN 0 ELSE IF r = 0 THEN count - messageBatchSize ELSE count - r

BatchIndex ==
  IF numBatchesProcessed = 0 THEN FirstBatchIndex(numMessages)
  ELSE currentMessageBatchIndex

CurrentSbCommitment ==
  IF numBatchesProcessed = 0 THEN currentSbCommitment ELSE sbCommitment

\* Mutant: the last batch is taken to be full.
BatchEndUnclamped(index) == index + messageBatchSize

BatchEndIndex(index) ==
  IF index + messageBatchSize > numMessages THEN numMessages ELSE index + messageBatchSize

\* Mutant: the index is decreased whatever it is.
IndexOneBack(index) == index - messageBatchSize

IndexAfter(index) == IF index > 0 THEN index - messageBatchSize ELSE index

\* Mutant: the batch being processed is not counted.
CompleteAfterNext == numMessages <= messageBatchSize * numBatchesProcessed

CompleteAfterThis == numMessages <= messageBatchSize * (numBatchesProcessed + 1)

ProofExists(root, index, end) ==
  /\ index + messageBatchSize <= Len(root)
  /\ \A i \in (index + 1)..(index + messageBatchSize) : root[i] # Zero <=> i <= end

\* The guards, in the contract's order: the period is over, messages are left,
\* the state tree and the message queue are merged, the proof verifies.
processMessages ==
  LET root == getMainRoot(messageAq, messageTreeDepth)
      index == BatchIndex
      end == BatchEndIndex(index)
  IN  /\ over
      /\ ~processingComplete
      /\ stateAqMerged
      /\ CanGetMainRoot(messageAq, messageTreeDepth)
      /\ root # Empty
      /\ ProofExists(root, index, end)
      /\ sbCommitment' = CurrentSbCommitment \o Reverse(SubSeq(root, index + 1, end))
      /\ currentMessageBatchIndex' = IndexAfter(index)
      /\ processingComplete' = CompleteAfterThis
      /\ numBatchesProcessed' = numBatchesProcessed + 1
      /\ batches' = Append(batches, [first |-> index, end |-> end])
      /\ UNCHANGED pollVars

mpAllVars == <<pollVars, mpVars>>

MPNext ==
  \/ PollNext /\ UNCHANGED mpVars
  \/ processMessages

MPSpec == PollInit /\ MPInit /\ [][MPNext]_mpAllVars

-----------------------------------------------------------------------------
\* The contract's counters and flags; the batch index is a batch's start.
MPTypeOK ==
  /\ numMessages \in Nat \ {0}
  /\ processingComplete \in BOOLEAN
  /\ numBatchesProcessed \in Nat
  /\ currentMessageBatchIndex \in Nat
  /\ batches \in Seq([first : Nat, end : Nat])
  /\ Len(batches) = numBatchesProcessed

\* As long as no message has been published since the first batch (whose end
\* is the number of messages at that time), the batches processed are
\* adjacent and go down from the last message, and processing is complete
\* exactly when they have reached the first one.
BatchesTileMessages ==
  (batches # << >> /\ batches[1].end = numMessages) =>
    /\ \A k \in DOMAIN batches :
         /\ batches[k].first < batches[k].end
         /\ batches[k].end <= batches[k].first + messageBatchSize
         /\ k > 1 => batches[k].end = batches[k - 1].first
    /\ processingComplete <=> batches[Len(batches)].first = 0

\* When processing is complete every message has moved the commitment exactly
\* once, the last one first, unless a message followed the merge.
EveryMessageOnceInReverse ==
  (processingComplete /\ merging # "late") =>
    sbCommitment = <<InitialState>> \o Reverse([i \in 1..numMessages |-> i])
=============================================================================
