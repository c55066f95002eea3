---------------------------- MODULE TallyProofs ----------------------------
(***************************************************************************)
(* Proofs about all the contracts of one poll, for every batch size and    *)
(* number of sign-ups.  First the MessageProcessor contract beside its     *)
(* poll, whatever the number of messages: the batches tile the messages,   *)
(* and the processor uses every message once.  Then the contracts          *)
(* together: Tally and Subsidy work on the final commitment, every ballot  *)
(* is tallied once, every pair of ballot batches is walked once, and they  *)
(* implement AbstractPoll.  At the end the scripts that prove to them,     *)
(* however they crash, repeat and meet late messages: what proveOnChain    *)
(* has compared is what the contract accepts, what it reports is true, and *)
(* it comes to the tally with no pair of the subsidy left out.             *)
(***************************************************************************)
EXTENDS Prover, TallyRefinement, AccQueueOpsProofs

-----------------------------------------------------------------------------
(***************************************************************************)
(* The processor and its poll.                                             *)
(***************************************************************************)
Multiple(i) == \E c \in Nat : i = c * messageBatchSize

LastBatch == batches[numBatchesProcessed]

\* What the next batch relies on while no message has followed the first
\* batch: the messages left are those before the last batch, a whole number
\* of batches, and the batches done reach past the last message by less than
\* one batch.
Progress ==
  /\ \A k \in 1..numBatchesProcessed :
       /\ batches[k].first < batches[k].end
       /\ batches[k].end <= batches[k].first + messageBatchSize
       /\ k > 1 => batches[k].end = batches[k - 1].first
  /\ Multiple(LastBatch.first)
  /\ numMessages <= LastBatch.first + numBatchesProcessed * messageBatchSize
  /\ LastBatch.first + numBatchesProcessed * messageBatchSize < numMessages + messageBatchSize
  /\ LastBatch.first > 0 => currentMessageBatchIndex = LastBatch.first - messageBatchSize
  /\ processingComplete <=> LastBatch.first = 0

IInv ==
  /\ MPTypeOK
  /\ Multiple(currentMessageBatchIndex)
  /\ batches # << >> => batches[1].end <= numMessages
  /\ (batches # << >> /\ batches[1].end = numMessages) => Progress

-----------------------------------------------------------------------------
(***************************************************************************)
(* Arithmetic of the batch index.                                          *)
(***************************************************************************)
\* FirstBatchIndex(n) is the start of the batch that holds the n-th message.
LEMMA FirstBatch ==
  ASSUME NEW n \in Nat \ {0}
  PROVE  /\ FirstBatchIndex(n) \in Nat
         /\ Multiple(FirstBatchIndex(n))
         /\ FirstBatchIndex(n) < n
         /\ n <= FirstBatchIndex(n) + messageBatchSize
<1> DEFINE B == messageBatchSize
           c == n \div B
           r == n % B
<1>1. B \in Nat \ {0}
  BY MessageBatchSize
<1> HIDE DEF B
<1>2. c \in Nat /\ r \in 0..(B - 1) /\ n = B * c + r
  BY <1>1
<1>3. B * c = c * B /\ (c > 0 => B * (c - 1) = (c - 1) * B /\ B * c = B * (c - 1) + B)
  BY <1>1, <1>2
<1> HIDE DEF c, r
<1>4. FirstBatchIndex(n) = IF r = 0 THEN n - B ELSE n - r
  BY DEF FirstBatchIndex, r, B
<1>5. CASE r = 0
  <2>1. c > 0
    BY <1>1, <1>2, <1>5
  <2>2. n - B = (c - 1) * B /\ c - 1 \in Nat
    BY <1>1, <1>2, <1>3, <1>5, <2>1
  <2>3. (c - 1) * B \in Nat
    BY <1>1, <2>2
  <2> QED
    BY <1>1, <1>4, <1>5, <2>2, <2>3 DEF Multiple, B
<1>6. CASE r # 0
  <2>1. n - r = c * B
    BY <1>1, <1>2, <1>3
  <2>2. c * B \in Nat
    BY <1>1, <1>2
  <2> QED
    BY <1>1, <1>2, <1>4, <1>6, <2>1, <2>2 DEF Multiple, B
<1> QED
  BY <1>5, <1>6

\* Below a positive multiple of the batch size there is room for a batch.
LEMMA OneBatchBack ==
  ASSUME NEW i \in Nat, Multiple(i), i > 0
  PROVE  i - messageBatchSize \in Nat /\ Multiple(i - messageBatchSize)
<1> DEFINE B == messageBatchSize
<1>1. B \in Nat \ {0}
  BY MessageBatchSize
<1>2. PICK c \in Nat : i = c * B
  BY DEF Multiple
<1> HIDE DEF B
<1>3. c > 0
  BY <1>1, <1>2
<1>4. c - 1 \in Nat /\ i - B = (c - 1) * B /\ (c - 1) * B \in Nat
  BY <1>1, <1>2, <1>3
<1> QED
  BY <1>4 DEF Multiple, B

\* A multiple of the batch size that is less than one batch is 0.
LEMMA LessThanABatch ==
  ASSUME NEW i \in Nat, Multiple(i), i < messageBatchSize
  PROVE  i = 0
<1>1. PICK c \in Nat : i = c * messageBatchSize
  BY DEF Multiple
<1> QED
  BY <1>1, MessageBatchSize

-----------------------------------------------------------------------------
(***************************************************************************)
(* The steps.                                                              *)
(***************************************************************************)
\* A poll only ever gains messages.
LEMMA MessagesGrow ==
  ASSUME numMessages \in Nat \ {0}, PollNext
  PROVE  numMessages' \in Nat \ {0} /\ numMessages <= numMessages'
<1>1. ASSUME NEW n \in Nat, Publish(n)
      PROVE  numMessages' \in Nat \ {0} /\ numMessages <= numMessages'
  BY <1>1 DEF Publish, MessagesAfter
<1>2. CASE publishMessage \/ topup
  BY <1>1, <1>2 DEF publishMessage, topup
<1>3. CASE publishMessageBatch
  BY <1>1, <1>3, PollConstants DEF publishMessageBatch
<1>4. CASE PeriodEnds \/ \E state \in BOOLEAN : setFinish(state)
  BY <1>4 DEF PeriodEnds, setFinish
<1>5. CASE MergeStateTree \/ MergeMessageSubRoots \/ mergeMessageAq
  BY <1>5 DEF MergeStateTree, mergeMaciStateAq, MergeMessageSubRoots,
              mergeMessageAqSubRoots, mergeMessageAq
<1> QED
  BY <1>2, <1>3, <1>4, <1>5 DEF PollNext

\* What a batch changes.
LEMMA BatchStep ==
  ASSUME processMessages
  PROVE  /\ ~processingComplete
         /\ numMessages' = numMessages
         /\ currentMessageBatchIndex' = IndexAfter(BatchIndex)
         /\ processingComplete' = (numMessages <= messageBatchSize * (numBatchesProcessed + 1))
         /\ numBatchesProcessed' = numBatchesProcessed + 1
         /\ batches' = Append(batches, [first |-> BatchIndex, end |-> BatchEndIndex(BatchIndex)])
BY DEF processMessages, CompleteAfterThis, pollVars

\* The batch that comes next starts at a multiple of the batch size.
LEMMA NextIndex ==
  ASSUME IInv
  PROVE  BatchIndex \in Nat /\ Multiple(BatchIndex)
BY FirstBatch DEF IInv, MPTypeOK, BatchIndex

LEMMA IndexAfterIsMultiple ==
  ASSUME NEW i \in Nat, Multiple(i)
  PROVE  IndexAfter(i) \in Nat /\ Multiple(IndexAfter(i))
BY OneBatchBack DEF IndexAfter

\* The history grows by one range, which ends at the last message or before.
LEMMA HistoryStep ==
  ASSUME IInv, processMessages
  PROVE  /\ MPTypeOK'
         /\ BatchEndIndex(BatchIndex) \in Nat
         /\ BatchEndIndex(BatchIndex) <= numMessages
         /\ \A k \in 1..numBatchesProcessed : batches'[k] = batches[k]
         /\ batches'[numBatchesProcessed + 1] =
              [first |-> BatchIndex, end |-> BatchEndIndex(BatchIndex)]
<1> DEFINE range == [first |-> BatchIndex, end |-> BatchEndIndex(BatchIndex)]
<1>1. BatchIndex \in Nat /\ Multiple(BatchIndex)
  BY NextIndex
<1>2. numMessages \in Nat \ {0} /\ numBatchesProcessed \in Nat
      /\ batches \in Seq([first : Nat, end : Nat]) /\ Len(batches) = numBatchesProcessed
  BY DEF IInv, MPTypeOK
<1>3. BatchEndIndex(BatchIndex) \in Nat /\ BatchEndIndex(BatchIndex) <= numMessages
  BY <1>1, <1>2, MessageBatchSize DEF BatchEndIndex
<1>4. range \in [first : Nat, end : Nat]
  BY <1>1, <1>3
<1>5. batches' = Append(batches, range)
  BY BatchStep
<1> HIDE DEF range
<1>6. /\ batches' \in Seq([first : Nat, end : Nat])
      /\ Len(batches') = numBatchesProcessed + 1
      /\ \A k \in 1..numBatchesProcessed : batches'[k] = batches[k]
      /\ batches'[numBatchesProcessed + 1] = range
  BY <1>2, <1>4, <1>5
<1>7. currentMessageBatchIndex' \in Nat
  BY <1>1, BatchStep, IndexAfterIsMultiple
<1>8. processingComplete' \in BOOLEAN
  BY BatchStep
<1>9. MPTypeOK'
  BY <1>2, <1>6, <1>7, <1>8, BatchStep DEF MPTypeOK
<1> QED
  BY <1>3, <1>6, <1>9 DEF range

\* The first batch ends at the last message.
LEMMA ProgressFirst ==
  ASSUME IInv, processMessages, numBatchesProcessed = 0
  PROVE  Progress'
<1> DEFINE B == messageBatchSize
           f == BatchIndex
           e == BatchEndIndex(BatchIndex)
<1>1. /\ numMessages \in Nat \ {0}
      /\ numMessages' = numMessages /\ numBatchesProcessed' = 1
      /\ processingComplete' = (numMessages <= B * 1)
      /\ currentMessageBatchIndex' = IndexAfter(f)
  BY BatchStep DEF IInv, MPTypeOK
<1>2. B \in Nat \ {0}
  BY MessageBatchSize
<1>3. f \in Nat /\ Multiple(f) /\ f < numMessages /\ numMessages <= f + B
  BY <1>1, FirstBatch DEF BatchIndex
<1>4. e = numMessages
  BY <1>1, <1>2, <1>3 DEF BatchEndIndex
<1>5. batches'[1].first = f /\ batches'[1].end = e
  BY HistoryStep
<1>6. LastBatch'.first = f
  BY <1>1, <1>5 DEF LastBatch
<1>7. f > 0 => IndexAfter(f) = f - B
  BY DEF IndexAfter
<1>8. Multiple(LastBatch.first)'
  BY <1>3, <1>6 DEF Multiple
<1>9. numMessages <= B * 1 <=> f = 0
  BY <1>1, <1>2, <1>3, LessThanABatch
<1> HIDE DEF B, f, e
<1>10. \A k \in 1..1 : /\ batches'[k].first < batches'[k].end
                       /\ batches'[k].end <= batches'[k].first + B
                       /\ k > 1 => batches'[k].end = batches'[k - 1].first
  BY <1>3, <1>4, <1>5
<1>11. numMessages <= f + 1 * B /\ f + 1 * B < numMessages + B
  BY <1>1, <1>2, <1>3
<1> QED
  BY <1>1, <1>6, <1>7, <1>8, <1>9, <1>10, <1>11 DEF Progress, B

\* A later batch ends where the one before it begins.
LEMMA ProgressNext ==
  ASSUME IInv, processMessages, numBatchesProcessed > 0, Progress
  PROVE  Progress'
<1> DEFINE B == messageBatchSize
           K == numBatchesProcessed
           N == numMessages
           f == BatchIndex
           e == BatchEndIndex(BatchIndex)
           l == LastBatch.first
<1>1. /\ N \in Nat \ {0} /\ K \in Nat \ {0} /\ B \in Nat \ {0}
      /\ N' = N /\ K' = K + 1
      /\ processingComplete' = (N <= B * (K + 1))
      /\ currentMessageBatchIndex' = IndexAfter(f)
      /\ currentMessageBatchIndex \in Nat
      /\ f = currentMessageBatchIndex
  BY BatchStep, MessageBatchSize DEF IInv, MPTypeOK, BatchIndex
<1>2. l \in Nat
  <2>1. K \in 1..Len(batches)
    BY <1>1 DEF IInv, MPTypeOK
  <2>2. batches[K] \in [first : Nat, end : Nat]
    BY <2>1, ElementOfSeq DEF IInv, MPTypeOK
  <2> QED
    BY <2>2 DEF LastBatch
<1>3. l > 0 /\ f = l - B
  BY <1>1, <1>2, BatchStep DEF Progress
<1>4. Multiple(f)
  BY NextIndex
<1>5. N <= l + K * B /\ l + K * B < N + B
  BY DEF Progress
<1>6. K * B \in Nat /\ B <= K * B /\ (K + 1) * B = K * B + B /\ B * (K + 1) = (K + 1) * B
  <2> HIDE DEF K, B
  <2> QED
    BY <1>1
<1> DEFINE s == K * B
<1>7. l < N
  <2> HIDE DEF K, B, N, l, s
  <2>1. s \in Nat /\ B <= s /\ l + s < N + B
    BY <1>5, <1>6 DEF s
  <2> QED
    BY <1>1, <1>2, <2>1
<1>8. e = l
  BY <1>1, <1>2, <1>3, <1>7 DEF BatchEndIndex
<1>9. /\ \A k \in 1..K : batches'[k] = batches[k]
      /\ batches'[K + 1].first = f /\ batches'[K + 1].end = e
  BY HistoryStep
<1>10. LastBatch'.first = f
  BY <1>1, <1>9 DEF LastBatch
<1>11. \A k \in 1..(K + 1) :
         /\ batches'[k].first < batches'[k].end
         /\ batches'[k].end <= batches'[k].first + B
         /\ k > 1 => batches'[k].end = batches'[k - 1].first
  <2> SUFFICES ASSUME NEW k \in 1..(K + 1)
               PROVE  /\ batches'[k].first < batches'[k].end
                      /\ batches'[k].end <= batches'[k].first + B
                      /\ k > 1 => batches'[k].end = batches'[k - 1].first
    OBVIOUS
  <2>1. CASE k \in 1..K
    <3>1. k > 1 => k - 1 \in 1..K
      BY <1>1, <2>1
    <3> QED
      BY <1>9, <2>1, <3>1 DEF Progress
  <2>2. CASE k = K + 1
    <3>1. batches'[k].first = f /\ batches'[k].end = l
      BY <1>8, <1>9, <2>2
    <3>2. batches'[k - 1].first = l
      BY <1>1, <1>9, <2>2 DEF LastBatch
    <3> HIDE DEF K, B, N, f, e, l
    <3> QED
      BY <1>1, <1>2, <1>3, <3>1, <3>2
  <2> QED
    BY <1>1, <2>1, <2>2
<1>12. /\ N <= f + (K + 1) * B
       /\ f + (K + 1) * B < N + B
       /\ N <= B * (K + 1) <=> f = 0
  <2>1. f < B => f = 0
    BY <1>1, <1>4, LessThanABatch
  <2> HIDE DEF K, B, N, f, e, l, s
  <2>2. s \in Nat /\ N <= l + s /\ l + s < N + B /\ (K + 1) * B = s + B /\ B * (K + 1) = s + B
    BY <1>5, <1>6 DEF s
  <2> QED
    BY <1>1, <1>2, <1>3, <2>1, <2>2
<1>13. f > 0 => IndexAfter(f) = f - B
  BY DEF IndexAfter
<1>14. Multiple(LastBatch.first)'
  BY <1>4, <1>10 DEF Multiple
<1> QED
  BY <1>1, <1>10, <1>11, <1>12, <1>13, <1>14 DEF Progress

-----------------------------------------------------------------------------
LEMMA Initially == PollInit /\ MPInit => IInv
<1> SUFFICES ASSUME PollInit, MPInit PROVE IInv
  OBVIOUS
<1>1. MPTypeOK
  <2>1. numMessages = 1 /\ numBatchesProcessed = 0 /\ currentMessageBatchIndex = 0
    BY DEF PollInit, MPInit
  <2>2. processingComplete \in BOOLEAN /\ batches = << >>
    BY DEF MPInit
  <2>3. batches \in Seq([first : Nat, end : Nat]) /\ Len(batches) = 0
    BY <2>2, EmptySeq, Zenon
  <2>4. processingComplete \in BOOLEAN
    BY <2>2
  <2> QED
    BY <2>1, <2>3, <2>4 DEF MPTypeOK
<1>2. 0 = 0 * messageBatchSize
  BY MessageBatchSize
<1> QED
  BY <1>1, <1>2 DEF MPInit, IInv, Multiple

\* A message after the first batch ends what Progress is about for good.
LEMMA PollStep ==
  ASSUME IInv, PollNext, UNCHANGED mpVars
  PROVE  IInv'
<1>1. numMessages' \in Nat \ {0} /\ numMessages <= numMessages' /\ numMessages \in Nat \ {0}
  BY MessagesGrow DEF IInv, MPTypeOK
<1>2. UNCHANGED <<processingComplete, numBatchesProcessed, currentMessageBatchIndex, batches>>
  BY DEF mpVars
<1>3. MPTypeOK' /\ Multiple(currentMessageBatchIndex)'
  BY <1>1, <1>2 DEF IInv, MPTypeOK, Multiple
<1>4. batches # << >> => batches[1].end \in Nat
  <2>1. batches # << >> => 1 \in 1..Len(batches)
    BY DEF IInv, MPTypeOK
  <2>2. batches # << >> => batches[1] \in [first : Nat, end : Nat]
    BY <2>1, ElementOfSeq DEF IInv, MPTypeOK
  <2> QED
    BY <2>2
<1>5. (batches # << >> => batches[1].end <= numMessages)'
  BY <1>1, <1>2, <1>4 DEF IInv
<1>6. ASSUME (batches # << >> /\ batches[1].end = numMessages)'
      PROVE  Progress'
  <2>1. batches # << >> /\ batches[1].end = numMessages /\ numMessages' = numMessages
    BY <1>1, <1>2, <1>4, <1>6 DEF IInv
  <2>2. Progress
    BY <2>1 DEF IInv
  <2> QED
    BY <1>2, <2>1, <2>2 DEF Progress, LastBatch, Multiple
<1> QED
  BY <1>3, <1>5, <1>6 DEF IInv

LEMMA ProcessStep ==
  ASSUME IInv, processMessages
  PROVE  IInv'
<1>1. MPTypeOK'
  BY HistoryStep
<1>2. Multiple(currentMessageBatchIndex)'
  BY NextIndex, IndexAfterIsMultiple, BatchStep DEF Multiple
<1>3. /\ batches \in Seq([first : Nat, end : Nat]) /\ Len(batches) = numBatchesProcessed
      /\ numBatchesProcessed \in Nat
  BY DEF IInv, MPTypeOK
<1>4. CASE numBatchesProcessed = 0
  <2>1. Progress'
    BY <1>4, ProgressFirst
  <2>2. batches'[1].end <= numMessages'
    BY <1>4, HistoryStep, BatchStep
  <2> QED
    BY <1>1, <1>2, <2>1, <2>2 DEF IInv
<1>5. CASE numBatchesProcessed > 0
  <2>1. batches'[1] = batches[1] /\ batches # << >>
    BY <1>3, <1>5, HistoryStep
  <2>2. numMessages' = numMessages
    BY BatchStep
  <2>3. batches[1].end <= numMessages
    BY <2>1 DEF IInv
  <2>4. batches[1].end = numMessages => Progress
    BY <2>1 DEF IInv
  <2>5. batches[1].end = numMessages => Progress'
    BY <1>5, <2>4, ProgressNext
  <2> QED
    BY <1>1, <1>2, <2>1, <2>2, <2>3, <2>5 DEF IInv
<1> QED
  BY <1>3, <1>4, <1>5

LEMMA Inductive ==
  ASSUME IInv, [MPNext]_mpAllVars
  PROVE  IInv'
<1>1. CASE MPNext
  BY <1>1, PollStep, ProcessStep DEF MPNext
<1>2. CASE UNCHANGED mpAllVars
  BY <1>2 DEF mpAllVars, pollVars, mpVars, IInv, MPTypeOK, Progress, LastBatch, Multiple
<1> QED
  BY <1>1, <1>2

LEMMA Tiles ==
  ASSUME IInv
  PROVE  BatchesTileMessages
<1> SUFFICES ASSUME batches # << >>, batches[1].end = numMessages
             PROVE  /\ \A k \in DOMAIN batches :
                         /\ batches[k].first < batches[k].end
                         /\ batches[k].end <= batches[k].first + messageBatchSize
                         /\ k > 1 => batches[k].end = batches[k - 1].first
                    /\ processingComplete <=> batches[Len(batches)].first = 0
  BY DEF BatchesTileMessages
<1>1. Progress
  BY DEF IInv
<1>2. DOMAIN batches = 1..numBatchesProcessed /\ Len(batches) = numBatchesProcessed
  BY DEF IInv, MPTypeOK
<1> QED
  BY <1>1, <1>2 DEF Progress, LastBatch

\* The inductive invariant holds in every state of the contract and its poll.
THEOREM Invariant == MPSpec => []IInv
<1>1. IInv /\ [MPNext]_mpAllVars => IInv'
  BY Inductive
<1> QED
  BY Initially, <1>1, PTL DEF MPSpec

\* The counters of processMessages keep their types; in particular the batch
\* index, which only a check for 0 keeps from going below it, stays in Nat.
THEOREM CountersTyped == MPSpec => []MPTypeOK
<1>1. IInv => MPTypeOK
  BY DEF IInv
<1> QED
  BY <1>1, Invariant, PTL

\* Whatever the batch size, the number of messages and the interleaving with
\* the poll's calls, the batches tile the messages from the last one down and
\* processing is complete exactly at the first one.
THEOREM BatchesTile == MPSpec => []BatchesTileMessages
<1>1. IInv => BatchesTileMessages
  BY Tiles
<1> QED
  BY <1>1, Invariant, PTL
-----------------------------------------------------------------------------
(***************************************************************************)
(* The messages.  Until one is published during a merge, the queue holds   *)
(* the messages in their order and then zeros, the main root commits to    *)
(* just that, and the batches done have moved the commitment over the      *)
(* messages from the last one down to the first of the last batch.         *)
(***************************************************************************)
MessageLeaves == Nat \cup {Zero}

\* What merging the queue starts from: nothing but the messages is in it.
Unmerged ==
  /\ messageAq.numLeaves = numMessages
  /\ messageAq.mainRoots[messageTreeDepth] = Empty
  /\ ~messageAq.subTreesMerged

QueueHolds ==
  /\ Stored(MessageLeaves, messageAq)
  /\ numMessages \in Nat \ {0} /\ numMessages <= maxMessages
  /\ numMessages <= messageAq.numLeaves
  /\ Leaves(messageAq) = UpTo(numMessages) \o ZeroLeaves(messageAq.numLeaves - numMessages)
  /\ FillStarted(messageAq).currentSubtreeIndex <= numMessages

RootHolds ==
  messageAq.mainRoots[messageTreeDepth] # Empty =>
    /\ messageAq.subTreesMerged
    /\ messageAq.mainRoots[messageTreeDepth] =
         UpTo(numMessages) \o ZeroLeaves(hashLength ^ messageTreeDepth - numMessages)

MessagesInOrder ==
  /\ QueueHolds
  /\ merging \in {"no", "yes"} /\ (merging = "no" => Unmerged)
  /\ CanMergeSubRoots(messageAq) => Mergeable(messageAq)
  /\ ~messageAq.subTreesMerged => Unmixed(MessageLeaves, messageAq)
  /\ messageAq.subTreesMerged => Rooted(messageAq)
  /\ RootHolds

\* The messages from the one at the end of `first` down to the one after `last`.
Descending(first, last) == [i \in 1..(first - last) |-> first - i + 1]

MovedOver ==
  batches # << >> =>
    /\ batches[1].end = numMessages
    /\ messageAq.mainRoots[messageTreeDepth] # Empty
    /\ sbCommitment = <<InitialState>> \o Descending(numMessages, LastBatch.first)

MessageInv ==
  /\ stateAqMerged => currentSbCommitment = <<InitialState>>
  /\ processingComplete => batches # << >>
  /\ merging # "late" => MessagesInOrder /\ MovedOver

EnqueueFrom(k, n) ==
  LET after[i \in 0..n] == IF i = 0 THEN messageAq ELSE enqueue(after[i - 1], k + i)
  IN  after

\* Every message of a batch is queued, one after the other.
LEMMA EnqueueFromDef ==
  ASSUME NEW X, Nat \subseteq X, Stored(X, messageAq), NEW k \in Nat, NEW n \in Nat
  PROVE  /\ EnqueueFrom(k, n)[0] = messageAq
         /\ \A i \in 0..n : Stored(X, EnqueueFrom(k, n)[i])
         /\ \A i \in 0..(n - 1) : EnqueueFrom(k, n)[i + 1] = enqueue(EnqueueFrom(k, n)[i], k + (i + 1))
         /\ EnqueueMessages(k, n) = EnqueueFrom(k, n)[n]
<1> DEFINE V == {aq \in AccQueues(X) : Stored(X, aq)}
           g == [i \in 0..n |-> [x \in V |-> IF i = 0 THEN x ELSE enqueue(x, k + i)]]
           Def(f) == f = [i \in 0..n |-> IF i = 0 THEN messageAq ELSE enqueue(f[i - 1], k + i)]
           after == EnqueueFrom(k, n)
<1>1. /\ 0 \in 0..n /\ n \in 0..n /\ 0 \in Nat
      /\ \A i \in 0..n : k + i \in Nat /\ k + i \in X /\ (i # 0 => i - 1 \in 0..n)
      /\ \A i \in 0..(n - 1) : i + 1 \in 0..n /\ i + 1 # 0 /\ (i + 1) - 1 = i /\ i \in 0..n
  OBVIOUS
<1>2. \A x : x \in V <=> Stored(X, x)
  BY DEF Stored
<1>3. \A i \in 0..n, x \in V : enqueue(x, k + i) \in V
  BY <1>1, <1>2, EnqueueStored DEF Enqueued
<1> HIDE DEF V
<1>4. g \in [0..n -> [V -> V]]
  BY <1>3
<1>5. messageAq \in V
  BY <1>2
<1>6. PICK f \in [0..n -> V] : \A i \in 0..n : f[i] = IF i = 0 THEN messageAq ELSE g[i][f[i - 1]]
  <2> HIDE DEF g
  <2>1. HasRecursion(V, messageAq, 0, n, g)
    BY <1>1, <1>4, <1>5, RangeRecursion
  <2> QED
    BY <2>1 DEF HasRecursion
<1>7. Def(f)
  <2>1. ASSUME NEW i \in 0..n PROVE f[i] = IF i = 0 THEN messageAq ELSE enqueue(f[i - 1], k + i)
    BY <1>1, <1>6
  <2> QED
    BY <2>1
<1>8. Def(after)
  BY <1>7 DEF EnqueueFrom
<1>9. \A i \in 0..n : after[i] = IF i = 0 THEN messageAq ELSE enqueue(after[i - 1], k + i)
  <2> HIDE DEF after
  <2> QED
    BY <1>8
<1>10. EnqueueMessages(k, n) = after[n]
  BY DEF EnqueueMessages, EnqueueFrom
<1> HIDE DEF Def, g, after
<1> DEFINE S == {i \in 0..n : after[i] \in V}
<1>11. 0 \in S
  BY <1>1, <1>5, <1>9
<1>12. ASSUME NEW i \in 0..(n - 1), i \in S PROVE i + 1 \in S
  <2>1. after[i + 1] = enqueue(after[i], k + (i + 1))
    BY <1>1, <1>9
  <2> QED
    BY <1>1, <1>3, <1>12, <2>1
<1> HIDE DEF S
<1>13. 0..n \subseteq S
  BY <1>1, <1>11, <1>12, RangeInduction
<1>14. \A i \in 0..n : Stored(X, after[i])
  BY <1>2, <1>13 DEF S
<1>15. \A i \in 0..(n - 1) : after[i + 1] = enqueue(after[i], k + (i + 1))
  BY <1>1, <1>9
<1> QED
  BY <1>1, <1>9, <1>10, <1>14, <1>15 DEF after
\* A queue with the first m messages, no merge of which has begun.
Queueing(aq, m) ==
  /\ Stored(MessageLeaves, aq) /\ Unmixed(MessageLeaves, aq)
  /\ Leaves(aq) = UpTo(m)
  /\ FillStarted(aq).currentSubtreeIndex <= m
  /\ aq.mainRoots[messageTreeDepth] = Empty /\ ~aq.subTreesMerged
  /\ CanMergeSubRoots(aq) => Mergeable(aq)

LEMMA EmptyIsQueueing == Queueing(NewAccQueue, 0)
<1> DEFINE X == MessageLeaves
           none == NewAccQueue
<1>1. Stored(X, none) /\ Leaves(none) = << >> /\ Unmixed(X, none)
  BY NewStored, NewUnmixed
<1>2. /\ none.currentSubtreeIndex = 0 /\ none.leafQueue = NewQueue /\ none.numLeaves = 0
      /\ none.mainRoots[messageTreeDepth] = Empty /\ ~none.subTreesMerged
  BY PollConstants DEF NewAccQueue
<1>3. FillStarted(none).currentSubtreeIndex = 0
  <2>1. ~Started(none)
    BY <1>1, <1>2, SubRootsAreBounded, NewQueueEmpty
  <2> QED
    BY <1>1, <1>2, <2>1, SubRootsAreBounded
<1>4. UpTo(0) = << >>
  <2>1. UpTo(0) \in Seq(X) /\ Len(UpTo(0)) = 0
    BY UpToGrows DEF MessageLeaves
  <2> QED
    BY <2>1, EmptySeq
<1> QED
  BY <1>1, <1>2, <1>3, <1>4 DEF Queueing, CanMergeSubRoots

LEMMA OneMessageMore ==
  ASSUME NEW aq, NEW m \in Nat, Queueing(aq, m)
  PROVE  Queueing(enqueue(aq, m + 1), m + 1)
<1> DEFINE X == MessageLeaves
           message == m + 1
           aq2 == enqueue(aq, message)
<1>1. Stored(X, aq) /\ message \in X /\ Unmixed(X, aq) /\ Leaves(aq) = UpTo(m)
  BY DEF Queueing, MessageLeaves
<1>2. Enqueued(X, aq, aq2, message)
  BY <1>1, EnqueueStored
<1>3. /\ Stored(X, aq2) /\ Leaves(aq2) = Leaves(aq) \o <<message>> /\ Grown(aq, aq2)
      /\ Mergeable(aq2) /\ ~aq2.subTreesMerged /\ aq2.mainRoots = [l \in Levels |-> Empty]
  BY <1>2 DEF Enqueued
<1>4. Unmixed(X, aq2)
  BY <1>1, <1>3, UnmixedKept
<1>5. Leaves(aq2) = UpTo(m + 1)
  <2>1. UpTo(m) \o <<m + 1>> = UpTo(m + 1)
    BY UpToGrows DEF MessageLeaves
  <2> QED
    BY <1>1, <1>3, <2>1
<1>6. FillStarted(aq2).currentSubtreeIndex <= m + 1
  <2>1. FillStarted(aq2).currentSubtreeIndex <= FillStarted(aq).currentSubtreeIndex + 1
    BY <1>1, EnqueueSubtrees
  <2>2. FillStarted(aq2).currentSubtreeIndex \in Nat /\ FillStarted(aq).currentSubtreeIndex \in Nat
    BY <1>1, <1>3, SubRootsAreBounded
  <2>3. FillStarted(aq).currentSubtreeIndex <= m
    BY DEF Queueing
  <2> QED
    BY <2>1, <2>2, <2>3
<1>7. aq2.mainRoots[messageTreeDepth] = Empty
  BY <1>3, PollConstants
<1> QED
  BY <1>3, <1>4, <1>5, <1>6, <1>7 DEF Queueing

\* A transaction with n messages.
LEMMA MessagesMore ==
  ASSUME NEW k \in Nat, NEW n \in Nat, Queueing(messageAq, k)
  PROVE  Queueing(EnqueueMessages(k, n), k + n)
<1> DEFINE after == EnqueueFrom(k, n)
           S == {i \in 0..n : Queueing(after[i], k + i)}
<1>1. /\ after[0] = messageAq /\ EnqueueMessages(k, n) = after[n]
      /\ \A i \in 0..(n - 1) : after[i + 1] = enqueue(after[i], k + (i + 1))
  BY EnqueueFromDef DEF Queueing, MessageLeaves
<1> HIDE DEF after
<1>2. 0 \in S
  <2>1. k + 0 = k
    OBVIOUS
  <2> QED
    BY <1>1, <2>1
<1>3. ASSUME NEW i \in 0..(n - 1), i \in S PROVE i + 1 \in S
  <2>1. k + i \in Nat /\ (k + i) + 1 = k + (i + 1) /\ i + 1 \in 0..n
    OBVIOUS
  <2>2. Queueing(after[i], k + i)
    BY <1>3
  <2>3. Queueing(enqueue(after[i], (k + i) + 1), (k + i) + 1)
    BY <2>1, <2>2, OneMessageMore
  <2> QED
    BY <1>1, <2>1, <2>3
<1> HIDE DEF S
<1>4. 0..n \subseteq S
  BY <1>2, <1>3, RangeInduction
<1>5. n \in S
  BY <1>4
<1> QED
  BY <1>1, <1>5 DEF S

\* The zeros that follow the messages of a queue without a merge are none.
LEMMA NoZerosYet ==
  ASSUME NEW m \in Nat
  PROVE  /\ \A aq : Queueing(aq, m) =>
              aq.numLeaves = m /\ Leaves(aq) = UpTo(m) \o ZeroLeaves(aq.numLeaves - m)
         /\ UpTo(m) \o ZeroLeaves(m - m) = UpTo(m)
<1> DEFINE X == MessageLeaves
           s == UpTo(m)
<1>1. s \in Seq(X) /\ Len(s) = m
  BY UpToGrows DEF MessageLeaves
<1>2. s \o ZeroLeaves(0) = s
  <2>1. ZeroLeaves(0) = << >>
    <3>1. Zero \in X
      BY DEF MessageLeaves
    <3> QED
      BY <3>1, ZerosTyped, EmptySeq
  <2> HIDE DEF s
  <2> QED
    BY <1>1, <2>1, ConcatEmptySeq
<1> HIDE DEF s
<1>3. m - m = 0
  OBVIOUS
<1>4. ASSUME NEW aq, Queueing(aq, m)
      PROVE  aq.numLeaves = m /\ Leaves(aq) = s \o ZeroLeaves(aq.numLeaves - m)
  <2>1. aq.numLeaves = m /\ Leaves(aq) = s
    BY <1>1, <1>4 DEF Queueing, Stored, s
  <2> QED
    BY <1>2, <1>3, <2>1
<1> QED
  BY <1>2, <1>3, <1>4 DEF s

\* Before the first merge MessagesInOrder says that the queue is Queueing.
LEMMA NoMergeYet ==
  ASSUME MessagesInOrder, merging = "no"
  PROVE  Queueing(messageAq, numMessages)
<1>1. Unmerged /\ QueueHolds
  BY DEF MessagesInOrder
<1>2. Leaves(messageAq) = UpTo(numMessages)
  BY <1>1, NoZerosYet DEF Unmerged, QueueHolds
<1> QED
  BY <1>1, <1>2 DEF Queueing, MessagesInOrder, Unmerged, QueueHolds

LEMMA MessagesInitially == PollInit /\ MPInit => MessageInv
<1> SUFFICES ASSUME PollInit, MPInit PROVE MessageInv
  OBVIOUS
<1>1. /\ numMessages = 1 /\ messageAq = enqueue(NewAccQueue, 1) /\ merging = "no"
      /\ ~stateAqMerged /\ batches = << >> /\ ~processingComplete
  BY DEF PollInit, MPInit
<1>2. Queueing(messageAq, 1)
  <2>1. 0 + 1 = 1 /\ 0 \in Nat
    OBVIOUS
  <2> QED
    BY <1>1, <2>1, EmptyIsQueueing, OneMessageMore
<1>3. MessagesInOrder
  <2>1. numMessages \in Nat \ {0} /\ numMessages <= maxMessages
    BY <1>1, PollConstants
  <2>2. /\ messageAq.numLeaves = numMessages
        /\ Leaves(messageAq) = UpTo(numMessages) \o ZeroLeaves(messageAq.numLeaves - numMessages)
    BY <1>1, <1>2, NoZerosYet
  <2> QED
    BY <1>1, <1>2, <2>1, <2>2 DEF Queueing, MessagesInOrder, QueueHolds, Unmerged, RootHolds
<1> QED
  BY <1>1, <1>3 DEF MessageInv, MovedOver
\* No batch is processed before the merge.
LEMMA NoBatchBeforeMerge ==
  ASSUME MessagesInOrder, MovedOver, ~messageAq.subTreesMerged
  PROVE  batches = << >> /\ messageAq.mainRoots[messageTreeDepth] = Empty
BY DEF MessagesInOrder, RootHolds, MovedOver

LEMMA PublishKeeps ==
  ASSUME MessageInv, NEW n \in Nat, Publish(n), UNCHANGED mpVars
  PROVE  MessageInv'
<1>1. /\ numMessages' = numMessages + n /\ numMessages + n <= maxMessages
      /\ messageAq' = EnqueueMessages(numMessages, n)
      /\ merging' = (IF merging = "no" THEN "no" ELSE "late")
      /\ stateAqMerged' = stateAqMerged /\ currentSbCommitment' = currentSbCommitment
      /\ processingComplete' = processingComplete /\ batches' = batches
  BY DEF Publish, MessagesAfter, mpVars
<1>2. ASSUME merging' # "late"
      PROVE  MessagesInOrder' /\ MovedOver'
  <2>1. merging = "no" /\ merging' = "no" /\ MessagesInOrder /\ MovedOver
    BY <1>1, <1>2 DEF MessageInv
  <2>2. numMessages \in Nat \ {0} /\ numMessages <= maxMessages /\ maxMessages \in Nat
    BY <2>1, PollConstants DEF MessagesInOrder, QueueHolds
  <2>3. Queueing(messageAq, numMessages)
    BY <2>1, NoMergeYet
  <2>4. Queueing(messageAq', numMessages')
    BY <1>1, <2>2, <2>3, MessagesMore
  <2>5. numMessages' \in Nat \ {0} /\ numMessages' <= maxMessages
    BY <1>1, <2>2
  <2>6. MessagesInOrder'
    <3>1. /\ messageAq'.numLeaves = numMessages'
          /\ Leaves(messageAq') = UpTo(numMessages') \o ZeroLeaves(messageAq'.numLeaves - numMessages')
      BY <2>4, <2>5, NoZerosYet
    <3>2. messageAq'.numLeaves >= numMessages'
      BY <2>5, <3>1
    <3>3. QueueHolds'
      BY <2>4, <2>5, <3>1, <3>2 DEF Queueing, QueueHolds
    <3> QED
      BY <2>1, <2>4, <3>1, <3>3 DEF Queueing, MessagesInOrder, Unmerged, RootHolds
  <2>7. batches = << >>
    BY <2>1, NoBatchBeforeMerge DEF MessagesInOrder, Unmerged
  <2> QED
    BY <1>1, <2>6, <2>7 DEF MovedOver
<1> QED
  BY <1>1, <1>2 DEF MessageInv

LEMMA MergeSubRootsKeepsMessages ==
  ASSUME MessageInv, NEW lim \in NumSrQueueOps, mergeMessageAqSubRoots(lim), UNCHANGED mpVars
  PROVE  MessageInv'
<1> DEFINE X == MessageLeaves
           old == Leaves(messageAq)
           new == Leaves(messageAq')
           n == numMessages
<1>1. /\ CanMergeSubRoots(messageAq) /\ messageAq' = mergeSubRoots(messageAq, lim)
      /\ merging' = (IF merging = "no" THEN "yes" ELSE merging) /\ numMessages' = numMessages
      /\ stateAqMerged' = stateAqMerged /\ currentSbCommitment' = currentSbCommitment
      /\ processingComplete' = processingComplete /\ batches' = batches
  BY DEF mergeMessageAqSubRoots, mpVars
<1> SUFFICES ASSUME merging' # "late" PROVE MessagesInOrder' /\ MovedOver'
  BY <1>1 DEF MessageInv
<1>2. MessagesInOrder /\ MovedOver
  BY <1>1 DEF MessageInv
<1>3. /\ Stored(X, messageAq) /\ Zero \in X /\ Mergeable(messageAq) /\ ~messageAq.subTreesMerged
      /\ FillStarted(messageAq).currentSubtreeIndex <= hashLength ^ MAX_DEPTH /\ lim \in Nat
      /\ Unmixed(X, messageAq) /\ n \in Nat \ {0}
      /\ FillStarted(messageAq).currentSubtreeIndex <= n
  <2>1. /\ Stored(X, messageAq) /\ Mergeable(messageAq) /\ ~messageAq.subTreesMerged
        /\ Unmixed(X, messageAq) /\ n \in Nat \ {0} /\ n <= maxMessages
        /\ FillStarted(messageAq).currentSubtreeIndex <= n
    BY <1>1, <1>2 DEF MessagesInOrder, QueueHolds, CanMergeSubRoots
  <2>2. hashLength ^ MAX_DEPTH \in Nat
    BY PowerFacts, AccQueueConstants
  <2>3. FillStarted(messageAq).currentSubtreeIndex \in Nat
    BY <2>1, SubRootsAreBounded
  <2>4. FillStarted(messageAq).currentSubtreeIndex <= hashLength ^ MAX_DEPTH
    BY <2>1, <2>2, <2>3, PollConstants
  <2> QED
    BY <2>1, <2>4, PollConstants DEF MessageLeaves
<1>4. SubRootsMerged(X, messageAq, messageAq')
  BY <1>1, <1>3, MergeSubRootsMerges
<1>5. /\ Rounded(X, messageAq, messageAq')
      /\ messageAq'.currentSubtreeIndex = FillStarted(messageAq).currentSubtreeIndex
      /\ ~messageAq'.subTreesMerged => Mergeable(messageAq')
      /\ messageAq'.subTreesMerged => Rooted(messageAq')
      /\ ~BlanksQueued(messageAq') => Unmixed(X, messageAq')
  BY <1>3, <1>4 DEF SubRootsMerged
<1>6. /\ Stored(X, messageAq') /\ StartedLeaves(messageAq'.leafQueue) = << >>
      /\ \E k \in Nat : new = old \o ZeroLeaves(k)
      /\ messageAq'.mainRoots \in {messageAq.mainRoots, [l \in Levels |-> Empty]}
  BY <1>5 DEF Rounded
<1>7. FillStarted(messageAq').currentSubtreeIndex <= n
  <2>1. FillStarted(messageAq').currentSubtreeIndex = messageAq'.currentSubtreeIndex
    BY <1>6, SubRootsAreBounded
  <2> QED
    BY <1>3, <1>5, <2>1
<1>8. batches = << >> /\ messageAq.mainRoots[messageTreeDepth] = Empty
  BY <1>2, <1>3, NoBatchBeforeMerge
<1>9. messageAq'.mainRoots[messageTreeDepth] = Empty
  BY <1>6, <1>8, PollConstants
<1>10. old \in Seq(X) /\ new \in Seq(X) /\ messageAq.numLeaves = Len(old) /\ messageAq'.numLeaves = Len(new)
  <2>1. old \in Seq(X) /\ new \in Seq(X)
    BY <1>3, <1>6, LeavesCounted
  <2> HIDE DEF old, new
  <2> QED
    BY <1>3, <1>6, <2>1 DEF Stored, old, new
<1>11. PICK k \in Nat : new = old \o ZeroLeaves(k)
  BY <1>6
<1>12. old = UpTo(n) \o ZeroLeaves(messageAq.numLeaves - n) /\ n <= messageAq.numLeaves
  BY <1>2 DEF MessagesInOrder, QueueHolds
<1> HIDE DEF old, new
<1>13. QueueHolds'
  <2>1. n \in Nat /\ messageAq.numLeaves \in Nat /\ messageAq.numLeaves - n \in Nat
    <3>1. messageAq.numLeaves \in Nat
      BY <1>10
    <3> QED
      BY <1>3, <1>12, <3>1
  <2>2. UpTo(n) \in Seq(X)
    BY <2>1, UpToGrows DEF MessageLeaves
  <2>3. new = UpTo(n) \o ZeroLeaves((messageAq.numLeaves - n) + k)
    BY <1>3, <1>11, <1>12, <2>1, <2>2, ZerosAfter
  <2>4. messageAq'.numLeaves = messageAq.numLeaves + k
    <3> DEFINE zeros == ZeroLeaves(k)
               all == old \o zeros
    <3>1. zeros \in Seq(X) /\ Len(zeros) = k
      BY <1>3, ZerosTyped
    <3> HIDE DEF zeros
    <3>2. Len(all) = Len(old) + Len(zeros)
      BY <1>10, <3>1, Concatenated
    <3>3. new = all
      BY <1>11 DEF zeros
    <3> HIDE DEF all
    <3> QED
      BY <1>10, <3>1, <3>2, <3>3
  <2>5. n <= messageAq'.numLeaves /\ (messageAq.numLeaves - n) + k = messageAq'.numLeaves - n
    BY <1>12, <2>1, <2>4
  <2>6. new = UpTo(n) \o ZeroLeaves(messageAq'.numLeaves - n)
    BY <2>3, <2>5
  <2>7. n <= maxMessages
    BY <1>2 DEF MessagesInOrder, QueueHolds
  <2> QED
    BY <1>1, <1>3, <1>6, <1>7, <2>5, <2>6, <2>7 DEF QueueHolds, new
<1>14. MessagesInOrder'
  <2>1. merging' = "yes"
    BY <1>1, <1>2 DEF MessagesInOrder
  <2>2. ~messageAq'.subTreesMerged => Unmixed(X, messageAq')
    BY <1>5 DEF BlanksQueued
  <2>3. CanMergeSubRoots(messageAq') => Mergeable(messageAq')
    BY <1>5 DEF CanMergeSubRoots
  <2>4. RootHolds'
    BY <1>9 DEF RootHolds
  <2> QED
    BY <1>5, <1>13, <2>1, <2>2, <2>3, <2>4 DEF MessagesInOrder
<1> QED
  BY <1>1, <1>8, <1>14 DEF MovedOver

LEMMA MergeKeepsMessages ==
  ASSUME MessageInv, mergeMessageAq, UNCHANGED mpVars
  PROVE  MessageInv'
<1> DEFINE X == MessageLeaves
           d == messageTreeDepth
           H == hashLength ^ d
           old == Leaves(messageAq)
           n == numMessages
           root == MergedRoot(messageAq, d)
<1>1. /\ CanMerge(messageAq, d) /\ messageAq' = merge(messageAq, d)
      /\ merging' = merging /\ numMessages' = numMessages
      /\ stateAqMerged' = stateAqMerged /\ currentSbCommitment' = currentSbCommitment
      /\ processingComplete' = processingComplete /\ batches' = batches /\ sbCommitment' = sbCommitment
      /\ numBatchesProcessed' = numBatchesProcessed
  BY DEF mergeMessageAq, mpVars
<1> SUFFICES ASSUME merging' # "late" PROVE MessagesInOrder' /\ MovedOver'
  BY <1>1 DEF MessageInv
<1>2. MessagesInOrder /\ MovedOver
  BY <1>1 DEF MessageInv
<1>3. /\ Stored(X, messageAq) /\ Zero \in X /\ d \in Levels /\ n \in Nat \ {0} /\ QueueHolds
      /\ messageAq.subTreesMerged /\ Rooted(messageAq) /\ H >= messageAq.numLeaves
  BY <1>1, <1>2, PollConstants DEF MessagesInOrder, QueueHolds, CanMerge, MessageLeaves
<1>4. /\ Stored(X, messageAq') /\ Leaves(messageAq') = old /\ Rooted(messageAq')
      /\ Mergeable(messageAq) <=> Mergeable(messageAq')
      /\ messageAq'.mainRoots[d] = root
      /\ root = old \o ZeroLeaves(H - Len(old))
  BY <1>1, <1>3, MergeStored
<1>5. /\ messageAq'.subTreesMerged = messageAq.subTreesMerged /\ messageAq'.numLeaves = messageAq.numLeaves
      /\ messageAq'.currentSubtreeIndex = messageAq.currentSubtreeIndex
  <2>1. messageAq \in AccQueues(X)
    BY <1>3 DEF Stored
  <2> QED
    BY <1>1, <2>1 DEF merge, AccQueues
<1>6. old \in Seq(X) /\ messageAq.numLeaves = Len(old) /\ Len(old) \in Nat
  <2>1. old \in Seq(X) /\ messageAq.numLeaves = Len(old)
    BY <1>3, LeavesCounted DEF Stored
  <2> HIDE DEF old
  <2> QED
    BY <2>1
<1>7. n <= Len(old) /\ old = UpTo(n) \o ZeroLeaves(Len(old) - n)
  BY <1>3, <1>6 DEF QueueHolds
<1>8. H \in Nat /\ H >= 1
  BY <1>3, PowerFacts, AccQueueConstants DEF Levels
<1> HIDE DEF H, old, root
<1>9. root = UpTo(n) \o ZeroLeaves(H - n)
  <2>1. Len(old) - n \in Nat /\ H - Len(old) \in Nat /\ (Len(old) - n) + (H - Len(old)) = H - n
    BY <1>3, <1>6, <1>7, <1>8
  <2>2. UpTo(n) \in Seq(X)
    BY <1>3, UpToGrows DEF MessageLeaves
  <2>3. (UpTo(n) \o ZeroLeaves(Len(old) - n)) \o ZeroLeaves(H - Len(old))
           = UpTo(n) \o ZeroLeaves((Len(old) - n) + (H - Len(old)))
    BY <1>3, <2>1, <2>2, ZerosAfter
  <2> QED
    BY <1>4, <1>7, <2>1, <2>3
<1>10. root # Empty
  <2> DEFINE ids == UpTo(n)
             zeros == ZeroLeaves(H - n)
             all == ids \o zeros
  <2>1. ids \in Seq(X) /\ Len(ids) = n
    BY <1>3, UpToGrows DEF MessageLeaves
  <2>2. zeros \in Seq(X) /\ Len(zeros) = H - n
    <3>1. H - n \in Nat
      BY <1>3, <1>6, <1>7, <1>8
    <3> QED
      BY <1>3, <3>1, ZerosTyped
  <2> HIDE DEF ids, zeros
  <2>3. Len(all) = Len(ids) + Len(zeros)
    BY <2>1, <2>2, Concatenated
  <2>4. root = all
    BY <1>9 DEF ids, zeros
  <2> HIDE DEF all
  <2>5. Len(root) = H
    BY <1>3, <1>8, <2>1, <2>2, <2>3, <2>4
  <2>6. Len(Empty) = 0
    BY DEF Empty
  <2> QED
    BY <1>8, <2>5, <2>6
<1>11. RootHolds'
  BY <1>1, <1>3, <1>4, <1>5, <1>9 DEF RootHolds, H
<1>12. QueueHolds'
  <2>1. FillStarted(messageAq').currentSubtreeIndex = FillStarted(messageAq).currentSubtreeIndex
    <3>1. Started(messageAq') <=> Started(messageAq)
      BY <1>5 DEF Started
    <3> QED
      BY <1>3, <1>4, <1>5, <3>1, SubRootsAreBounded
  <2> QED
    BY <1>1, <1>3, <1>4, <1>5, <2>1 DEF QueueHolds, old
<1>13. MessagesInOrder'
  <2>1. merging # "no"
    BY <1>2, <1>3 DEF MessagesInOrder, Unmerged
  <2> QED
    BY <1>1, <1>2, <1>3, <1>4, <1>5, <1>11, <1>12, <2>1 DEF MessagesInOrder, CanMergeSubRoots
<1>14. MovedOver'
  BY <1>1, <1>2, <1>4, <1>10 DEF MovedOver, LastBatch
<1> QED
  BY <1>13, <1>14
\* A batch is read from its last message to its first.
LEMMA BatchDescends ==
  ASSUME NEW n \in Nat, NEW z \in Nat, NEW f \in Nat, NEW e \in Nat, f < e, e <= n
  PROVE  Reverse(SubSeq(UpTo(n) \o ZeroLeaves(z), f + 1, e)) = Descending(e, f)
<1> DEFINE X == MessageLeaves
           ids == UpTo(n)
           zeros == ZeroLeaves(z)
           all == ids \o zeros
           batch == SubSeq(all, f + 1, e)
<1>1. ids \in Seq(X) /\ Len(ids) = n /\ \A i \in 1..n : ids[i] = i
  BY UpToGrows DEF MessageLeaves
<1>2. zeros \in Seq(X) /\ Len(zeros) = z
  <2>1. Zero \in X
    BY DEF MessageLeaves
  <2> QED
    BY <2>1, ZerosTyped
<1> HIDE DEF ids, zeros
<1>3. /\ all \in Seq(X) /\ Len(all) = Len(ids) + Len(zeros)
      /\ \A i \in 1..(Len(ids) + Len(zeros)) : all[i] = IF i <= Len(ids) THEN ids[i] ELSE zeros[i - Len(ids)]
  BY <1>1, <1>2, Concatenated
<1> HIDE DEF all
<1>4. Len(all) = n + z /\ \A i \in 1..n : all[i] = i
  BY <1>1, <1>2, <1>3
<1>5. f + 1 \in 1..(Len(all) + 1) /\ e \in 0..Len(all) /\ f + 1 <= e
  BY <1>4
<1>6. /\ Len(batch) = (IF f + 1 <= e THEN e - (f + 1) + 1 ELSE 0)
      /\ \A i \in 1..(e - (f + 1) + 1) : batch[i] = all[f + 1 + i - 1]
  <2>1. f + 1 \in 1..(Len(all) + 1) /\ e \in (f + 1 - 1)..Len(all)
    BY <1>4
  <2> QED
    BY <1>3, <2>1, SubSeqProperties
<1> HIDE DEF batch
<1>7. Len(batch) = e - f /\ \A i \in 1..(e - f) : batch[i] = f + i
  <2>1. Len(batch) = e - f
    BY <1>5, <1>6
  <2>2. ASSUME NEW i \in 1..(e - f) PROVE batch[i] = f + i
    <3>1. i \in 1..(e - (f + 1) + 1) /\ f + 1 + i - 1 = f + i /\ f + i \in 1..n
      OBVIOUS
    <3> QED
      BY <1>4, <1>6, <3>1
  <2> QED
    BY <2>1, <2>2
<1>8. Reverse(batch) = [i \in 1..(e - f) |-> batch[((e - f) - i) + 1]]
  BY <1>7 DEF Reverse
<1>9. \A i \in 1..(e - f) : batch[((e - f) - i) + 1] = e - i + 1
  <2> SUFFICES ASSUME NEW i \in 1..(e - f) PROVE batch[((e - f) - i) + 1] = e - i + 1
    OBVIOUS
  <2>1. ((e - f) - i) + 1 \in 1..(e - f) /\ f + (((e - f) - i) + 1) = e - i + 1
    OBVIOUS
  <2> QED
    BY <1>7, <2>1
<1>10. Reverse(batch) = Descending(e, f)
  BY <1>8, <1>9 DEF Descending
<1> QED
  BY <1>10 DEF batch, all, ids, zeros

LEMMA DescendingTyped ==
  ASSUME NEW n \in Nat, NEW f \in Nat, f <= n
  PROVE  /\ Descending(n, f) \in Seq(Nat) /\ Len(Descending(n, f)) = n - f
         /\ \A i \in 1..(n - f) : Descending(n, f)[i] = n - i + 1
<1>1. n - f \in Nat /\ \A i \in 1..(n - f) : n - i + 1 \in Nat
  OBVIOUS
<1>2. /\ Descending(n, f) \in [1..(n - f) -> Nat]
      /\ \A i \in 1..(n - f) : Descending(n, f)[i] = n - i + 1
  BY <1>1 DEF Descending
<1> QED
  BY <1>1, <1>2, SeqDef

\* Adjacent batches join.
LEMMA DescendingJoins ==
  ASSUME NEW n \in Nat, NEW l \in Nat, NEW f \in Nat, f <= l, l <= n
  PROVE  Descending(n, l) \o Descending(l, f) = Descending(n, f)
<1> DEFINE s == Descending(n, l)
           t == Descending(l, f)
           u == Descending(n, f)
           all == s \o t
<1>1. s \in Seq(Nat) /\ Len(s) = n - l /\ \A i \in 1..(n - l) : s[i] = n - i + 1
  BY DescendingTyped
<1>2. t \in Seq(Nat) /\ Len(t) = l - f /\ \A i \in 1..(l - f) : t[i] = l - i + 1
  BY DescendingTyped
<1>3. u \in Seq(Nat) /\ Len(u) = n - f /\ \A i \in 1..(n - f) : u[i] = n - i + 1
  <2>1. f <= n
    OBVIOUS
  <2> QED
    BY <2>1, DescendingTyped
<1> HIDE DEF s, t, u
<1>4. /\ all \in Seq(Nat) /\ Len(all) = Len(s) + Len(t)
      /\ \A i \in 1..(Len(s) + Len(t)) : all[i] = IF i <= Len(s) THEN s[i] ELSE t[i - Len(s)]
  BY <1>1, <1>2, Concatenated
<1> HIDE DEF all
<1>5. Len(all) = n - f /\ \A i \in 1..(n - f) : all[i] = IF i <= n - l THEN s[i] ELSE t[i - (n - l)]
  BY <1>1, <1>2, <1>4
<1>6. \A i \in 1..(n - f) : all[i] = u[i]
  <2> SUFFICES ASSUME NEW i \in 1..(n - f) PROVE all[i] = u[i]
    OBVIOUS
  <2>1. CASE i <= n - l
    <3>1. i \in 1..(n - l)
      BY <2>1
    <3> QED
      BY <1>1, <1>3, <1>5, <2>1, <3>1
  <2>2. CASE ~ (i <= n - l)
    <3>1. i - (n - l) \in 1..(l - f) /\ l - (i - (n - l)) + 1 = n - i + 1
      BY <2>2
    <3> QED
      BY <1>2, <1>3, <1>5, <2>2, <3>1
  <2> QED
    BY <2>1, <2>2
<1>7. all = u
  BY <1>3, <1>4, <1>5, <1>6, SeqEqual
<1> QED
  BY <1>7 DEF all, s, t, u
LEMMA ProcessKeepsMessages ==
  ASSUME IInv, IInv', MessageInv, processMessages
  PROVE  MessageInv'
<1> DEFINE N == numMessages
           K == numBatchesProcessed
           d == messageTreeDepth
           f == BatchIndex
           e == BatchEndIndex(BatchIndex)
           root == messageAq.mainRoots[d]
<1>1. /\ stateAqMerged /\ root # Empty
      /\ sbCommitment' = CurrentSbCommitment \o Reverse(SubSeq(root, f + 1, e))
      /\ messageAq' = messageAq /\ merging' = merging /\ numMessages' = numMessages
      /\ stateAqMerged' = stateAqMerged /\ currentSbCommitment' = currentSbCommitment
  BY DEF processMessages, getMainRoot, pollVars
<1>2. /\ K \in Nat /\ K' = K + 1 /\ Len(batches) = K /\ batches \in Seq([first : Nat, end : Nat])
      /\ Len(batches') = K + 1 /\ batches' \in Seq([first : Nat, end : Nat])
  BY HistoryStep, BatchStep DEF IInv, MPTypeOK
<1>3. batches' # << >> /\ (batches = << >> <=> K = 0)
  <2>1. batches' # << >>
    BY <1>2
  <2>2. batches = << >> <=> K = 0
    BY <1>2, EmptySeq
  <2> QED
    BY <2>1, <2>2
<1> SUFFICES ASSUME merging # "late" PROVE MessagesInOrder' /\ MovedOver'
  BY <1>1, <1>3 DEF MessageInv
<1>4. MessagesInOrder /\ MovedOver /\ currentSbCommitment = <<InitialState>>
  BY <1>1 DEF MessageInv
<1>5. MessagesInOrder'
  BY <1>1, <1>4 DEF MessagesInOrder, QueueHolds, RootHolds, Unmerged
<1>6. N \in Nat \ {0} /\ root = UpTo(N) \o ZeroLeaves(hashLength ^ d - N)
  BY <1>1, <1>4 DEF MessagesInOrder, QueueHolds, RootHolds
<1>7. hashLength ^ d - N \in Nat
  <2>1. hashLength ^ d \in Nat
    BY PowerFacts, PollConstants, AccQueueConstants DEF Levels
  <2>2. N <= messageAq.numLeaves /\ messageAq.numLeaves <= hashLength ^ d
    BY <1>4 DEF MessagesInOrder, QueueHolds, processMessages, CanGetMainRoot
  <2>3. messageAq.numLeaves \in Nat
    BY <1>4, SubRootsAreBounded DEF MessagesInOrder, QueueHolds
  <2> HIDE DEF d
  <2> QED
    BY <1>6, <2>1, <2>2, <2>3
<1>8. /\ \A k \in 1..K : batches'[k] = batches[k]
      /\ batches'[K + 1].first = f /\ batches'[K + 1].end = e
      /\ e \in Nat /\ e <= N /\ f \in Nat
  BY HistoryStep, NextIndex
<1>9. LastBatch'.first = f
  BY <1>2, <1>8 DEF LastBatch
<1> HIDE DEF f, e, root
<1>10. ASSUME f < e
       PROVE  Reverse(SubSeq(root, f + 1, e)) = Descending(e, f)
  BY <1>6, <1>7, <1>8, <1>10, BatchDescends
<1>11. CASE K = 0
  <2>1. f < N /\ N <= f + messageBatchSize
    BY <1>6, <1>11, FirstBatch DEF BatchIndex, f
  <2>2. e = N
    <3>1. messageBatchSize \in Nat
      BY MessageBatchSize
    <3> QED
      BY <1>6, <1>8, <2>1, <3>1 DEF BatchEndIndex, e, f
  <2>3. batches'[1].end = N
    BY <1>8, <1>11, <2>2
  <2>4. sbCommitment' = <<InitialState>> \o Descending(N, f)
    BY <1>1, <1>4, <1>10, <1>11, <2>1, <2>2 DEF CurrentSbCommitment
  <2> QED
    BY <1>1, <1>5, <1>9, <2>3, <2>4 DEF MovedOver, root
<1>12. CASE K # 0
  <2> DEFINE l == LastBatch.first
  <2>1. /\ batches[1].end = N /\ batches # << >>
        /\ sbCommitment = <<InitialState>> \o Descending(N, l)
    BY <1>3, <1>4, <1>12 DEF MovedOver
  <2>2. Progress
    BY <2>1 DEF IInv
  <2>3. batches'[1] = batches[1]
    BY <1>2, <1>8, <1>12
  <2>4. Progress'
    BY <1>1, <1>3, <2>1, <2>3 DEF IInv
  <2>5. f < e /\ e = l
    <3>1. /\ batches'[K + 1].first < batches'[K + 1].end
          /\ batches'[K + 1].end = batches'[K].first
      <4>1. K + 1 \in 1..(K + 1) /\ K + 1 > 1 /\ (K + 1) - 1 = K
        BY <1>2, <1>12
      <4> QED
        BY <1>2, <2>4, <4>1 DEF Progress
    <3>2. batches'[K] = LastBatch
      BY <1>2, <1>8, <1>12 DEF LastBatch
    <3> QED
      BY <1>8, <3>1, <3>2
  <2>6. l \in Nat /\ f <= l /\ l <= N
    BY <1>8, <2>5
  <2> HIDE DEF l
  <2>7. sbCommitment' = (<<InitialState>> \o Descending(N, l)) \o Descending(l, f)
    BY <1>1, <1>10, <1>12, <2>1, <2>5 DEF CurrentSbCommitment
  <2>8. (<<InitialState>> \o Descending(N, l)) \o Descending(l, f) = <<InitialState>> \o Descending(N, f)
    <3> DEFINE s == <<InitialState>>
               t == Descending(N, l)
               u == Descending(l, f)
    <3>1. s \in Seq(Nat) /\ t \in Seq(Nat) /\ u \in Seq(Nat)
      <4>1. s \in Seq(Nat)
        BY DEF InitialState
      <4>2. t \in Seq(Nat) /\ u \in Seq(Nat)
        BY <1>6, <1>8, <2>6, DescendingTyped
      <4> QED
        BY <4>1, <4>2
    <3>2. t \o u = Descending(N, f)
      BY <1>6, <1>8, <2>6, DescendingJoins
    <3>3. \A x, y, z \in Seq(Nat) : x \o (y \o z) = (x \o y) \o z
      BY ConcatIsAssociative DEF Associative
    <3>4. (s \o t) \o u = s \o (t \o u)
      <4> HIDE DEF s, t, u
      <4> QED
        BY <3>1, <3>3
    <3> QED
      BY <3>2, <3>4
  <2>9. sbCommitment' = <<InitialState>> \o Descending(N, f)
    BY <2>7, <2>8
  <2> QED
    BY <1>1, <1>5, <1>9, <2>1, <2>3, <2>9 DEF MovedOver, root
<1> QED
  BY <1>11, <1>12

LEMMA MessageStep ==
  ASSUME IInv, IInv', MessageInv, [MPNext]_mpAllVars
  PROVE  MessageInv'
<1>1. CASE PollNext /\ UNCHANGED mpVars
  <2>1. CASE publishMessage \/ topup
    BY <1>1, <2>1, PublishKeeps DEF publishMessage, topup
  <2>2. CASE publishMessageBatch
    BY <1>1, <2>2, PollConstants, PublishKeeps DEF publishMessageBatch
  <2>3. CASE MergeMessageSubRoots
    BY <1>1, <2>3, MergeSubRootsKeepsMessages DEF MergeMessageSubRoots
  <2>4. CASE mergeMessageAq
    BY <1>1, <2>4, MergeKeepsMessages
  <2>5. CASE PeriodEnds \/ MergeStateTree \/ \E state \in BOOLEAN : setFinish(state)
    <3>1. /\ numMessages' = numMessages /\ messageAq' = messageAq /\ merging' = merging
          /\ stateAqMerged' => currentSbCommitment' = <<InitialState>>
          /\ UNCHANGED mpVars
      BY <1>1, <2>5 DEF PeriodEnds, MergeStateTree, mergeMaciStateAq, setFinish, MessageInv
    <3> QED
      BY <3>1 DEF mpVars, MessageInv, MessagesInOrder, QueueHolds, RootHolds, Unmerged, MovedOver, LastBatch
  <2> QED
    BY <1>1, <2>1, <2>2, <2>3, <2>4, <2>5 DEF PollNext
<1>2. CASE processMessages
  BY <1>2, ProcessKeepsMessages
<1>3. CASE UNCHANGED mpAllVars
  <2>1. UNCHANGED pollVars /\ UNCHANGED mpVars
    BY <1>3 DEF mpAllVars
  <2> QED
    BY <2>1 DEF pollVars, mpVars, MessageInv, MessagesInOrder, QueueHolds, RootHolds, Unmerged,
                MovedOver, LastBatch
<1> QED
  BY <1>1, <1>2, <1>3 DEF MPNext

LEMMA MessagesMovedOver ==
  ASSUME IInv, MessageInv
  PROVE  EveryMessageOnceInReverse
<1> SUFFICES ASSUME processingComplete, merging # "late"
             PROVE  sbCommitment = <<InitialState>> \o Reverse([i \in 1..numMessages |-> i])
  BY DEF EveryMessageOnceInReverse
<1> DEFINE N == numMessages
<1>1. batches # << >> /\ MovedOver /\ N \in Nat
  BY DEF MessageInv, MessagesInOrder, QueueHolds
<1>2. Progress /\ sbCommitment = <<InitialState>> \o Descending(N, LastBatch.first)
  BY <1>1 DEF MovedOver, IInv
<1>3. LastBatch.first = 0
  BY <1>2 DEF Progress
<1>4. Descending(N, 0) = Reverse([i \in 1..N |-> i])
  <2> DEFINE s == UpTo(N)
  <2>1. Len(s) = N /\ \A i \in 1..N : s[i] = i
    BY <1>1, UpToGrows
  <2> HIDE DEF s
  <2>2. Reverse(s) = [i \in 1..N |-> s[(N - i) + 1]]
    BY <2>1 DEF Reverse
  <2>3. \A i \in 1..N : (N - i) + 1 \in 1..N /\ (N - i) + 1 = N - i + 1
    BY <1>1
  <2>4. Descending(N, 0) = [i \in 1..N |-> N - i + 1]
    <3>1. N - 0 = N
      BY <1>1
    <3> QED
      BY <3>1 DEF Descending
  <2>5. Reverse(s) = Descending(N, 0)
    BY <2>1, <2>2, <2>3, <2>4
  <2> QED
    BY <2>5 DEF s, UpTo
<1> QED
  BY <1>2, <1>3, <1>4

\* When processMessages has completed, the state and ballot commitment has
\* been moved over every message exactly once, the last one first, for every
\* shape of the message queue, number of messages and limit of the merges, if
\* no message was published once the merge had begun.
THEOREM EveryMessageProcessed == MPSpec => []EveryMessageOnceInReverse
<1>1. IInv /\ MessageInv /\ [MPNext]_mpAllVars => (IInv /\ MessageInv)'
  BY Inductive, MessageStep
<1>2. PollInit /\ MPInit => IInv /\ MessageInv
  BY Initially, MessagesInitially
<1>3. IInv /\ MessageInv => EveryMessageOnceInReverse
  BY MessagesMovedOver
<1> QED
  BY <1>1, <1>2, <1>3, PTL DEF MPSpec

-----------------------------------------------------------------------------
(***************************************************************************)
(* With Tally and Subsidy.                                                 *)
(***************************************************************************)
\* Every step of the contracts is one of the poll with its message processor,
\* or leaves those alone.
LEMMA ProcessorSteps ==
  ASSUME [Next]_vars
  PROVE  [MPNext]_mpAllVars
BY DEF Next, vars, mpAllVars, updateTallySbCommitment, tallyVotes,
       updateSubsidySbCommitment, updateSubsidy

\* The batches tile the messages with Tally and Subsidy at work too.
THEOREM BatchesTileWithTally == Spec => []BatchesTileMessages
<1>1. [Next]_vars => [MPNext]_mpAllVars
  BY ProcessorSteps
<1>2. Spec => MPSpec
  BY <1>1, PTL DEF Spec, Init, MPSpec
<1> QED
  BY <1>2, BatchesTile, PTL

-----------------------------------------------------------------------------
\* What updateSbCommitment leaves, when it does not revert.
LEMMA UpdatedIsFinal ==
  ASSUME NEW sb, NEW new \in Updated(sb), sb # Empty => sb = sbCommitment
  PROVE  processingComplete /\ new = sbCommitment
BY DEF Updated

\* Once a copy is taken nothing is processed any more.
LEMMA CommitmentStep ==
  ASSUME ResultsUseFinalCommitment, [Next]_vars
  PROVE  ResultsUseFinalCommitment'
<1> USE DEF ResultsUseFinalCommitment
<1>1. CASE PollNext /\ UNCHANGED mpVars /\ UNCHANGED <<tallyVars, subsidyVars>>
  BY <1>1 DEF mpVars, tallyVars, subsidyVars
<1>2. CASE processMessages /\ UNCHANGED <<tallyVars, subsidyVars>>
  <2>1. ~processingComplete
    BY <1>2, BatchStep
  <2>2. tallySbCommitment = Empty /\ subsidySbCommitment = Empty
    BY <2>1
  <2> QED
    BY <1>2, <2>2 DEF tallyVars, subsidyVars
<1>3. CASE updateTallySbCommitment \/ tallyVotes
  <2>1. /\ tallySbCommitment' \in Updated(tallySbCommitment)
        /\ UNCHANGED <<mpVars, subsidySbCommitment>>
    BY <1>3 DEF updateTallySbCommitment, tallyVotes, subsidyVars
  <2>2. processingComplete /\ tallySbCommitment' = sbCommitment
    BY <2>1, UpdatedIsFinal
  <2> QED
    BY <2>1, <2>2 DEF mpVars
<1>4. CASE updateSubsidySbCommitment \/ updateSubsidy
  <2>1. /\ subsidySbCommitment' \in Updated(subsidySbCommitment)
        /\ UNCHANGED <<mpVars, tallySbCommitment>>
    BY <1>4 DEF updateSubsidySbCommitment, updateSubsidy, tallyVars
  <2>2. processingComplete /\ subsidySbCommitment' = sbCommitment
    BY <2>1, UpdatedIsFinal
  <2> QED
    BY <2>1, <2>2 DEF mpVars
<1>5. CASE UNCHANGED vars
  BY <1>5 DEF vars, mpVars, tallyVars, subsidyVars
<1> QED
  BY <1>1, <1>2, <1>3, <1>4, <1>5 DEF Next, MPNext

\* Tally and Subsidy copy the commitment at different times and each keeps its
\* copy: both are the commitment after the last batch, for good.
THEOREM FinalCommitment == Spec => []ResultsUseFinalCommitment
<1>1. Init => ResultsUseFinalCommitment
  BY DEF Init, ResultsUseFinalCommitment
<1>2. ResultsUseFinalCommitment /\ [Next]_vars => ResultsUseFinalCommitment'
  BY CommitmentStep
<1> QED
  BY <1>1, <1>2, PTL DEF Spec

-----------------------------------------------------------------------------
Ballots(n) == [i \in 1..n |-> i - 1]

Tallied(t, n) == IF t * tallyBatchSize < n THEN t * tallyBatchSize ELSE n

\* Ballots are tallied only after processing, which needs the number of
\* sign-ups fixed; from then on the ballots tallied are a prefix.
TallyInv ==
  /\ numSignups \in Nat /\ tallyBatchNum \in Nat
  /\ stateAqMerged \in BOOLEAN /\ processingComplete \in BOOLEAN
  /\ processingComplete => stateAqMerged
  /\ tallyBatchNum > 0 => stateAqMerged
  /\ tallyCommitment = SubSeq(Ballots(numSignups), 1, Tallied(tallyBatchNum, numSignups))

LEMMA BallotsSeq ==
  ASSUME NEW n \in Nat
  PROVE  Ballots(n) \in Seq(Nat) /\ Len(Ballots(n)) = n
BY DEF Ballots

\* A prefix of the ballots is the ballots of fewer sign-ups.
LEMMA PrefixOfBallots ==
  ASSUME NEW n \in Nat, NEW k \in 0..n
  PROVE  SubSeq(Ballots(n), 1, k) = Ballots(k)
<1>1. \A i \in 1..k : Ballots(n)[i] = i - 1 /\ i - 1 \in Nat
  BY DEF Ballots
<1>2. /\ SubSeq(Ballots(n), 1, k) \in Seq(Nat)
      /\ Len(SubSeq(Ballots(n), 1, k)) = k
      /\ \A i \in 1..k : SubSeq(Ballots(n), 1, k)[i] = Ballots(n)[i]
  BY <1>1, SubSeqProperties
<1>3. Ballots(k) \in Seq(Nat) /\ Len(Ballots(k)) = k
  BY BallotsSeq
<1>4. \A i \in 1..k : Ballots(k)[i] = i - 1
  BY DEF Ballots
<1> HIDE DEF Ballots
<1> QED
  BY <1>1, <1>2, <1>3, <1>4, SeqEqual

LEMMA TalliedRange ==
  ASSUME NEW t \in Nat, NEW n \in Nat
  PROVE  /\ Tallied(t, n) \in 0..n
         /\ t * tallyBatchSize \in Nat
         /\ (t + 1) * tallyBatchSize = t * tallyBatchSize + tallyBatchSize
         /\ Tallied(0, n) = 0
<1>1. tallyBatchSize \in Nat \ {0}
  BY TallyConstants
<1>2. /\ t * tallyBatchSize \in Nat
      /\ (t + 1) * tallyBatchSize = t * tallyBatchSize + tallyBatchSize
      /\ 0 * tallyBatchSize = 0
  BY <1>1
<1> QED
  BY <1>1, <1>2 DEF Tallied

\* A batch continues the prefix where it ends.
LEMMA BatchContinues ==
  ASSUME NEW t \in Nat, numSignups \in Nat, t * tallyBatchSize < numSignups
  PROVE  SubSeq(Ballots(numSignups), 1, Tallied(t, numSignups))
           \o BallotBatch(t * tallyBatchSize)
         = SubSeq(Ballots(numSignups), 1, Tallied(t + 1, numSignups))
<1> DEFINE n == numSignups
           start == t * tallyBatchSize
           end == IF start + tallyBatchSize < n THEN start + tallyBatchSize ELSE n
<1>1. start \in Nat /\ tallyBatchSize \in Nat \ {0}
  BY TalliedRange, TallyConstants
<1>2. Tallied(t, n) = start
  BY DEF Tallied
<1>3. Tallied(t + 1, n) = end
  BY TalliedRange DEF Tallied
<1>4. BallotBatch(start) = SubSeq(Ballots(n), start + 1, end)
  BY DEF BallotBatch, Ballots
<1>5. start \in 0..n /\ end \in start..n
  BY <1>1
<1>6. Ballots(n) \in Seq(Nat) /\ Len(Ballots(n)) = n
  BY BallotsSeq
<1>7. ASSUME NEW s \in Seq(Nat), NEW k \in 0..Len(s), NEW e \in k..Len(s)
      PROVE  SubSeq(s, 1, k) \o SubSeq(s, k + 1, e) = SubSeq(s, 1, e)
  <2>1. 1 \in 1..(Len(s) + 1) /\ k \in (1 - 1)..Len(s) /\ e \in k..Len(s)
    BY <1>7, LenProperties
  <2> QED
    BY <2>1, ConcatAdjacentSubSeq
<1> HIDE DEF start, end, n
<1>8. SubSeq(Ballots(n), 1, start) \o SubSeq(Ballots(n), start + 1, end) = SubSeq(Ballots(n), 1, end)
  BY <1>5, <1>6, <1>7
<1> QED
  BY <1>2, <1>3, <1>4, <1>8 DEF start, n

\* Before the first batch no ballot is tallied.
LEMMA NoneTallied ==
  ASSUME NEW n \in Nat
  PROVE  SubSeq(Ballots(n), 1, Tallied(0, n)) = << >>
<1>1. Tallied(0, n) = 0
  BY TalliedRange
<1>2. Ballots(n) \in Seq(Nat) /\ 0 \in 0..n
  BY BallotsSeq
<1>3. SubSeq(Ballots(n), 1, 0) = Ballots(0)
  BY <1>2, PrefixOfBallots
<1>4. Ballots(0) \in Seq(Nat) /\ Len(Ballots(0)) = 0
  BY BallotsSeq
<1>5. Ballots(0) = << >>
  BY <1>4, EmptySeq, Zenon
<1> QED
  BY <1>1, <1>3, <1>5, Zenon

LEMMA TallyInitially == Init => TallyInv
<1> SUFFICES ASSUME Init PROVE TallyInv
  OBVIOUS
<1>1. numSignups = 0 /\ tallyBatchNum = 0
  BY DEF Init, PollInit, MPInit
<1>2. tallyCommitment = << >>
  BY DEF Init
<1>3. /\ stateAqMerged \in BOOLEAN /\ processingComplete \in BOOLEAN
      /\ ~processingComplete
  BY Zenon DEF Init, PollInit, MPInit
<1>4. 0 \in Nat /\ ~(0 > 0)
  OBVIOUS
<1>5. tallyCommitment = SubSeq(Ballots(numSignups), 1, Tallied(tallyBatchNum, numSignups))
  BY <1>1, <1>2, <1>4, NoneTallied, Zenon
<1> QED
  BY <1>1, <1>3, <1>4, <1>5, Zenon DEF TallyInv

\* Of the poll's steps only mergeMaciStateAq touches what is tallied.
LEMMA TallyPollStep ==
  ASSUME TallyInv, PollNext, UNCHANGED mpVars, UNCHANGED tallyVars
  PROVE  TallyInv'
<1>1. UNCHANGED <<processingComplete, tallyBatchNum, tallyCommitment>>
  BY DEF mpVars, tallyVars
<1>2. CASE UNCHANGED <<numSignups, stateAqMerged>>
  BY <1>1, <1>2 DEF TallyInv, Tallied, Ballots
<1>3. CASE MergeStateTree
  <2>1. ~stateAqMerged /\ stateAqMerged' = TRUE /\ numSignups' \in Nat
    BY <1>3, PollConstants DEF MergeStateTree, mergeMaciStateAq
  <2>2. tallyBatchNum = 0 /\ ~processingComplete
    BY <2>1 DEF TallyInv
  <2>3. tallyCommitment = << >>
    BY <2>2, NoneTallied, Zenon DEF TallyInv
  <2>4. SubSeq(Ballots(numSignups'), 1, Tallied(0, numSignups')) = << >>
    BY <2>1, NoneTallied, Zenon
  <2>5. /\ tallyBatchNum' = 0 /\ tallyBatchNum' \in Nat
        /\ ~(tallyBatchNum' > 0)
    BY <1>1, <2>2
  <2>6. /\ processingComplete' \in BOOLEAN /\ stateAqMerged' \in BOOLEAN
        /\ ~processingComplete'
    BY <1>1, <2>1, <2>2, Zenon DEF TallyInv
  <2>7. tallyCommitment' = SubSeq(Ballots(numSignups'), 1, Tallied(tallyBatchNum', numSignups'))
    BY <1>1, <2>3, <2>4, <2>5, Zenon
  <2>8. (tallyCommitment = SubSeq(Ballots(numSignups), 1, Tallied(tallyBatchNum, numSignups)))'
    BY <2>7 DEF Ballots, Tallied
  <2> QED
    BY <2>1, <2>5, <2>6, <2>8, Zenon DEF TallyInv
<1>4. CASE PeriodEnds \/ \E state \in BOOLEAN : setFinish(state)
  BY <1>2, <1>4 DEF PeriodEnds, setFinish
<1>5. CASE publishMessage \/ topup \/ publishMessageBatch
  BY <1>2, <1>5 DEF publishMessage, topup, publishMessageBatch, Publish
<1>6. CASE MergeMessageSubRoots \/ mergeMessageAq
  BY <1>2, <1>6 DEF MergeMessageSubRoots, mergeMessageAqSubRoots, mergeMessageAq
<1> QED
  BY <1>3, <1>4, <1>5, <1>6 DEF PollNext

LEMMA TallyStep ==
  ASSUME TallyInv, [Next]_vars
  PROVE  TallyInv'
<1>1. CASE PollNext /\ UNCHANGED mpVars /\ UNCHANGED <<tallyVars, subsidyVars>>
  BY <1>1, TallyPollStep
<1>2. CASE processMessages /\ UNCHANGED <<tallyVars, subsidyVars>>
  <2>1. stateAqMerged /\ UNCHANGED <<numSignups, stateAqMerged>> /\ processingComplete' \in BOOLEAN
    BY <1>2, BatchStep DEF processMessages, pollVars
  <2>2. UNCHANGED <<tallyBatchNum, tallyCommitment>>
    BY <1>2 DEF tallyVars
  <2> QED
    BY <2>1, <2>2 DEF TallyInv, Tallied, Ballots
<1>3. CASE tallyVotes
  <2>1. /\ UNCHANGED <<numSignups, stateAqMerged, processingComplete>>
        /\ processingComplete
        /\ tallyBatchNum' = tallyBatchNum + 1
        /\ tallyBatchNum * tallyBatchSize < numSignups
        /\ tallyCommitment' = tallyCommitment \o BallotBatch(tallyBatchNum * tallyBatchSize)
    <3>1. processingComplete
      BY <1>3 DEF tallyVotes, Updated
    <3>2. ~(tallyBatchNum * tallyBatchSize >= numSignups)
      BY <1>3 DEF tallyVotes, isTallied
    <3>3. tallyBatchNum * tallyBatchSize \in Nat /\ numSignups \in Nat
      BY TalliedRange DEF TallyInv
    <3> QED
      BY <1>3, <3>1, <3>2, <3>3 DEF tallyVotes, pollVars, mpVars
  <2>2. tallyCommitment' = SubSeq(Ballots(numSignups), 1, Tallied(tallyBatchNum + 1, numSignups))
    BY <2>1, BatchContinues DEF TallyInv
  <2>3. (tallyCommitment = SubSeq(Ballots(numSignups), 1, Tallied(tallyBatchNum, numSignups)))'
    BY <2>1, <2>2 DEF Ballots, Tallied
  <2>4. numSignups' \in Nat /\ tallyBatchNum' \in Nat
    BY <2>1 DEF TallyInv
  <2>5. stateAqMerged' /\ stateAqMerged' \in BOOLEAN /\ processingComplete' \in BOOLEAN
    BY <2>1, Zenon DEF TallyInv
  <2> QED
    BY <2>3, <2>4, <2>5, Zenon DEF TallyInv
<1>4. CASE updateTallySbCommitment \/ updateSubsidySbCommitment \/ updateSubsidy \/ UNCHANGED vars
  <2>1. UNCHANGED <<numSignups, stateAqMerged, processingComplete, tallyBatchNum, tallyCommitment>>
    BY <1>4 DEF updateTallySbCommitment, updateSubsidySbCommitment, updateSubsidy,
                vars, pollVars, mpVars, tallyVars
  <2> QED
    BY <2>1 DEF TallyInv, Tallied, Ballots
<1> QED
  BY <1>1, <1>2, <1>3, <1>4 DEF Next, MPNext

LEMMA TalliedOnce ==
  ASSUME TallyInv
  PROVE  BallotsTalliedOnce
<1> DEFINE n == numSignups
           k == Tallied(tallyBatchNum, numSignups)
<1>1. n \in Nat /\ k \in 0..n /\ tallyBatchNum * tallyBatchSize \in Nat
  BY TalliedRange DEF TallyInv
<1>2. tallyCommitment = Ballots(k)
  BY <1>1, PrefixOfBallots DEF TallyInv
<1>3. Len(tallyCommitment) = k
  BY <1>1, <1>2, BallotsSeq
<1>4. isTallied <=> k = n
  BY <1>1 DEF isTallied, Tallied
<1> HIDE DEF k
<1> QED
  BY <1>1, <1>2, <1>3, <1>4 DEF BallotsTalliedOnce, Ballots

\* For every number of sign-ups and batch size the ballots tallied are the
\* first ones, each once, and isTallied says that none is missing.
THEOREM EveryBallotOnce == Spec => []BallotsTalliedOnce
<1>1. TallyInv /\ [Next]_vars => TallyInv'
  BY TallyStep
<1>2. TallyInv => BallotsTalliedOnce
  BY TalliedOnce
<1> QED
  BY TallyInitially, <1>1, <1>2, PTL DEF Spec

-----------------------------------------------------------------------------
(***************************************************************************)
(* The counters of Tally and Subsidy keep their types and bounds, and the  *)
(* walk over the pairs of ballot batches takes every pair once.            *)
(***************************************************************************)

\* The number of ballot batches of n ballots.
BatchesOf(n) == (n + tallyBatchSize - 1) \div tallyBatchSize

\* The pair p comes before row r and column c in the walk.
Before(p, r, c) == p[1] < r \/ (p[1] = r /\ p[2] < c)

\* The storage beside MessageProcessor's.
CountersInv ==
  /\ over \in BOOLEAN /\ finished \in BOOLEAN /\ stateAqMerged \in BOOLEAN
  /\ processingComplete \in BOOLEAN
  /\ numMessages <= maxMessages
  /\ merging \in {"no", "yes", "late"}
  /\ numSignups \in Nat
  /\ tallyBatchNum \in 0..BatchesOf(numSignups)
  /\ rbi \in 0..(BatchesOf(numSignups) + 1)
  /\ cbi \in rbi..(BatchesOf(numSignups) + 1)
  /\ processingComplete => stateAqMerged
  /\ ~stateAqMerged => tallyBatchNum = 0 /\ rbi = 0 /\ cbi = 0

\* The pairs taken go up in the order of the walk, all before the next one,
\* and no pair of two batches that comes before the next one is missing.
WalkInv ==
  /\ subsidyCommitment \in Seq(Nat \X Nat)
  /\ \A i \in 1..Len(subsidyCommitment) :
       /\ subsidyCommitment[i][1] <= subsidyCommitment[i][2]
       /\ Before(subsidyCommitment[i], rbi, cbi)
  /\ \A i, j \in 1..Len(subsidyCommitment) :
       i < j => Before(subsidyCommitment[i], subsidyCommitment[j][1], subsidyCommitment[j][2])
  /\ \A a, b \in Nat :
       (a <= b /\ b < BatchesOf(numSignups) /\ Before(<<a, b>>, rbi, cbi)) =>
         \E i \in 1..Len(subsidyCommitment) : subsidyCommitment[i] = <<a, b>>

-----------------------------------------------------------------------------
LEMMA TimesMonotone ==
  ASSUME NEW a \in Nat, NEW b \in Nat, a <= b
  PROVE  /\ a * tallyBatchSize \in Nat /\ b * tallyBatchSize \in Nat
         /\ a * tallyBatchSize <= b * tallyBatchSize
<1>1. tallyBatchSize \in Nat
  BY TallyConstants
<1>2. PICK d \in Nat : b = a + d
  <2>1. b - a \in Nat /\ b = a + (b - a)
    OBVIOUS
  <2> QED
    BY <2>1
<1>3. a * tallyBatchSize \in Nat /\ d * tallyBatchSize \in Nat
  BY <1>1
<1>4. b * tallyBatchSize = a * tallyBatchSize + d * tallyBatchSize
  BY <1>1, <1>2
<1> QED
  BY <1>3, <1>4

\* A batch starts below n exactly if it is one of the batches of n, and at n
\* at most if it is the one after them.
LEMMA BatchStarts ==
  ASSUME NEW n \in Nat, NEW t \in Nat
  PROVE  /\ BatchesOf(n) \in Nat
         /\ t * tallyBatchSize \in Nat
         /\ t * tallyBatchSize < n <=> t < BatchesOf(n)
         /\ t * tallyBatchSize <= n => t <= BatchesOf(n)
         /\ (t + 1) * tallyBatchSize = t * tallyBatchSize + tallyBatchSize
<1> DEFINE s == tallyBatchSize
           T == BatchesOf(n)
<1>1. s \in Nat \ {0}
  BY TallyConstants
<1>2. T \in Nat /\ T * s <= n + s - 1 /\ n + s - 1 < T * s + s
  <2> DEFINE m == n + s - 1
  <2>1. m \in Nat
    BY <1>1
  <2>2. T = m \div s
    BY DEF BatchesOf
  <2> HIDE DEF m, s, T
  <2>3. T \in Nat /\ m % s \in 0..(s - 1) /\ m = s * T + (m % s)
    BY <1>1, <2>1, <2>2
  <2>4. s * T = T * s /\ T * s \in Nat
    BY <1>1, <2>3
  <2>5. T * s <= m /\ m < T * s + s
    BY <1>1, <2>1, <2>3, <2>4
  <2> QED
    BY <2>3, <2>5 DEF m
<1>3. (t + 1) * s = t * s + s /\ t * s \in Nat
  BY <1>1
<1>4. ASSUME t < T PROVE t * s < n
  <2>1. (t + 1) * s <= T * s
    BY <1>2, <1>4, TimesMonotone
  <2> HIDE DEF s, T
  <2>2. T * s \in Nat
    BY <1>1, <1>2
  <2> QED
    BY <1>1, <1>2, <1>3, <2>1, <2>2
<1>5. ASSUME T <= t PROVE n <= t * s
  <2>1. T * s <= t * s /\ T * s \in Nat
    BY <1>2, <1>5, TimesMonotone
  <2> HIDE DEF s, T
  <2> QED
    BY <1>1, <1>2, <1>3, <2>1
<1>6. ASSUME T < t PROVE n < t * s
  <2>1. (T + 1) * s <= t * s
    BY <1>2, <1>6, TimesMonotone
  <2> HIDE DEF s, T
  <2>2. (T + 1) * s = T * s + s /\ T * s \in Nat
    BY <1>1, <1>2
  <2> QED
    BY <1>1, <1>2, <1>3, <2>1, <2>2
<1> HIDE DEF s, T
<1>7. t * s < n <=> t < T
  BY <1>1, <1>2, <1>3, <1>4, <1>5
<1>8. t * s <= n => t <= T
  BY <1>1, <1>2, <1>3, <1>6
<1> QED
  BY <1>2, <1>3, <1>7, <1>8 DEF s, T

-----------------------------------------------------------------------------
(***************************************************************************)
(* The counters.                                                           *)
(***************************************************************************)
\* What the poll's steps do to the storage CountersInv is about.
LEMMA PollStorage ==
  ASSUME CountersInv, PollNext
  PROVE  /\ over' \in BOOLEAN /\ finished' \in BOOLEAN /\ stateAqMerged' \in BOOLEAN
         /\ numMessages' <= maxMessages
         /\ merging' \in {"no", "yes", "late"}
         /\ numSignups' \in Nat
         /\ stateAqMerged => stateAqMerged' /\ numSignups' = numSignups
<1> USE DEF CountersInv
<1>1. ASSUME NEW n \in Nat, Publish(n)
      PROVE  /\ UNCHANGED <<over, finished, stateAqMerged, numSignups>>
             /\ numMessages' <= maxMessages /\ merging' \in {"no", "yes", "late"}
  BY <1>1 DEF Publish, MessagesAfter
<1>2. CASE publishMessage \/ topup
  BY <1>1, <1>2 DEF publishMessage, topup
<1>3. CASE publishMessageBatch
  BY <1>1, <1>3, PollConstants DEF publishMessageBatch
<1>4. CASE PeriodEnds
  BY <1>4 DEF PeriodEnds
<1>5. CASE \E state \in BOOLEAN : setFinish(state)
  BY <1>5 DEF setFinish
<1>6. CASE MergeStateTree
  BY <1>6, PollConstants DEF MergeStateTree, mergeMaciStateAq
<1>7. CASE MergeMessageSubRoots
  BY <1>7 DEF MergeMessageSubRoots, mergeMessageAqSubRoots
<1>8. CASE mergeMessageAq
  BY <1>8 DEF mergeMessageAq
<1> QED
  BY <1>2, <1>3, <1>4, <1>5, <1>6, <1>7, <1>8 DEF PollNext

LEMMA CountersInitially == Init => CountersInv
<1> SUFFICES ASSUME Init PROVE CountersInv
  OBVIOUS
<1>1. /\ numSignups = 0 /\ numMessages = 1 /\ tallyBatchNum = 0 /\ rbi = 0 /\ cbi = 0
      /\ merging = "no"
  BY DEF Init, PollInit
<1>2. /\ over \in BOOLEAN /\ finished \in BOOLEAN /\ stateAqMerged \in BOOLEAN
      /\ processingComplete \in BOOLEAN /\ ~processingComplete
  BY Zenon DEF Init, PollInit, MPInit
<1>3. BatchesOf(numSignups) \in Nat
  BY <1>1, BatchStarts
<1> QED
  BY <1>1, <1>2, <1>3, PollConstants DEF CountersInv

\* The contracts' guards keep every counter within one batch of the last.
LEMMA CountersStep ==
  ASSUME CountersInv, [Next]_vars
  PROVE  CountersInv'
<1> DEFINE T == BatchesOf(numSignups)
<1>1. /\ T \in Nat /\ numSignups \in Nat
      /\ tallyBatchNum \in Nat /\ rbi \in Nat /\ cbi \in Nat
  BY BatchStarts DEF CountersInv
<1>2. CASE PollNext /\ UNCHANGED mpVars /\ UNCHANGED <<tallyVars, subsidyVars>>
  <2>1. UNCHANGED <<processingComplete, tallyBatchNum, rbi, cbi>>
    BY <1>2 DEF mpVars, tallyVars, subsidyVars
  <2>2. BatchesOf(numSignups') \in Nat /\ BatchesOf(numSignups)' = BatchesOf(numSignups')
    BY <1>2, PollStorage, BatchStarts DEF BatchesOf
  <2>3. CASE stateAqMerged
    <3>1. numSignups' = numSignups /\ stateAqMerged'
      BY <1>2, <2>3, PollStorage
    <3> QED
      BY <1>2, <2>1, <2>2, <3>1, PollStorage DEF CountersInv
  <2>4. CASE ~stateAqMerged
    <3>1. tallyBatchNum = 0 /\ rbi = 0 /\ cbi = 0 /\ ~processingComplete
      BY <2>4 DEF CountersInv
    <3>2. processingComplete' \in BOOLEAN /\ ~processingComplete'
      BY <2>1, <3>1 DEF CountersInv
    <3> QED
      BY <1>2, <2>1, <2>2, <3>1, <3>2, PollStorage DEF CountersInv
  <2> QED
    BY <2>3, <2>4
<1>3. CASE processMessages /\ UNCHANGED <<tallyVars, subsidyVars>>
  <2>1. stateAqMerged /\ UNCHANGED pollVars /\ processingComplete' \in BOOLEAN
    BY <1>3, BatchStep DEF processMessages
  <2>2. UNCHANGED <<tallyBatchNum, rbi, cbi>>
    BY <1>3 DEF tallyVars, subsidyVars
  <2> QED
    BY <2>1, <2>2 DEF CountersInv, pollVars, BatchesOf
<1>4. CASE tallyVotes
  <2>1. /\ UNCHANGED pollVars /\ UNCHANGED mpVars /\ UNCHANGED subsidyVars
        /\ tallyBatchNum' = tallyBatchNum + 1
        /\ processingComplete
        /\ ~(tallyBatchNum * tallyBatchSize >= numSignups)
    BY <1>4 DEF tallyVotes, Updated, isTallied
  <2>2. tallyBatchNum < T
    BY <1>1, <2>1, BatchStarts
  <2> HIDE DEF T
  <2>3. tallyBatchNum' \in 0..T
    BY <1>1, <2>1, <2>2
  <2> QED
    BY <2>1, <2>3 DEF CountersInv, pollVars, mpVars, subsidyVars, T, BatchesOf
<1>5. CASE updateSubsidy
  <2>1. /\ UNCHANGED pollVars /\ UNCHANGED mpVars /\ UNCHANGED tallyVars
        /\ rbi' = NextSubsidyIndex[1] /\ cbi' = NextSubsidyIndex[2]
        /\ processingComplete
        /\ rbi * tallyBatchSize <= numSignups /\ cbi * tallyBatchSize <= numSignups
    BY <1>5 DEF updateSubsidy, Updated
  <2>2. rbi <= T /\ cbi <= T /\ rbi <= cbi
    BY <1>1, <2>1, BatchStarts DEF CountersInv
  <2>3. \/ rbi' = rbi /\ cbi' = cbi + 1
        \/ rbi' = rbi + 1 /\ cbi' = rbi + 1
    BY <2>1 DEF NextSubsidyIndex
  <2> HIDE DEF T
  <2>4. rbi' \in 0..(T + 1) /\ cbi' \in rbi'..(T + 1)
    BY <1>1, <2>2, <2>3
  <2> QED
    BY <2>1, <2>4 DEF CountersInv, pollVars, mpVars, tallyVars, T, BatchesOf
<1>6. CASE updateTallySbCommitment \/ updateSubsidySbCommitment \/ UNCHANGED vars
  <2>1. /\ UNCHANGED pollVars /\ UNCHANGED mpVars
        /\ UNCHANGED <<tallyBatchNum, rbi, cbi>>
    BY <1>6 DEF updateTallySbCommitment, updateSubsidySbCommitment, vars, tallyVars, subsidyVars
  <2> QED
    BY <2>1 DEF CountersInv, pollVars, mpVars, BatchesOf
<1> QED
  BY <1>2, <1>3, <1>4, <1>5, <1>6 DEF Next, MPNext

\* The storage of the contracts of a poll keeps its types and bounds, for
\* every batch size: no counter passes the number of batches by more than the
\* one row that Subsidy's comparison allows.
THEOREM StorageTyped == Spec => []TypeOK
<1>1. CountersInv /\ [Next]_vars => CountersInv'
  BY CountersStep
<1>2. CountersInv /\ MPTypeOK => TypeOK
  BY DEF CountersInv, TypeOK, TallyBatches, BatchesOf
<1>3. [Next]_vars => [MPNext]_mpAllVars
  BY ProcessorSteps
<1>4. Spec => MPSpec
  BY <1>3, PTL DEF Spec, Init, MPSpec
<1> QED
  BY CountersInitially, <1>1, <1>2, <1>4, CountersTyped, PTL DEF Spec

-----------------------------------------------------------------------------
(***************************************************************************)
(* The walk over the pairs of batches.                                     *)
(***************************************************************************)
LEMMA WalkInitially == Init => WalkInv
<1> SUFFICES ASSUME Init PROVE WalkInv
  OBVIOUS
<1>1. subsidyCommitment = << >> /\ rbi = 0 /\ cbi = 0
  BY DEF Init
<1>2. subsidyCommitment \in Seq(Nat \X Nat) /\ Len(subsidyCommitment) = 0
  BY <1>1, EmptySeq, Zenon
<1>3. \A a, b \in Nat : ~Before(<<a, b>>, rbi, cbi)
  BY <1>1 DEF Before
<1> QED
  BY <1>2, <1>3 DEF WalkInv

LEMMA WalkStep ==
  ASSUME CountersInv, WalkInv, updateSubsidy
  PROVE  WalkInv'
<1> DEFINE sc == subsidyCommitment
           T == BatchesOf(numSignups)
           k == Len(sc)
<1>1. T \in Nat /\ numSignups \in Nat /\ rbi \in Nat /\ cbi \in Nat /\ rbi <= cbi
  BY BatchStarts DEF CountersInv
<1>2. /\ sc' = Append(sc, <<rbi, cbi>>)
      /\ rbi' = NextSubsidyIndex[1] /\ cbi' = NextSubsidyIndex[2]
      /\ UNCHANGED numSignups
  BY DEF updateSubsidy, pollVars
<1>3. \/ rbi' = rbi /\ cbi' = cbi + 1
      \/ T <= cbi + 1 /\ rbi' = rbi + 1 /\ cbi' = rbi + 1
  <2>1. (cbi + 1) * tallyBatchSize = cbi * tallyBatchSize + tallyBatchSize
    BY <1>1, BatchStarts
  <2>2. cbi + 1 \in Nat
    BY <1>1
  <2>3. (cbi + 1) * tallyBatchSize < numSignups <=> cbi + 1 < T
    BY <1>1, <2>2, BatchStarts
  <2> HIDE DEF T
  <2> QED
    BY <1>1, <1>2, <2>1, <2>2, <2>3 DEF NextSubsidyIndex
<1>4. rbi' \in Nat /\ cbi' \in Nat
  BY <1>1, <1>3
<1> HIDE DEF T
<1>5. /\ \A a, b \in Nat : Before(<<a, b>>, rbi, cbi) => Before(<<a, b>>, rbi', cbi')
      /\ Before(<<rbi, cbi>>, rbi', cbi')
      /\ \A a, b \in Nat :
           (a <= b /\ b < T /\ Before(<<a, b>>, rbi', cbi')) =>
             Before(<<a, b>>, rbi, cbi) \/ (a = rbi /\ b = cbi)
  <2>1. CASE rbi' = rbi /\ cbi' = cbi + 1
    BY <1>1, <2>1 DEF Before
  <2>2. CASE T <= cbi + 1 /\ rbi' = rbi + 1 /\ cbi' = rbi + 1
    BY <1>1, <2>2 DEF Before
  <2> QED
    BY <1>3, <2>1, <2>2
<1>6. /\ sc \in Seq(Nat \X Nat) /\ k \in Nat
      /\ \A i \in 1..k : sc[i] \in Nat \X Nat
  BY DEF WalkInv
<1>7. /\ sc' \in Seq(Nat \X Nat) /\ Len(sc') = k + 1
      /\ \A i \in 1..k : sc'[i] = sc[i]
      /\ sc'[k + 1] = <<rbi, cbi>>
  BY <1>1, <1>2, <1>6, AppendProperties
<1>8. \A p \in Nat \X Nat : p = <<p[1], p[2]>> /\ p[1] \in Nat /\ p[2] \in Nat
  OBVIOUS
<1>9. \A p \in Nat \X Nat : Before(p, rbi, cbi) => Before(p, rbi', cbi')
  BY <1>5, <1>8 DEF Before
<1>10. /\ \A i \in 1..k : sc[i][1] <= sc[i][2] /\ Before(sc[i], rbi, cbi)
       /\ \A i, j \in 1..k : i < j => Before(sc[i], sc[j][1], sc[j][2])
       /\ \A a, b \in Nat :
            (a <= b /\ b < T /\ Before(<<a, b>>, rbi, cbi)) => \E i \in 1..k : sc[i] = <<a, b>>
  BY DEF WalkInv, T
<1> HIDE DEF sc, k
<1>11. ASSUME NEW i \in 1..(k + 1)
       PROVE  sc'[i][1] <= sc'[i][2] /\ Before(sc'[i], rbi', cbi')
  <2>1. CASE i \in 1..k
    BY <1>6, <1>7, <1>9, <1>10, <2>1
  <2>2. CASE i = k + 1
    <3>1. sc'[i] = <<rbi, cbi>>
      BY <1>7, <2>2
    <3>2. <<rbi, cbi>>[1] <= <<rbi, cbi>>[2] /\ Before(<<rbi, cbi>>, rbi', cbi')
      BY <1>1, <1>5
    <3> QED
      BY <3>1, <3>2, Zenon
  <2> QED
    BY <1>6, <2>1, <2>2
<1>12. ASSUME NEW i \in 1..(k + 1), NEW j \in 1..(k + 1), i < j
       PROVE  Before(sc'[i], sc'[j][1], sc'[j][2])
  <2>1. i \in 1..k
    BY <1>6, <1>12
  <2>2. CASE j \in 1..k
    BY <1>7, <1>10, <1>12, <2>1, <2>2
  <2>3. CASE j = k + 1
    BY <1>7, <1>10, <2>1, <2>3
  <2> QED
    BY <1>6, <2>2, <2>3
<1>13. ASSUME NEW a \in Nat, NEW b \in Nat, a <= b, b < T, Before(<<a, b>>, rbi', cbi')
       PROVE  \E i \in 1..(k + 1) : sc'[i] = <<a, b>>
  <2>1. CASE Before(<<a, b>>, rbi, cbi)
    <3>1. PICK i \in 1..k : sc[i] = <<a, b>>
      BY <1>10, <1>13, <2>1
    <3>2. i \in 1..(k + 1)
      BY <1>6
    <3>3. sc'[i] = <<a, b>>
      BY <1>7, <3>1, Zenon
    <3> QED
      BY <3>2, <3>3
  <2>2. CASE a = rbi /\ b = cbi
    <3>1. k + 1 \in 1..(k + 1) /\ sc'[k + 1] = <<a, b>>
      BY <1>6, <1>7, <2>2
    <3> QED
      BY <3>1
  <2> QED
    BY <1>5, <1>13, <2>1, <2>2
<1>14. BatchesOf(numSignups)' = T
  BY <1>2 DEF T, BatchesOf
<1> QED
  BY <1>7, <1>11, <1>12, <1>13, <1>14 DEF WalkInv, sc

\* Before the state tree is merged no pair has been taken, so that a change of
\* numSignups does no harm.
LEMMA WalkKept ==
  ASSUME CountersInv, WalkInv, UNCHANGED subsidyCommitment, UNCHANGED rbi, UNCHANGED cbi,
         numSignups' = numSignups \/ ~stateAqMerged
  PROVE  WalkInv'
<1>1. CASE numSignups' = numSignups
  BY <1>1 DEF WalkInv, Before, BatchesOf
<1>2. CASE ~stateAqMerged
  <2>1. \A a, b \in Nat : ~Before(<<a, b>>, rbi, cbi)
    BY <1>2 DEF CountersInv, Before
  <2> QED
    BY <2>1 DEF WalkInv, Before
<1> QED
  BY <1>1, <1>2

LEMMA WalkInductive ==
  ASSUME CountersInv, WalkInv, [Next]_vars
  PROVE  WalkInv'
<1>1. CASE PollNext /\ UNCHANGED mpVars /\ UNCHANGED <<tallyVars, subsidyVars>>
  <2>1. UNCHANGED subsidyCommitment /\ UNCHANGED rbi /\ UNCHANGED cbi
    BY <1>1 DEF subsidyVars
  <2>2. numSignups' = numSignups \/ ~stateAqMerged
    BY <1>1, PollStorage
  <2> QED
    BY <2>1, <2>2, WalkKept
<1>2. CASE updateSubsidy
  BY <1>2, WalkStep
<1>3. CASE \/ processMessages /\ UNCHANGED <<tallyVars, subsidyVars>>
           \/ tallyVotes \/ updateTallySbCommitment \/ updateSubsidySbCommitment
           \/ UNCHANGED vars
  <2>1. /\ UNCHANGED subsidyCommitment /\ UNCHANGED rbi /\ UNCHANGED cbi
        /\ numSignups' = numSignups
    BY <1>3 DEF processMessages, tallyVotes, updateTallySbCommitment, updateSubsidySbCommitment,
                vars, subsidyVars, pollVars
  <2> QED
    BY <2>1, WalkKept
<1> QED
  BY <1>1, <1>2, <1>3 DEF Next, MPNext

\* Two ordered pairs with the same members are the same pair.
LEMMA SameMembers ==
  ASSUME NEW p \in Nat \X Nat, NEW q \in Nat \X Nat, p[1] <= p[2], q[1] <= q[2],
         Range(p) = Range(q)
  PROVE  p[1] = q[1] /\ p[2] = q[2]
<1>1. ASSUME NEW r \in Nat \X Nat PROVE Range(r) = {r[1], r[2]}
  BY <1>1 DEF Range
<1>2. {p[1], p[2]} = {q[1], q[2]}
  BY <1>1
<1> QED
  BY <1>2

LEMMA PairsOnce ==
  ASSUME CountersInv, WalkInv
  PROVE  SubsidyPairsOnce
<1> DEFINE sc == subsidyCommitment
           T == BatchesOf(numSignups)
<1>1. /\ sc \in Seq(Nat \X Nat) /\ DOMAIN sc = 1..Len(sc)
      /\ \A i \in 1..Len(sc) : sc[i] \in Nat \X Nat
  BY DEF WalkInv
<1>2. ASSUME NEW i \in 1..Len(sc), NEW j \in 1..Len(sc), Range(sc[i]) = Range(sc[j]), i < j
      PROVE  FALSE
  <2>1. sc[i][1] = sc[j][1] /\ sc[i][2] = sc[j][2]
    BY <1>1, <1>2, SameMembers DEF WalkInv
  <2>2. Before(sc[i], sc[j][1], sc[j][2])
    BY <1>2 DEF WalkInv
  <2>3. sc[j][1] \in Nat /\ sc[j][2] \in Nat
    BY <1>1
  <2> QED
    BY <2>1, <2>2, <2>3 DEF Before
<1>3. ASSUME NEW i \in DOMAIN sc, NEW j \in DOMAIN sc, Range(sc[i]) = Range(sc[j])
      PROVE  i = j
  <2>1. i \in 1..Len(sc) /\ j \in 1..Len(sc)
    BY <1>1
  <2>2. ~(i < j) /\ ~(j < i)
    BY <1>2, <1>3, <2>1
  <2> QED
    BY <2>1, <2>2
<1>4. ASSUME rbi * tallyBatchSize >= numSignups,
             NEW p \in (0..(T - 1)) \X (0..(T - 1)), p[1] <= p[2]
      PROVE  p \in Range(sc)
  <2>1. rbi \in Nat /\ T \in Nat /\ numSignups \in Nat
    BY BatchStarts DEF CountersInv
  <2>2. ~(rbi < T)
    BY <1>4, <2>1, BatchStarts
  <2> HIDE DEF T
  <2>3. p[1] \in Nat /\ p[2] \in Nat /\ p = <<p[1], p[2]>> /\ p[2] < T /\ p[1] < rbi
    BY <1>4, <2>1, <2>2
  <2>4. Before(<<p[1], p[2]>>, rbi, cbi)
    BY <2>3 DEF Before
  <2>5. PICK i \in 1..Len(sc) : sc[i] = p
    BY <1>4, <2>3, <2>4 DEF WalkInv, T
  <2> QED
    BY <1>1, <2>5 DEF Range
<1> QED
  BY <1>3, <1>4 DEF SubsidyPairsOnce, TallyBatches, BatchesOf

\* For every batch size and number of sign-ups no two updates of the subsidy
\* are of the same two batches, and when no row is left none is missing.
THEOREM EveryPairOnce == Spec => []SubsidyPairsOnce
<1>1. CountersInv /\ WalkInv /\ [Next]_vars => CountersInv' /\ WalkInv'
  BY CountersStep, WalkInductive
<1>2. CountersInv /\ WalkInv => SubsidyPairsOnce
  BY PairsOnce
<1> QED
  BY CountersInitially, WalkInitially, <1>1, <1>2, PTL DEF Spec

-----------------------------------------------------------------------------
(***************************************************************************)
(* The contracts implement AbstractPoll.                                   *)
(***************************************************************************)

\* The number of sign-ups is fixed with the state tree, and is not 0.
SignUpsFixed == IF stateAqMerged THEN numSignups > 0 ELSE numSignups = 0

RefInv == TallyInv /\ ResultsUseFinalCommitment /\ SignUpsFixed

LEMMA SignUpsStep ==
  ASSUME SignUpsFixed, [Next]_vars
  PROVE  SignUpsFixed'
<1>1. CASE UNCHANGED <<numSignups, stateAqMerged>>
  BY <1>1 DEF SignUpsFixed
<1>2. CASE MergeStateTree
  BY <1>2, PollConstants DEF MergeStateTree, mergeMaciStateAq, SignUpsFixed
<1>3. CASE PeriodEnds \/ \E state \in BOOLEAN : setFinish(state)
  BY <1>1, <1>3 DEF PeriodEnds, setFinish
<1>4. CASE publishMessage \/ topup \/ publishMessageBatch
  BY <1>1, <1>4 DEF publishMessage, topup, publishMessageBatch, Publish
<1>5. CASE MergeMessageSubRoots \/ mergeMessageAq
  BY <1>1, <1>5 DEF MergeMessageSubRoots, mergeMessageAqSubRoots, mergeMessageAq
<1>6. CASE processMessages
  BY <1>1, <1>6 DEF processMessages, pollVars
<1>7. CASE updateTallySbCommitment \/ tallyVotes \/ updateSubsidySbCommitment \/ updateSubsidy
  BY <1>1, <1>7 DEF updateTallySbCommitment, tallyVotes, updateSubsidySbCommitment,
                    updateSubsidy, pollVars
<1>8. CASE UNCHANGED vars
  BY <1>1, <1>8 DEF vars, pollVars
<1> QED
  BY <1>2, <1>3, <1>4, <1>5, <1>6, <1>7, <1>8 DEF Next, MPNext, PollNext

LEMMA RefInitially == Init => RefInv
<1> SUFFICES ASSUME Init PROVE RefInv
  OBVIOUS
<1>1. TallyInv
  BY TallyInitially
<1>2. ResultsUseFinalCommitment
  BY DEF Init, ResultsUseFinalCommitment
<1>3. SignUpsFixed
  BY DEF Init, PollInit, SignUpsFixed
<1> QED
  BY <1>1, <1>2, <1>3 DEF RefInv

LEMMA RefStep == RefInv /\ [Next]_vars => RefInv'
BY TallyStep, CommitmentStep, SignUpsStep DEF RefInv

-----------------------------------------------------------------------------
LEMMA InitialPromise == Init => Promise!APInit
BY DEF Init, PollInit, MPInit, Promise!APInit, Promise!None, Empty

\* The merge of the state tree fixes the voters; the poll's other steps are
\* invisible.
LEMMA PollKeeps ==
  ASSUME RefInv, PollNext, UNCHANGED mpVars, UNCHANGED <<tallyVars, subsidyVars>>
  PROVE  [Promise!APNext]_(Promise!apVars)
<1>1. UNCHANGED <<sbCommitment, processingComplete, tallySbCommitment, tallyCommitment>>
  BY DEF mpVars, tallyVars
<1>2. CASE UNCHANGED numSignups
  BY <1>1, <1>2 DEF Promise!apVars
<1>3. CASE MergeStateTree
  <2>1. numSignups = 0 /\ numSignups' \in Nat \ {0}
    BY <1>3, PollConstants DEF MergeStateTree, mergeMaciStateAq, RefInv, SignUpsFixed
  <2> QED
    BY <1>1, <2>1 DEF Promise!APNext, Promise!FixVoters
<1>4. CASE PeriodEnds \/ \E state \in BOOLEAN : setFinish(state)
  BY <1>2, <1>4 DEF PeriodEnds, setFinish
<1>5. CASE publishMessage \/ topup \/ publishMessageBatch
  BY <1>2, <1>5 DEF publishMessage, topup, publishMessageBatch, Publish
<1>6. CASE MergeMessageSubRoots \/ mergeMessageAq
  BY <1>2, <1>6 DEF MergeMessageSubRoots, mergeMessageAqSubRoots, mergeMessageAq
<1> QED
  BY <1>3, <1>4, <1>5, <1>6 DEF PollNext

LEMMA ProcessKeeps ==
  ASSUME RefInv, processMessages, UNCHANGED <<tallyVars, subsidyVars>>
  PROVE  Promise!Process
<1>1. stateAqMerged /\ ~processingComplete /\ processingComplete' \in BOOLEAN
      /\ UNCHANGED <<numSignups, stateAqMerged>>
  BY BatchStep DEF processMessages, pollVars
<1>2. numSignups > 0
  BY <1>1 DEF RefInv, SignUpsFixed
<1>3. UNCHANGED <<tallySbCommitment, tallyCommitment>>
  BY DEF tallyVars
<1> QED
  BY <1>1, <1>2, <1>3 DEF Promise!Process

\* The copy of the commitment is taken when it is final, and once.
LEMMA ChooseKeeps ==
  ASSUME RefInv, updateTallySbCommitment
  PROVE  [Promise!APNext]_(Promise!apVars)
<1>1. UNCHANGED <<numSignups, sbCommitment, processingComplete, tallyCommitment>>
  BY DEF updateTallySbCommitment, pollVars, mpVars
<1>2. processingComplete /\ tallySbCommitment' = sbCommitment
  BY UpdatedIsFinal DEF updateTallySbCommitment, RefInv, ResultsUseFinalCommitment
<1>3. CASE tallySbCommitment = Empty
  BY <1>1, <1>2, <1>3 DEF Promise!APNext, Promise!Choose, Promise!None, Empty
<1>4. CASE tallySbCommitment # Empty
  <2>1. tallySbCommitment' = tallySbCommitment
    BY <1>2, <1>4 DEF RefInv, ResultsUseFinalCommitment
  <2> QED
    BY <1>1, <2>1 DEF Promise!apVars
<1> QED
  BY <1>3, <1>4

\* A tally batch extends the ballots counted to those of more sign-ups.
LEMMA CountKeeps ==
  ASSUME RefInv, tallyVotes
  PROVE  Promise!Count
<1> DEFINE n == numSignups
           t == tallyBatchNum
           k == Tallied(t + 1, n)
<1>1. UNCHANGED <<numSignups, sbCommitment, processingComplete>>
  BY DEF tallyVotes, pollVars, mpVars
<1>2. processingComplete /\ tallySbCommitment' = sbCommitment
      /\ tallySbCommitment \in {Empty, sbCommitment}
  BY UpdatedIsFinal DEF tallyVotes, RefInv, ResultsUseFinalCommitment
<1>3. n \in Nat /\ t \in Nat /\ t * tallyBatchSize \in Nat
      /\ tallyCommitment = SubSeq(Ballots(n), 1, Tallied(t, n))
  BY TalliedRange DEF RefInv, TallyInv
<1>4. t * tallyBatchSize < n
  BY <1>3 DEF tallyVotes, isTallied
<1>5. tallyCommitment' = SubSeq(Ballots(n), 1, k)
  BY <1>3, <1>4, BatchContinues DEF tallyVotes
<1>6. /\ Tallied(t, n) \in 0..n /\ k \in 0..n
      /\ Tallied(t, n) < k
  <2>1. (t + 1) * tallyBatchSize = t * tallyBatchSize + tallyBatchSize
        /\ t + 1 \in Nat /\ tallyBatchSize \in Nat \ {0}
    BY <1>3, TalliedRange, TallyConstants
  <2> QED
    BY <1>3, <1>4, <2>1, TalliedRange DEF Tallied
<1>7. tallyCommitment' = Ballots(k) /\ Len(tallyCommitment) = Tallied(t, n)
  <2> HIDE DEF n, t, k
  <2>1. /\ SubSeq(Ballots(n), 1, k) = Ballots(k)
        /\ SubSeq(Ballots(n), 1, Tallied(t, n)) = Ballots(Tallied(t, n))
    BY <1>3, <1>6, PrefixOfBallots
  <2>2. Tallied(t, n) \in Nat
    BY <1>3, <1>6
  <2>3. Len(Ballots(Tallied(t, n))) = Tallied(t, n)
    BY <2>2, BallotsSeq
  <2> QED
    BY <1>3, <1>5, <2>1, <2>3
<1>8. k \in (Len(tallyCommitment) + 1)..n
  BY <1>3, <1>6, <1>7
<1> HIDE DEF k
<1> QED
  BY <1>1, <1>2, <1>7, <1>8 DEF Promise!Count, Promise!None, Empty, Ballots

LEMMA StepKeeps ==
  ASSUME RefInv, [Next]_vars
  PROVE  [Promise!APNext]_(Promise!apVars)
<1>1. CASE MPNext /\ UNCHANGED <<tallyVars, subsidyVars>>
  BY <1>1, PollKeeps, ProcessKeeps DEF MPNext, Promise!APNext
<1>2. CASE updateTallySbCommitment
  BY <1>2, ChooseKeeps
<1>3. CASE tallyVotes
  BY <1>3, CountKeeps DEF Promise!APNext
<1>4. CASE updateSubsidySbCommitment \/ updateSubsidy \/ UNCHANGED vars
  <2>1. UNCHANGED <<numSignups, sbCommitment, processingComplete,
                    tallySbCommitment, tallyCommitment>>
    BY <1>4 DEF updateSubsidySbCommitment, updateSubsidy, vars, pollVars, mpVars, tallyVars
  <2> QED
    BY <2>1 DEF Promise!apVars
<1> QED
  BY <1>1, <1>2, <1>3, <1>4 DEF Next

\* Whoever calls Poll, MessageProcessor, Tally and Subsidy, in whatever order
\* and of whatever size: the result is the abstract poll's.
THEOREM Refinement == Spec => KeepsPromise
<1>1. RefInv /\ [Next]_vars => [Promise!APNext]_(Promise!apVars)
  BY StepKeeps
<1>2. Spec => []RefInv
  BY RefInitially, RefStep, PTL DEF Spec
<1> QED
  BY <1>1, <1>2, InitialPromise, PTL DEF Spec, KeepsPromise, Promise!APSpec

-----------------------------------------------------------------------------
(***************************************************************************)
(* The contracts, as the proving scripts find them.                        *)
(***************************************************************************)
IsSequence(s) == s \in Seq(Range(s))

\* Once there is something to commit to, the commitments are not empty.
CommitmentInv ==
  /\ stateAqMerged => currentSbCommitment = <<InitialState>>
  /\ numBatchesProcessed > 0 => IsSequence(sbCommitment) /\ sbCommitment # Empty
  /\ processingComplete => numBatchesProcessed > 0
  /\ tallyBatchNum > 0 => tallySbCommitment # Empty

LEMMA Joined ==
  ASSUME NEW s, IsSequence(s), s # Empty, NEW root, NEW i \in Int, NEW j \in Int
  PROVE  LET new == s \o Reverse(SubSeq(root, i, j)) IN IsSequence(new) /\ new # Empty
<1> DEFINE T == Range(s) \cup {root[m] : m \in i..j}
           part == SubSeq(root, i, j)
           new == s \o Reverse(part)
<1>1. s \in Seq(T) /\ Len(s) > 0
  BY DEF IsSequence, Empty
<1>2. part \in Seq(T)
  BY SubSeqProperties
<1> HIDE DEF part, T
<1>3. Reverse(part) \in Seq(T)
  BY <1>2 DEF Reverse
<1> HIDE DEF new
<1>4. new \in Seq(T) /\ Len(new) > 0
  BY <1>1, <1>3, ConcatProperties DEF new
<1>5. IsSequence(new)
  BY <1>4, SeqDef DEF IsSequence, Range
<1> QED
  BY <1>4, <1>5 DEF new, part, Empty

LEMMA CommitmentsProcess ==
  ASSUME IInv, CommitmentInv, processMessages, UNCHANGED tallyVars
  PROVE  CommitmentInv'
<1>1. stateAqMerged /\ UNCHANGED pollVars
  BY DEF processMessages
<1>2. numBatchesProcessed \in Nat /\ numBatchesProcessed' = numBatchesProcessed + 1
  BY DEF processMessages, IInv, MPTypeOK
<1>3. BatchIndex \in Int /\ BatchEndIndex(BatchIndex) \in Int
  BY FirstBatch, MessageBatchSize DEF IInv, MPTypeOK, BatchIndex, BatchEndIndex
<1>4. IsSequence(<<InitialState>>) /\ <<InitialState>> # Empty
  BY DEF IsSequence, Range, Empty
<1>5. IsSequence(CurrentSbCommitment) /\ CurrentSbCommitment # Empty
  BY <1>1, <1>2, <1>4 DEF CommitmentInv, CurrentSbCommitment
<1>6. IsSequence(sbCommitment') /\ sbCommitment' # Empty
  <2> DEFINE root == getMainRoot(messageAq, messageTreeDepth)
             end == BatchEndIndex(BatchIndex)
  <2>1. sbCommitment' = CurrentSbCommitment \o Reverse(SubSeq(root, BatchIndex + 1, end))
    BY DEF processMessages
  <2>2. BatchIndex + 1 \in Int /\ end \in Int
    BY <1>3
  <2> HIDE DEF root, end
  <2> QED
    BY <1>5, <2>1, <2>2, Joined
<1> QED
  BY <1>1, <1>2, <1>6 DEF CommitmentInv, pollVars, tallyVars

LEMMA CommitmentsStep ==
  ASSUME IInv, ResultsUseFinalCommitment, CommitmentInv, [Next]_vars
  PROVE  CommitmentInv'
<1>1. CASE UNCHANGED <<mpVars, tallyVars, stateAqMerged, currentSbCommitment>>
  BY <1>1 DEF CommitmentInv, mpVars, tallyVars
<1>2. CASE PollNext /\ UNCHANGED mpVars /\ UNCHANGED tallyVars
  <2>1. CASE MergeStateTree
    BY <1>2, <2>1 DEF MergeStateTree, mergeMaciStateAq, CommitmentInv, mpVars, tallyVars
  <2>2. CASE PeriodEnds \/ \E state \in BOOLEAN : setFinish(state)
    BY <1>1, <1>2, <2>2 DEF PeriodEnds, setFinish
  <2>3. CASE publishMessage \/ topup \/ publishMessageBatch
    BY <1>1, <1>2, <2>3 DEF publishMessage, topup, publishMessageBatch, Publish
  <2>4. CASE MergeMessageSubRoots \/ mergeMessageAq
    BY <1>1, <1>2, <2>4 DEF MergeMessageSubRoots, mergeMessageAqSubRoots, mergeMessageAq
  <2> QED
    BY <1>2, <2>1, <2>2, <2>3, <2>4 DEF PollNext
<1>3. CASE processMessages /\ UNCHANGED tallyVars
  BY <1>3, CommitmentsProcess
<1>4. CASE updateTallySbCommitment \/ tallyVotes
  <2>1. UNCHANGED <<mpVars, stateAqMerged, currentSbCommitment>>
    BY <1>4 DEF updateTallySbCommitment, tallyVotes, pollVars
  <2>2. tallySbCommitment' \in Updated(tallySbCommitment)
    BY <1>4 DEF updateTallySbCommitment, tallyVotes
  <2>3. processingComplete /\ tallySbCommitment' = sbCommitment
    BY <2>2, UpdatedIsFinal DEF ResultsUseFinalCommitment
  <2> QED
    BY <2>1, <2>3 DEF CommitmentInv, mpVars
<1>5. CASE updateSubsidySbCommitment \/ updateSubsidy
  BY <1>1, <1>5 DEF updateSubsidySbCommitment, updateSubsidy, pollVars
<1>6. CASE UNCHANGED vars
  BY <1>1, <1>6 DEF vars, pollVars
<1> QED
  BY <1>2, <1>3, <1>4, <1>5, <1>6 DEF Next, MPNext

\* All that is used of the contracts.
ContractInv == IInv /\ RefInv /\ CommitmentInv

LEMMA ContractStep ==
  ASSUME ContractInv, [Next]_vars
  PROVE  ContractInv'
<1>1. IInv'
  BY ProcessorSteps, Inductive DEF ContractInv
<1>2. RefInv'
  BY RefStep DEF ContractInv
<1>3. CommitmentInv'
  BY CommitmentsStep DEF ContractInv, RefInv
<1> QED
  BY <1>1, <1>2, <1>3 DEF ContractInv

-----------------------------------------------------------------------------
(***************************************************************************)
(* Numbers of batches.                                                     *)
(***************************************************************************)
\* A batch is missing exactly if the batches done do not reach the last message.
LEMMA MessageBatches ==
  ASSUME NEW n \in Nat \ {0}, NEW done \in Nat
  PROVE  /\ totalMessageBatches(n) \in Nat
         /\ done < totalMessageBatches(n) <=> messageBatchSize * done < n
<1> DEFINE B == messageBatchSize
           c == n \div B
           r == n % B
<1>1. B \in Nat \ {0}
  BY MessageBatchSize
<1>2. totalMessageBatches(n) = IF n <= B THEN 1 ELSE c + (IF r > 0 THEN 1 ELSE 0)
  BY DEF totalMessageBatches
<1> HIDE DEF B
<1> SUFFICES /\ totalMessageBatches(n) \in Nat
             /\ done < totalMessageBatches(n) <=> B * done < n
  BY DEF B
<1>3. c \in Nat /\ r \in 0..(B - 1) /\ n = B * c + r
  BY <1>1
<1> HIDE DEF c, r
<1>4. ASSUME NEW x \in Nat, NEW y \in Nat, x <= y
      PROVE  B * x <= B * y
  BY <1>1, <1>4
<1>5. B * (c + 1) = B * c + B /\ B * 1 = B /\ B * 0 = 0 /\ B * done \in Nat /\ B * c \in Nat
  BY <1>1, <1>3
<1>6. CASE n <= B
  <2>1. done >= 1 => B * 1 <= B * done
    BY <1>4
  <2>2. done = 0 => B * done = 0
    BY <1>1
  <2> QED
    BY <1>1, <1>2, <1>5, <1>6, <2>1, <2>2
<1>7. CASE n > B /\ done >= c + 1
  <2>1. B * (c + 1) <= B * done
    BY <1>3, <1>4, <1>7
  <2> QED
    BY <1>1, <1>2, <1>3, <1>5, <1>7, <2>1
<1>8. CASE n > B /\ done = c
  BY <1>1, <1>2, <1>3, <1>5, <1>8
<1>9. CASE n > B /\ done < c
  <2>1. B * (done + 1) <= B * c /\ B * (done + 1) = B * done + B
    BY <1>1, <1>3, <1>4, <1>9
  <2> QED
    BY <1>1, <1>2, <1>3, <1>5, <1>9, <2>1
<1> QED
  BY <1>1, <1>3, <1>6, <1>7, <1>8, <1>9

\* Where the batch index is after `done` batches of n messages.
IndexBack(n, done) == FirstBatchIndex(n) - messageBatchSize * done

LEMMA IndexSteps ==
  ASSUME NEW n \in Nat \ {0}, NEW done \in Nat, messageBatchSize * (done + 1) < n
  PROVE  /\ IndexBack(n, 0) = FirstBatchIndex(n)
         /\ IndexAfter(IndexBack(n, done)) = IndexBack(n, done + 1)
<1> DEFINE B == messageBatchSize
           F == FirstBatchIndex(n)
<1>1. B \in Nat \ {0}
  BY MessageBatchSize
<1>2. F \in Nat /\ Multiple(F) /\ F < n /\ n <= F + B
  BY FirstBatch
<1>3. PICK c \in Nat : F = c * B
  BY <1>2 DEF Multiple
<1>4. IndexBack(n, done) = F - B * done /\ IndexBack(n, done + 1) = F - B * (done + 1)
      /\ IndexBack(n, 0) = F - B * 0
  BY DEF IndexBack
<1>5. IndexAfter(F - B * done) = IF F - B * done > 0 THEN F - B * done - B ELSE F - B * done
  BY DEF IndexAfter
<1>6. B * (done + 1) < n
  OBVIOUS
<1> HIDE DEF B, F
<1>7. B * (done + 1) = B * done + B /\ B * done \in Nat /\ B * 0 = 0
  BY <1>1
<1>8. F - B * done > 0
  BY <1>1, <1>2, <1>6, <1>7
<1> QED
  BY <1>1, <1>2, <1>4, <1>5, <1>7, <1>8 DEF F

\* The ballot batches the scripts count reach the last ballot.
LEMMA BallotBatches ==
  ASSUME numSignups \in Nat
  PROVE  /\ totalTallyBatches * tallyBatchSize >= numSignups
         /\ totalTallyBatches \in Nat
         /\ numSignups > 0 => totalTallyBatches > 0
<1> DEFINE n == numSignups
           T == tallyBatchSize
           c == n \div T
           r == n % T
<1>1. T \in Nat \ {0} /\ n \in Nat
  BY TallyConstants
<1>2. totalTallyBatches = c + (IF r = 0 THEN 0 ELSE 1)
  BY DEF totalTallyBatches
<1> HIDE DEF T, n
<1>3. c \in Nat /\ r \in 0..(T - 1) /\ n = c * T + r
  BY <1>1
<1> HIDE DEF c, r
<1>4. (c + 1) * T = c * T + T /\ c * T \in Nat /\ (c = 0 => c * T = 0)
  BY <1>1, <1>3
<1> QED
  BY <1>1, <1>2, <1>3, <1>4 DEF n, T

-----------------------------------------------------------------------------
(***************************************************************************)
(* What the files and the chain have to do with each other.                *)
(***************************************************************************)
Kinds == {"process", "subsidy", "tally"}

Run == [n : Nat \ {0}, complete : BOOLEAN]

\* A run of genProofs has seen some of the messages; the files are of such runs.
GensInv ==
  /\ gens \in Seq(Run)
  /\ \A g \in 1..Len(gens) : gens[g].n <= numMessages
  /\ files["process"] \in Seq(1..Len(gens))
  /\ gens # << >> => stateAqMerged

\* The batches on the chain end with one of the run salts["process"], and the
\* contract's index and flag are those of its number of messages.
ChainInv ==
  /\ Kinds \subseteq DOMAIN salts
  /\ numBatchesProcessed > 0 =>
       LET n == gens[salts["process"]].n
       IN  /\ salts["process"] \in 1..Len(gens)
           /\ processingComplete <=> n <= messageBatchSize * numBatchesProcessed
           /\ ~processingComplete =>
                currentMessageBatchIndex = IndexBack(n, numBatchesProcessed)

\* The script has read a number of messages not less than any proof's on the
\* chain; while it submits batches it knows how many there are.
JobInv ==
  /\ DOMAIN job = DOMAIN Idle
  /\ job.pc # "idle" =>
       /\ gens # << >>
       /\ job.n \in 1..numMessages
       /\ numBatchesProcessed > 0 => gens[salts["process"]].n <= job.n
  /\ job.pc \in {"process", "sendProcess"} =>
       job.nb = numBatchesProcessed /\ job.i = numBatchesProcessed
  /\ job.pc = "sendProcess" =>
       ProcessProofValid /\ job.i < totalMessageBatches(job.n)

\* Nobody but sendProcess submits a batch.
Submits ==
  /\ job.pc = "sendProcess"
  /\ ProcessAccepted
  /\ processMessages
  /\ salts' = [salts EXCEPT !["process"] = FileOf("process", job.i)]
  /\ job' = [job EXCEPT !.pc = "process", !.i = job.i + 1, !.nb = numBatchesProcessed']
  /\ UNCHANGED <<gens, files, announced, tallyVars>>

Generates == \E done \in 0..MaxFiles, ends \in BOOLEAN : genProofs(done, ends)

\* All other steps.
Keeps ==
  /\ UNCHANGED <<mpVars, gens, files>>
  /\ salts'["process"] = salts["process"] /\ Kinds \subseteq DOMAIN salts'
  /\ numMessages' \in Nat \ {0} /\ numMessages <= numMessages'
  /\ stateAqMerged => stateAqMerged' /\ numSignups' = numSignups

LEMMA ProverMoves ==
  ASSUME [ProverNext]_proverVars
  PROVE  [Next]_vars
<1>1. CASE ChainStep
  BY <1>1 DEF ChainStep, Next, MPNext
<1>2. CASE Generates \/ mineUpdateSb \/ crash
  BY <1>2 DEF Generates, genProofs, mineUpdateSb, crash, Next
<1>3. CASE startProve \/ readRoot \/ nextProcess \/ readSubsidy \/ sendUpdateSb \/ nextSubsidy
  BY <1>3 DEF startProve, readRoot, nextProcess, readSubsidy, sendUpdateSb, nextSubsidy
<1>4. CASE sendProcess
  BY <1>4 DEF sendProcess, Next, MPNext
<1>5. CASE sendSubsidy \/ nextTally \/ sendTally
  BY <1>5 DEF sendSubsidy, nextTally, sendTally, Next
<1>6. CASE UNCHANGED proverVars
  BY <1>6 DEF proverVars
<1> QED
  BY <1>1, <1>2, <1>3, <1>4, <1>5, <1>6 DEF ProverNext, ProveStep, Generates

\* The state tree is merged once.
LEMMA SignUpsKept ==
  ASSUME PollNext
  PROVE  stateAqMerged => stateAqMerged' /\ numSignups' = numSignups
<1>1. CASE MergeStateTree
  BY <1>1 DEF MergeStateTree, mergeMaciStateAq
<1>2. CASE PeriodEnds \/ \E state \in BOOLEAN : setFinish(state)
  BY <1>2 DEF PeriodEnds, setFinish
<1>3. CASE publishMessage \/ topup \/ publishMessageBatch
  BY <1>3 DEF publishMessage, topup, publishMessageBatch, Publish
<1>4. CASE MergeMessageSubRoots \/ mergeMessageAq
  BY <1>4 DEF MergeMessageSubRoots, mergeMessageAqSubRoots, mergeMessageAq
<1> QED
  BY <1>1, <1>2, <1>3, <1>4 DEF PollNext

LEMMA StepKinds ==
  ASSUME ContractInv, Kinds \subseteq DOMAIN salts, [ProverNext]_proverVars
  PROVE  Submits \/ Generates \/ Keeps
<1>1. numMessages \in Nat \ {0}
  BY DEF ContractInv, IInv, MPTypeOK
<1>2. ASSUME UNCHANGED <<pollVars, mpVars, gens, files>>,
             UNCHANGED salts
             \/ \E kind \in {"subsidy", "tally"} : \E g : salts' = [salts EXCEPT ![kind] = g]
      PROVE  Keeps
  BY <1>1, <1>2 DEF Keeps, Kinds, pollVars
<1>3. CASE ChainStep
  BY <1>1, <1>3, MessagesGrow, SignUpsKept DEF ChainStep, Keeps, coordinatorVars
<1>4. CASE startProve \/ readRoot \/ nextProcess \/ readSubsidy \/ sendUpdateSb
           \/ nextSubsidy \/ crash
  BY <1>2, <1>4
     DEF startProve, readRoot, nextProcess, readSubsidy, sendUpdateSb, nextSubsidy, crash, vars
<1>5. CASE sendProcess
  BY <1>2, <1>5 DEF sendProcess, Submits, vars
<1>6. CASE mineUpdateSb
  BY <1>2, <1>6 DEF mineUpdateSb, updateSubsidySbCommitment
<1>7. CASE sendSubsidy
  BY <1>2, <1>7 DEF sendSubsidy, updateSubsidy
<1>8. CASE nextTally
  BY <1>2, <1>8 DEF nextTally, updateTallySbCommitment, vars
<1>9. CASE sendTally
  BY <1>2, <1>9 DEF sendTally, tallyVotes
<1>10. CASE UNCHANGED proverVars
  BY <1>2, <1>10 DEF proverVars, vars, coordinatorVars
<1> QED
  BY <1>3, <1>4, <1>5, <1>6, <1>7, <1>8, <1>9, <1>10 DEF ProverNext, ProveStep, Generates

-----------------------------------------------------------------------------
LEMMA FunctionIsSeq ==
  ASSUME NEW S, NEW n \in Nat, NEW f \in [1..n -> S]
  PROVE  f \in Seq(S)
BY SeqDef

\* A run that is cut short or not writes files of its own number only.
LEMMA WrittenFiles ==
  ASSUME NEW old, NEW count, NEW done \in Int, NEW g \in Nat \ {0},
         old["process"] \in Seq(1..(g - 1)), count.process \in Int
  PROVE  Written(old, count, done, g)["process"] \in Seq(1..g)
<1> DEFINE m == IF done < 0 THEN 0 ELSE IF done > count.process THEN count.process ELSE done
           len == IF m > Len(old["process"]) THEN m ELSE Len(old["process"])
<1>1. Written(old, count, done, g)["process"] =
        [i \in 1..len |-> IF i <= m THEN g ELSE old["process"][i]]
  BY DEF Written
<1>2. m \in Int /\ Len(old["process"]) \in Nat
  BY SMT
<1> HIDE DEF m
<1>3. len \in Nat /\ \A i \in 1..len : i <= m \/ i \in 1..Len(old["process"])
  BY <1>2
<1>4. \A i \in 1..Len(old["process"]) : old["process"][i] \in 1..g
  BY <1>2
<1> HIDE DEF len
<1> DEFINE new == [i \in 1..len |-> IF i <= m THEN g ELSE old["process"][i]]
<1>5. new \in [1..len -> 1..g]
  BY <1>3, <1>4
<1> HIDE DEF new
<1>6. new \in Seq(1..g)
  BY <1>3, <1>5, FunctionIsSeq
<1> QED
  BY <1>1, <1>6 DEF new

LEMMA FilesBounded ==
  ASSUME ContractInv
  PROVE  MaxFiles \in Int /\ FileCount(numMessages).process \in Int
<1>1. numSignups \in Nat /\ numMessages \in Nat \ {0}
  BY DEF ContractInv, IInv, MPTypeOK, RefInv, TallyInv
<1>2. totalMessageBatches(maxMessages) \in Nat /\ totalMessageBatches(numMessages) \in Nat
  BY <1>1, MessageBatches, PollConstants
<1>3. totalTallyBatches \in Nat
  BY <1>1, BallotBatches
<1>4. totalBatchNum \in Int
  <2>1. num1DBatches \in Int
    BY <1>1, TallyConstants DEF num1DBatches
  <2> QED
    BY <2>1 DEF totalBatchNum
<1> QED
  BY <1>2, <1>3, <1>4 DEF MaxFiles, FileCount

LEMMA RunsSeen ==
  ASSUME GensInv, NEW g \in 1..Len(gens)
  PROVE  gens[g].n \in Nat \ {0} /\ gens[g].n <= numMessages
<1>1. gens[g] \in Run
  BY DEF GensInv
<1>2. gens[g].n \in Nat \ {0}
  BY <1>1 DEF Run
<1> QED
  BY <1>2 DEF GensInv

\* What genProofs leaves alone, and the run it adds.
LEMMA GeneratesStep ==
  ASSUME ContractInv, GensInv, Generates
  PROVE  /\ \E ends \in BOOLEAN : gens' = Append(gens, [n |-> numMessages, complete |-> ends])
         /\ Len(gens') = Len(gens) + 1 /\ \A g \in 1..Len(gens) : gens'[g] = gens[g]
         /\ gens'[Len(gens) + 1].n = numMessages
         /\ gens' \in Seq(Run)
         /\ files'["process"] \in Seq(1..(Len(gens) + 1))
         /\ stateAqMerged /\ job = Idle
         /\ UNCHANGED <<vars, salts, job, announced>>
<1>1. PICK done \in 0..MaxFiles, ends \in BOOLEAN : genProofs(done, ends)
  BY DEF Generates
<1>2. gens' = Append(gens, [n |-> numMessages, complete |-> ends])
  BY <1>1 DEF genProofs
<1>3. /\ stateAqMerged /\ job = Idle
      /\ UNCHANGED <<vars, salts, job, announced>>
  BY <1>1 DEF genProofs, CanGenerate
<1>4. [n |-> numMessages, complete |-> ends] \in Run
  BY DEF ContractInv, IInv, MPTypeOK, Run
<1>5. files' = Written(files, FileCount(numMessages), done, Len(gens) + 1)
  BY <1>1 DEF genProofs
<1>6. Len(gens) \in Nat /\ gens \in Seq(Run)
  BY DEF GensInv
<1>7. files'["process"] \in Seq(1..(Len(gens) + 1))
  <2>1. done \in Int
    BY FilesBounded
  <2>2. Len(gens) + 1 \in Nat \ {0} /\ (Len(gens) + 1) - 1 = Len(gens)
    BY <1>6
  <2>3. files["process"] \in Seq(1..((Len(gens) + 1) - 1))
    BY <2>2 DEF GensInv
  <2> QED
    BY <1>5, <2>1, <2>2, <2>3, FilesBounded, WrittenFiles
<1> QED
  BY <1>2, <1>3, <1>4, <1>6, <1>7, AppendProperties

LEMMA GensStep ==
  ASSUME ContractInv, GensInv, Submits \/ Generates \/ Keeps
  PROVE  GensInv'
<1>1. numMessages \in Nat \ {0} /\ Len(gens) \in Nat
  BY DEF ContractInv, IInv, MPTypeOK, GensInv
<1>2. CASE Submits
  BY <1>2 DEF Submits, processMessages, pollVars, GensInv
<1>3. CASE Generates
  <2>1. \A g \in 1..Len(gens') : gens'[g].n <= numMessages
    <3>1. /\ Len(gens') = Len(gens) + 1 /\ \A g \in 1..Len(gens) : gens'[g] = gens[g]
          /\ gens'[Len(gens) + 1].n = numMessages
      BY <1>3, GeneratesStep
    <3>2. \A g \in 1..Len(gens') : g \in 1..Len(gens) \/ g = Len(gens) + 1
      BY <1>1, <3>1
    <3> QED
      BY <1>1, <3>1, <3>2, RunsSeen
  <2>2. UNCHANGED <<numMessages, stateAqMerged>>
    BY <1>3, GeneratesStep DEF vars, pollVars
  <2> QED
    BY <1>3, <2>1, <2>2, GeneratesStep DEF GensInv
<1>4. CASE Keeps
  <2>1. \A g \in 1..Len(gens) : gens[g].n \in Nat /\ gens[g].n <= numMessages
    BY RunsSeen
  <2>2. /\ UNCHANGED <<gens, files>>
        /\ numMessages' \in Nat \ {0} /\ numMessages <= numMessages'
        /\ stateAqMerged => stateAqMerged'
    BY <1>4 DEF Keeps
  <2>3. \A g \in 1..Len(gens) : gens[g].n <= numMessages'
    BY <1>1, <2>1, <2>2
  <2> QED
    BY <2>2, <2>3 DEF GensInv
<1> QED
  BY <1>2, <1>3, <1>4

-----------------------------------------------------------------------------
\* A batch that is accepted continues the run of the batches before it.
LEMMA SubmittedStep ==
  ASSUME ContractInv, GensInv, ChainInv, JobInv, Submits
  PROVE  ChainInv'
<1> DEFINE g == FileOf("process", job.i)
           n == gens[g].n
           done == numBatchesProcessed
<1>1. done \in Nat /\ job.i = done
  BY DEF ContractInv, IInv, MPTypeOK, JobInv, Submits
<1>2. g \in 1..Len(gens) /\ n \in Nat \ {0}
  <2>1. g \in 1..Len(gens)
    BY <1>1 DEF JobInv, Submits, ProcessProofValid, HasFile, FileOf, GensInv
  <2> QED
    BY <2>1, RunsSeen
<1>3. /\ numMessages = n
      /\ BatchIndex = ProvedIndex(g, done)
  BY <1>1 DEF Submits, ProcessAccepted
<1>4. /\ numBatchesProcessed' = done + 1
      /\ processingComplete' = (numMessages <= messageBatchSize * (done + 1))
      /\ currentMessageBatchIndex' = IndexAfter(BatchIndex)
      /\ UNCHANGED gens
  BY DEF Submits, processMessages, CompleteAfterThis
<1>5. salts' = [salts EXCEPT !["process"] = g] /\ Kinds \subseteq DOMAIN salts
  BY DEF Submits, ChainInv
<1>6. salts'["process"] = g /\ Kinds \subseteq DOMAIN salts'
  BY <1>5 DEF Kinds
<1>7. ASSUME ~processingComplete'
      PROVE  currentMessageBatchIndex' = IndexBack(n, done + 1)
  <2>1. messageBatchSize * (done + 1) < n
    <3>1. messageBatchSize * (done + 1) \in Nat
      BY <1>1, MessageBatchSize
    <3>2. ~(n <= messageBatchSize * (done + 1))
      BY <1>3, <1>4, <1>7
    <3> HIDE DEF done, n
    <3> QED
      BY <1>2, <3>1, <3>2
  <2>2. ProvedIndex(g, done) = IndexBack(n, done)
    <3>1. done * messageBatchSize = messageBatchSize * done
      BY <1>1, MessageBatchSize
    <3> QED
      BY <3>1 DEF ProvedIndex, IndexBack
  <2> QED
    BY <1>1, <1>2, <1>3, <1>4, <2>1, <2>2, IndexSteps
<1> HIDE DEF g, done
<1> QED
  BY <1>1, <1>2, <1>3, <1>4, <1>6, <1>7 DEF ChainInv

LEMMA ChainInvStep ==
  ASSUME ContractInv, GensInv, ChainInv, JobInv, Submits \/ Generates \/ Keeps
  PROVE  ChainInv'
<1>1. CASE Generates
  <2>1. UNCHANGED <<numBatchesProcessed, processingComplete, currentMessageBatchIndex, salts>>
    BY <1>1, GeneratesStep DEF vars, mpVars
  <2>2. Len(gens) \in Nat
    BY DEF GensInv
  <2>3. numBatchesProcessed > 0 => salts["process"] \in 1..Len(gens')
                                   /\ gens'[salts["process"]] = gens[salts["process"]]
    BY <1>1, <2>2, GeneratesStep DEF ChainInv
  <2> QED
    BY <2>1, <2>3 DEF ChainInv
<1>2. CASE Keeps
  BY <1>2 DEF Keeps, mpVars, ChainInv
<1> QED
  BY <1>1, <1>2, SubmittedStep

-----------------------------------------------------------------------------
\* What has been compared stays as it was while the script submits.
LEMMA StillValid ==
  ASSUME ProcessProofValid,
         UNCHANGED <<files, gens, salts, numBatchesProcessed>>,
         job'.n = job.n, job'.i = job.i, job'.nb = job.nb, job'.root = job.root
  PROVE  ProcessProofValid'
BY DEF ProcessProofValid, HasFile, FileOf, CommitmentMatches, currentMessageBatchIndex_,
       ProvedIndex

\* The number of messages the script has read stays large enough.
LEMMA StillRead ==
  ASSUME ContractInv, ChainInv, JobInv, Keeps, job.pc # "idle", job'.n = job.n
  PROVE  /\ gens' # << >>
         /\ job'.n \in 1..numMessages'
         /\ numBatchesProcessed' > 0 => gens'[salts'["process"]].n <= job'.n
<1>1. numMessages \in Nat
  BY DEF ContractInv, IInv, MPTypeOK
<1>2. /\ gens # << >> /\ job.n \in 1..numMessages
      /\ numBatchesProcessed > 0 => gens[salts["process"]].n <= job.n
  BY DEF JobInv
<1>3. UNCHANGED <<gens, numBatchesProcessed>> /\ salts'["process"] = salts["process"]
      /\ numMessages' \in Nat /\ numMessages <= numMessages'
  BY DEF Keeps, mpVars
<1>4. job.n \in 1..numMessages'
  BY <1>1, <1>2, <1>3
<1> QED
  BY <1>2, <1>3, <1>4

LEMMA JobStep ==
  ASSUME ContractInv, GensInv, ChainInv, JobInv, [ProverNext]_proverVars
  PROVE  JobInv'
<1>1. numMessages \in Nat \ {0} /\ numBatchesProcessed \in Nat /\ Len(gens) \in Nat
  BY DEF ContractInv, IInv, MPTypeOK, GensInv
<1>2. DOMAIN job = DOMAIN Idle /\ DOMAIN Idle = {"pc", "n", "root", "nb", "i"}
  BY DEF JobInv, Idle
<1>3. ASSUME Stop
      PROVE  JobInv'
  BY <1>3 DEF Stop, JobInv, Idle
<1>4. ASSUME Keeps, job.pc # "idle", DOMAIN job' = DOMAIN job, job'.n = job.n,
             job'.pc \notin {"process", "sendProcess"}
      PROVE  JobInv'
  BY <1>2, <1>4, StillRead DEF JobInv
<1>5. ASSUME Keeps, UNCHANGED <<job, salts>>
      PROVE  JobInv'
  <2>1. CASE job.pc = "idle"
    BY <1>2, <1>5, <2>1 DEF JobInv
  <2>2. CASE job.pc # "idle"
    <3>1. UNCHANGED <<files, gens, numBatchesProcessed>>
      BY <1>5 DEF Keeps, mpVars
    <3>2. ProcessProofValid => ProcessProofValid'
      BY <1>5, <3>1, StillValid
    <3> QED
      BY <1>2, <1>5, <2>2, <3>1, <3>2, StillRead DEF JobInv
  <2> QED
    BY <2>1, <2>2
<1>6. Submits \/ Generates \/ Keeps
  BY StepKinds DEF ChainInv
<1>7. CASE Generates
  BY <1>7, GeneratesStep DEF JobInv, Idle
<1>8. CASE Submits
  <2> DEFINE g == FileOf("process", job.i)
  <2>1. job' = [job EXCEPT !.pc = "process", !.i = job.i + 1, !.nb = numBatchesProcessed']
        /\ numBatchesProcessed' = numBatchesProcessed + 1
        /\ salts' = [salts EXCEPT !["process"] = g]
        /\ UNCHANGED <<gens, numMessages>>
    BY <1>8 DEF Submits, processMessages, pollVars
  <2>2. salts'["process"] = g
    BY <2>1 DEF ChainInv, Kinds
  <2>3. job.n = gens[g].n /\ gens # << >> /\ job.n \in 1..numMessages
        /\ job.i = numBatchesProcessed
    BY <1>8 DEF Submits, JobInv, ProcessProofValid
  <2>4. DOMAIN job' = DOMAIN Idle /\ job'.pc = "process" /\ job'.n = job.n
        /\ job'.nb = numBatchesProcessed' /\ job'.i = numBatchesProcessed'
    BY <1>2, <2>1, <2>3
  <2> HIDE DEF g
  <2>5. gens'[salts'["process"]].n <= job'.n
    BY <2>1, <2>2, <2>3, <2>4
  <2> QED
    BY <2>1, <2>3, <2>4, <2>5 DEF JobInv
<1>9. CASE Keeps /\ ~Generates /\ ~Submits
  <2>1. CASE ChainStep \/ mineUpdateSb \/ UNCHANGED proverVars
    BY <1>5, <1>9, <2>1 DEF ChainStep, mineUpdateSb, proverVars, coordinatorVars
  <2>2. CASE crash
    BY <1>3, <2>2 DEF crash
  <2>3. CASE startProve
    <3>1. job' = [Idle EXCEPT !.pc = "read", !.n = numMessages]
          /\ UNCHANGED <<numMessages, gens, salts, numBatchesProcessed>>
      BY <2>3 DEF startProve, vars, pollVars, mpVars
    <3>2. gens # << >>
      BY <2>3 DEF startProve, GensInv
    <3>3. numBatchesProcessed > 0 => gens[salts["process"]].n <= numMessages
      BY RunsSeen DEF ChainInv
    <3>4. DOMAIN job' = DOMAIN Idle /\ job'.pc = "read" /\ job'.n = numMessages
      BY <3>1 DEF Idle
    <3> QED
      BY <1>1, <3>1, <3>2, <3>3, <3>4 DEF JobInv
  <2>4. CASE readRoot
    <3>1. CASE CanGetMainRoot(messageAq, messageTreeDepth)
      <4>1. /\ job' = [job EXCEPT !.pc = "process", !.nb = numBatchesProcessed,
                             !.i = numBatchesProcessed,
                             !.root = getMainRoot(messageAq, messageTreeDepth)]
            /\ numBatchesProcessed' = numBatchesProcessed /\ job.pc = "read"
        BY <2>4, <3>1 DEF readRoot, vars, mpVars
      <4>2. DOMAIN job' = DOMAIN Idle /\ job'.pc = "process" /\ job'.n = job.n
            /\ job'.nb = numBatchesProcessed' /\ job'.i = numBatchesProcessed'
        BY <1>2, <4>1
      <4> QED
        BY <1>9, <4>1, <4>2, StillRead DEF JobInv
    <3>2. CASE ~CanGetMainRoot(messageAq, messageTreeDepth)
      BY <1>3, <2>4, <3>2 DEF readRoot
    <3> QED
      BY <3>1, <3>2
  <2>5. CASE nextProcess
    <3>1. CASE job.i >= totalMessageBatches(job.n)
      BY <1>2, <1>4, <1>9, <2>5, <3>1 DEF nextProcess, GoTo
    <3>2. CASE ~(job.i >= totalMessageBatches(job.n)) /\ ProcessProofValid
      <4>1. job.pc = "process" /\ job' = [job EXCEPT !.pc = "sendProcess"]
            /\ UNCHANGED <<files, gens, salts, numBatchesProcessed>>
        BY <2>5, <3>2 DEF nextProcess, GoTo, vars, mpVars
      <4>2. DOMAIN job' = DOMAIN Idle /\ job'.pc = "sendProcess" /\ job'.n = job.n
            /\ job'.nb = job.nb /\ job'.i = job.i /\ job'.root = job.root
        BY <1>2, <4>1
      <4>3. ProcessProofValid'
        BY <3>2, <4>1, <4>2, StillValid
      <4>4. job.nb = numBatchesProcessed /\ job.i = numBatchesProcessed
            /\ job.n \in Nat \ {0}
        BY <1>1, <4>1 DEF JobInv
      <4>5. job'.i < totalMessageBatches(job'.n)
        <5>1. totalMessageBatches(job.n) \in Nat
          BY <1>1, <4>4, MessageBatches
        <5> QED
          BY <1>1, <3>2, <4>2, <4>4, <5>1
      <4> QED
        BY <1>9, <4>1, <4>2, <4>3, <4>4, <4>5, StillRead DEF JobInv
    <3>3. CASE ~(job.i >= totalMessageBatches(job.n)) /\ ~ProcessProofValid
      BY <1>3, <2>5, <3>3 DEF nextProcess
    <3> QED
      BY <3>1, <3>2, <3>3
  <2>6. CASE sendProcess
    BY <1>3, <1>9, <2>6 DEF sendProcess, Submits
  <2>7. CASE readSubsidy \/ sendSubsidy
    BY <1>2, <1>4, <1>9, <2>7 DEF readSubsidy, sendSubsidy
  <2>8. CASE sendUpdateSb
    BY <1>2, <1>3, <1>4, <1>9, <2>8 DEF sendUpdateSb, GoTo
  <2>9. CASE nextSubsidy
    BY <1>2, <1>3, <1>4, <1>9, <2>9 DEF nextSubsidy, GoTo
  <2>10. CASE nextTally
    BY <1>2, <1>3, <1>4, <1>9, <2>10 DEF nextTally, GoTo
  <2>11. CASE sendTally
    BY <1>2, <1>4, <1>9, <2>11 DEF sendTally
  <2> QED
    BY <1>9, <2>1, <2>2, <2>3, <2>4, <2>5, <2>6, <2>7, <2>8, <2>9, <2>10, <2>11
       DEF ProverNext, ProveStep, Generates
<1> QED
  BY <1>6, <1>7, <1>8, <1>9

-----------------------------------------------------------------------------
(***************************************************************************)
(* What is reported.                                                       *)
(***************************************************************************)
LEMMA CompleteKept ==
  ASSUME Submits \/ Generates \/ Keeps, processingComplete,
         ContractInv, GensInv
  PROVE  processingComplete'
<1>1. CASE Submits
  BY <1>1 DEF Submits, ProcessAccepted
<1>2. CASE Generates
  BY <1>2, GeneratesStep DEF vars, mpVars
<1>3. CASE Keeps
  BY <1>3 DEF Keeps, mpVars
<1> QED
  BY <1>1, <1>2, <1>3

LEMMA TalliedKept ==
  ASSUME ContractInv, [Next]_vars, tallySbCommitment # Empty, isTallied
  PROVE  tallySbCommitment' # Empty /\ isTallied'
<1>1. stateAqMerged
  BY DEF ContractInv, RefInv, ResultsUseFinalCommitment, TallyInv
<1>2. UNCHANGED <<numSignups, tallyBatchNum>> /\ tallySbCommitment' # Empty
  <2>1. CASE PollNext /\ UNCHANGED <<tallyVars, subsidyVars>>
    BY <1>1, <2>1, SignUpsKept DEF tallyVars
  <2>2. CASE processMessages /\ UNCHANGED <<tallyVars, subsidyVars>>
    BY <2>2 DEF processMessages, pollVars, tallyVars
  <2>3. CASE updateTallySbCommitment
    BY <2>3 DEF updateTallySbCommitment, Updated, pollVars
  <2>4. CASE tallyVotes
    BY <2>4 DEF tallyVotes
  <2>5. CASE updateSubsidySbCommitment \/ updateSubsidy
    BY <2>5 DEF updateSubsidySbCommitment, updateSubsidy, pollVars, tallyVars
  <2>6. CASE UNCHANGED vars
    BY <2>6 DEF vars, pollVars, tallyVars
  <2> QED
    BY <2>1, <2>2, <2>3, <2>4, <2>5, <2>6 DEF Next, MPNext
<1> QED
  BY <1>2 DEF isTallied

\* All batches are on the chain: the contract has set its flag.
LEMMA ProcessReported ==
  ASSUME ContractInv, GensInv, ChainInv, JobInv,
         job.pc = "process", job.nb = totalMessageBatches(job.n)
  PROVE  processingComplete
<1> DEFINE done == numBatchesProcessed
           m == gens[salts["process"]].n
           B == messageBatchSize
<1>1. done \in Nat /\ numMessages \in Nat /\ B \in Nat \ {0}
  BY MessageBatchSize DEF ContractInv, IInv, MPTypeOK
<1>2. job.n \in Nat \ {0} /\ job.nb = done
  BY <1>1 DEF JobInv
<1>3. ~(B * done < job.n) /\ 0 < totalMessageBatches(job.n)
  <2>1. totalMessageBatches(job.n) \in Nat
        /\ (0 < totalMessageBatches(job.n) <=> B * 0 < job.n)
    BY <1>2, MessageBatches
  <2>2. ~(B * done < job.n)
    <3>1. ~(done < totalMessageBatches(job.n))
      BY <1>1, <1>2
    <3> HIDE DEF done
    <3> QED
      BY <1>1, <1>2, <3>1, MessageBatches
  <2> HIDE DEF B
  <2>3. B * 0 = 0
    BY <1>1
  <2> QED
    BY <1>2, <2>1, <2>2, <2>3
<1>4. done > 0
  BY <1>2, <1>3
<1>5. m <= job.n /\ (processingComplete <=> m <= B * done) /\ m \in Nat
  <2>1. m <= job.n
    BY <1>4 DEF JobInv
  <2>2. (processingComplete <=> m <= B * done)
    BY <1>4 DEF ChainInv
  <2>3. m \in Nat
    BY <1>4, RunsSeen DEF ChainInv
  <2> QED
    BY <2>1, <2>2, <2>3
<1>6. B * done \in Nat
  BY <1>1
<1> HIDE DEF B, done, m
<1> QED
  BY <1>2, <1>3, <1>5, <1>6

\* All ballot batches are on the chain: the votes are tallied.
LEMMA TallyReported ==
  ASSUME ContractInv, GensInv, JobInv,
         job.pc = "tally", tallyBatchNum = totalTallyBatches
  PROVE  tallySbCommitment # Empty /\ isTallied
<1>1. stateAqMerged
  BY DEF JobInv, GensInv
<1>2. numSignups \in Nat /\ numSignups > 0
  BY <1>1 DEF ContractInv, RefInv, TallyInv, SignUpsFixed
<1> QED
  BY <1>2, BallotBatches DEF isTallied, ContractInv, CommitmentInv

LEMMA ReportsStep ==
  ASSUME ContractInv, GensInv, ChainInv, JobInv, ReportsAreTrue, [ProverNext]_proverVars
  PROVE  ReportsAreTrue'
<1>1. processingComplete => processingComplete'
  BY StepKinds, CompleteKept DEF ChainInv
<1>2. tallySbCommitment # Empty /\ isTallied => tallySbCommitment' # Empty /\ isTallied'
  BY ProverMoves, TalliedKept
<1>3. ASSUME UNCHANGED announced
      PROVE  ReportsAreTrue'
  BY <1>1, <1>2, <1>3 DEF ReportsAreTrue
<1>4. CASE nextProcess /\ job.i >= totalMessageBatches(job.n)
  <2>1. job.pc = "process" /\ UNCHANGED processingComplete
        /\ announced' = announced \cup
             (IF job.nb = totalMessageBatches(job.n) THEN {"process"} ELSE {})
    BY <1>4 DEF nextProcess, vars, mpVars
  <2>2. "process" \in announced' => processingComplete'
    BY <1>1, <2>1, ProcessReported DEF ReportsAreTrue
  <2>3. "tally" \in announced' => "tally" \in announced
    BY <2>1
  <2> QED
    BY <1>2, <2>2, <2>3 DEF ReportsAreTrue
<1>5. CASE nextSubsidy /\ job.i >= totalBatchNum
  <2>1. \A kind \in {"process", "tally"} : kind \in announced' => kind \in announced
    BY <1>5 DEF nextSubsidy
  <2> QED
    BY <1>1, <1>2, <2>1 DEF ReportsAreTrue
<1>6. CASE nextTally /\ job.i >= totalTallyBatches
  <2>1. job.pc = "tally"
        /\ announced' = announced \cup
             (IF tallyBatchNum = totalTallyBatches THEN {"tally"} ELSE {})
    BY <1>6 DEF nextTally
  <2>2. "tally" \in announced' => tallySbCommitment' # Empty /\ isTallied'
    BY <1>2, <2>1, TallyReported DEF ReportsAreTrue
  <2>3. "process" \in announced' => "process" \in announced
    BY <2>1
  <2> QED
    BY <1>1, <2>2, <2>3 DEF ReportsAreTrue
<1>7. CASE ChainStep \/ Generates \/ mineUpdateSb \/ crash \/ UNCHANGED proverVars
  BY <1>3, <1>7 DEF ChainStep, coordinatorVars, Generates, genProofs, mineUpdateSb, crash,
                    proverVars
<1>8. CASE startProve \/ readRoot \/ sendProcess \/ readSubsidy \/ sendUpdateSb
           \/ sendSubsidy \/ sendTally
  BY <1>3, <1>8 DEF startProve, readRoot, sendProcess, readSubsidy, sendUpdateSb,
                    sendSubsidy, sendTally
<1>9. CASE (nextProcess /\ ~(job.i >= totalMessageBatches(job.n)))
           \/ (nextSubsidy /\ ~(job.i >= totalBatchNum))
           \/ (nextTally /\ ~(job.i >= totalTallyBatches))
  BY <1>3, <1>9 DEF nextProcess, nextSubsidy, nextTally
<1> QED
  BY <1>4, <1>5, <1>6, <1>7, <1>8, <1>9 DEF ProverNext, ProveStep, Generates

-----------------------------------------------------------------------------
(***************************************************************************)
(* What has been compared.                                                 *)
(***************************************************************************)
LEMMA Compared ==
  ASSUME ContractInv, GensInv, ChainInv, JobInv,
         CanGetMainRoot(messageAq, messageTreeDepth)
  PROVE  ComparedIsAccepted
<1> SUFFICES ASSUME job.pc = "sendProcess", over, job.n = numMessages,
                    getMainRoot(messageAq, messageTreeDepth) = job.root
             PROVE  ProcessAccepted
  BY DEF ComparedIsAccepted
<1> DEFINE g == FileOf("process", job.i)
           n == gens[g].n
           done == numBatchesProcessed
<1>1. done \in Nat /\ numMessages \in Nat \ {0} /\ job.i = done /\ job.nb = done
  BY DEF ContractInv, IInv, MPTypeOK, JobInv
<1>2. /\ job.root = MessageTree(n)
      /\ done = 0 \/ salts["process"] = g
      /\ job.n = n
  BY DEF JobInv, ProcessProofValid, CommitmentMatches
<1>3. done < totalMessageBatches(n)
  BY <1>1, <1>2 DEF JobInv
<1>4. messageBatchSize * done < n /\ n \in Nat \ {0}
  BY <1>1, <1>2, <1>3, MessageBatches
<1>5. ~processingComplete /\ BatchIndex = ProvedIndex(g, done)
  <2>1. ProvedIndex(g, done) = IndexBack(n, done)
    <3>1. done * messageBatchSize = messageBatchSize * done
      BY <1>1, MessageBatchSize
    <3> QED
      BY <3>1 DEF ProvedIndex, IndexBack
  <2>2. CASE done = 0
    <3>1. messageBatchSize * 0 = 0 /\ FirstBatchIndex(n) \in Nat
      BY <1>4, MessageBatchSize, FirstBatch
    <3>2. IndexBack(n, done) = FirstBatchIndex(n)
      BY <2>2, <3>1 DEF IndexBack
    <3>3. BatchIndex = FirstBatchIndex(numMessages)
      BY <2>2 DEF BatchIndex
    <3>4. ~processingComplete
      BY <2>2 DEF ContractInv, CommitmentInv
    <3> QED
      BY <1>2, <2>1, <3>2, <3>3, <3>4
  <2>3. CASE done > 0
    <3>1. salts["process"] = g /\ ~(n <= messageBatchSize * done)
      <4>1. messageBatchSize * done \in Nat
        BY <1>1, MessageBatchSize
      <4>2. salts["process"] = g
        BY <1>2, <2>3
      <4> HIDE DEF n
      <4> QED
        BY <1>4, <4>1, <4>2
    <3>2. ~processingComplete /\ currentMessageBatchIndex = IndexBack(n, done)
      BY <2>3, <3>1 DEF ChainInv
    <3> QED
      BY <2>1, <2>3, <3>2 DEF BatchIndex
  <2> QED
    BY <1>1, <2>2, <2>3
<1>6. stateAqMerged
  BY DEF JobInv, GensInv
<1> QED
  BY <1>1, <1>2, <1>5, <1>6 DEF ProcessAccepted

-----------------------------------------------------------------------------
ProverInv == ContractInv /\ GensInv /\ ChainInv /\ JobInv /\ ReportsAreTrue

LEMMA ProverInitially == ProverInit => ProverInv
<1> SUFFICES ASSUME ProverInit PROVE ProverInv
  OBVIOUS
<1>1. ContractInv
  BY Initially, RefInitially DEF ProverInit, Init, PollInit, MPInit, ContractInv, CommitmentInv
<1>2. GensInv
  BY EmptySeq DEF ProverInit, GensInv
<1>3. ChainInv /\ JobInv /\ ReportsAreTrue
  BY DEF ProverInit, Init, MPInit, ChainInv, Kinds, JobInv, Idle, ReportsAreTrue
<1> QED
  BY <1>1, <1>2, <1>3 DEF ProverInv

LEMMA ProverStep == ProverInv /\ [ProverNext]_proverVars => ProverInv'
<1> SUFFICES ASSUME ProverInv, [ProverNext]_proverVars PROVE ProverInv'
  OBVIOUS
<1> USE DEF ProverInv
<1>1. ContractInv'
  BY ProverMoves, ContractStep
<1>2. Submits \/ Generates \/ Keeps
  BY StepKinds DEF ChainInv
<1>3. GensInv' /\ ChainInv'
  BY <1>2, GensStep, ChainInvStep
<1> QED
  BY <1>1, <1>3, JobStep, ReportsStep

LEMMA ProverInvariant == ProverSpec => []ProverInv
BY ProverInitially, ProverStep, PTL DEF ProverSpec

-----------------------------------------------------------------------------
(***************************************************************************)
(* The root that was compared can still be read: the queue fits the tree   *)
(* from the merge on, and whatever is enqueued later clears the root.      *)
(***************************************************************************)
\* A queue with at most m subtrees, with leaves of at most the tree's capacity
\* if it has a root.
Servable(aq, m) ==
  /\ Stored(MessageLeaves, aq)
  /\ FillStarted(aq).currentSubtreeIndex <= m
  /\ CanMergeSubRoots(aq) => Mergeable(aq)
  /\ aq.mainRoots[messageTreeDepth] # Empty =>
       aq.subTreesMerged /\ CanGetMainRoot(aq, messageTreeDepth)

ServableInv ==
  /\ numMessages \in Nat \ {0} /\ numMessages <= maxMessages
  /\ Servable(messageAq, numMessages)

LEMMA ServableMore ==
  ASSUME NEW aq, NEW m \in Nat, Servable(aq, m)
  PROVE  Servable(enqueue(aq, m + 1), m + 1)
<1> DEFINE X == MessageLeaves
           aq2 == enqueue(aq, m + 1)
<1>1. Stored(X, aq) /\ m + 1 \in X
  BY DEF Servable, MessageLeaves
<1>2. Enqueued(X, aq, aq2, m + 1)
  BY <1>1, EnqueueStored
<1>3. /\ Stored(X, aq2) /\ Mergeable(aq2) /\ aq2.mainRoots = [l \in Levels |-> Empty]
  BY <1>2 DEF Enqueued
<1>4. FillStarted(aq2).currentSubtreeIndex <= m + 1
  <2>1. FillStarted(aq2).currentSubtreeIndex <= FillStarted(aq).currentSubtreeIndex + 1
    BY <1>1, EnqueueSubtrees
  <2>2. FillStarted(aq2).currentSubtreeIndex \in Nat /\ FillStarted(aq).currentSubtreeIndex \in Nat
    BY <1>1, <1>3, SubRootsAreBounded
  <2>3. FillStarted(aq).currentSubtreeIndex <= m
    BY DEF Servable
  <2> QED
    BY <2>1, <2>2, <2>3
<1>5. aq2.mainRoots[messageTreeDepth] = Empty
  BY <1>3, PollConstants
<1> QED
  BY <1>3, <1>4, <1>5 DEF Servable

LEMMA ServableMany ==
  ASSUME NEW k \in Nat, NEW n \in Nat, Servable(messageAq, k)
  PROVE  Servable(EnqueueMessages(k, n), k + n)
<1> DEFINE after == EnqueueFrom(k, n)
           S == {i \in 0..n : Servable(after[i], k + i)}
<1>1. /\ after[0] = messageAq /\ EnqueueMessages(k, n) = after[n]
      /\ \A i \in 0..(n - 1) : after[i + 1] = enqueue(after[i], k + (i + 1))
  BY EnqueueFromDef DEF Servable, MessageLeaves
<1> HIDE DEF after
<1>2. 0 \in S
  <2>1. k + 0 = k
    OBVIOUS
  <2> QED
    BY <1>1, <2>1
<1>3. ASSUME NEW i \in 0..(n - 1), i \in S PROVE i + 1 \in S
  <2>1. k + i \in Nat /\ (k + i) + 1 = k + (i + 1) /\ i + 1 \in 0..n
    OBVIOUS
  <2>2. Servable(after[i], k + i)
    BY <1>3
  <2>3. Servable(enqueue(after[i], (k + i) + 1), (k + i) + 1)
    BY <2>1, <2>2, ServableMore
  <2> QED
    BY <1>1, <2>1, <2>3
<1> HIDE DEF S
<1>4. 0..n \subseteq S
  BY <1>2, <1>3, RangeInduction
<1>5. n \in S
  BY <1>4
<1> QED
  BY <1>1, <1>5 DEF S

LEMMA ServableMergeSubRoots ==
  ASSUME ServableInv, NEW lim \in NumSrQueueOps, CanMergeSubRoots(messageAq)
  PROVE  Servable(mergeSubRoots(messageAq, lim), numMessages)
<1> DEFINE X == MessageLeaves
           aq2 == mergeSubRoots(messageAq, lim)
<1>1. /\ Stored(X, messageAq) /\ Zero \in X /\ Mergeable(messageAq) /\ ~messageAq.subTreesMerged
      /\ FillStarted(messageAq).currentSubtreeIndex <= numMessages
      /\ messageAq.mainRoots[messageTreeDepth] = Empty /\ lim \in Nat
  BY PollConstants DEF ServableInv, Servable, CanMergeSubRoots, MessageLeaves
<1>2. FillStarted(messageAq).currentSubtreeIndex <= hashLength ^ MAX_DEPTH
  <2>1. FillStarted(messageAq).currentSubtreeIndex \in Nat /\ hashLength ^ MAX_DEPTH \in Nat
    BY <1>1, SubRootsAreBounded, PowerFacts, AccQueueConstants
  <2> QED
    BY <1>1, <2>1, PollConstants DEF ServableInv
<1>3. SubRootsMerged(X, messageAq, aq2)
  BY <1>1, <1>2, MergeSubRootsMerges
<1>4. /\ Stored(X, aq2) /\ StartedLeaves(aq2.leafQueue) = << >>
      /\ aq2.mainRoots \in {messageAq.mainRoots, [l \in Levels |-> Empty]}
      /\ aq2.currentSubtreeIndex = FillStarted(messageAq).currentSubtreeIndex
      /\ ~aq2.subTreesMerged => Mergeable(aq2)
  BY <1>3 DEF SubRootsMerged, Rounded
<1>5. FillStarted(aq2).currentSubtreeIndex <= numMessages
  <2>1. FillStarted(aq2).currentSubtreeIndex = aq2.currentSubtreeIndex
    BY <1>4, SubRootsAreBounded
  <2> QED
    BY <1>1, <1>4, <2>1
<1>6. aq2.mainRoots[messageTreeDepth] = Empty
  BY <1>1, <1>4, PollConstants
<1> QED
  BY <1>4, <1>5, <1>6 DEF Servable, CanMergeSubRoots

LEMMA ServableMerge ==
  ASSUME ServableInv, CanMerge(messageAq, messageTreeDepth)
  PROVE  Servable(merge(messageAq, messageTreeDepth), numMessages)
<1> DEFINE X == MessageLeaves
           d == messageTreeDepth
           aq2 == merge(messageAq, d)
<1>1. /\ Stored(X, messageAq) /\ Zero \in X /\ d \in Levels
      /\ FillStarted(messageAq).currentSubtreeIndex <= numMessages
      /\ messageAq.subTreesMerged /\ CanGetMainRoot(messageAq, d)
  BY PollConstants DEF ServableInv, Servable, CanMerge, CanGetMainRoot, MessageLeaves
<1>2. Stored(X, aq2) /\ Leaves(aq2) = Leaves(messageAq)
  BY <1>1, MergeStored
<1>3. /\ aq2.subTreesMerged = messageAq.subTreesMerged /\ aq2.numLeaves = messageAq.numLeaves
      /\ aq2.currentSubtreeIndex = messageAq.currentSubtreeIndex
  <2>1. messageAq \in AccQueues(X)
    BY <1>1 DEF Stored
  <2> QED
    BY <2>1 DEF merge, AccQueues
<1>4. FillStarted(aq2).currentSubtreeIndex <= numMessages
  <2>1. Started(aq2) <=> Started(messageAq)
    BY <1>3 DEF Started
  <2> QED
    BY <1>1, <1>2, <1>3, <2>1, SubRootsAreBounded
<1> QED
  BY <1>1, <1>2, <1>3, <1>4 DEF Servable, CanMergeSubRoots, CanGetMainRoot

LEMMA ServableStep ==
  ASSUME ServableInv, [Next]_vars
  PROVE  ServableInv'
<1>1. ASSUME UNCHANGED <<numMessages, messageAq>>
      PROVE  ServableInv'
  BY <1>1 DEF ServableInv
<1>2. ASSUME NEW n \in Nat, Publish(n)
      PROVE  ServableInv'
  <2>1. /\ numMessages' = numMessages + n /\ numMessages + n <= maxMessages
        /\ messageAq' = EnqueueMessages(numMessages, n)
    BY <1>2 DEF Publish, MessagesAfter
  <2>2. numMessages \in Nat \ {0} /\ Servable(messageAq, numMessages)
    BY DEF ServableInv
  <2>3. Servable(EnqueueMessages(numMessages, n), numMessages + n)
    BY <2>2, ServableMany
  <2> QED
    BY <2>1, <2>2, <2>3 DEF ServableInv
<1>3. CASE publishMessage \/ topup \/ publishMessageBatch
  BY <1>2, <1>3, PollConstants DEF publishMessage, topup, publishMessageBatch
<1>4. CASE MergeMessageSubRoots
  <2>1. PICK lim \in NumSrQueueOps : mergeMessageAqSubRoots(lim)
    BY <1>4 DEF MergeMessageSubRoots
  <2> QED
    BY <2>1, ServableMergeSubRoots DEF mergeMessageAqSubRoots, ServableInv
<1>5. CASE mergeMessageAq
  BY <1>5, ServableMerge DEF mergeMessageAq, ServableInv
<1>6. CASE PeriodEnds \/ MergeStateTree \/ \E state \in BOOLEAN : setFinish(state)
  BY <1>1, <1>6 DEF PeriodEnds, MergeStateTree, mergeMaciStateAq, setFinish
<1>7. CASE processMessages \/ tallyVotes \/ updateTallySbCommitment
           \/ updateSubsidySbCommitment \/ updateSubsidy \/ UNCHANGED vars
  BY <1>1, <1>7 DEF processMessages, tallyVotes, updateTallySbCommitment,
                    updateSubsidySbCommitment, updateSubsidy, vars, pollVars
<1> QED
  BY <1>3, <1>4, <1>5, <1>6, <1>7 DEF Next, MPNext, PollNext

LEMMA ServableInitially == Init => ServableInv
<1> SUFFICES ASSUME Init PROVE ServableInv
  OBVIOUS
<1>1. numMessages = 1 /\ messageAq = enqueue(NewAccQueue, 1)
  BY DEF Init, PollInit
<1>2. Queueing(messageAq, 1)
  <2>1. 0 + 1 = 1 /\ 0 \in Nat
    OBVIOUS
  <2> QED
    BY <1>1, <2>1, EmptyIsQueueing, OneMessageMore
<1> QED
  BY <1>1, <1>2, PollConstants DEF Queueing, Servable, ServableInv

\* A root with messages is not the empty one.
LEMMA TreeNotEmpty ==
  ASSUME NEW n \in Nat \ {0}
  PROVE  MessageTree(n) # Empty
<1> DEFINE ids == [i \in 1..n |-> i]
           k == hashLength ^ messageTreeDepth - n
           zeros == ZeroLeaves(k)
<1>1. ids \in Seq(Nat \cup {Zero}) /\ Len(ids) = n
  OBVIOUS
<1>2. zeros \in Seq(Nat \cup {Zero})
  <2>1. hashLength ^ messageTreeDepth \in Nat
    BY PowerFacts, AccQueueConstants, PollConstants DEF Levels
  <2>2. k \in Int
    BY <2>1
  <2> HIDE DEF k
  <2>3. CASE k \in Nat
    <3>1. zeros \in [1..k -> Nat \cup {Zero}]
      BY DEF ZeroLeaves
    <3> HIDE DEF zeros
    <3> QED
      BY <2>3, <3>1, SeqDef
  <2>4. CASE k \notin Nat
    <3>1. 1..k = 1..0
      BY <2>2, <2>4
    <3>2. zeros \in [1..0 -> Nat \cup {Zero}]
      BY <3>1 DEF ZeroLeaves
    <3> HIDE DEF zeros
    <3> QED
      BY <3>2, SeqDef
  <2> QED
    BY <2>3, <2>4
<1>3. MessageTree(n) = ids \o zeros
  BY DEF MessageTree
<1> HIDE DEF ids, zeros
<1>4. Len(zeros) \in Nat
  BY <1>2
<1>5. Len(ids \o zeros) = Len(ids) + Len(zeros)
  BY <1>1, <1>2, Concatenated
<1>6. Len(MessageTree(n)) # 0
  BY <1>1, <1>3, <1>4, <1>5
<1> QED
  BY <1>6 DEF Empty

LEMMA ComparedCanBeRead ==
  ASSUME ProverInv, ServableInv
  PROVE  ComparedIsAccepted
<1> DEFINE n == gens[FileOf("process", job.i)].n
<1>1. CASE job.pc = "sendProcess" /\ job.n = numMessages
           /\ getMainRoot(messageAq, messageTreeDepth) = job.root
  <2>1. job.root = MessageTree(n) /\ n = numMessages
    BY <1>1 DEF ProverInv, JobInv, ProcessProofValid
  <2> HIDE DEF n
  <2>2. job.root # Empty
    BY <2>1, TreeNotEmpty DEF ServableInv
  <2>3. CanGetMainRoot(messageAq, messageTreeDepth)
    BY <1>1, <2>2 DEF getMainRoot, ServableInv, Servable
  <2> QED
    BY <2>3, Compared DEF ProverInv
<1>2. CASE ~(job.pc = "sendProcess" /\ job.n = numMessages
             /\ getMainRoot(messageAq, messageTreeDepth) = job.root)
  BY <1>2 DEF ComparedIsAccepted
<1> QED
  BY <1>1, <1>2

-----------------------------------------------------------------------------
(***************************************************************************)
(* The subsidy.  Its number of proofs is the place of the next pair in the *)
(* walk over the pairs of ballot batches, row by row.                      *)
(***************************************************************************)
\* k pairs of T batches come before row r and column c: all but those of the
\* triangle that is left, and those already taken in the row.
Place(T, r, c, k) == 2 * k = T * (T + 1) - (T - r) * (T - r + 1) + 2 * (c - r)

PlaceInv ==
  rbi < BatchesOf(numSignups) =>
    /\ cbi < BatchesOf(numSignups)
    /\ Place(BatchesOf(numSignups), rbi, cbi, Len(subsidyCommitment))

\* Walking on from a pair keeps the count, and there is one more pair at least.
LEMMA PlaceStep ==
  ASSUME NEW T \in Nat, NEW r \in Nat, NEW c \in Nat, NEW k \in Nat,
         r <= c, c < T, Place(T, r, c, k)
  PROVE  /\ Place(T, r, c + 1, k + 1)
         /\ c + 1 = T => Place(T, r + 1, r + 1, k + 1)
         /\ 2 * k + 2 <= T * (T + 1)
<1> DEFINE d == T - r
           all == T * (T + 1)
           left == d * (d + 1)
<1>1. d \in Nat \ {0} /\ all \in Nat /\ left \in Nat /\ c - r \in Nat /\ c - r < d
  BY SMT
<1>2. 2 * k = all - left + 2 * (c - r)
  BY DEF Place
<1>3. left = (d - 1) * d + 2 * d /\ (d - 1) * d \in Nat
  BY <1>1
<1>4. T - (r + 1) = d - 1 /\ (d - 1) + 1 = d
  BY <1>1
<1>5. Place(T, r, c + 1, k + 1) <=> 2 * (k + 1) = all - left + 2 * ((c + 1) - r)
  BY DEF Place
<1>6. Place(T, r + 1, r + 1, k + 1) <=>
        2 * (k + 1) = all - (d - 1) * d + 2 * ((r + 1) - (r + 1))
  BY <1>4 DEF Place
<1>7. c + 1 = T => c - r = d - 1
  OBVIOUS
<1> HIDE DEF all, left, d
<1>8. Place(T, r, c + 1, k + 1)
  BY <1>1, <1>2, <1>5
<1>9. c + 1 = T => Place(T, r + 1, r + 1, k + 1)
  <2> DEFINE less == (d - 1) * d
  <2>1. less \in Nat /\ left = less + 2 * d
    BY <1>3
  <2> HIDE DEF less
  <2>2. c + 1 = T => 2 * (k + 1) = all - less + 2 * ((r + 1) - (r + 1))
    BY <1>1, <1>2, <1>7, <2>1
  <2> QED
    BY <1>6, <2>2 DEF less
<1>10. 2 * k + 2 <= all
  <2> DEFINE less == (d - 1) * d
  <2>1. less \in Nat /\ left = less + 2 * d
    BY <1>3
  <2> HIDE DEF less
  <2> QED
    BY <1>1, <1>2, <2>1
<1> QED
  BY <1>8, <1>9, <1>10 DEF all

\* increaseSubsidyIndex goes on within the row as long as there is a column.
LEMMA NextPair ==
  ASSUME CountersInv
  PROVE  NextSubsidyIndex =
           IF cbi + 1 < BatchesOf(numSignups) THEN <<rbi, cbi + 1>> ELSE <<rbi + 1, rbi + 1>>
<1>1. cbi \in Nat /\ numSignups \in Nat /\ cbi + 1 \in Nat
  BY DEF CountersInv
<1>2. (cbi + 1) * tallyBatchSize = cbi * tallyBatchSize + tallyBatchSize
      /\ ((cbi + 1) * tallyBatchSize < numSignups <=> cbi + 1 < BatchesOf(numSignups))
  <2>1. (cbi + 1) * tallyBatchSize = cbi * tallyBatchSize + tallyBatchSize
    BY <1>1, BatchStarts
  <2>2. (cbi + 1) * tallyBatchSize < numSignups <=> cbi + 1 < BatchesOf(numSignups)
    BY <1>1, BatchStarts
  <2> QED
    BY <2>1, <2>2
<1> QED
  BY <1>2 DEF NextSubsidyIndex

LEMMA PlaceUpdated ==
  ASSUME CountersInv, WalkInv, PlaceInv, updateSubsidy
  PROVE  PlaceInv'
<1> DEFINE T == BatchesOf(numSignups)
           k == Len(subsidyCommitment)
<1>1. T \in Nat /\ rbi \in Nat /\ cbi \in Nat /\ rbi <= cbi /\ k \in Nat
  BY BatchStarts DEF CountersInv, WalkInv
<1>2. /\ Len(subsidyCommitment') = k + 1 /\ numSignups' = numSignups
      /\ rbi' = NextSubsidyIndex[1] /\ cbi' = NextSubsidyIndex[2]
  <2>1. subsidyCommitment' = Append(subsidyCommitment, <<rbi, cbi>>)
    BY DEF updateSubsidy
  <2>2. subsidyCommitment \in Seq(Nat \X Nat) /\ <<rbi, cbi>> \in Nat \X Nat
    BY <1>1 DEF WalkInv
  <2> QED
    BY <2>1, <2>2, AppendProperties DEF updateSubsidy, pollVars
<1>3. \/ cbi + 1 < T /\ rbi' = rbi /\ cbi' = cbi + 1
      \/ ~(cbi + 1 < T) /\ rbi' = rbi + 1 /\ cbi' = rbi + 1
  BY <1>2, NextPair
<1>4. T' = T
  BY <1>2 DEF BatchesOf
<1>5. rbi < T => cbi < T /\ Place(T, rbi, cbi, k)
  BY DEF PlaceInv
<1> HIDE DEF T, k
<1>6. ASSUME rbi' < T
      PROVE  cbi' < T /\ Place(T, rbi', cbi', k + 1)
  <2>1. rbi < T
    BY <1>1, <1>3, <1>6
  <2>2. /\ Place(T, rbi, cbi + 1, k + 1)
        /\ cbi + 1 = T => Place(T, rbi + 1, rbi + 1, k + 1)
    BY <1>1, <1>5, <2>1, PlaceStep
  <2>3. CASE cbi + 1 < T /\ rbi' = rbi /\ cbi' = cbi + 1
    BY <2>2, <2>3
  <2>4. CASE ~(cbi + 1 < T) /\ rbi' = rbi + 1 /\ cbi' = rbi + 1
    BY <1>1, <1>5, <1>6, <2>1, <2>2, <2>4
  <2> QED
    BY <1>3, <2>3, <2>4
<1> QED
  BY <1>2, <1>4, <1>6 DEF PlaceInv, T

\* Before the first pair nothing is counted.
LEMMA PlaceOfFirst ==
  ASSUME CountersInv, WalkInv, rbi = 0, cbi = 0, NEW T \in Nat
  PROVE  Place(T, rbi, cbi, Len(subsidyCommitment))
<1> DEFINE k == Len(subsidyCommitment)
<1>1. k \in Nat /\ \A i \in 1..k : subsidyCommitment[i] \in Nat \X Nat
  BY DEF WalkInv
<1>2. k = 0
  <2>1. ASSUME k # 0 PROVE FALSE
    <3>1. 1 \in 1..k
      BY <1>1, <2>1
    <3>2. Before(subsidyCommitment[1], 0, 0) /\ subsidyCommitment[1] \in Nat \X Nat
      BY <1>1, <3>1 DEF WalkInv
    <3> QED
      BY <3>2 DEF Before
  <2> QED
    BY <2>1
<1>3. T - 0 = T /\ T * (T + 1) \in Nat
  OBVIOUS
<1> DEFINE all == T * (T + 1)
<1> HIDE DEF k
<1>4. Place(T, 0, 0, 0) <=> 2 * 0 = all - all + 2 * (0 - 0)
  BY <1>3 DEF Place
<1>5. all \in Int
  BY <1>3
<1> HIDE DEF all
<1>6. Place(T, 0, 0, 0)
  BY <1>4, <1>5
<1> QED
  BY <1>2, <1>6 DEF k

LEMMA PlaceInductive ==
  ASSUME CountersInv, CountersInv', WalkInv, PlaceInv, [Next]_vars
  PROVE  PlaceInv'
<1>1. ASSUME UNCHANGED subsidyCommitment, UNCHANGED rbi, UNCHANGED cbi, numSignups' = numSignups
      PROVE  PlaceInv'
  BY <1>1 DEF PlaceInv, BatchesOf
<1>2. CASE PollNext /\ UNCHANGED mpVars /\ UNCHANGED <<tallyVars, subsidyVars>>
  <2>1. UNCHANGED subsidyCommitment /\ UNCHANGED rbi /\ UNCHANGED cbi
    BY <1>2 DEF subsidyVars
  <2>2. CASE stateAqMerged
    BY <1>1, <1>2, <2>1, <2>2, PollStorage
  <2>3. CASE ~stateAqMerged
    <3>1. rbi = 0 /\ cbi = 0
      BY <2>3 DEF CountersInv
    <3>2. BatchesOf(numSignups') \in Nat
      BY BatchStarts DEF CountersInv
    <3> DEFINE T2 == BatchesOf(numSignups')
    <3>3. Place(T2, rbi, cbi, Len(subsidyCommitment))
      BY <3>1, <3>2, PlaceOfFirst
    <3>4. BatchesOf(numSignups)' = T2
      BY DEF BatchesOf
    <3> HIDE DEF T2
    <3> QED
      BY <2>1, <3>1, <3>3, <3>4 DEF PlaceInv
  <2> QED
    BY <2>2, <2>3
<1>3. CASE updateSubsidy
  BY <1>3, PlaceUpdated
<1>4. CASE \/ processMessages /\ UNCHANGED <<tallyVars, subsidyVars>>
           \/ tallyVotes \/ updateTallySbCommitment \/ updateSubsidySbCommitment
           \/ UNCHANGED vars
  BY <1>1, <1>4 DEF processMessages, tallyVotes, updateTallySbCommitment,
                    updateSubsidySbCommitment, vars, subsidyVars, pollVars
<1> QED
  BY <1>2, <1>3, <1>4 DEF Next, MPNext

-----------------------------------------------------------------------------
\* No row of the walk is left.
WalkDone == ~(rbi < BatchesOf(numSignups))

\* A run that found the subsidy in its first row knows the number of pairs
\* counted, or all of them are; hence it comes to the tally when all are.
SubsidyInv ==
  /\ (job.pc \in {"updateSb", "subsidy", "sendSubsidy"} /\ ~resumed) =>
       WalkDone \/ job.i = Len(subsidyCommitment)
  /\ (job.pc \in {"tally", "sendTally"} /\ files["subsidy"] # << >> /\ ~resumed) => WalkDone

PairsInv == CountersInv /\ WalkInv /\ PlaceInv /\ SubsidyInv

LEMMA DoneMeansCounted ==
  ASSUME CountersInv, WalkInv, WalkDone
  PROVE  EveryPairCounted
<1> DEFINE T == BatchesOf(numSignups)
<1>1. T \in Nat /\ rbi \in Nat /\ ~(rbi < T) /\ num1DBatches = T
  BY BatchStarts DEF CountersInv, WalkDone, BatchesOf, num1DBatches
<1>2. \A a, b \in Nat :
        (a <= b /\ b < T /\ Before(<<a, b>>, rbi, cbi)) =>
          \E i \in 1..Len(subsidyCommitment) : subsidyCommitment[i] = <<a, b>>
  BY DEF WalkInv
<1>3. DOMAIN subsidyCommitment = 1..Len(subsidyCommitment)
  BY DEF WalkInv
<1> HIDE DEF T
<1>4. ASSUME NEW row \in 0..(T - 1), NEW column \in 0..(T - 1), row <= column
      PROVE  <<row, column>> \in Range(subsidyCommitment)
  <2>1. row \in Nat /\ column \in Nat /\ column < T /\ row < rbi
    BY <1>1, <1>4
  <2>2. Before(<<row, column>>, rbi, cbi)
    BY <2>1 DEF Before
  <2>3. PICK i \in 1..Len(subsidyCommitment) : subsidyCommitment[i] = <<row, column>>
    BY <1>2, <1>4, <2>1, <2>2
  <2> QED
    BY <1>3, <2>3 DEF Range
<1> QED
  BY <1>1, <1>4 DEF EveryPairCounted

\* The loop's bound, a triangular number, is reached with the last pair only.
LEMMA LoopEnds ==
  ASSUME CountersInv, WalkInv, PlaceInv, Len(subsidyCommitment) >= totalBatchNum
  PROVE  WalkDone
<1> DEFINE T == BatchesOf(numSignups)
           k == Len(subsidyCommitment)
           all == T * (T + 1)
<1>1. T \in Nat /\ rbi \in Nat /\ cbi \in Nat /\ rbi <= cbi /\ k \in Nat /\ all \in Nat
  <2>1. T \in Nat /\ rbi \in Nat /\ cbi \in Nat /\ rbi <= cbi /\ k \in Nat
    BY BatchStarts DEF CountersInv, WalkInv
  <2> QED
    BY <2>1
<1>2. totalBatchNum = all \div 2
  BY DEF totalBatchNum, num1DBatches, BatchesOf
<1>3. rbi < T => 2 * k + 2 <= all
  <2>1. rbi < T => cbi < T /\ Place(T, rbi, cbi, k)
    BY DEF PlaceInv
  <2> HIDE DEF T, k
  <2> QED
    BY <1>1, <2>1, PlaceStep
<1> HIDE DEF all, k
<1>4. all < 2 * (all \div 2) + 2 /\ all \div 2 \in Nat
  BY <1>1
<1>5. ~(rbi < T)
  BY <1>1, <1>2, <1>3, <1>4 DEF k
<1> QED
  BY <1>5 DEF WalkDone

\* Once the state tree is merged, no row comes back.
LEMMA DoneStays ==
  ASSUME CountersInv, [Next]_vars, stateAqMerged, WalkDone
  PROVE  WalkDone'
<1>1. rbi \in Nat /\ BatchesOf(numSignups) \in Nat
  BY BatchStarts DEF CountersInv
<1>2. numSignups' = numSignups /\ rbi' \in {rbi, rbi + 1}
  <2>1. CASE PollNext /\ UNCHANGED <<tallyVars, subsidyVars>>
    BY <2>1, SignUpsKept DEF subsidyVars
  <2>2. CASE updateSubsidy
    BY <2>2, NextPair DEF updateSubsidy, pollVars
  <2>3. CASE \/ processMessages /\ UNCHANGED <<tallyVars, subsidyVars>>
             \/ tallyVotes \/ updateTallySbCommitment \/ updateSubsidySbCommitment
             \/ UNCHANGED vars
    BY <2>3 DEF processMessages, tallyVotes, updateTallySbCommitment,
                updateSubsidySbCommitment, vars, subsidyVars, pollVars
  <2> QED
    BY <2>1, <2>2, <2>3 DEF Next, MPNext
<1>3. BatchesOf(numSignups)' = BatchesOf(numSignups)
  BY <1>2 DEF BatchesOf
<1> QED
  BY <1>1, <1>2, <1>3 DEF WalkDone

\* In the first row the contract's two indices make up the number of pairs.
LEMMA FirstRowCounted ==
  ASSUME CountersInv, WalkInv, PlaceInv, ~(rbi > 0 /\ rbi < num1DBatches)
  PROVE  WalkDone \/ subsidyBatchNum = Len(subsidyCommitment)
<1> DEFINE T == BatchesOf(numSignups)
           k == Len(subsidyCommitment)
<1>1. T \in Nat /\ rbi \in Nat /\ cbi \in Nat /\ k \in Nat /\ num1DBatches = T
  BY BatchStarts DEF CountersInv, WalkInv, num1DBatches, BatchesOf
<1>2. CASE ~(rbi < T)
  BY <1>2 DEF WalkDone
<1>3. CASE rbi < T
  <2>1. rbi = 0
    BY <1>1, <1>3
  <2>2. Place(T, rbi, cbi, k)
    BY <1>3 DEF PlaceInv
  <2> HIDE DEF T, k
  <2>3. 2 * k = T * (T + 1) - (T - 0) * (T - 0 + 1) + 2 * (cbi - 0)
    BY <2>1, <2>2 DEF Place
  <2>4. T - 0 = T
    BY <1>1
  <2> DEFINE all == T * (T + 1)
  <2>5. all \in Int /\ 2 * k = all - all + 2 * (cbi - 0)
    BY <1>1, <2>3, <2>4
  <2> HIDE DEF all
  <2>6. k = cbi
    BY <1>1, <2>5
  <2>7. 0 * T = 0
    BY <1>1
  <2>8. subsidyBatchNum = k
    BY <1>1, <2>1, <2>6, <2>7 DEF subsidyBatchNum
  <2> QED
    BY <2>8 DEF k
<1> QED
  BY <1>2, <1>3

LEMMA SubsidyStep ==
  ASSUME ProverInv, PairsInv, [ProverNext]_proverVars
  PROVE  SubsidyInv'
<1>1. DOMAIN job = {"pc", "n", "root", "nb", "i"}
  BY DEF ProverInv, JobInv, Idle
<1>2. (job.pc # "idle" /\ WalkDone) => WalkDone'
  <2>1. job.pc # "idle" => stateAqMerged
    BY DEF ProverInv, JobInv, GensInv
  <2> QED
    BY <2>1, ProverMoves, DoneStays DEF PairsInv
<1>3. ASSUME job' = job, resumed' = resumed, UNCHANGED subsidyCommitment,
             files' = files \/ job.pc = "idle"
      PROVE  SubsidyInv'
  BY <1>2, <1>3 DEF PairsInv, SubsidyInv
<1>4. ASSUME job'.pc \notin {"updateSb", "subsidy", "sendSubsidy", "tally", "sendTally"}
      PROVE  SubsidyInv'
  BY <1>4 DEF SubsidyInv
<1>5. ASSUME Stop
      PROVE  SubsidyInv'
  BY <1>4, <1>5 DEF Stop, Idle
<1>6. CASE ChainStep \/ mineUpdateSb \/ UNCHANGED proverVars
  BY <1>3, <1>6 DEF ChainStep, mineUpdateSb, updateSubsidySbCommitment, proverVars, vars,
                    coordinatorVars, subsidyVars
<1>7. CASE Generates \/ crash
  <2>1. CASE Generates
    <3>1. job'.pc = "idle"
      BY <2>1 DEF Generates, genProofs, Idle
    <3> QED
      BY <1>4, <3>1
  <2>2. CASE crash
    BY <1>5, <2>2 DEF crash
  <2> QED
    BY <1>7, <2>1, <2>2
<1>8. CASE startProve \/ readRoot \/ nextProcess \/ sendProcess
  <2>1. CASE startProve
    BY <1>4, <2>1 DEF startProve, Idle
  <2>2. CASE readRoot
    <3>1. Stop \/ job'.pc = "process"
      BY <1>1, <2>2 DEF readRoot
    <3> QED
      BY <1>4, <1>5, <3>1
  <2>3. CASE nextProcess
    <3>1. Stop \/ job'.pc = "readSubsidy" \/ job'.pc = "sendProcess"
      BY <1>1, <2>3 DEF nextProcess, GoTo
    <3> QED
      BY <1>4, <1>5, <3>1
  <2>4. CASE sendProcess
    <3>1. Stop \/ job'.pc = "process"
      BY <1>1, <2>4 DEF sendProcess
    <3> QED
      BY <1>4, <1>5, <3>1
  <2> QED
    BY <1>8, <2>1, <2>2, <2>3, <2>4
<1>9. CASE readSubsidy
  <2>1. UNCHANGED <<files, rbi, cbi, subsidyCommitment, numSignups>>
    BY <1>9 DEF readSubsidy, vars, subsidyVars, pollVars
  <2>2. CASE files["subsidy"] = << >>
    <3>1. job'.pc = "tally" /\ files'["subsidy"] = << >>
      BY <1>1, <1>9, <2>1, <2>2 DEF readSubsidy
    <3> QED
      BY <3>1 DEF SubsidyInv
  <2>3. CASE files["subsidy"] # << >>
    <3>1. /\ job'.pc \in {"updateSb", "subsidy"} /\ job'.i = subsidyBatchNum
          /\ resumed' = (resumed \/ (rbi > 0 /\ rbi < num1DBatches))
          /\ job.pc = "readSubsidy"
      BY <1>1, <1>9, <2>3 DEF readSubsidy
    <3>2. ~resumed' => WalkDone \/ subsidyBatchNum = Len(subsidyCommitment)
      BY <3>1, FirstRowCounted, Zenon DEF PairsInv
    <3>3. ~resumed' => WalkDone' \/ job'.i = Len(subsidyCommitment')
      BY <1>2, <2>1, <3>1, <3>2
    <3> QED
      BY <3>1, <3>3 DEF SubsidyInv
  <2> QED
    BY <2>2, <2>3
<1>10. CASE sendUpdateSb
  <2>1. UNCHANGED <<subsidyCommitment, resumed>> /\ job.pc = "updateSb"
    BY <1>10 DEF sendUpdateSb, vars, subsidyVars
  <2>2. CASE processingComplete
    <3>1. job'.pc = "subsidy" /\ job'.i = job.i
      BY <1>1, <1>10, <2>2 DEF sendUpdateSb, GoTo
    <3> QED
      BY <1>2, <2>1, <3>1 DEF PairsInv, SubsidyInv
  <2>3. CASE ~processingComplete
    BY <1>5, <1>10, <2>3 DEF sendUpdateSb
  <2> QED
    BY <2>2, <2>3
<1>11. CASE nextSubsidy
  <2>1. UNCHANGED <<subsidyCommitment, resumed, files>> /\ job.pc = "subsidy"
    BY <1>11 DEF nextSubsidy, vars, subsidyVars
  <2>2. ~resumed => WalkDone \/ job.i = Len(subsidyCommitment)
    BY <2>1 DEF PairsInv, SubsidyInv
  <2>3. CASE job.i >= totalBatchNum
    <3>1. job'.pc = "tally"
      BY <1>1, <1>11, <2>3 DEF nextSubsidy
    <3>2. ~resumed => WalkDone
      BY <2>2, <2>3, LoopEnds DEF PairsInv
    <3> QED
      BY <1>2, <2>1, <3>1, <3>2 DEF SubsidyInv
  <2>4. CASE ~(job.i >= totalBatchNum) /\ SubsidyProofValid
    <3>1. job'.pc = "sendSubsidy" /\ job'.i = job.i
      BY <1>1, <1>11, <2>4 DEF nextSubsidy, GoTo
    <3> QED
      BY <1>2, <2>1, <2>2, <3>1 DEF SubsidyInv
  <2>5. CASE ~(job.i >= totalBatchNum) /\ ~SubsidyProofValid
    BY <1>5, <1>11, <2>5 DEF nextSubsidy
  <2> QED
    BY <2>3, <2>4, <2>5
<1>12. CASE sendSubsidy
  <2>1. /\ job.pc = "sendSubsidy" /\ job'.pc = "subsidy" /\ job'.i = job.i + 1
        /\ resumed' = resumed
        /\ subsidyCommitment' = Append(subsidyCommitment, <<rbi, cbi>>)
    BY <1>1, <1>12 DEF sendSubsidy, updateSubsidy
  <2>2. Len(subsidyCommitment') = Len(subsidyCommitment) + 1
    <3>1. subsidyCommitment \in Seq(Nat \X Nat) /\ rbi \in Nat /\ cbi \in Nat
      BY DEF PairsInv, WalkInv, CountersInv
    <3> QED
      BY <2>1, <3>1, AppendProperties
  <2>3. ~resumed => WalkDone \/ job.i = Len(subsidyCommitment)
    BY <2>1 DEF PairsInv, SubsidyInv
  <2> QED
    BY <1>2, <2>1, <2>2, <2>3 DEF SubsidyInv
<1>13. CASE nextTally \/ sendTally
  <2>1. job.pc \in {"tally", "sendTally"} /\ UNCHANGED <<files, resumed>>
    BY <1>13 DEF nextTally, sendTally
  <2>2. Stop \/ job'.pc \in {"tally", "sendTally"}
    <3>1. CASE nextTally
      BY <1>1, <3>1 DEF nextTally, GoTo
    <3>2. CASE sendTally
      BY <1>1, <3>2 DEF sendTally
    <3> QED
      BY <1>13, <3>1, <3>2
  <2>3. CASE job'.pc \in {"tally", "sendTally"}
    BY <1>2, <2>1, <2>3 DEF PairsInv, SubsidyInv
  <2> QED
    BY <1>5, <2>2, <2>3
<1> QED
  BY <1>6, <1>7, <1>8, <1>9, <1>10, <1>11, <1>12, <1>13 DEF ProverNext, ProveStep, Generates

LEMMA PairsStep ==
  ASSUME ProverInv, PairsInv, [ProverNext]_proverVars
  PROVE  PairsInv'
<1>1. [Next]_vars /\ CountersInv'
  BY ProverMoves, CountersStep DEF PairsInv
<1>2. WalkInv' /\ PlaceInv'
  BY <1>1, WalkInductive, PlaceInductive DEF PairsInv
<1> QED
  BY <1>1, <1>2, SubsidyStep DEF PairsInv

LEMMA PairsInitially == ProverInit => PairsInv
<1> SUFFICES ASSUME ProverInit PROVE PairsInv
  OBVIOUS
<1>1. CountersInv /\ WalkInv
  BY CountersInitially, WalkInitially DEF ProverInit
<1>2. SubsidyInv
  BY DEF ProverInit, SubsidyInv, Idle
<1>3. PlaceInv
  <2>1. rbi = 0 /\ cbi = 0 /\ numSignups = 0
    BY DEF ProverInit, Init, PollInit
  <2>2. ~(0 * tallyBatchSize < 0) /\ 0 * tallyBatchSize = 0
    BY TallyConstants
  <2>3. ~(0 < BatchesOf(0))
    BY <2>2, BatchStarts
  <2> QED
    BY <2>1, <2>3 DEF PlaceInv
<1> QED
  BY <1>1, <1>2, <1>3 DEF PairsInv

-----------------------------------------------------------------------------
\* proveOnChain and Prover.ts report "All message processing proofs have been
\* submitted." only once MessageProcessor has processed the last batch, and the
\* same of the tally only once Tally is done, whatever the batch sizes and
\* however often the scripts crash and start again.
THEOREM ReportsTrue == ProverSpec => []ReportsAreTrue
BY ProverInvariant, PTL DEF ProverInv

\* The checks of proveOnChain before a transaction are as strong as the
\* contract's: unless a message or the merge came in between, a batch that has
\* passed them is accepted, and its index, computed anew from the number of
\* messages, is the one MessageProcessor stores.
THEOREM ComparedAccepted == ProverSpec => []ComparedIsAccepted
<1>1. ServableInv /\ [ProverNext]_proverVars => ServableInv'
  BY ProverMoves, ServableStep
<1>2. ProverInit => ServableInv
  BY ServableInitially DEF ProverInit
<1>3. ProverInv /\ ServableInv => ComparedIsAccepted
  BY ComparedCanBeRead
<1> QED
  BY <1>1, <1>2, <1>3, ProverInvariant, PTL DEF ProverSpec

\* A run of proveOnChain that goes on to the tally has left no pair of ballot
\* batches without its subsidy proof, unless it resumed beyond the first row,
\* where subsidyBatchNum is not the number of proofs on the chain: for every
\* batch size and number of sign-ups, and whatever runs crashed before.
THEOREM NoneSkipped == ProverSpec => []NoPairSkipped
<1>1. ProverInv /\ PairsInv /\ [ProverNext]_proverVars => ProverInv' /\ PairsInv'
  BY ProverStep, PairsStep
<1>2. ProverInv /\ PairsInv => NoPairSkipped
  BY DoneMeansCounted DEF PairsInv, SubsidyInv, NoPairSkipped
<1> QED
  BY <1>1, <1>2, ProverInitially, PairsInitially, PTL DEF ProverSpec
=============================================================================
