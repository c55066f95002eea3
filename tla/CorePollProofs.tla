--------------------------- MODULE CorePollProofs ---------------------------
(***************************************************************************)
(* For every electorate, batch size and sequence of messages, and however  *)
(* the polls take the lock from each other: core's state keeps its types,  *)
(* a batch is what the circuit proves of it, no credit is made or lost,    *)
(* the lock is held exactly while its poll is in progress, or failed, and  *)
(* the results are those of the final ballots.                             *)
(***************************************************************************)
EXTENDS CorePoll, Recursion, SequenceTheorems, FiniteSetTheorems, TLAPS

\* The fields the lock depends on.
Fields == {"messages", "stateCopied", "numBatchesProcessed", "currentMessageBatchIndex"}

PollShape(q) ==
  /\ Fields \subseteq DOMAIN q
  /\ q.messages \in Seq(election.messages \cup {Placeholder})
  /\ q.numBatchesProcessed \in Nat
  /\ ~q.stateCopied => q.numBatchesProcessed = 0

Shapes ==
  /\ election \in Elections
  /\ DOMAIN poll = PollIds
  /\ \A p \in PollIds : PollShape(poll[p])

Untouched(q) == q.numBatchesProcessed = 0 /\ q.currentMessageBatchIndex = Undefined

\* Until a poll has taken the lock no poll has begun.
NobodyYet ==
  lock.poll = Undefined => ~lock.being /\ \A p \in PollIds : Untouched(poll[p])

LockInv ==
  /\ Shapes
  /\ DOMAIN lock = {"being", "poll"}
  /\ lock.being \in BOOLEAN
  /\ NobodyYet
  /\ LockHeldInProgress

-----------------------------------------------------------------------------
(***************************************************************************)
(* The number of batches.                                                  *)
(***************************************************************************)
LEMMA DivIsInt ==
  ASSUME NEW n \in Nat, NEW b \in Nat \ {0}
  PROVE  n \div b \in Int
OBVIOUS

\* (k + 1) * messageBatchSize >= n, the condition that releases the lock, says
\* that k + 1 batches are all there are.
LEMMA BatchCount ==
  ASSUME NEW q, NEW n \in Nat, Len(q.messages) = n, q.numBatchesProcessed \in Nat
  PROVE  Released(q) <=> q.numBatchesProcessed + 1 >= totalBatches(q)
<1> DEFINE B == messageBatchSize
           c == n \div B
           r == n % B
           k == q.numBatchesProcessed
<1>1. B \in Nat \ {0} /\ k \in Nat
  BY CoreConstants
<1>2. Released(q) <=> (k + 1) * B >= n
  BY DEF Released
<1>3. totalBatches(q) = IF n <= B THEN 1 ELSE c + (IF r > 0 THEN 1 ELSE 0)
  BY DEF totalBatches
<1> HIDE DEF B, k
<1> SUFFICES (k + 1) * B >= n <=> k + 1 >= totalBatches(q)
  BY <1>2 DEF k
<1>4. c \in Nat /\ r \in 0..(B - 1) /\ n = c * B + r
  BY <1>1
<1> HIDE DEF c, r
<1>5. ASSUME NEW x \in Nat, NEW y \in Nat, x <= y
      PROVE  x * B <= y * B
  BY <1>1, <1>5
<1>6. (k + 1) * B \in Nat /\ (c + 1) * B = c * B + B /\ (k + 2) * B = (k + 1) * B + B
  BY <1>1, <1>4
<1>7. CASE n <= B
  <2>1. 1 * B <= (k + 1) * B
    BY <1>1, <1>5
  <2> QED
    BY <1>1, <1>3, <1>6, <1>7, <2>1
<1>8. CASE n > B /\ k + 1 > c
  <2>1. (c + 1) * B <= (k + 1) * B
    BY <1>1, <1>4, <1>5, <1>8
  <2> QED
    BY <1>1, <1>3, <1>4, <1>6, <1>8, <2>1
<1>9. CASE n > B /\ k + 1 = c
  BY <1>1, <1>3, <1>4, <1>6, <1>9
<1>10. CASE n > B /\ k + 1 < c
  <2>1. (k + 2) * B <= c * B
    BY <1>1, <1>4, <1>5, <1>10
  <2> QED
    BY <1>1, <1>3, <1>4, <1>6, <1>10, <2>1
<1> QED
  BY <1>1, <1>4, <1>7, <1>8, <1>9, <1>10

LEMMA FirstIndexDefined ==
  ASSUME NEW q, Len(q.messages) \in Nat
  PROVE  FirstIndex(q) # Undefined
<1> DEFINE n == Len(q.messages)
           B == messageBatchSize
           c == n \div B
           r == n % B
<1>1. n \in Nat /\ B \in Nat \ {0}
  BY CoreConstants
<1>2. FirstIndex(q) = IF n = 0 THEN 0 ELSE IF r = 0 THEN n - B ELSE n - r
  BY DEF FirstIndex
<1> HIDE DEF n, B
<1>3. c \in Nat /\ r \in 0..(B - 1) /\ n = B * c + r
  BY <1>1
<1> HIDE DEF c, r
<1>4. c > 0 => B * c >= B
  BY <1>1, <1>3
<1>5. c = 0 => B * c = 0
  BY <1>1, <1>3
<1>6. B * c \in Nat
  BY <1>1, <1>3
<1>7. r \in 0..n /\ (n # 0 /\ r = 0 => n >= B)
  BY <1>1, <1>3, <1>4, <1>5, <1>6
<1> QED
  BY <1>1, <1>7, <1>2, <1>3 DEF Undefined

-----------------------------------------------------------------------------
(***************************************************************************)
(* The steps.  SameControl: the lock cannot tell q and r apart.            *)
(***************************************************************************)
SameControl(q, r) ==
  /\ Fields \subseteq DOMAIN r
  /\ \A f \in Fields : r[f] = q[f]

LEMMA SameShape ==
  ASSUME NEW q, NEW r, PollShape(q), SameControl(q, r)
  PROVE  PollShape(r)
BY DEF PollShape, SameControl, Fields

\* The state read back, and the poll after updatePoll, differ in stateCopied.
LEMMA UpdatedControl ==
  ASSUME NEW q, Fields \subseteq DOMAIN q, NEW n
  PROVE  /\ Fields \subseteq DOMAIN Updated(q, n)
         /\ Updated(q, n).stateCopied
         /\ \A f \in Fields \ {"stateCopied"} : Updated(q, n)[f] = q[f]
BY DEF Updated, Fields

LEMMA RestoredControl ==
  ASSUME NEW q, Fields \subseteq DOMAIN q
  PROVE  /\ Fields \subseteq DOMAIN RestoredPoll(q)
         /\ RestoredPoll(q).stateCopied
         /\ \A f \in Fields \ {"stateCopied"} : RestoredPoll(q)[f] = q[f]
<1> DEFINE r == [NewPoll EXCEPT !.messages = q.messages, !.ballots = q.ballots,
                                !.tallyResult = q.tallyResult,
                                !.currentMessageBatchIndex = q.currentMessageBatchIndex,
                                !.numBatchesProcessed = q.numBatchesProcessed]
<1>1. Fields \subseteq DOMAIN r /\ \A f \in Fields \ {"stateCopied"} : r[f] = q[f]
  BY DEF NewPoll, Fields
<1> HIDE DEF r
<1>2. RestoredPoll(q) = Updated(r, q.numSignups)
  BY DEF RestoredPoll, r
<1> QED
  BY <1>1, <1>2, UpdatedControl

\* What the lock asks of a poll.
Busy(q) ==
  \/ q.numBatchesProcessed > 0 /\ hasUnprocessedMessages(q)
  \/ q.numBatchesProcessed = 0 /\ q.currentMessageBatchIndex # Undefined

LEMMA LockByBusy ==
  LockHeldInProgress <=> (lock.being <=> \E p \in PollIds : Busy(poll[p]) /\ lock.poll = p)
BY DEF LockHeldInProgress, InProgress, Failed, Busy

LEMMA BusyControl ==
  ASSUME NEW q, NEW r,
         \A f \in {"messages", "numBatchesProcessed", "currentMessageBatchIndex"} : r[f] = q[f]
  PROVE  (Busy(r) <=> Busy(q)) /\ (Untouched(r) <=> Untouched(q))
BY DEF Busy, Untouched, hasUnprocessedMessages, totalBatches

LEMMA PollIdsDefined == election \in Elections => Undefined \notin PollIds
BY CoreConstants DEF PollIds, Undefined

LEMMA ShapesOf ==
  ASSUME LockInv, UNCHANGED election, DOMAIN poll' = PollIds,
         \A p \in PollIds : PollShape(poll'[p])
  PROVE  Shapes'
BY DEF LockInv, Shapes, PollShape, PollIds

\* A step that leaves the lock and every poll's part in it alone.
LEMMA SameLock ==
  ASSUME LockInv, UNCHANGED <<election, lock>>, Shapes',
         \A p \in PollIds : /\ Busy(poll'[p]) <=> Busy(poll[p])
                            /\ Untouched(poll'[p]) <=> Untouched(poll[p])
  PROVE  LockInv'
<1>1. lock.being <=> \E p \in PollIds : Busy(poll'[p]) /\ lock.poll = p
  BY LockByBusy DEF LockInv
<1>2. LockHeldInProgress'
  BY <1>1 DEF LockHeldInProgress, InProgress, Failed, Busy, PollIds, hasUnprocessedMessages,
              totalBatches
<1>3. NobodyYet'
  BY DEF LockInv, NobodyYet, PollIds, Untouched
<1> QED
  BY <1>2, <1>3 DEF LockInv

LEMMA SameControlStep ==
  ASSUME LockInv, UNCHANGED <<election, lock>>, DOMAIN poll' = PollIds,
         \A p \in PollIds : SameControl(poll[p], poll'[p])
  PROVE  LockInv'
<1>1. \A p \in PollIds : PollShape(poll'[p])
  BY SameShape DEF LockInv, Shapes
<1>2. \A p \in PollIds : \A f \in Fields : poll'[p][f] = poll[p][f]
  BY DEF SameControl
<1>3. \A p \in PollIds :
        /\ Busy(poll'[p]) <=> Busy(poll[p])
        /\ Untouched(poll'[p]) <=> Untouched(poll[p])
  BY <1>2, BusyControl DEF Fields
<1> QED
  BY <1>1, <1>3, ShapesOf, SameLock

LEMMA CountStep ==
  ASSUME LockInv, NEW p \in PollIds,
         signUp \/ tallyVotes(p) \/ tallyVotesNonQv(p) \/ subsidyPerBatch(p) \/ UNCHANGED vars
  PROVE  LockInv'
<1>1. DOMAIN poll = PollIds /\ \A r \in PollIds : Fields \subseteq DOMAIN poll[r]
  BY DEF LockInv, Shapes, PollShape
<1>2. CASE signUp \/ UNCHANGED vars
  BY <1>1, <1>2, SameControlStep DEF signUp, vars, SameControl
<1>3. CASE tallyVotes(p)
  <2>1. UNCHANGED <<election, lock>> /\ DOMAIN poll' = PollIds
    BY <1>1, <1>3 DEF tallyVotes
  <2>2. \A r \in PollIds : SameControl(poll[r], poll'[r])
    BY <1>1, <1>3 DEF tallyVotes, SameControl, Fields
  <2> QED
    BY <2>1, <2>2, SameControlStep
<1>4. CASE tallyVotesNonQv(p)
  <2>1. UNCHANGED <<election, lock>> /\ DOMAIN poll' = PollIds
    BY <1>1, <1>4 DEF tallyVotesNonQv
  <2>2. \A r \in PollIds : SameControl(poll[r], poll'[r])
    BY <1>1, <1>4 DEF tallyVotesNonQv, SameControl, Fields
  <2> QED
    BY <2>1, <2>2, SameControlStep
<1>5. CASE subsidyPerBatch(p)
  <2>1. UNCHANGED <<election, lock>> /\ DOMAIN poll' = PollIds
    BY <1>1, <1>5 DEF subsidyPerBatch
  <2>2. \A r \in PollIds : SameControl(poll[r], poll'[r])
    BY <1>1, <1>5 DEF subsidyPerBatch, SameControl, Fields
  <2> QED
    BY <2>1, <2>2, SameControlStep
<1> QED
  BY <1>2, <1>3, <1>4, <1>5

\* Messages come before updatePoll, when no batch is processed.
LEMMA PublishStep ==
  ASSUME LockInv, NEW p \in PollIds, publishMessage(p)
  PROVE  LockInv'
<1>1. PICK m \in election.messages :
        poll' = [poll EXCEPT ![p].messages = Append(@, m)]
  BY DEF publishMessage
<1>2. UNCHANGED <<election, lock>> /\ ~poll[p].stateCopied
  BY DEF publishMessage
<1>3. DOMAIN poll' = PollIds /\ poll[p].numBatchesProcessed = 0
  BY <1>1, <1>2 DEF LockInv, Shapes, PollShape
<1>4. /\ Fields \subseteq DOMAIN poll'[p]
      /\ poll'[p].messages = Append(poll[p].messages, m)
      /\ poll'[p].stateCopied = poll[p].stateCopied
      /\ poll'[p].numBatchesProcessed = poll[p].numBatchesProcessed
      /\ poll'[p].currentMessageBatchIndex = poll[p].currentMessageBatchIndex
  BY <1>1 DEF LockInv, Shapes, PollShape, Fields
<1>5. PollShape(poll'[p])
  BY <1>2, <1>3, <1>4 DEF LockInv, Shapes, PollShape
<1>6. /\ Busy(poll'[p]) <=> Busy(poll[p])
      /\ Untouched(poll'[p]) <=> Untouched(poll[p])
  BY <1>3, <1>4 DEF Busy, Untouched
<1>7. \A r \in PollIds \ {p} : poll'[r] = poll[r]
  BY <1>1 DEF LockInv, Shapes
<1>8. \A r \in PollIds : PollShape(poll'[r])
  BY <1>5, <1>7 DEF LockInv, Shapes
<1> QED
  BY <1>2, <1>3, <1>6, <1>7, <1>8, ShapesOf, SameLock

LEMMA UpdateStep ==
  ASSUME LockInv, NEW p \in PollIds, NEW n, updatePoll(p, n)
  PROVE  LockInv'
<1>1. poll' = [poll EXCEPT ![p] = Updated(poll[p], n)] /\ UNCHANGED <<election, lock>>
  BY DEF updatePoll
<1>2. DOMAIN poll' = PollIds /\ poll'[p] = Updated(poll[p], n)
  BY <1>1 DEF LockInv, Shapes
<1>3. /\ Fields \subseteq DOMAIN poll'[p] /\ poll'[p].stateCopied
      /\ \A f \in Fields \ {"stateCopied"} : poll'[p][f] = poll[p][f]
  BY <1>2, UpdatedControl DEF LockInv, Shapes, PollShape
<1>4. PollShape(poll'[p])
  BY <1>3 DEF LockInv, Shapes, PollShape, Fields
<1>5. /\ Busy(poll'[p]) <=> Busy(poll[p])
      /\ Untouched(poll'[p]) <=> Untouched(poll[p])
  BY <1>3, BusyControl DEF Fields
<1>6. \A r \in PollIds \ {p} : poll'[r] = poll[r]
  BY <1>1 DEF LockInv, Shapes
<1>7. \A r \in PollIds : PollShape(poll'[r])
  BY <1>4, <1>6 DEF LockInv, Shapes
<1> QED
  BY <1>1, <1>2, <1>5, <1>6, <1>7, ShapesOf, SameLock

\* An unset currentPollBeingProcessed is read back as 0, and poll 0 has not
\* begun then.
LEMMA RestoreStep ==
  ASSUME LockInv, restore
  PROVE  LockInv'
<1>1. DOMAIN poll' = PollIds /\ \A p \in PollIds : poll'[p] = RestoredPoll(poll[p])
  BY DEF restore
<1>2. ASSUME NEW p \in PollIds
      PROVE  /\ PollShape(poll'[p])
             /\ Busy(poll'[p]) <=> Busy(poll[p])
             /\ Untouched(poll'[p]) <=> Untouched(poll[p])
  <2>1. /\ Fields \subseteq DOMAIN poll'[p] /\ poll'[p].stateCopied
        /\ \A f \in Fields \ {"stateCopied"} : poll'[p][f] = poll[p][f]
    BY <1>1, RestoredControl DEF LockInv, Shapes, PollShape
  <2>2. PollShape(poll'[p])
    BY <2>1 DEF LockInv, Shapes, PollShape, Fields
  <2> QED
    BY <2>1, <2>2, BusyControl DEF Fields
<1>3. Shapes'
  BY <1>1, <1>2, ShapesOf DEF restore
<1>4. /\ DOMAIN lock' = {"being", "poll"}
      /\ lock'.being = lock.being
      /\ lock'.poll = IF lock.poll = Undefined THEN 0 ELSE lock.poll
  BY DEF restore, LockInv
<1>5. NobodyYet'
  BY <1>4 DEF NobodyYet, Undefined
<1>6. lock'.being <=> \E p \in PollIds : Busy(poll'[p]) /\ lock'.poll = p
  <2>1. CASE lock.poll = Undefined
    <3>1. \A p \in PollIds : ~Busy(poll'[p])
      BY <1>2, <2>1 DEF LockInv, NobodyYet, Untouched, Busy
    <3> QED
      BY <1>4, <2>1, <3>1 DEF LockInv, NobodyYet
  <2>2. CASE lock.poll # Undefined
    BY <1>2, <1>4, <2>2, LockByBusy DEF LockInv
  <2> QED
    BY <2>1, <2>2
<1>7. LockHeldInProgress'
  BY <1>6 DEF restore, LockHeldInProgress, InProgress, Failed, Busy, PollIds,
              hasUnprocessedMessages, totalBatches
<1> QED
  BY <1>3, <1>4, <1>5, <1>7 DEF LockInv

-----------------------------------------------------------------------------
\* A first batch that throws has taken the lock and leaves its batch index.
LEMMA ThrowStep ==
  ASSUME LockInv, NEW p \in PollIds, processMessagesThrows(p)
  PROVE  LockInv'
<1>1. /\ poll[p].numBatchesProcessed = 0
      /\ poll' = [poll EXCEPT ![p].currentMessageBatchIndex = IndexOf(poll[p]),
                              ![p].salted = {IndexOf(poll[p])}]
      /\ UNCHANGED election
  BY DEF processMessagesThrows
<1>2. lock' = [being |-> TRUE, poll |-> p]
  BY <1>1 DEF processMessagesThrows, Claimed
<1>3. /\ DOMAIN poll' = PollIds
      /\ \A r \in PollIds \ {p} : poll'[r] = poll[r]
      /\ Fields \subseteq DOMAIN poll'[p]
      /\ poll'[p].messages = poll[p].messages
      /\ poll'[p].stateCopied = poll[p].stateCopied
      /\ poll'[p].numBatchesProcessed = 0
      /\ poll'[p].currentMessageBatchIndex = IndexOf(poll[p])
  BY <1>1 DEF LockInv, Shapes, PollShape, Fields
<1>4. PollShape(poll'[p])
  BY <1>3 DEF LockInv, Shapes, PollShape
<1>5. Shapes'
  BY <1>1, <1>3, <1>4, ShapesOf DEF LockInv, Shapes
<1>6. poll'[p].currentMessageBatchIndex # Undefined
  <2>1. IndexOf(poll[p]) = FirstIndex(poll[p])
    BY <1>1 DEF IndexOf
  <2>2. Len(poll[p].messages) \in Nat
    BY DEF LockInv, Shapes, PollShape
  <2> QED
    BY <1>3, <2>1, <2>2, FirstIndexDefined
<1>7. Failed(p)'
  BY <1>3, <1>6 DEF Failed
<1>8. LockHeldInProgress'
  BY <1>1, <1>2, <1>7 DEF LockHeldInProgress, PollIds
<1>9. NobodyYet'
  BY <1>2, PollIdsDefined DEF NobodyYet, LockInv, Shapes
<1> QED
  BY <1>2, <1>5, <1>8, <1>9 DEF LockInv

\* The lock after a batch: it is held if the batch was not the last one, by the
\* poll that has taken it, or by nobody if another poll has come and gone.
LEMMA ProcessStep ==
  ASSUME LockInv, NEW p \in PollIds, processMessages(p)
  PROVE  LockInv'
<1> DEFINE q == poll[p]
           k == q.numBatchesProcessed
<1>1. /\ hasUnprocessedMessages(q)
      /\ Claimed(p).being => Claimed(p).poll = p
      /\ q.stateCopied
      /\ UNCHANGED election
  BY DEF processMessages, CanProcess, NoLeaves
<1>2. lock' = [Claimed(p) EXCEPT !.being = IF Released(q) THEN FALSE ELSE @]
  BY DEF processMessages
<1>3. /\ DOMAIN poll' = PollIds
      /\ \A r \in PollIds \ {p} : poll'[r] = poll[r]
      /\ Fields \subseteq DOMAIN poll'[p]
      /\ poll'[p].messages = q.messages
      /\ poll'[p].stateCopied = q.stateCopied
      /\ poll'[p].numBatchesProcessed = k + 1
  BY DEF processMessages, LockInv, Shapes, PollShape, Fields
<1>4. k \in Nat /\ q.messages \in Seq(election.messages \cup {Placeholder})
  BY DEF LockInv, Shapes, PollShape
<1>5. PollShape(poll'[p])
  BY <1>1, <1>3, <1>4 DEF PollShape
<1>6. Shapes'
  BY <1>1, <1>3, <1>5, ShapesOf DEF LockInv, Shapes
<1>7. Busy(poll'[p]) <=> ~Released(q)
  <2>1. totalBatches(poll'[p]) = totalBatches(q)
    BY <1>3 DEF totalBatches
  <2>2. Released(q) <=> k + 1 >= totalBatches(q)
    BY <1>4, BatchCount
  <2>3. totalBatches(q) \in Int
    <3>1. Len(q.messages) \in Nat /\ messageBatchSize \in Nat \ {0}
      BY <1>4, CoreConstants
    <3>2. Len(q.messages) \div messageBatchSize \in Int
      BY <3>1, DivIsInt
    <3> QED
      BY <3>2 DEF totalBatches
  <2> QED
    BY <1>3, <1>4, <2>1, <2>2, <2>3 DEF Busy, hasUnprocessedMessages
<1>8. /\ DOMAIN lock' = {"being", "poll"}
      /\ lock'.being \in BOOLEAN
      /\ lock'.being <=> ~Released(q) /\ Claimed(p).being
      /\ lock'.poll = Claimed(p).poll
  BY <1>2 DEF Claimed, LockInv
<1>9. lock'.poll # Undefined
  BY <1>4, <1>8, PollIdsDefined DEF Claimed, LockInv, Shapes, NobodyYet, Untouched
<1>10. lock'.being <=> \E r \in PollIds : Busy(poll'[r]) /\ lock'.poll = r
  <2>1. CASE Claimed(p).poll = p /\ Claimed(p).being
    BY <1>7, <1>8, <2>1
  <2>2. CASE ~Claimed(p).being
    <3>1. Claimed(p) = lock /\ k > 0 /\ ~lock.being
      BY <1>4, <2>2 DEF Claimed
    <3>2. Busy(q)
      BY <1>1, <3>1 DEF Busy
    <3>3. \A r \in PollIds : lock.poll = r => ~Busy(poll[r]) /\ r # p
      BY <3>1, <3>2, LockByBusy DEF LockInv
    <3> QED
      BY <1>3, <1>8, <2>2, <3>1, <3>3
  <2> QED
    BY <1>1, <2>1, <2>2
<1>11. LockHeldInProgress'
  BY <1>1, <1>10 DEF LockHeldInProgress, InProgress, Failed, Busy, PollIds,
                     hasUnprocessedMessages, totalBatches
<1> QED
  BY <1>6, <1>8, <1>9, <1>11 DEF LockInv, NobodyYet

-----------------------------------------------------------------------------
LEMMA LockInitially == Init => LockInv
<1> SUFFICES ASSUME Init PROVE LockInv
  OBVIOUS
<1>1. \A p \in PollIds : poll[p] = NewPoll
  BY DEF Init
<1>2. PollShape(NewPoll) /\ Untouched(NewPoll)
  BY DEF PollShape, Untouched, NewPoll, Fields
<1>3. Shapes /\ NobodyYet
  BY <1>1, <1>2 DEF Init, Shapes, NobodyYet
<1>4. \A p \in PollIds : ~Busy(poll[p])
  BY <1>1, <1>2 DEF Busy, Untouched
<1>5. LockHeldInProgress
  BY <1>4, LockByBusy DEF Init
<1> QED
  BY <1>3, <1>5 DEF Init, LockInv

LEMMA LockStep == LockInv /\ [Next]_vars => LockInv'
<1> SUFFICES ASSUME LockInv, [Next]_vars PROVE LockInv'
  OBVIOUS
<1>1. CASE restore
  BY <1>1, RestoreStep
<1>2. CASE signUp \/ UNCHANGED vars
  BY <1>2, CountStep, SameControlStep DEF LockInv, Shapes, PollShape, SameControl, signUp, vars
<1>3. ASSUME NEW p \in PollIds,
             \/ publishMessage(p)
             \/ \E n \in DOMAIN signedUp : updatePoll(p, n)
             \/ processMessages(p)
             \/ processMessagesThrows(p)
             \/ tallyVotes(p)
             \/ tallyVotesNonQv(p)
             \/ subsidyPerBatch(p)
      PROVE  LockInv'
  BY <1>3, PublishStep, UpdateStep, ProcessStep, ThrowStep, CountStep
<1> QED
  BY <1>1, <1>2, <1>3 DEF Next

\* MaciState's lock (pollBeingProcessed, currentPollBeingProcessed) is held
\* between the first batch and the last of the poll it names, or for good if
\* that poll's first batch threw; no poll that is done keeps it, although the
\* polls take it from each other and the state is written and read back.
THEOREM LockInProgress == Spec => []LockHeldInProgress
<1>1. LockInv => LockHeldInProgress
  BY DEF LockInv
<1> QED
  BY <1>1, LockInitially, LockStep, PTL DEF Spec

-----------------------------------------------------------------------------
(***************************************************************************)
(* Sums.                                                                   *)
(***************************************************************************)
Sums(f) ==
  LET sum[k \in 0..Len(f)] == IF k = 0 THEN 0 ELSE sum[k - 1] + f[k] IN sum

\* A function of 1..n is a sequence.
LEMMA Listed ==
  ASSUME NEW S, NEW n \in Nat, NEW f \in [1..n -> S]
  PROVE  f \in Seq(S) /\ Len(f) = n
BY SeqDef

LEMMA SumsDef ==
  ASSUME NEW n \in Nat, NEW f \in [1..n -> Int]
  PROVE  /\ Sums(f) \in [0..n -> Int]
         /\ Sums(f)[0] = 0
         /\ \A k \in 1..n : Sums(f)[k] = Sums(f)[k - 1] + f[k]
         /\ Total(f) = Sums(f)[n]
<1> DEFINE g == [k \in 0..n |-> [v \in Int |-> IF k = 0 THEN 0 ELSE v + f[k]]]
           sum == CHOOSE h : h = [k \in 0..n |-> IF k = 0 THEN 0 ELSE h[k - 1] + f[k]]
<1>1. Len(f) = n
  BY Listed
<1>2. \A k \in 0..n : g[k] \in [Int -> Int]
  OBVIOUS
<1>3. HasRecursion(Int, 0, 0, n, g)
  <2> DEFINE V == Int
             zero == 0
  <2>1. g \in [0..n -> [V -> V]] /\ zero \in V
    BY <1>2
  <2> HIDE DEF g, V, zero
  <2>2. HasRecursion(V, zero, 0, n, g)
    BY <2>1, RangeRecursion
  <2> QED
    BY <2>2 DEF V, zero
<1>4. PICK h \in [0..n -> Int] : \A k \in 0..n : h[k] = IF k = 0 THEN 0 ELSE g[k][h[k - 1]]
  BY <1>3 DEF HasRecursion
<1>5. \A k \in 0..n : h[k] = IF k = 0 THEN 0 ELSE h[k - 1] + f[k]
  <2> SUFFICES ASSUME NEW k \in 0..n PROVE h[k] = IF k = 0 THEN 0 ELSE h[k - 1] + f[k]
    OBVIOUS
  <2>1. CASE k = 0
    BY <1>4, <2>1
  <2>2. CASE k # 0
    <3>1. k - 1 \in 0..n /\ h[k - 1] \in Int
      BY <2>2
    <3>2. g[k][h[k - 1]] = h[k - 1] + f[k]
      BY <2>2, <3>1
    <3> HIDE DEF g
    <3> QED
      BY <1>4, <2>2, <3>2
  <2> QED
    BY <2>1, <2>2
<1>6. h = [k \in 0..n |-> IF k = 0 THEN 0 ELSE h[k - 1] + f[k]]
  BY <1>5
<1>7. sum = [k \in 0..n |-> IF k = 0 THEN 0 ELSE sum[k - 1] + f[k]]
  BY <1>6
<1>8. Sums(f) = sum /\ Total(f) = sum[n]
  BY <1>1 DEF Sums, Total
<1> HIDE DEF sum, g
<1>9. 0..n \subseteq {k \in 0..n : sum[k] \in Int}
  <2>1. sum[0] = 0 /\ \A k \in 1..n : sum[k] = sum[k - 1] + f[k]
    BY <1>7
  <2> DEFINE S == {k \in 0..n : sum[k] \in Int}
  <2>2. 0 \in S
    BY <2>1
  <2>3. ASSUME NEW i \in 0..(n - 1), i \in S
        PROVE  i + 1 \in S
    <3>1. i + 1 \in 1..n /\ (i + 1) - 1 = i
      OBVIOUS
    <3> QED
      BY <2>1, <2>3, <3>1
  <2> HIDE DEF S
  <2>4. 0..n \subseteq S
    BY <2>2, <2>3, RangeInduction
  <2> QED
    BY <2>4 DEF S
<1> QED
  BY <1>7, <1>8, <1>9

\* One term changed.
LEMMA SumChanged ==
  ASSUME NEW n \in Nat, NEW f \in [1..n -> Int], NEW g \in [1..n -> Int],
         NEW o \in 1..n, \A k \in 1..n : k # o => g[k] = f[k]
  PROVE  Total(g) = Total(f) + (g[o] - f[o]) /\ Total(f) \in Int
<1> DEFINE F == Sums(f)
           G == Sums(g)
           S == {k \in 0..n : G[k] = IF k < o THEN F[k] ELSE F[k] + (g[o] - f[o])}
<1>1. /\ F \in [0..n -> Int] /\ F[0] = 0
      /\ \A k \in 1..n : F[k] = F[k - 1] + f[k]
      /\ Total(f) = F[n]
  BY SumsDef
<1>2. /\ G \in [0..n -> Int] /\ G[0] = 0
      /\ \A k \in 1..n : G[k] = G[k - 1] + g[k]
      /\ Total(g) = G[n]
  BY SumsDef
<1> HIDE DEF F, G
<1>3. 0 \in S
  BY <1>1, <1>2
<1>4. ASSUME NEW i \in 0..(n - 1), i \in S
      PROVE  i + 1 \in S
  <2>1. i + 1 \in 1..n /\ (i + 1) - 1 = i /\ f[i + 1] \in Int /\ g[i + 1] \in Int
        /\ f[o] \in Int /\ g[o] \in Int /\ F[i] \in Int
    BY <1>1
  <2>2. F[i + 1] = F[i] + f[i + 1] /\ G[i + 1] = G[i] + g[i + 1]
    BY <1>1, <1>2, <2>1
  <2>3. G[i] = IF i < o THEN F[i] ELSE F[i] + (g[o] - f[o])
    BY <1>4
  <2> SUFFICES G[i + 1] = IF i + 1 < o THEN F[i + 1] ELSE F[i + 1] + (g[o] - f[o])
    BY <2>1
  <2>4. CASE i + 1 = o
    <3>1. i < o /\ ~ (i + 1 < o) /\ f[i + 1] = f[o] /\ g[i + 1] = g[o]
      BY <2>1, <2>4
    <3> QED
      BY <2>1, <2>2, <2>3, <3>1
  <2>5. CASE i + 1 # o
    <3>1. g[i + 1] = f[i + 1] /\ (i < o <=> i + 1 < o)
      BY <2>1, <2>5
    <3> QED
      BY <2>1, <2>2, <2>3, <3>1
  <2> QED
    BY <2>4, <2>5
<1> HIDE DEF S
<1>5. 0..n \subseteq S
  BY <1>3, <1>4, RangeInduction
<1>6. n \in S /\ F[n] \in Int /\ ~ (n < o)
  BY <1>1, <1>5
<1> QED
  BY <1>1, <1>2, <1>6 DEF S

LEMMA ZeroTotal ==
  ASSUME NEW n \in Nat, NEW f \in [1..n -> Int], \A k \in 1..n : f[k] = 0
  PROVE  Total(f) = 0
<1> DEFINE F == Sums(f)
           S == {k \in 0..n : F[k] = 0}
<1>1. /\ F[0] = 0
      /\ \A k \in 1..n : F[k] = F[k - 1] + f[k]
      /\ Total(f) = F[n]
  BY SumsDef
<1> HIDE DEF F
<1>2. 0 \in S
  BY <1>1
<1>3. ASSUME NEW i \in 0..(n - 1), i \in S
      PROVE  i + 1 \in S
  <2>1. i + 1 \in 1..n /\ (i + 1) - 1 = i
    OBVIOUS
  <2> QED
    BY <1>1, <1>3, <2>1
<1> HIDE DEF S
<1>4. 0..n \subseteq S
  BY <1>2, <1>3, RangeInduction
<1> QED
  BY <1>1, <1>4 DEF S

-----------------------------------------------------------------------------
(***************************************************************************)
(* One message.  What is said of the coordinator's computation and of the  *)
(* circuit's is said of their arguments, an election e among them, so that *)
(* it holds in every state.                                                *)
(***************************************************************************)
Messages(e) == e.messages \cup {Placeholder}

Votes(e) == {m \in Messages(e) : m.msgType = 1}

Keys(e) == {BlankKey} \cup {leaf.pubKey : leaf \in e.leaves} \cup {m.newPubKey : m \in Votes(e)}

UserLeaf(e) == [pubKey : Keys(e), voiceCreditBalance : Nat, inTime : BOOLEAN]
Ballot == [nonce : Nat, votes : [Options -> Nat]]

Works(e, n) ==
  [stateLeaves : [1..n -> UserLeaf(e)], ballots : [1..n -> Ballot], ballotTree : [1..n -> Ballot]]

LEMMA MessageFields ==
  ASSUME NEW e \in Elections, NEW m \in Messages(e)
  PROVE  /\ m.stateIndex \in Nat
         /\ m.msgType = 1 =>
              /\ m.voteOptionIndex \in Nat /\ m.newVoteWeight \in Nat /\ m.nonce \in Nat
              /\ m.signer # BlankKey /\ m.newPubKey \in Keys(e)
         /\ m.msgType # 1 => m.msgType = 2 /\ m.amount \in Nat
BY MessagesTyped, CoreConstants DEF Messages, Placeholder, Keys, Votes

LEMMA CostIsNat ==
  ASSUME NEW weight \in Nat, NEW qv
  PROVE  Cost(weight, qv) \in Nat
BY DEF Cost

LEMMA LeafChanged ==
  ASSUME NEW e, NEW leaf \in UserLeaf(e), NEW a, NEW b
  PROVE  [leaf EXCEPT !.pubKey = a, !.voiceCreditBalance = b]
           = [pubKey |-> a, voiceCreditBalance |-> b, inTime |-> leaf.inTime]
<1> DEFINE changed == [leaf EXCEPT !.pubKey = a, !.voiceCreditBalance = b]
           other == [pubKey |-> a, voiceCreditBalance |-> b, inTime |-> leaf.inTime]
<1>1. /\ DOMAIN changed = DOMAIN other
      /\ changed.pubKey = a /\ changed.voiceCreditBalance = b /\ changed.inTime = leaf.inTime
  BY DEF UserLeaf
<1>2. /\ DOMAIN other = {"pubKey", "voiceCreditBalance", "inTime"}
      /\ other.pubKey = a /\ other.voiceCreditBalance = b /\ other.inTime = leaf.inTime
      /\ other = [field \in DOMAIN other |-> other[field]]
      /\ changed = [field \in DOMAIN changed |-> changed[field]]
  OBVIOUS
<1> HIDE DEF changed, other
<1>3. changed = other
  BY <1>1, <1>2
<1> QED
  BY <1>3 DEF changed, other

\* What a vote that is counted leaves.
CountedVote(w, m, qv) ==
  LET i == m.stateIndex + 1
      ballot == NewBallot(w.ballots[i], m)
  IN  [stateLeaves |-> [w.stateLeaves EXCEPT ![i] =
         [pubKey |-> m.newPubKey,
          voiceCreditBalance |-> voiceCreditsLeft(w.stateLeaves[i], w.ballots[i], m, qv),
          inTime |-> w.stateLeaves[i].inTime]],
       ballots |-> [w.ballots EXCEPT ![i] = ballot],
       ballotTree |-> [w.ballotTree EXCEPT ![i] = ballot]]

LEMMA VoteFields ==
  ASSUME NEW e \in Elections, NEW n \in Nat \ {0}, NEW w \in Works(e, n), NEW qv,
         NEW m \in Messages(e), m.msgType = 1, CommandValid(w, m, qv)
  PROVE  LET i == m.stateIndex + 1
         IN  /\ i \in 2..n /\ m.voteOptionIndex + 1 \in Options
             /\ w.stateLeaves[i] \in UserLeaf(e) /\ w.ballots[i] \in Ballot
             /\ voiceCreditsLeft(w.stateLeaves[i], w.ballots[i], m, qv) \in Nat
             /\ NewBallot(w.ballots[i], m) \in Ballot
<1> DEFINE i == m.stateIndex + 1
           leaf == w.stateLeaves[i]
           ballot == w.ballots[i]
           o == m.voteOptionIndex + 1
<1>1. /\ w.stateLeaves \in [1..n -> UserLeaf(e)] /\ w.ballots \in [1..n -> Ballot]
      /\ Len(w.stateLeaves) = n /\ Len(w.ballots) = n
  BY Listed DEF Works
<1>2. m.stateIndex \in Nat /\ m.voteOptionIndex \in Nat /\ m.newVoteWeight \in Nat
  BY MessageFields
<1>3. /\ m.stateIndex < n /\ m.stateIndex >= 1 /\ m.voteOptionIndex < maxVoteOptions
      /\ voiceCreditsLeft(leaf, ballot, m, qv) >= 0
  BY <1>1 DEF CommandValid
<1>4. i \in 2..n /\ o \in Options
  BY <1>2, <1>3, CoreConstants DEF Options
<1>5. leaf \in UserLeaf(e) /\ ballot \in Ballot
  BY <1>1, <1>4
<1>6. leaf.voiceCreditBalance \in Nat /\ ballot.votes \in [Options -> Nat] /\ ballot.nonce \in Nat
  BY <1>5 DEF UserLeaf, Ballot
<1>7. Cost(ballot.votes[o], qv) \in Nat /\ Cost(m.newVoteWeight, qv) \in Nat
  BY <1>2, <1>4, <1>6, CostIsNat
<1>8. voiceCreditsLeft(leaf, ballot, m, qv) \in Nat
  BY <1>3, <1>6, <1>7 DEF voiceCreditsLeft
<1>9. NewBallot(ballot, m) \in Ballot
  <2>1. NewBallot(ballot, m) =
          [nonce |-> ballot.nonce + 1, votes |-> [ballot.votes EXCEPT ![o] = m.newVoteWeight]]
    BY DEF NewBallot
  <2> HIDE DEF ballot, o
  <2>2. [ballot.votes EXCEPT ![o] = m.newVoteWeight] \in [Options -> Nat]
    BY <1>2, <1>6
  <2> QED
    BY <1>6, <2>1, <2>2 DEF Ballot
<1> QED
  BY <1>4, <1>5, <1>8, <1>9

LEMMA VoteCounted ==
  ASSUME NEW e \in Elections, NEW n \in Nat \ {0}, NEW w \in Works(e, n), NEW qv,
         NEW m \in Messages(e), m.msgType = 1, CommandValid(w, m, qv)
  PROVE  processOne(w, m, qv) = CountedVote(w, m, qv) /\ CountedVote(w, m, qv) \in Works(e, n)
<1> DEFINE i == m.stateIndex + 1
           left == voiceCreditsLeft(w.stateLeaves[i], w.ballots[i], m, qv)
           ballot == NewBallot(w.ballots[i], m)
<1>1. /\ i \in 2..n /\ w.stateLeaves[i] \in UserLeaf(e) /\ left \in Nat /\ ballot \in Ballot
  BY VoteFields
<1>2. m.newPubKey \in Keys(e)
  BY MessageFields
<1>3. processOne(w, m, qv) =
        [w EXCEPT !.stateLeaves[i].pubKey = m.newPubKey,
                  !.stateLeaves[i].voiceCreditBalance = left,
                  !.ballots[i] = ballot,
                  !.ballotTree[i] = ballot]
  BY DEF processOne, processMessage
<1>4. CountedVote(w, m, qv) =
        [stateLeaves |-> [w.stateLeaves EXCEPT ![i] =
           [pubKey |-> m.newPubKey, voiceCreditBalance |-> left,
            inTime |-> w.stateLeaves[i].inTime]],
         ballots |-> [w.ballots EXCEPT ![i] = ballot],
         ballotTree |-> [w.ballotTree EXCEPT ![i] = ballot]]
  BY DEF CountedVote
<1> HIDE DEF left, ballot
<1>5. /\ w.stateLeaves \in [1..n -> UserLeaf(e)] /\ w.ballots \in [1..n -> Ballot]
      /\ w.ballotTree \in [1..n -> Ballot] /\ i \in 1..n
  BY <1>1 DEF Works
<1> HIDE DEF i
<1>6. [w.stateLeaves EXCEPT ![i] =
           [pubKey |-> m.newPubKey, voiceCreditBalance |-> left,
            inTime |-> w.stateLeaves[i].inTime]] \in [1..n -> UserLeaf(e)]
  BY <1>1, <1>2, <1>5 DEF UserLeaf
<1>7. processOne(w, m, qv) = CountedVote(w, m, qv)
  <2> DEFINE leaves == w.stateLeaves
             new == [pubKey |-> m.newPubKey, voiceCreditBalance |-> left,
                     inTime |-> leaves[i].inTime]
  <2>2. [[leaves[i] EXCEPT !.pubKey = m.newPubKey] EXCEPT !.voiceCreditBalance = left] = new
    BY <1>1, LeafChanged
  <2>3. w = [stateLeaves |-> leaves, ballots |-> w.ballots, ballotTree |-> w.ballotTree]
    BY DEF Works
  <2>4. [leaves EXCEPT ![i].pubKey = m.newPubKey, ![i].voiceCreditBalance = left]
          = [leaves EXCEPT ![i] = new]
    BY <1>5, <2>2
  <2> HIDE DEF new
  <2>5. processOne(w, m, qv) =
          [stateLeaves |-> [leaves EXCEPT ![i].pubKey = m.newPubKey,
                                          ![i].voiceCreditBalance = left],
           ballots |-> [w.ballots EXCEPT ![i] = ballot],
           ballotTree |-> [w.ballotTree EXCEPT ![i] = ballot]]
    BY <1>3, <2>3
  <2> QED
    BY <1>4, <2>4, <2>5 DEF new
<1>8. CountedVote(w, m, qv) \in Works(e, n)
  BY <1>1, <1>4, <1>5, <1>6 DEF Works
<1> QED
  BY <1>7, <1>8

\* The leaf a topup is added to; one of an unknown user adds 0 to leaf 0.
TopupLeaf(m, n) == IF m.stateIndex < n THEN m.stateIndex + 1 ELSE 1
TopupAmount(m, n) == IF m.stateIndex < n THEN m.amount ELSE 0

CountedTopup(w, m, n) ==
  [stateLeaves |-> [w.stateLeaves EXCEPT ![TopupLeaf(m, n)] =
     [pubKey |-> @.pubKey, inTime |-> @.inTime,
      voiceCreditBalance |-> @.voiceCreditBalance + TopupAmount(m, n)]],
   ballots |-> w.ballots,
   ballotTree |-> w.ballotTree]

LEMMA TopupCounted ==
  ASSUME NEW e \in Elections, NEW n \in Nat \ {0}, NEW w \in Works(e, n), NEW qv,
         NEW m \in Messages(e), m.msgType # 1
  PROVE  /\ processOne(w, m, qv) = CountedTopup(w, m, n)
         /\ CountedTopup(w, m, n) \in Works(e, n)
         /\ TopupLeaf(m, n) \in 1..n /\ TopupAmount(m, n) \in Nat
<1> DEFINE i == TopupLeaf(m, n)
           amount == TopupAmount(m, n)
           leaf == w.stateLeaves[i]
           new == [pubKey |-> leaf.pubKey, inTime |-> leaf.inTime,
                   voiceCreditBalance |-> leaf.voiceCreditBalance + amount]
<1>1. i \in 1..n /\ amount \in Nat
  BY MessageFields DEF TopupLeaf, TopupAmount
<1>2. Len(w.ballots) = n
  BY Listed DEF Works
<1>3. processOne(w, m, qv) =
        [w EXCEPT !.stateLeaves[i].voiceCreditBalance = @ + amount]
  BY <1>2 DEF processOne, processTopup, TopupLeaf, TopupAmount
<1>4. CountedTopup(w, m, n) =
        [stateLeaves |-> [w.stateLeaves EXCEPT ![i] = new],
         ballots |-> w.ballots, ballotTree |-> w.ballotTree]
  BY DEF CountedTopup
<1> HIDE DEF i, amount
<1>5. w.stateLeaves \in [1..n -> UserLeaf(e)] /\ leaf \in UserLeaf(e)
  BY <1>1 DEF Works
<1>6. new \in UserLeaf(e)
  BY <1>1, <1>5 DEF UserLeaf
<1>7. processOne(w, m, qv) = CountedTopup(w, m, n)
  <2> DEFINE leaves == w.stateLeaves
  <2>1. w = [stateLeaves |-> leaves, ballots |-> w.ballots, ballotTree |-> w.ballotTree]
    BY DEF Works
  <2>2. [leaves[i] EXCEPT !.voiceCreditBalance = @ + amount] = new
    BY <1>5 DEF UserLeaf
  <2>3. [leaves EXCEPT ![i].voiceCreditBalance = @ + amount] = [leaves EXCEPT ![i] = new]
    BY <1>1, <1>5, <2>2
  <2> HIDE DEF new
  <2>4. processOne(w, m, qv) =
          [stateLeaves |-> [leaves EXCEPT ![i].voiceCreditBalance = @ + amount],
           ballots |-> w.ballots, ballotTree |-> w.ballotTree]
    BY <1>3, <2>1
  <2> QED
    BY <1>4, <2>3, <2>4 DEF new
<1>8. CountedTopup(w, m, n) \in Works(e, n)
  <2> HIDE DEF new
  <2>1. [w.stateLeaves EXCEPT ![i] = new] \in [1..n -> UserLeaf(e)]
    BY <1>5, <1>6
  <2> QED
    BY <1>4, <2>1 DEF Works
<1> QED
  BY <1>1, <1>7, <1>8 DEF i, amount

\* The cases of a message.
LEMMA OneMessage ==
  ASSUME NEW e \in Elections, NEW n \in Nat \ {0}, NEW w \in Works(e, n), NEW qv,
         NEW m \in Messages(e)
  PROVE  /\ processOne(w, m, qv) \in Works(e, n)
         /\ \/ /\ m.msgType = 1 /\ ~CommandValid(w, m, qv)
               /\ processOne(w, m, qv) = w
            \/ /\ m.msgType = 1 /\ CommandValid(w, m, qv)
               /\ processOne(w, m, qv) = CountedVote(w, m, qv)
            \/ /\ m.msgType # 1
               /\ processOne(w, m, qv) = CountedTopup(w, m, n)
<1>1. CASE m.msgType = 1 /\ ~CommandValid(w, m, qv)
  BY <1>1 DEF processOne, processMessage
<1>2. CASE m.msgType = 1 /\ CommandValid(w, m, qv)
  BY <1>2, VoteCounted
<1>3. CASE m.msgType # 1
  BY <1>3, TopupCounted
<1> QED
  BY <1>1, <1>2, <1>3

-----------------------------------------------------------------------------
(***************************************************************************)
(* Many messages, the last one first: After(w, ms, qv)[k] is what the last *)
(* k of them make of w.                                                    *)
(***************************************************************************)
After(w, ms, qv) ==
  LET after[k \in 0..Len(ms)] ==
        IF k = 0 THEN w ELSE processOne(after[k - 1], ms[Len(ms) + 1 - k], qv)
  IN  after

LEMMA AfterDef ==
  ASSUME NEW e \in Elections, NEW n \in Nat \ {0}, NEW w \in Works(e, n), NEW qv,
         NEW ms \in Seq(Messages(e))
  PROVE  /\ After(w, ms, qv) \in [0..Len(ms) -> Works(e, n)]
         /\ After(w, ms, qv)[0] = w
         /\ \A k \in 1..Len(ms) :
              After(w, ms, qv)[k] = processOne(After(w, ms, qv)[k - 1], ms[Len(ms) + 1 - k], qv)
         /\ Applied(w, ms, qv) = After(w, ms, qv)[Len(ms)]
<1> DEFINE L == Len(ms)
           V == Works(e, n)
           g == [k \in 0..L |-> [v \in V |-> IF k = 0 THEN w
                                             ELSE processOne(v, ms[L + 1 - k], qv)]]
           f == After(w, ms, qv)
<1>1. L \in Nat /\ \A k \in 1..L : ms[L + 1 - k] \in Messages(e)
  <2>1. L \in Nat /\ \A k \in 1..L : L + 1 - k \in 1..L
    OBVIOUS
  <2>2. \A j \in 1..L : ms[j] \in Messages(e)
    BY ElementOfSeq
  <2> HIDE DEF L
  <2> QED
    BY <2>1, <2>2
<1>2. \A k \in 1..L : \A v \in V : processOne(v, ms[L + 1 - k], qv) \in V
  BY <1>1, OneMessage
<1> HIDE DEF L, V
<1>3. g \in [0..L -> [V -> V]] /\ w \in V
  BY <1>1, <1>2 DEF V
<1>4. HasRecursion(V, w, 0, L, g)
  <2> HIDE DEF g
  <2> QED
    BY <1>1, <1>3, RangeRecursion
<1>5. PICK h \in [0..L -> V] : \A k \in 0..L : h[k] = IF k = 0 THEN w ELSE g[k][h[k - 1]]
  <2> HIDE DEF g
  <2> QED
    BY <1>4 DEF HasRecursion
<1>6. \A k \in 0..L : h[k] = IF k = 0 THEN w ELSE processOne(h[k - 1], ms[L + 1 - k], qv)
  <2> SUFFICES ASSUME NEW k \in 0..L, k # 0
               PROVE  h[k] = processOne(h[k - 1], ms[L + 1 - k], qv)
    BY <1>5
  <2>1. k - 1 \in 0..L /\ h[k - 1] \in V
    BY <1>1
  <2>2. g[k][h[k - 1]] = processOne(h[k - 1], ms[L + 1 - k], qv)
    BY <2>1
  <2> HIDE DEF g
  <2> QED
    BY <1>5, <2>2
<1>7. h = [k \in 0..L |-> IF k = 0 THEN w ELSE processOne(h[k - 1], ms[L + 1 - k], qv)]
  BY <1>6
<1>8. f = CHOOSE x :
        x = [k \in 0..L |-> IF k = 0 THEN w ELSE processOne(x[k - 1], ms[L + 1 - k], qv)]
  BY DEF After, L
<1>9. f = [k \in 0..L |-> IF k = 0 THEN w ELSE processOne(f[k - 1], ms[L + 1 - k], qv)]
  BY <1>7, <1>8
<1>10. Applied(w, ms, qv) = f[L]
  BY DEF Applied, After, L
<1> HIDE DEF f, g
<1>11. /\ f[0] = w
       /\ \A k \in 1..L : f[k] = processOne(f[k - 1], ms[L + 1 - k], qv)
  BY <1>1, <1>9
<1> DEFINE S == {k \in 0..L : f[k] \in V}
<1>12. 0 \in S
  BY <1>1, <1>3, <1>11
<1>13. ASSUME NEW i \in 0..(L - 1), i \in S
       PROVE  i + 1 \in S
  <2>1. i + 1 \in 1..L /\ (i + 1) - 1 = i /\ f[i] \in V
    BY <1>1, <1>13
  <2>2. f[i + 1] = processOne(f[i], ms[L + 1 - (i + 1)], qv)
    BY <1>11, <2>1
  <2>3. f[i + 1] \in V
    BY <1>2, <2>1, <2>2
  <2> QED
    BY <2>1, <2>3
<1> HIDE DEF S
<1>14. 0..L \subseteq S
  BY <1>1, <1>12, <1>13, RangeInduction
<1>15. f \in [0..L -> V]
  BY <1>9, <1>14 DEF S
<1> QED
  BY <1>10, <1>11, <1>15 DEF f, L, V

\* A batch goes on from where the messages after it have led.
LEMMA AfterRest ==
  ASSUME NEW e \in Elections, NEW n \in Nat \ {0}, NEW w \in Works(e, n), NEW qv,
         NEW ms \in Seq(Messages(e)), NEW b \in 0..Len(ms), NEW a \in 0..b
  PROVE  Applied(After(w, ms, qv)[Len(ms) - b], SubSeq(ms, a + 1, b), qv)
           = After(w, ms, qv)[Len(ms) - a]
<1> DEFINE L == Len(ms)
           f == After(w, ms, qv)
           start == f[L - b]
           part == SubSeq(ms, a + 1, b)
           h == After(start, part, qv)
           m == b - a
<1>1. /\ L \in Nat /\ m \in Nat /\ L - b \in 0..L /\ a \in Nat /\ b \in Nat
      /\ (L - b) + m = L - a /\ b <= L
  OBVIOUS
<1>2. /\ part \in Seq(Messages(e)) /\ Len(part) = m
      /\ \A j \in 1..m : part[j] = ms[a + j]
  <2>1. b = (a + 1) + m - 1 /\ a + 1 \in 1..(L + 1) /\ b \in (a + 1 - 1)..L
    BY <1>1
  <2>2. part \in Seq(Messages(e))
    <3>1. \A j \in (a + 1)..b : ms[j] \in Messages(e)
      BY <1>1, ElementOfSeq
    <3> QED
      BY <1>1, <3>1, SubSeqProperties
  <2>3. Len(part) = IF a + 1 <= b THEN b - (a + 1) + 1 ELSE 0
    BY <1>1, SubSeqProperties
  <2>4. \A j \in 1..m : part[j] = ms[a + 1 + j - 1]
    BY <1>1, SubSeqProperties
  <2>5. Len(part) = m
    BY <1>1, <2>3
  <2>6. \A j \in 1..m : a + 1 + j - 1 = a + j
    BY <1>1
  <2> QED
    BY <2>2, <2>4, <2>5, <2>6
<1>3. /\ f \in [0..L -> Works(e, n)]
      /\ \A k \in 1..L : f[k] = processOne(f[k - 1], ms[L + 1 - k], qv)
  BY AfterDef
<1>4. start \in Works(e, n)
  BY <1>1, <1>3
<1> HIDE DEF f, L, m, start, part
<1>5. /\ h[0] = start
      /\ \A k \in 1..m : h[k] = processOne(h[k - 1], part[m + 1 - k], qv)
      /\ Applied(start, part, qv) = h[m]
  <2>1. part \in Seq(Messages(e))
    BY <1>2
  <2>2. /\ h[0] = start
        /\ \A k \in 1..Len(part) : h[k] = processOne(h[k - 1], part[Len(part) + 1 - k], qv)
        /\ Applied(start, part, qv) = h[Len(part)]
    BY <1>4, <2>1, AfterDef
  <2> HIDE DEF h
  <2> QED
    BY <1>2, <2>2
<1> HIDE DEF h
<1> DEFINE S == {k \in 0..m : h[k] = f[(L - b) + k]}
<1>6. 0 \in S
  BY <1>1, <1>5 DEF start
<1>7. ASSUME NEW i \in 0..(m - 1), i \in S
      PROVE  i + 1 \in S
  <2>1. /\ i + 1 \in 1..m /\ (i + 1) - 1 = i /\ m + 1 - (i + 1) = m - i /\ m - i \in 1..m
        /\ (L - b) + (i + 1) \in 1..L /\ ((L - b) + (i + 1)) - 1 = (L - b) + i
        /\ L + 1 - ((L - b) + (i + 1)) = b - i /\ a + (m - i) = b - i
    BY <1>1 DEF m
  <2>2. h[i + 1] = processOne(h[i], part[m - i], qv)
    BY <1>5, <2>1
  <2>3. part[m - i] = ms[b - i]
    BY <1>2, <2>1
  <2>4. f[(L - b) + (i + 1)] = processOne(f[(L - b) + i], ms[b - i], qv)
    BY <1>3, <2>1
  <2>5. h[i] = f[(L - b) + i]
    BY <1>7
  <2> QED
    BY <2>1, <2>2, <2>3, <2>4, <2>5
<1> HIDE DEF S
<1>8. 0..m \subseteq S
  BY <1>1, <1>6, <1>7, RangeInduction
<1>9. h[m] = f[L - a]
  BY <1>1, <1>8 DEF S
<1> QED
  BY <1>5, <1>9 DEF start, part, f, L

-----------------------------------------------------------------------------
(***************************************************************************)
(* What every message keeps: the ballot tree goes along with the ballots,  *)
(* nobody gets the blank leaf, and inTime is what it was at the sign-up.   *)
(***************************************************************************)
Coherent(w, s, n) ==
  /\ w.ballotTree = w.ballots
  /\ w.stateLeaves[1].pubKey = BlankKey
  /\ \A i \in 1..n : w.stateLeaves[i].inTime = s[i].inTime

LEMMA OneCoherent ==
  ASSUME NEW e \in Elections, NEW n \in Nat \ {0}, NEW w \in Works(e, n), NEW qv,
         NEW m \in Messages(e), NEW s, Coherent(w, s, n)
  PROVE  Coherent(processOne(w, m, qv), s, n)
<1>1. w.stateLeaves \in [1..n -> UserLeaf(e)]
  BY DEF Works
<1>2. CASE m.msgType = 1 /\ ~CommandValid(w, m, qv)
  BY <1>2, OneMessage
<1>3. CASE m.msgType = 1 /\ CommandValid(w, m, qv)
  <2> DEFINE i == m.stateIndex + 1
             left == voiceCreditsLeft(w.stateLeaves[i], w.ballots[i], m, qv)
             leaf == [pubKey |-> m.newPubKey, voiceCreditBalance |-> left,
                      inTime |-> w.stateLeaves[i].inTime]
             x == CountedVote(w, m, qv)
  <2>1. i \in 2..n
    BY <1>3, VoteFields
  <2>2. /\ x.stateLeaves = [w.stateLeaves EXCEPT ![i] = leaf]
        /\ x.ballots = [w.ballots EXCEPT ![i] = NewBallot(w.ballots[i], m)]
        /\ x.ballotTree = [w.ballotTree EXCEPT ![i] = NewBallot(w.ballots[i], m)]
    BY DEF CountedVote
  <2>3. leaf.inTime = w.stateLeaves[i].inTime
    OBVIOUS
  <2>4. processOne(w, m, qv) = x
    BY <1>3, VoteCounted
  <2> HIDE DEF x, leaf, i
  <2>5. x.stateLeaves[1] = w.stateLeaves[1]
    BY <1>1, <2>1, <2>2
  <2>6. \A j \in 1..n : x.stateLeaves[j].inTime = w.stateLeaves[j].inTime
    BY <1>1, <2>1, <2>2, <2>3
  <2> QED
    BY <2>2, <2>4, <2>5, <2>6 DEF Coherent
<1>4. CASE m.msgType # 1
  <2> DEFINE i == TopupLeaf(m, n)
             leaf == [pubKey |-> w.stateLeaves[i].pubKey, inTime |-> w.stateLeaves[i].inTime,
                      voiceCreditBalance |->
                        w.stateLeaves[i].voiceCreditBalance + TopupAmount(m, n)]
             x == CountedTopup(w, m, n)
  <2>1. i \in 1..n
    BY <1>4, TopupCounted
  <2>2. /\ x.stateLeaves = [w.stateLeaves EXCEPT ![i] = leaf]
        /\ x.ballots = w.ballots /\ x.ballotTree = w.ballotTree
    BY DEF CountedTopup
  <2>3. leaf.inTime = w.stateLeaves[i].inTime /\ leaf.pubKey = w.stateLeaves[i].pubKey
    OBVIOUS
  <2>4. processOne(w, m, qv) = x
    BY <1>4, TopupCounted
  <2> HIDE DEF x, leaf, i
  <2>5. \A j \in 1..n : /\ x.stateLeaves[j].inTime = w.stateLeaves[j].inTime
                        /\ x.stateLeaves[j].pubKey = w.stateLeaves[j].pubKey
    BY <1>1, <2>1, <2>2, <2>3
  <2>6. x.stateLeaves[1].pubKey = w.stateLeaves[1].pubKey
    BY <2>5
  <2> QED
    BY <2>2, <2>4, <2>5, <2>6 DEF Coherent
<1> QED
  BY <1>2, <1>3, <1>4

LEMMA AllCoherent ==
  ASSUME NEW e \in Elections, NEW n \in Nat \ {0}, NEW w \in Works(e, n), NEW qv,
         NEW ms \in Seq(Messages(e)), NEW s, Coherent(w, s, n), NEW k \in 0..Len(ms)
  PROVE  Coherent(After(w, ms, qv)[k], s, n)
<1> DEFINE L == Len(ms)
           f == After(w, ms, qv)
           S == {j \in 0..L : Coherent(f[j], s, n)}
<1>1. /\ f \in [0..L -> Works(e, n)] /\ f[0] = w
      /\ \A j \in 1..L : f[j] = processOne(f[j - 1], ms[L + 1 - j], qv)
  BY AfterDef
<1>2. L \in Nat /\ \A j \in 1..L : ms[j] \in Messages(e)
  BY ElementOfSeq
<1> HIDE DEF f, L
<1>3. 0 \in S
  BY <1>1, <1>2
<1>4. ASSUME NEW i \in 0..(L - 1), i \in S
      PROVE  i + 1 \in S
  <2>1. /\ i + 1 \in 1..L /\ (i + 1) - 1 = i /\ L + 1 - (i + 1) \in 1..L /\ i \in 0..L
    BY <1>2
  <2>2. f[i + 1] = processOne(f[i], ms[L + 1 - (i + 1)], qv) /\ f[i] \in Works(e, n)
    BY <1>1, <2>1
  <2>3. Coherent(f[i + 1], s, n)
    BY <1>2, <1>4, <2>1, <2>2, OneCoherent
  <2> QED
    BY <2>1, <2>3
<1> HIDE DEF S
<1>5. 0..L \subseteq S
  BY <1>2, <1>3, <1>4, RangeInduction
<1>6. k \in S
  BY <1>5 DEF L
<1> QED
  BY <1>6 DEF S, f

-----------------------------------------------------------------------------
(***************************************************************************)
(* The circuit follows: what a message makes of the state, the circuit     *)
(* makes of the roots, so that the roots after a batch can be proved.      *)
(***************************************************************************)
LEMMA VoteProved ==
  ASSUME NEW e \in Elections, NEW n \in Nat \ {0}, NEW w \in Works(e, n), NEW qv,
         NEW m \in Messages(e), NEW s, Coherent(w, s, n),
         \A i \in 1..n : s[i].inTime, m.msgType = 1
  PROVE  ProcessOne(Committed(w), m, n, qv) = Committed(processOne(w, m, qv))
<1> DEFINE leaves == w.stateLeaves
           ballots == w.ballots
           i == OpenedIndex(m, n) + 1
           o == m.voteOptionIndex + 1
           leaf == leaves[i]
           ballot == ballots[i]
           counted == [stateLeaves |->
                         [leaves EXCEPT
                            ![i] = [leaf EXCEPT !.pubKey = m.newPubKey,
                                                !.voiceCreditBalance =
                                                  @ + Cost(ballot.votes[o], qv)
                                                    - Cost(m.newVoteWeight, qv)]],
                       ballots |->
                         [ballots EXCEPT
                            ![i] = [nonce |-> m.nonce,
                                    votes |-> [ballot.votes EXCEPT ![o] = m.newVoteWeight]]]]
<1>1. /\ leaves \in [1..n -> UserLeaf(e)] /\ ballots \in [1..n -> Ballot]
      /\ Len(leaves) = n /\ Len(ballots) = n /\ w.ballotTree = ballots
      /\ leaves[1].pubKey = BlankKey /\ \A j \in 1..n : leaves[j].inTime
  BY Listed DEF Works, Coherent
<1>2. Committed(w) = [stateLeaves |-> leaves, ballots |-> ballots]
  BY <1>1 DEF Committed
<1>3. /\ m.stateIndex \in Nat /\ m.voteOptionIndex \in Nat /\ m.newVoteWeight \in Nat
      /\ m.nonce \in Nat /\ m.signer # BlankKey
  BY MessageFields
<1>4. ProcessOne(Committed(w), m, n, qv) =
        IF ~MessageValidator(leaf, ballot, m, n, qv) THEN Committed(w) ELSE counted
  BY <1>2 DEF ProcessOne
<1>5. CASE m.stateIndex >= 1 /\ m.stateIndex < n
  <2>1. i = m.stateIndex + 1 /\ i \in 1..n
    BY <1>3, <1>5 DEF OpenedIndex
  <2>2. /\ leaf \in UserLeaf(e) /\ ballot \in Ballot
        /\ leaf.voiceCreditBalance \in Nat /\ ballot.votes \in [Options -> Nat]
        /\ ballot.nonce \in Nat /\ leaf.inTime
    BY <1>1, <2>1 DEF UserLeaf, Ballot
  <2> HIDE DEF leaf, ballot, i, o
  <2>3. m.voteOptionIndex < maxVoteOptions => ballot.votes[o] \in Nat
    <3>1. m.voteOptionIndex < maxVoteOptions => o \in Options
      BY <1>3, CoreConstants DEF o, Options
    <3> QED
      BY <2>2, <3>1
  <2>4. ballot.votes[o] \in Nat =>
          /\ Cost(ballot.votes[o], qv) \in Nat /\ Cost(m.newVoteWeight, qv) \in Nat
          /\ voiceCreditsLeft(leaf, ballot, m, qv) =
               leaf.voiceCreditBalance + Cost(ballot.votes[o], qv) - Cost(m.newVoteWeight, qv)
    BY <1>3, CostIsNat DEF voiceCreditsLeft, o
  <2>5. /\ CommandValid(w, m, qv) <=>
             /\ m.signer = leaf.pubKey /\ m.nonce = ballot.nonce + 1
             /\ m.voteOptionIndex < maxVoteOptions
             /\ voiceCreditsLeft(leaf, ballot, m, qv) >= 0
    BY <1>1, <1>5, <2>1 DEF CommandValid, leaf, ballot
  <2>6. MessageValidator(leaf, ballot, m, n, qv) <=>
          /\ m.voteOptionIndex < maxVoteOptions /\ m.nonce = ballot.nonce + 1
          /\ m.signer = leaf.pubKey /\ leaf.inTime
          /\ Cost(ballot.votes[o], qv) + leaf.voiceCreditBalance >= Cost(m.newVoteWeight, qv)
    BY <1>5 DEF MessageValidator, o
  <2>7. MessageValidator(leaf, ballot, m, n, qv) <=> CommandValid(w, m, qv)
    BY <2>2, <2>3, <2>4, <2>5, <2>6
  <2>8. CASE ~CommandValid(w, m, qv)
    BY <1>4, <2>7, <2>8, OneMessage DEF leaf, ballot, i, o
  <2>9. CASE CommandValid(w, m, qv)
    <3> DEFINE left == voiceCreditsLeft(leaf, ballot, m, qv)
               new == [pubKey |-> m.newPubKey, voiceCreditBalance |-> left,
                       inTime |-> leaf.inTime]
    <3>1. left = leaf.voiceCreditBalance + Cost(ballot.votes[o], qv) - Cost(m.newVoteWeight, qv)
      BY <2>3, <2>4, <2>5, <2>9
    <3>2. Committed(processOne(w, m, qv)) =
            [stateLeaves |-> [leaves EXCEPT ![i] = new],
             ballots |-> [ballots EXCEPT ![i] = NewBallot(ballot, m)]]
      <4>1. processOne(w, m, qv) = CountedVote(w, m, qv)
        BY <2>9, VoteCounted
      <4>2. /\ CountedVote(w, m, qv).stateLeaves = [leaves EXCEPT ![i] = new]
            /\ CountedVote(w, m, qv).ballotTree = [w.ballotTree EXCEPT ![i] = NewBallot(ballot, m)]
        BY <2>1 DEF CountedVote, leaf, ballot
      <4> QED
        BY <1>1, <4>1, <4>2 DEF Committed
    <3>3. NewBallot(ballot, m) =
            [nonce |-> m.nonce, votes |-> [ballot.votes EXCEPT ![o] = m.newVoteWeight]]
      BY <2>5, <2>9 DEF NewBallot, o
    <3> DEFINE changed == [leaf EXCEPT !.pubKey = m.newPubKey,
                                       !.voiceCreditBalance = @ + Cost(ballot.votes[o], qv)
                                                                - Cost(m.newVoteWeight, qv)]
    <3> HIDE DEF left
    <3>4. changed = new
      <4>1. /\ DOMAIN changed = DOMAIN new
            /\ changed.pubKey = m.newPubKey /\ changed.voiceCreditBalance = left
            /\ changed.inTime = leaf.inTime
        BY <2>2, <3>1 DEF UserLeaf
      <4>2. /\ DOMAIN new = {"pubKey", "voiceCreditBalance", "inTime"}
            /\ new.pubKey = m.newPubKey /\ new.voiceCreditBalance = left
            /\ new.inTime = leaf.inTime
            /\ new = [field \in DOMAIN new |-> new[field]]
            /\ changed = [field \in DOMAIN changed |-> changed[field]]
        OBVIOUS
      <4> HIDE DEF changed, new
      <4> QED
        BY <4>1, <4>2
    <3>6. ProcessOne(Committed(w), m, n, qv) = counted
      BY <1>4, <2>7, <2>9
    <3>7. counted = [stateLeaves |-> [leaves EXCEPT ![i] = changed],
                     ballots |-> [ballots EXCEPT ![i] = NewBallot(ballot, m)]]
      BY <3>3 DEF leaf, ballot, i, o
    <3> HIDE DEF new, counted, changed
    <3> QED
      BY <3>2, <3>4, <3>6, <3>7
  <2> QED
    BY <2>8, <2>9
<1>6. CASE ~ (m.stateIndex >= 1 /\ m.stateIndex < n)
  <2>1. ~CommandValid(w, m, qv)
    BY <1>1, <1>3, <1>6 DEF CommandValid
  <2>2. i = 1
    BY <1>3, <1>6 DEF OpenedIndex
  <2>3. ~MessageValidator(leaf, ballot, m, n, qv)
    BY <1>1, <1>3, <2>2 DEF MessageValidator
  <2> HIDE DEF leaf, ballot, i, o, counted
  <2> QED
    BY <1>4, <2>1, <2>3, OneMessage
<1> QED
  BY <1>5, <1>6

\* A topup of the index n is the one the circuit puts where nobody signed up.
LEMMA TopupProved ==
  ASSUME NEW e \in Elections, NEW n \in Nat \ {0}, NEW w \in Works(e, n), NEW qv,
         NEW m \in Messages(e), NEW s, Coherent(w, s, n),
         m.msgType # 1, m.stateIndex # n
  PROVE  ProcessTopup(Committed(w), m, n) = Committed(processOne(w, m, qv))
<1> DEFINE leaves == w.stateLeaves
           i == OpenedIndex(m, n) + 1
           leaf == leaves[i]
           amount == TopupAmount(m, n)
           changed == [leaf EXCEPT !.voiceCreditBalance = @ + amount]
           new == [pubKey |-> leaf.pubKey, inTime |-> leaf.inTime,
                   voiceCreditBalance |-> leaf.voiceCreditBalance + amount]
<1>1. leaves \in [1..n -> UserLeaf(e)] /\ w.ballotTree = w.ballots
  BY DEF Works, Coherent
<1>2. m.stateIndex \in Nat /\ m.msgType = 2 /\ m.amount \in Nat
  BY MessageFields
<1>3. i = TopupLeaf(m, n) /\ i \in 1..n /\ amount \in Nat
  BY <1>2 DEF OpenedIndex, TopupLeaf, TopupAmount
<1>4. leaf \in UserLeaf(e)
  BY <1>1, <1>3
<1>5. ProcessTopup(Committed(w), m, n) =
        [Committed(w) EXCEPT !.stateLeaves = [leaves EXCEPT ![i] = changed]]
  <2>1. (m.stateIndex <= n) <=> (m.stateIndex < n)
    BY <1>2
  <2>2. CASE m.stateIndex < n
    BY <2>1, <2>2 DEF ProcessTopup, OpenedIndex, TopupAmount, Committed
  <2>3. CASE ~ (m.stateIndex < n)
    BY <2>1, <2>3 DEF ProcessTopup, OpenedIndex, TopupAmount, Committed
  <2> QED
    BY <2>2, <2>3
<1>6. Committed(processOne(w, m, qv)) =
        [stateLeaves |-> [leaves EXCEPT ![i] = new], ballots |-> w.ballotTree]
  <2>1. processOne(w, m, qv) = CountedTopup(w, m, n)
    BY TopupCounted
  <2>2. /\ CountedTopup(w, m, n).stateLeaves = [leaves EXCEPT ![i] = new]
        /\ CountedTopup(w, m, n).ballotTree = w.ballotTree
    BY <1>3 DEF CountedTopup
  <2> QED
    BY <2>1, <2>2 DEF Committed
<1>7. changed = new
  <2> HIDE DEF leaf, amount
  <2>1. /\ DOMAIN changed = DOMAIN new
        /\ changed.pubKey = leaf.pubKey /\ changed.inTime = leaf.inTime
        /\ changed.voiceCreditBalance = leaf.voiceCreditBalance + amount
    BY <1>4 DEF UserLeaf
  <2>2. /\ DOMAIN new = {"pubKey", "voiceCreditBalance", "inTime"}
        /\ new.pubKey = leaf.pubKey /\ new.inTime = leaf.inTime
        /\ new.voiceCreditBalance = leaf.voiceCreditBalance + amount
        /\ new = [field \in DOMAIN new |-> new[field]]
        /\ changed = [field \in DOMAIN changed |-> changed[field]]
    OBVIOUS
  <2> HIDE DEF changed, new
  <2> QED
    BY <2>1, <2>2
<1>8. [Committed(w) EXCEPT !.stateLeaves = [leaves EXCEPT ![i] = changed]] =
        [stateLeaves |-> [leaves EXCEPT ![i] = changed], ballots |-> w.ballotTree]
  BY DEF Committed
<1> HIDE DEF changed, new
<1> QED
  BY <1>5, <1>6, <1>7, <1>8

LEMMA OneProved ==
  ASSUME NEW e \in Elections, NEW n \in Nat \ {0}, NEW w \in Works(e, n), NEW qv,
         NEW m \in Messages(e), NEW s, Coherent(w, s, n),
         \A i \in 1..n : s[i].inTime, ~ (m.msgType = 2 /\ m.stateIndex = n)
  PROVE  Opened(Committed(w), m, n, qv) = Committed(processOne(w, m, qv))
<1>1. Committed(w).stateLeaves # Garbage
  BY DEF Committed, Works, Garbage
<1>2. m.msgType # 1 => m.msgType = 2
  BY MessageFields
<1> QED
  BY <1>1, <1>2, VoteProved, TopupProved DEF Opened

LEMMA ManyProved ==
  ASSUME NEW e \in Elections, NEW n \in Nat \ {0}, NEW w \in Works(e, n), NEW qv,
         NEW ms \in Seq(Messages(e)), NEW s, Coherent(w, s, n),
         \A i \in 1..n : s[i].inTime,
         \A j \in DOMAIN ms : ~ (ms[j].msgType = 2 /\ ms[j].stateIndex = n)
  PROVE  Proved(Committed(w), ms, n, qv) = Committed(Applied(w, ms, qv))
<1> DEFINE L == Len(ms)
           f == After(w, ms, qv)
           st == Committed(w)
           h == [k \in 0..L |-> Committed(f[k])]
           g == CHOOSE x : x = [k \in 0..L |->
                  IF k = 0 THEN st ELSE Opened(x[k - 1], ms[L + 1 - k], n, qv)]
           S == {k \in 0..L : g[k] = h[k]}
<1>1. /\ f \in [0..L -> Works(e, n)] /\ f[0] = w
      /\ \A k \in 1..L : f[k] = processOne(f[k - 1], ms[L + 1 - k], qv)
      /\ Applied(w, ms, qv) = f[L]
  BY AfterDef
<1>2. /\ L \in Nat
      /\ \A j \in 1..L : ms[j] \in Messages(e) /\ ~ (ms[j].msgType = 2 /\ ms[j].stateIndex = n)
  BY ElementOfSeq
<1>3. \A k \in 0..L : Coherent(f[k], s, n)
  BY AllCoherent
<1>4. Proved(Committed(w), ms, n, qv) = g[L]
  BY DEF Proved
<1> HIDE DEF f, L, st
<1>5. ASSUME NEW k \in 1..L
      PROVE  h[k] = Opened(h[k - 1], ms[L + 1 - k], n, qv)
  <2>1. k - 1 \in 0..L /\ L + 1 - k \in 1..L /\ k \in 0..L
    BY <1>2
  <2>2. f[k - 1] \in Works(e, n) /\ Coherent(f[k - 1], s, n)
    BY <1>1, <1>3, <2>1
  <2>3. Opened(Committed(f[k - 1]), ms[L + 1 - k], n, qv)
          = Committed(processOne(f[k - 1], ms[L + 1 - k], qv))
    BY <1>2, <2>1, <2>2, OneProved
  <2> QED
    BY <1>1, <2>1, <2>3
<1>6. h[0] = st
  BY <1>1, <1>2 DEF st
<1>7. h = [k \in 0..L |-> IF k = 0 THEN st ELSE Opened(h[k - 1], ms[L + 1 - k], n, qv)]
  <2>1. \A k \in 0..L :
          h[k] = IF k = 0 THEN st ELSE Opened(h[k - 1], ms[L + 1 - k], n, qv)
    <3> SUFFICES ASSUME NEW k \in 0..L
                 PROVE  h[k] = IF k = 0 THEN st ELSE Opened(h[k - 1], ms[L + 1 - k], n, qv)
      OBVIOUS
    <3> HIDE DEF h
    <3>1. k # 0 => k \in 1..L
      BY <1>2
    <3> QED
      BY <1>5, <1>6, <3>1
  <2>2. h = [k \in 0..L |-> h[k]]
    OBVIOUS
  <2> HIDE DEF h
  <2> QED
    BY <2>1, <2>2
<1>8. g = [k \in 0..L |-> IF k = 0 THEN st ELSE Opened(g[k - 1], ms[L + 1 - k], n, qv)]
  <2> HIDE DEF h
  <2> QED
    BY <1>7
<1>9. h[L] = Committed(f[L])
  BY <1>2
<1> HIDE DEF g, h
<1>10. g[0] = st /\ \A k \in 1..L : g[k] = Opened(g[k - 1], ms[L + 1 - k], n, qv)
  <2>1. \A k \in 0..L : g[k] = IF k = 0 THEN st ELSE Opened(g[k - 1], ms[L + 1 - k], n, qv)
    BY <1>8
  <2>2. 0 \in 0..L /\ \A k \in 1..L : k \in 0..L /\ k # 0
    BY <1>2
  <2> QED
    BY <2>1, <2>2
<1>11. 0 \in S
  BY <1>2, <1>6, <1>10
<1>12. ASSUME NEW i \in 0..(L - 1), i \in S
       PROVE  i + 1 \in S
  <2>1. i + 1 \in 1..L /\ (i + 1) - 1 = i /\ i + 1 \in 0..L
    BY <1>2
  <2>2. g[i + 1] = Opened(g[i], ms[L + 1 - (i + 1)], n, qv)
    BY <1>10, <2>1
  <2>3. h[i + 1] = Opened(h[i], ms[L + 1 - (i + 1)], n, qv)
    BY <1>5, <2>1
  <2> QED
    BY <1>12, <2>1, <2>2, <2>3
<1> HIDE DEF S
<1>13. 0..L \subseteq S
  BY <1>2, <1>11, <1>12, RangeInduction
<1>14. g[L] = h[L]
  BY <1>2, <1>13 DEF S
<1> QED
  BY <1>1, <1>4, <1>9, <1>14

-----------------------------------------------------------------------------
(***************************************************************************)
(* The voice credits: a vote pays for itself, a topup is what it says.     *)
(***************************************************************************)
Worth(w, i, qv) == w.stateLeaves[i].voiceCreditBalance + BallotCost(w.ballots[i], qv)

LEMMA BallotCostIsInt ==
  ASSUME NEW ballot \in Ballot, NEW qv
  PROVE  /\ [o \in Options |-> Cost(ballot.votes[o], qv)] \in [1..maxVoteOptions -> Int]
         /\ BallotCost(ballot, qv) \in Int
<1>1. \A o \in Options : Cost(ballot.votes[o], qv) \in Nat
  BY CostIsNat DEF Ballot
<1>2. [o \in Options |-> Cost(ballot.votes[o], qv)] \in [1..maxVoteOptions -> Int]
  BY <1>1 DEF Options
<1>3. maxVoteOptions \in Nat
  BY CoreConstants
<1>4. Total([o \in Options |-> Cost(ballot.votes[o], qv)]) \in Int
  <2> DEFINE costs == [o \in Options |-> Cost(ballot.votes[o], qv)]
  <2>1. costs \in [1..maxVoteOptions -> Int]
    BY <1>2
  <2> HIDE DEF costs
  <2>2. Sums(costs) \in [0..maxVoteOptions -> Int] /\ Total(costs) = Sums(costs)[maxVoteOptions]
    BY <1>3, <2>1, SumsDef
  <2>3. Total(costs) \in Int
    BY <1>3, <2>2
  <2> QED
    BY <2>3 DEF costs
<1> QED
  BY <1>2, <1>4 DEF BallotCost

LEMMA BlankCost ==
  ASSUME NEW qv
  PROVE  BlankBallot \in Ballot /\ BallotCost(BlankBallot, qv) = 0
<1> DEFINE costs == [o \in Options |-> Cost(BlankBallot.votes[o], qv)]
<1>1. BlankBallot \in Ballot
  BY DEF BlankBallot, Ballot
<1>2. \A o \in Options : costs[o] = 0
  BY DEF BlankBallot, Cost
<1>3. costs \in [1..maxVoteOptions -> Int] /\ maxVoteOptions \in Nat
  BY <1>1, BallotCostIsInt, CoreConstants
<1>4. BallotCost(BlankBallot, qv) = Total(costs)
  BY DEF BallotCost
<1> HIDE DEF costs
<1> QED
  BY <1>1, <1>2, <1>3, <1>4, ZeroTotal DEF Options

LEMMA VoteCost ==
  ASSUME NEW ballot \in Ballot, NEW m, m.voteOptionIndex + 1 \in Options,
         m.newVoteWeight \in Nat, NEW qv, NewBallot(ballot, m) \in Ballot
  PROVE  BallotCost(NewBallot(ballot, m), qv) =
           BallotCost(ballot, qv) + (Cost(m.newVoteWeight, qv)
                                       - Cost(ballot.votes[m.voteOptionIndex + 1], qv))
<1> DEFINE o == m.voteOptionIndex + 1
           new == NewBallot(ballot, m)
           f == [j \in Options |-> Cost(ballot.votes[j], qv)]
           g == [j \in Options |-> Cost(new.votes[j], qv)]
<1>1. ballot.votes \in [Options -> Nat]
  BY DEF Ballot
<1>2. new.votes = [ballot.votes EXCEPT ![o] = m.newVoteWeight]
  BY DEF NewBallot
<1> HIDE DEF o, new
<1>3. f \in [1..maxVoteOptions -> Int] /\ g \in [1..maxVoteOptions -> Int]
  BY BallotCostIsInt DEF new
<1>4. /\ g[o] = Cost(m.newVoteWeight, qv) /\ f[o] = Cost(ballot.votes[o], qv)
      /\ \A j \in Options : j # o => g[j] = f[j]
  BY <1>1, <1>2 DEF o
<1>5. BallotCost(new, qv) = Total(g) /\ BallotCost(ballot, qv) = Total(f)
  BY DEF BallotCost
<1> HIDE DEF f, g
<1>6. o \in 1..maxVoteOptions /\ maxVoteOptions \in Nat
  BY CoreConstants DEF Options, o
<1>7. Total(g) = Total(f) + (g[o] - f[o])
  BY <1>3, <1>4, <1>6, SumChanged DEF Options
<1> QED
  BY <1>4, <1>5, <1>7 DEF o, new

LEMMA OneConserved ==
  ASSUME NEW e \in Elections, NEW n \in Nat \ {0}, NEW w \in Works(e, n), NEW qv,
         NEW m \in Messages(e), NEW i \in 1..n
  PROVE  /\ Worth(processOne(w, m, qv), i, qv) = Worth(w, i, qv) + ToppedUp(m, i)
         /\ Worth(w, i, qv) \in Int /\ ToppedUp(m, i) \in Nat
<1>1. /\ w.stateLeaves \in [1..n -> UserLeaf(e)] /\ w.ballots \in [1..n -> Ballot]
      /\ w.stateLeaves[i].voiceCreditBalance \in Nat /\ w.ballots[i] \in Ballot
  BY DEF Works, UserLeaf
<1>2. BallotCost(w.ballots[i], qv) \in Int
  BY <1>1, BallotCostIsInt
<1>3. Worth(w, i, qv) \in Int
  BY <1>1, <1>2 DEF Worth
<1>4. /\ m.stateIndex \in Nat /\ (m.msgType # 1 => m.msgType = 2 /\ m.amount \in Nat)
  BY MessageFields
<1>5. ToppedUp(m, i) \in Nat
  BY <1>4 DEF ToppedUp
<1>6. CASE m.msgType = 1 /\ ~CommandValid(w, m, qv)
  BY <1>3, <1>6, OneMessage DEF ToppedUp
<1>7. CASE m.msgType = 1 /\ CommandValid(w, m, qv)
  <2> DEFINE j == m.stateIndex + 1
             leaf == w.stateLeaves[j]
             ballot == w.ballots[j]
             left == voiceCreditsLeft(leaf, ballot, m, qv)
             before == ballot.votes[m.voteOptionIndex + 1]
             x == CountedVote(w, m, qv)
  <2>1. /\ j \in 2..n /\ m.voteOptionIndex + 1 \in Options /\ leaf \in UserLeaf(e)
        /\ ballot \in Ballot /\ left \in Nat /\ NewBallot(ballot, m) \in Ballot
    BY <1>7, VoteFields
  <2>2. m.newVoteWeight \in Nat
    BY <1>7, MessageFields
  <2>3. processOne(w, m, qv) = x
    BY <1>7, VoteCounted
  <2>4. /\ x.stateLeaves = [w.stateLeaves EXCEPT ![j] =
              [pubKey |-> m.newPubKey, voiceCreditBalance |-> left, inTime |-> leaf.inTime]]
        /\ x.ballots = [w.ballots EXCEPT ![j] = NewBallot(ballot, m)]
    BY DEF CountedVote
  <2>5. ToppedUp(m, i) = 0
    BY <1>7 DEF ToppedUp
  <2>6. CASE i # j
    <3> HIDE DEF x, j, leaf, ballot, left
    <3>1. x.stateLeaves[i] = w.stateLeaves[i] /\ x.ballots[i] = w.ballots[i]
      BY <1>1, <2>1, <2>4, <2>6
    <3> QED
      BY <1>3, <2>3, <2>5, <3>1 DEF Worth
  <2>7. CASE i = j
    <3>1. left = leaf.voiceCreditBalance + Cost(before, qv) - Cost(m.newVoteWeight, qv)
      BY DEF voiceCreditsLeft
    <3>2. BallotCost(NewBallot(ballot, m), qv) =
            BallotCost(ballot, qv) + (Cost(m.newVoteWeight, qv) - Cost(before, qv))
      BY <2>1, <2>2, VoteCost
    <3>3. before \in Nat
      BY <2>1 DEF Ballot
    <3> HIDE DEF x, j, left, before
    <3>4. x.stateLeaves[j].voiceCreditBalance = left /\ x.ballots[j] = NewBallot(ballot, m)
      BY <1>1, <2>1, <2>4
    <3>5. /\ Worth(x, j, qv) = left + BallotCost(NewBallot(ballot, m), qv)
          /\ Worth(w, j, qv) = leaf.voiceCreditBalance + BallotCost(ballot, qv)
      BY <3>4 DEF Worth
    <3>6. Cost(before, qv) \in Nat /\ Cost(m.newVoteWeight, qv) \in Nat
          /\ leaf.voiceCreditBalance \in Nat /\ BallotCost(ballot, qv) \in Int
      BY <2>1, <2>2, <3>3, CostIsNat, BallotCostIsInt DEF UserLeaf
    <3> HIDE DEF leaf, ballot
    <3>7. Worth(x, j, qv) = Worth(w, j, qv)
      BY <3>1, <3>2, <3>5, <3>6
    <3>8. processOne(w, m, qv) = x /\ i = j
      BY <2>3, <2>7
    <3> QED
      BY <1>3, <2>5, <3>7, <3>8
  <2> QED
    BY <2>6, <2>7
<1>8. CASE m.msgType # 1
  <2> DEFINE j == TopupLeaf(m, n)
             amount == TopupAmount(m, n)
             leaf == w.stateLeaves[j]
             x == CountedTopup(w, m, n)
  <2>1. j \in 1..n /\ amount \in Nat /\ processOne(w, m, qv) = x
    BY <1>8, TopupCounted
  <2>2. /\ x.stateLeaves = [w.stateLeaves EXCEPT ![j] =
              [pubKey |-> leaf.pubKey, inTime |-> leaf.inTime,
               voiceCreditBalance |-> leaf.voiceCreditBalance + amount]]
        /\ x.ballots = w.ballots
    BY DEF CountedTopup
  <2>3. ToppedUp(m, i) = IF i = j THEN amount ELSE 0
    BY <1>4, <1>8 DEF ToppedUp, TopupLeaf, TopupAmount
  <2> HIDE DEF x, j, amount
  <2>4. x.stateLeaves[i].voiceCreditBalance =
          w.stateLeaves[i].voiceCreditBalance + ToppedUp(m, i)
    <3>1. CASE i = j
      BY <1>1, <2>1, <2>2, <2>3, <3>1
    <3>2. CASE i # j
      BY <1>1, <2>1, <2>2, <2>3, <3>2
    <3> QED
      BY <3>1, <3>2
  <2> QED
    BY <1>1, <1>2, <1>5, <2>1, <2>2, <2>4 DEF Worth
<1> QED
  BY <1>3, <1>5, <1>6, <1>7, <1>8

LEMMA ManyConserved ==
  ASSUME NEW e \in Elections, NEW n \in Nat \ {0}, NEW w \in Works(e, n), NEW qv,
         NEW ms \in Seq(Messages(e)), NEW i \in 1..n
  PROVE  Worth(Applied(w, ms, qv), i, qv)
           = Worth(w, i, qv) + Total([j \in DOMAIN ms |-> ToppedUp(ms[j], i)])
<1> DEFINE L == Len(ms)
           f == After(w, ms, qv)
           t == [j \in DOMAIN ms |-> ToppedUp(ms[j], i)]
           T == Sums(t)
           v == Worth(w, i, qv)
           S == {k \in 0..L : Worth(f[k], i, qv) = v + (Total(t) - T[L - k])}
<1>1. /\ f \in [0..L -> Works(e, n)] /\ f[0] = w
      /\ \A k \in 1..L : f[k] = processOne(f[k - 1], ms[L + 1 - k], qv)
      /\ Applied(w, ms, qv) = f[L]
  BY AfterDef
<1>2. L \in Nat /\ \A j \in 1..L : ms[j] \in Messages(e)
  BY ElementOfSeq
<1>3. DOMAIN ms = 1..L
  OBVIOUS
<1>4. t \in [1..L -> Int] /\ \A j \in 1..L : t[j] = ToppedUp(ms[j], i)
  <2>1. \A j \in 1..L : ToppedUp(ms[j], i) \in Nat
    BY <1>2, OneConserved
  <2> QED
    BY <1>3, <2>1
<1>5. v \in Int
  BY OneConserved DEF Messages
<1> HIDE DEF f, L, t, v
<1>6. /\ T \in [0..L -> Int] /\ T[0] = 0
      /\ \A k \in 1..L : T[k] = T[k - 1] + t[k]
      /\ Total(t) = T[L]
  BY <1>2, <1>4, SumsDef
<1> HIDE DEF T
<1>7. 0 \in S
  <2>1. Total(t) - T[L - 0] = 0
    BY <1>2, <1>6
  <2> QED
    BY <1>1, <1>2, <1>5, <2>1 DEF v
<1>8. ASSUME NEW k \in 0..(L - 1), k \in S
      PROVE  k + 1 \in S
  <2>1. /\ k + 1 \in 1..L /\ (k + 1) - 1 = k /\ L + 1 - (k + 1) = L - k
        /\ L - k \in 1..L /\ (L - k) - 1 = L - (k + 1) /\ L - (k + 1) \in 0..L
        /\ k \in 0..L /\ k + 1 \in 0..L
    BY <1>2
  <2>2. f[k + 1] = processOne(f[k], ms[L - k], qv) /\ f[k] \in Works(e, n)
    BY <1>1, <2>1
  <2>3. Worth(f[k + 1], i, qv) = Worth(f[k], i, qv) + t[L - k]
    BY <1>2, <1>4, <2>1, <2>2, OneConserved
  <2>4. T[L - k] = T[L - (k + 1)] + t[L - k]
    BY <1>6, <2>1
  <2>5. t[L - k] \in Int /\ T[L - (k + 1)] \in Int /\ Total(t) \in Int
    BY <1>2, <1>4, <1>6, <2>1
  <2>6. Worth(f[k], i, qv) = v + (Total(t) - T[L - k])
    BY <1>8
  <2>7. Worth(f[k + 1], i, qv) = v + (Total(t) - T[L - (k + 1)])
    <3> DEFINE x == t[L - k]
               y == T[L - (k + 1)]
               z == T[L - k]
    <3>1. Worth(f[k + 1], i, qv) = (v + (Total(t) - z)) + x
      BY <2>3, <2>6
    <3>2. z = y + x /\ x \in Int /\ y \in Int
      BY <2>4, <2>5
    <3> HIDE DEF x, y, z
    <3>3. Worth(f[k + 1], i, qv) = v + (Total(t) - y)
      BY <1>5, <2>5, <3>1, <3>2
    <3> QED
      BY <3>3 DEF y
  <2> QED
    BY <2>1, <2>7
<1> HIDE DEF S
<1>9. 0..L \subseteq S
  BY <1>2, <1>7, <1>8, RangeInduction
<1>10. L \in S /\ T[L - L] = 0 /\ Total(t) \in Int
  BY <1>2, <1>6, <1>9
<1> QED
  BY <1>1, <1>5, <1>10 DEF S, t, v

-----------------------------------------------------------------------------
(***************************************************************************)
(* A poll q between two batches: its state is what the messages processed  *)
(* so far have made of the copy of the users s.                            *)
(***************************************************************************)
WorkFields ==
  {"messages", "stateLeaves", "ballots", "ballotTree", "stateCopied", "numSignups",
   "numBatchesProcessed", "currentMessageBatchIndex", "salted"}

Copied(s, n) == SubSeq(s, 1, n)
Blank(n) == [i \in 1..n |-> BlankBallot]
Start(s, n) == [stateLeaves |-> Copied(s, n), ballots |-> Blank(n), ballotTree |-> Blank(n)]

\* There is a ballot before there is any leaf.
Size(n) == IF n = 0 THEN 1 ELSE n

Left(q) == totalBatches(q) - q.numBatchesProcessed

SignedUp(s, e) == s \in Seq(UserLeaf(e)) /\ Len(s) > 0 /\ s[1] = BlankLeaf

WorkTyped(q, e, s) ==
  /\ WorkFields \subseteq DOMAIN q
  /\ q.numSignups \in 0..Len(s)
  /\ q.stateLeaves \in [1..q.numSignups -> UserLeaf(e)]
  /\ q.ballots \in [1..Size(q.numSignups) -> Ballot]
  /\ q.stateCopied => q.ballotTree \in [1..Size(q.numSignups) -> Ballot]
  /\ q.messages \in Seq(Messages(e)) /\ Len(q.messages) > 0
  /\ q.numBatchesProcessed \in 0..totalBatches(q)

BeforeBatches(q, s) ==
  /\ ~q.stateCopied => q.numSignups = 0
  /\ q.numSignups = 0 => q.numBatchesProcessed = 0
  /\ q.numBatchesProcessed = 0 =>
       /\ q.ballots = Blank(Size(q.numSignups))
       /\ q.stateCopied => q.stateLeaves = Copied(s, q.numSignups) /\ q.ballotTree = q.ballots

BetweenBatches(q, e, s) ==
  Started(q) =>
    /\ Work(q) = After(Start(s, q.numSignups), q.messages, e.qv)
                      [Len(q.messages) - Left(q) * messageBatchSize]
    /\ Left(q) > 0 => q.currentMessageBatchIndex = (Left(q) - 1) * messageBatchSize

WorkInv(q, e, s) == WorkTyped(q, e, s) /\ BeforeBatches(q, s) /\ BetweenBatches(q, e, s)

LEMMA BatchBounds ==
  ASSUME NEW q, NEW n \in Nat \ {0}, Len(q.messages) = n
  PROVE  /\ totalBatches(q) \in Nat \ {0}
         /\ FirstIndex(q) = (totalBatches(q) - 1) * messageBatchSize
         /\ FirstIndex(q) < n /\ n <= totalBatches(q) * messageBatchSize
<1> DEFINE B == messageBatchSize
           c == n \div B
           r == n % B
           T == totalBatches(q)
<1>1. B \in Nat \ {0}
  BY CoreConstants
<1>2. FirstIndex(q) = IF r = 0 THEN n - B ELSE n - r
  BY DEF FirstIndex
<1>3. T = IF n <= B THEN 1 ELSE c + (IF r > 0 THEN 1 ELSE 0)
  BY DEF totalBatches
<1> HIDE DEF B, T
<1>4. c \in Nat /\ r \in 0..(B - 1) /\ n = c * B + r
  BY <1>1
<1> HIDE DEF c, r
<1>5. c * B \in Nat /\ (c + 1) * B = c * B + B /\ (c - 1) * B = c * B - B
      /\ 0 * B = 0 /\ 1 * B = B
  BY <1>1, <1>4
<1>6. CASE n < B
  <2>1. r = n
    BY <1>1, <1>6 DEF r
  <2> QED
    BY <1>1, <1>2, <1>3, <1>5, <1>6, <2>1 DEF B, T
<1>7. CASE n = B
  <2>1. r = 0
    BY <1>1, <1>7 DEF r
  <2> QED
    BY <1>1, <1>2, <1>3, <1>5, <1>7, <2>1 DEF B, T
<1>8. CASE n > B /\ r = 0
  <2>1. T = c /\ FirstIndex(q) = n - B /\ n = c * B
    BY <1>1, <1>2, <1>3, <1>4, <1>8
  <2>2. c # 0
    BY <1>5, <2>1
  <2> QED
    BY <1>1, <1>4, <1>5, <1>8, <2>1, <2>2 DEF B, T
<1>9. CASE n > B /\ r > 0
  <2>1. T = c + 1 /\ FirstIndex(q) = n - r /\ T - 1 = c
    BY <1>1, <1>2, <1>3, <1>4, <1>9
  <2> QED
    BY <1>1, <1>4, <1>5, <1>9, <2>1 DEF B, T
<1> QED
  BY <1>1, <1>4, <1>6, <1>7, <1>8, <1>9

LEMMA CopiedProperties ==
  ASSUME NEW e, NEW s, SignedUp(s, e), NEW n \in 0..Len(s)
  PROVE  /\ Copied(s, n) \in [1..n -> UserLeaf(e)]
         /\ \A i \in 1..n : Copied(s, n)[i] = s[i]
<1>1. Len(s) \in Nat /\ \A i \in 1..Len(s) : s[i] \in UserLeaf(e)
  BY ElementOfSeq DEF SignedUp
<1>2. n \in Int /\ n - 1 + 1 = n /\ \A i \in 1..n : s[i] \in UserLeaf(e) /\ 1 + i - 1 = i
  BY <1>1
<1>3. /\ Copied(s, n) \in Seq(UserLeaf(e))
      /\ Len(Copied(s, n)) = IF 1 <= n THEN n - 1 + 1 ELSE 0
      /\ \A i \in 1..(n - 1 + 1) : Copied(s, n)[i] = s[1 + i - 1]
  BY <1>2, SubSeqProperties DEF Copied
<1>4. Len(Copied(s, n)) = n
  BY <1>1, <1>3
<1>5. \A i \in 1..n : Copied(s, n)[i] = s[i]
  BY <1>2, <1>3
<1> QED
  BY <1>3, <1>4, <1>5, LenProperties

LEMMA BlankTyped ==
  ASSUME NEW n \in Nat
  PROVE  Blank(n) \in [1..n -> Ballot] /\ Len(Blank(n)) = n
<1>1. Blank(n) \in [1..n -> Ballot]
  BY BlankCost DEF Blank
<1> QED
  BY <1>1, Listed

LEMMA StartTyped ==
  ASSUME NEW e \in Elections, NEW s, SignedUp(s, e), NEW n \in 0..Len(s), n # 0
  PROVE  /\ n \in Nat \ {0}
         /\ Start(s, n) \in Works(e, n) /\ Coherent(Start(s, n), s, n)
         /\ \A qv : \A i \in 1..n : Worth(Start(s, n), i, qv) = s[i].voiceCreditBalance
<1>1. Len(s) \in Nat /\ s[1].pubKey = BlankKey /\ n \in Nat \ {0}
  BY LenProperties DEF SignedUp, BlankLeaf
<1>2. /\ Copied(s, n) \in [1..n -> UserLeaf(e)] /\ \A i \in 1..n : Copied(s, n)[i] = s[i]
      /\ Blank(n) \in [1..n -> Ballot]
  BY <1>1, CopiedProperties, BlankTyped
<1>3. Start(s, n) \in Works(e, n)
  BY <1>2 DEF Start, Works
<1>4. Coherent(Start(s, n), s, n)
  <2>1. 1 \in 1..n
    BY <1>1
  <2> QED
    BY <1>1, <1>2, <2>1 DEF Start, Coherent
<1>5. ASSUME NEW qv, NEW i \in 1..n
      PROVE  Worth(Start(s, n), i, qv) = s[i].voiceCreditBalance
  <2>1. BallotCost(Start(s, n).ballots[i], qv) = 0
    BY BlankCost DEF Start, Blank
  <2>2. Start(s, n).stateLeaves[i] = s[i] /\ s[i].voiceCreditBalance \in Nat
    BY <1>2 DEF Start, UserLeaf
  <2> QED
    BY <2>1, <2>2 DEF Worth
<1> QED
  BY <1>1, <1>3, <1>4, <1>5

\* Neither the lock nor the tally touch these fields.
LEMMA SameWork ==
  ASSUME NEW e, NEW s, NEW q, WorkInv(q, e, s), NEW r, WorkFields \subseteq DOMAIN r,
         \A f \in WorkFields : r[f] = q[f]
  PROVE  WorkInv(r, e, s)
<1>1. /\ r.messages = q.messages /\ r.stateLeaves = q.stateLeaves /\ r.ballots = q.ballots
      /\ r.ballotTree = q.ballotTree /\ r.stateCopied = q.stateCopied
      /\ r.numSignups = q.numSignups /\ r.numBatchesProcessed = q.numBatchesProcessed
      /\ r.currentMessageBatchIndex = q.currentMessageBatchIndex /\ r.salted = q.salted
  BY DEF WorkFields
<1>2. totalBatches(r) = totalBatches(q)
  BY <1>1 DEF totalBatches
<1>3. (Started(r) <=> Started(q)) /\ Work(r) = Work(q) /\ Left(r) = Left(q)
  BY <1>1, <1>2 DEF Started, HasSalt, Work, Left
<1>4. WorkTyped(r, e, s)
  BY <1>1, <1>2 DEF WorkInv, WorkTyped
<1>5. BeforeBatches(r, s)
  BY <1>1 DEF WorkInv, BeforeBatches
<1>6. BetweenBatches(r, e, s)
  BY <1>1, <1>3 DEF WorkInv, BetweenBatches
<1> QED
  BY <1>4, <1>5, <1>6 DEF WorkInv

LEMMA WorkInitially ==
  ASSUME NEW e, NEW s, SignedUp(s, e)
  PROVE  WorkInv(NewPoll, e, s)
<1>1. /\ NewPoll.messages = <<Placeholder>> /\ NewPoll.stateLeaves = << >>
      /\ NewPoll.ballots = <<BlankBallot>> /\ ~NewPoll.stateCopied /\ NewPoll.numSignups = 0
      /\ NewPoll.numBatchesProcessed = 0 /\ WorkFields \subseteq DOMAIN NewPoll
  BY DEF NewPoll, WorkFields
<1>2. << >> \in [1..0 -> UserLeaf(e)] /\ Len(<<Placeholder>>) = 1
      /\ <<Placeholder>> \in Seq(Messages(e))
  <2>1. << >> \in Seq(UserLeaf(e)) /\ Len(<< >>) = 0
    BY EmptySeq
  <2> QED
    BY <2>1, LenProperties DEF Messages
<1>3. <<BlankBallot>> = Blank(1) /\ Blank(1) \in [1..1 -> Ballot]
  BY BlankTyped DEF Blank
<1>4. totalBatches(NewPoll) \in Nat /\ Len(s) \in Nat
  <2>1. Len(NewPoll.messages) = 1 /\ 1 \in Nat \ {0}
    BY <1>1, <1>2
  <2>2. totalBatches(NewPoll) \in Nat
    BY <2>1, BatchBounds
  <2> QED
    BY <2>2, LenProperties DEF SignedUp
<1>5. WorkTyped(NewPoll, e, s)
  BY <1>1, <1>2, <1>3, <1>4 DEF WorkTyped, Size
<1>6. BeforeBatches(NewPoll, s)
  BY <1>1, <1>3 DEF BeforeBatches, Size
<1> QED
  BY <1>1, <1>5, <1>6 DEF WorkInv, BetweenBatches, Started

LEMMA OneSignedUp ==
  ASSUME NEW e \in Elections, NEW s, SignedUp(s, e), NEW leaf \in e.leaves
  PROVE  /\ SignedUp(Append(s, leaf), e)
         /\ Len(Append(s, leaf)) = Len(s) + 1
         /\ \A i \in 1..Len(s) : Append(s, leaf)[i] = s[i]
<1>1. leaf \in UserLeaf(e)
  BY CoreConstants DEF UserLeaf, Keys
<1>2. s \in Seq(UserLeaf(e)) /\ Len(s) \in Nat \ {0}
  BY LenProperties DEF SignedUp
<1>3. /\ Append(s, leaf) \in Seq(UserLeaf(e)) /\ Len(Append(s, leaf)) = Len(s) + 1
      /\ \A i \in 1..Len(s) : Append(s, leaf)[i] = s[i]
  BY <1>1, <1>2, AppendProperties
<1>4. Append(s, leaf)[1] = s[1]
  BY <1>2, <1>3
<1> QED
  BY <1>2, <1>3, <1>4 DEF SignedUp

\* Users who sign up later are not among the first n.
LEMMA UsersGrow ==
  ASSUME NEW e \in Elections, NEW s, SignedUp(s, e), NEW leaf \in e.leaves,
         NEW q, WorkInv(q, e, s)
  PROVE  WorkInv(q, e, Append(s, leaf))
<1> DEFINE t == Append(s, leaf)
           n == q.numSignups
<1>1. Len(s) \in Nat
  BY LenProperties DEF SignedUp
<1>2. SignedUp(t, e) /\ Len(t) = Len(s) + 1 /\ \A i \in 1..Len(s) : t[i] = s[i]
  BY OneSignedUp
<1> HIDE DEF t
<1>3. n \in 0..Len(s) /\ n \in 0..Len(t)
  BY <1>1, <1>2 DEF WorkInv, WorkTyped
<1>4. Copied(t, n) = Copied(s, n)
  <2>1. /\ Copied(t, n) \in [1..n -> UserLeaf(e)] /\ \A i \in 1..n : Copied(t, n)[i] = t[i]
        /\ Copied(s, n) \in [1..n -> UserLeaf(e)] /\ \A i \in 1..n : Copied(s, n)[i] = s[i]
    BY <1>2, <1>3, CopiedProperties
  <2>2. \A i \in 1..n : t[i] = s[i]
    BY <1>1, <1>2, <1>3
  <2>3. \A i \in 1..n : Copied(t, n)[i] = Copied(s, n)[i]
    BY <2>1, <2>2
  <2>4. /\ Copied(t, n) = [i \in 1..n |-> Copied(t, n)[i]]
        /\ Copied(s, n) = [i \in 1..n |-> Copied(s, n)[i]]
    BY <2>1
  <2> QED
    BY <2>3, <2>4
<1>5. Start(t, n) = Start(s, n)
  BY <1>4 DEF Start
<1>6. WorkTyped(q, e, t)
  BY <1>3 DEF WorkInv, WorkTyped
<1>7. BeforeBatches(q, t)
  BY <1>4 DEF WorkInv, BeforeBatches
<1>8. BetweenBatches(q, e, t)
  BY <1>5 DEF WorkInv, BetweenBatches
<1> QED
  BY <1>6, <1>7, <1>8 DEF WorkInv, t

LEMMA PublishedWork ==
  ASSUME NEW e, NEW s, NEW q, WorkInv(q, e, s), ~q.stateCopied, NEW m \in e.messages
  PROVE  WorkInv([q EXCEPT !.messages = Append(@, m)], e, s)
<1> DEFINE r == [q EXCEPT !.messages = Append(@, m)]
<1>1. /\ r.messages = Append(q.messages, m) /\ r.stateLeaves = q.stateLeaves
      /\ r.ballots = q.ballots /\ r.stateCopied = q.stateCopied /\ r.numSignups = q.numSignups
      /\ r.numBatchesProcessed = q.numBatchesProcessed /\ DOMAIN r = DOMAIN q
  BY DEF WorkInv, WorkTyped, WorkFields
<1>2. r.messages \in Seq(Messages(e)) /\ Len(r.messages) \in Nat \ {0}
  BY <1>1, AppendProperties, LenProperties DEF WorkInv, WorkTyped, Messages
<1>3. totalBatches(r) \in Nat
  BY <1>2, BatchBounds
<1>4. q.numSignups = 0 /\ q.numBatchesProcessed = 0
  BY DEF WorkInv, BeforeBatches
<1> HIDE DEF r
<1>5. WorkTyped(r, e, s)
  BY <1>1, <1>2, <1>3, <1>4 DEF WorkInv, WorkTyped
<1>6. BeforeBatches(r, s)
  BY <1>1 DEF WorkInv, BeforeBatches
<1> QED
  BY <1>1, <1>5, <1>6 DEF WorkInv, BetweenBatches, Started, r

Thrown(q, i, salts) == [q EXCEPT !.currentMessageBatchIndex = i, !.salted = salts]

\* The first batch has thrown: no batch of this poll is processed any more.
LEMMA ThrownWork ==
  ASSUME NEW e, NEW s, NEW q, WorkInv(q, e, s), q.numBatchesProcessed = 0, NEW i, NEW salts
  PROVE  WorkInv(Thrown(q, i, salts), e, s)
<1> DEFINE r == Thrown(q, i, salts)
<1>1. /\ r.messages = q.messages /\ r.stateLeaves = q.stateLeaves
      /\ r.ballots = q.ballots /\ r.ballotTree = q.ballotTree
      /\ r.stateCopied = q.stateCopied /\ r.numSignups = q.numSignups
      /\ r.numBatchesProcessed = q.numBatchesProcessed /\ DOMAIN r = DOMAIN q
  BY DEF WorkInv, WorkTyped, WorkFields, Thrown
<1> HIDE DEF r
<1>2. totalBatches(r) = totalBatches(q)
  BY <1>1 DEF totalBatches
<1>3. WorkTyped(r, e, s)
  BY <1>1, <1>2 DEF WorkInv, WorkTyped
<1>4. BeforeBatches(r, s)
  BY <1>1 DEF WorkInv, BeforeBatches
<1> QED
  BY <1>1, <1>3, <1>4 DEF WorkInv, BetweenBatches, Started, r

LEMMA MaxOfTwo ==
  ASSUME NEW a \in Nat, NEW b \in Nat
  PROVE  Max({a, b}) = IF a >= b THEN a ELSE b
BY DEF Max

LEMMA MinOfTwo ==
  ASSUME NEW a \in Nat, NEW b \in Nat
  PROVE  Min({a, b}) = IF a <= b THEN a ELSE b
BY DEF Min

\* The ballots are completed with blank ones; a poll whose ballots are complete
\* keeps them.
Larger(n, k) == IF n >= k THEN n ELSE k
Completed(b, k, n) == b \o SubSeq(Blank(Larger(n, k)), k + 1, n)

LEMMA CompletedBallots ==
  ASSUME NEW k \in Nat \ {0}, NEW b \in [1..k -> Ballot], NEW n \in Nat
  PROVE  /\ Completed(b, k, n) \in [1..Larger(n, k) -> Ballot]
         /\ b = Blank(k) => Completed(b, k, n) = Blank(Larger(n, k))
         /\ n <= k => Completed(b, k, n) = b
<1> DEFINE max == Larger(n, k)
           tail == SubSeq(Blank(max), k + 1, n)
           rest == Completed(b, k, n)
<1>1. max = IF n >= k THEN n ELSE k
  BY DEF Larger
<1>2. rest = b \o tail
  BY DEF Completed
<1> SUFFICES /\ rest \in [1..max -> Ballot]
             /\ b = Blank(k) => rest = Blank(max)
             /\ n <= k => rest = b
  OBVIOUS
<1> HIDE DEF rest, max
<1>3. b \in Seq(Ballot) /\ Len(b) = k
  BY Listed
<1>4. CASE n <= k
  <2>1. n < k + 1 /\ k + 1 \in Int /\ n \in Int
    BY <1>4
  <2>2. tail = << >>
    BY <2>1, SubSeqEmpty
  <2>3. rest = b
    BY <1>3, <1>2, <2>2, ConcatEmptySeq
  <2>4. max = k
    BY <1>4, <1>1
  <2> QED
    BY <2>3, <2>4
<1>5. CASE n > k
  <2>1. max = n /\ Blank(max) \in [1..n -> Ballot] /\ n - (k + 1) + 1 = n - k
        /\ n - k \in Nat
    BY <1>5, <1>1, BlankTyped
  <2>2. \A i \in (k + 1)..n : Blank(max)[i] \in Ballot
    BY <2>1
  <2>3. /\ tail \in Seq(Ballot) /\ Len(tail) = n - k
        /\ \A i \in 1..(n - k) : tail[i] = Blank(max)[k + 1 + i - 1]
    BY <1>5, <2>1, <2>2, SubSeqProperties
  <2>4. \A i \in 1..(n - k) : tail[i] = BlankBallot
    <3>1. \A i \in 1..(n - k) : k + 1 + i - 1 \in 1..max
      BY <2>1
    <3> HIDE DEF tail
    <3> QED
      BY <2>3, <3>1 DEF Blank
  <2> HIDE DEF tail
  <2>5. rest = b \o tail
    BY <1>2 DEF tail
  <2>6. /\ rest \in Seq(Ballot) /\ Len(rest) = Len(b) + Len(tail)
        /\ \A i \in 1..(Len(b) + Len(tail)) :
             rest[i] = IF i <= Len(b) THEN b[i] ELSE tail[i - Len(b)]
    <3>1. tail \in Seq(Ballot)
      BY <2>3
    <3>2. /\ b \o tail \in Seq(Ballot) /\ Len(b \o tail) = Len(b) + Len(tail)
          /\ \A i \in 1..(Len(b) + Len(tail)) :
               (b \o tail)[i] = IF i <= Len(b) THEN b[i] ELSE tail[i - Len(b)]
      BY <1>3, <3>1, ConcatProperties
    <3> QED
      BY <2>5, <3>2
  <2>7. Len(b) + Len(tail) = n
    BY <1>3, <2>1, <2>3
  <2>8. rest \in [1..max -> Ballot]
    BY <2>1, <2>6, <2>7, LenProperties
  <2>9. ASSUME b = Blank(k), NEW i \in 1..n
        PROVE  rest[i] = BlankBallot
    <3>1. CASE i <= k
      <4>1. i \in 1..k
        BY <3>1
      <4> QED
        BY <1>3, <2>6, <2>7, <2>9, <3>1, <4>1 DEF Blank
    <3>2. CASE i > k
      <4>1. i - k \in 1..(n - k)
        BY <3>2
      <4> QED
        <5>1. ~ (i <= Len(b)) /\ i \in 1..(Len(b) + Len(tail)) /\ i - Len(b) = i - k
          BY <1>3, <2>7, <3>2
        <5>2. rest[i] = tail[i - k]
          BY <2>6, <5>1
        <5> QED
          BY <2>4, <4>1, <5>2
    <3> QED
      BY <3>1, <3>2
  <2>10. b = Blank(k) => rest = Blank(max)
    BY <2>1, <2>8, <2>9 DEF Blank
  <2> QED
    BY <1>5, <2>8, <2>10
<1> QED
  BY <1>4, <1>5

\* A poll none of whose batches can be committed to, updated with n users.
LEMMA UpdatedWork ==
  ASSUME NEW e, NEW s, SignedUp(s, e), NEW q, NEW r, NEW n \in 0..Len(s), NEW k \in Nat \ {0},
         WorkFields \subseteq DOMAIN q, k = Size(n) \/ k <= n,
         q.ballots \in [1..k -> Ballot],
         q.messages \in Seq(Messages(e)) /\ Len(q.messages) > 0,
         q.numBatchesProcessed \in 0..totalBatches(q),
         q.numBatchesProcessed = 0 => q.ballots = Blank(k),
         q.numBatchesProcessed # 0 => n # 0 /\ k = n /\ q.salted = {},
         CopiedLeaves(n) = Copied(s, n),
         r = Updated(q, n)
  PROVE  WorkInv(r, e, s)
<1> DEFINE max == Larger(n, k)
           blank == [i \in 1..Max({n, Len(q.ballots)}) |-> BlankBallot]
<1>1. Len(q.ballots) = k /\ n \in Nat /\ Len(s) \in Nat
  BY Listed, LenProperties DEF SignedUp
<1>2. max = Size(n) /\ max \in Nat
  BY <1>1 DEF Size, Larger
<1>3. Max({n, Len(q.ballots)}) = max
  BY <1>1, MaxOfTwo DEF Larger
<1> HIDE DEF max, blank
<1>4. blank = Blank(max)
  BY <1>3 DEF Blank, blank
<1>5. r = [q EXCEPT !.stateCopied = TRUE, !.numSignups = n, !.stateLeaves = CopiedLeaves(n),
                    !.ballots = q.ballots \o SubSeq(Blank(max), k + 1, n),
                    !.ballotTree = Blank(max)]
  BY <1>1, <1>4 DEF Updated, blank
<1>6. /\ r.messages = q.messages /\ r.stateLeaves = Copied(s, n)
      /\ r.ballots = q.ballots \o SubSeq(Blank(max), k + 1, n)
      /\ r.ballotTree = Blank(max) /\ r.stateCopied /\ r.numSignups = n
      /\ r.numBatchesProcessed = q.numBatchesProcessed
      /\ r.salted = q.salted /\ DOMAIN r = DOMAIN q
  BY <1>5 DEF WorkFields
<1>7. /\ r.ballots \in [1..max -> Ballot]
      /\ q.numBatchesProcessed = 0 => r.ballots = Blank(max)
  <2>1. /\ r.ballots \in [1..max -> Ballot]
        /\ q.ballots = Blank(k) => r.ballots = Blank(max)
    <3> DEFINE rest == r.ballots
               b == q.ballots
    <3>1. b \in [1..k -> Ballot] /\ rest = Completed(b, k, n) /\ n \in Nat
      BY <1>1, <1>6 DEF Completed, max
    <3> HIDE DEF rest, b
    <3>2. rest \in [1..max -> Ballot] /\ (b = Blank(k) => rest = Blank(max))
      BY <3>1, CompletedBallots DEF max
    <3> QED
      BY <3>2 DEF rest, b
  <2> QED
    BY <2>1
<1>8. totalBatches(r) = totalBatches(q)
  BY <1>6 DEF totalBatches
<1>9. Copied(s, n) \in [1..n -> UserLeaf(e)] /\ Blank(max) \in [1..max -> Ballot]
  BY <1>2, CopiedProperties, BlankTyped
<1>10. WorkTyped(r, e, s)
  BY <1>2, <1>6, <1>7, <1>8, <1>9 DEF WorkTyped
<1>11. BeforeBatches(r, s)
  BY <1>2, <1>6, <1>7 DEF BeforeBatches
<1>12. ~Started(r)
  <2>1. q.numBatchesProcessed # 0 => r.salted = {}
    BY <1>6
  <2> QED
    BY <1>1, <1>6, <2>1 DEF Started, HasSalt
<1> QED
  BY <1>10, <1>11, <1>12 DEF WorkInv, BetweenBatches

\* The first index of the next batch.
NextFirst(q) == (Left(q) - 1) * messageBatchSize

\* The messages from index x * messageBatchSize on, for x batches left.
LEMMA LeftBounds ==
  ASSUME NEW q, NEW n \in Nat \ {0}, Len(q.messages) = n,
         NEW x \in Nat, x < totalBatches(q)
  PROVE  /\ x * messageBatchSize \in 0..n
         /\ (x + 1) * messageBatchSize = x * messageBatchSize + messageBatchSize
         /\ x + 1 < totalBatches(q) => (x + 1) * messageBatchSize \in 0..n
         /\ x + 1 = totalBatches(q) => x * messageBatchSize + messageBatchSize >= n
<1> DEFINE B == messageBatchSize
           T == totalBatches(q)
<1>1. /\ B \in Nat \ {0} /\ T \in Nat \ {0} /\ (T - 1) * B < n /\ n <= T * B
  BY BatchBounds, CoreConstants
<1> HIDE DEF B, T
<1>2. ASSUME NEW y \in Nat, NEW z \in Nat, y <= z
      PROVE  y * B <= z * B /\ y * B \in Nat /\ z * B \in Nat
  BY <1>1, <1>2
<1>3. (x + 1) * B = x * B + B /\ x * B \in Nat /\ (T - 1) * B \in Nat /\ T * B \in Nat
  BY <1>1
<1>4. x <= T - 1 /\ T - 1 \in Nat /\ x < T
  BY <1>1 DEF T
<1>5. x * B <= (T - 1) * B
  BY <1>2, <1>4
<1>6. x + 1 < T => x + 1 <= T - 1 /\ (x + 1) * B <= (T - 1) * B /\ (x + 1) * B \in Nat
  BY <1>1, <1>2, <1>4
<1>7. x + 1 = T => n <= x * B + B
  BY <1>1, <1>3
<1> QED
  BY <1>1, <1>3, <1>5, <1>6, <1>7 DEF B, T

\* The next batch goes on from what the batches before it have made of the
\* users' copy.
LEMMA NextBatch ==
  ASSUME NEW e \in Elections, NEW s, SignedUp(s, e), NEW q, WorkInv(q, e, s),
         ~NoLeaves(q), hasUnprocessedMessages(q),
         q.numBatchesProcessed = 0 \/ HasSalt(q)
  PROVE  /\ q.numSignups # 0 /\ Left(q) \in Nat \ {0}
         /\ IndexOf(q) = NextFirst(q) /\ NextFirst(q) \in 0..Len(q.messages)
         /\ BatchResult(q, e.qv) =
              After(Start(s, q.numSignups), q.messages, e.qv)[Len(q.messages) - NextFirst(q)]
<1> DEFINE B == messageBatchSize
           T == totalBatches(q)
           num == q.numBatchesProcessed
           n == q.numSignups
           ms == q.messages
           L == Len(ms)
           x == Left(q) - 1
           a == NextFirst(q)
           b == Min({a + B, L})
           w == Start(s, n)
           f == After(w, ms, e.qv)
<1>1. /\ ms \in Seq(Messages(e)) /\ L \in Nat \ {0} /\ B \in Nat \ {0} /\ T \in Nat \ {0}
      /\ num \in 0..T /\ num < T /\ Left(q) = T - num
      /\ FirstIndex(q) = (T - 1) * B
  <2>1. ms \in Seq(Messages(e)) /\ L \in Nat \ {0} /\ num \in 0..T
    BY LenProperties DEF WorkInv, WorkTyped
  <2>2. B \in Nat \ {0}
    BY CoreConstants
  <2>3. T \in Nat \ {0} /\ FirstIndex(q) = (T - 1) * B
    <3> HIDE DEF L
    <3> QED
      BY <2>1, BatchBounds DEF L
  <2>4. num < T /\ Left(q) = T - num
    BY DEF hasUnprocessedMessages, Left
  <2> HIDE DEF L, T, num, B
  <2> QED
    BY <2>1, <2>2, <2>3, <2>4
<1>2. n # 0 /\ n \in 0..Len(s) /\ q.stateCopied
  <2>1. q.stateLeaves \in [1..n -> UserLeaf(e)] /\ q.stateLeaves # << >> /\ q.stateCopied
        /\ n \in 0..Len(s)
    BY DEF NoLeaves, WorkInv, WorkTyped
  <2>2. n # 0
    <3> SUFFICES ASSUME n = 0 PROVE FALSE
      OBVIOUS
    <3>1. q.stateLeaves \in Seq(UserLeaf(e)) /\ Len(q.stateLeaves) = 0
      BY <2>1, Listed
    <3> QED
      BY <2>1, <3>1, EmptySeq
  <2> QED
    BY <2>1, <2>2
<1>3. x \in Nat /\ x < T /\ a = x * B /\ (num = 0 => x + 1 = T) /\ (num # 0 => x + 1 < T)
      /\ Left(q) = x + 1
  BY <1>1 DEF NextFirst
<1>4. n \in Nat \ {0} /\ w \in Works(e, n)
  BY <1>2, StartTyped
<1>5. /\ f \in [0..L -> Works(e, n)] /\ f[0] = w
  BY <1>1, <1>4, AfterDef
<1> HIDE DEF x, a, f, w, B, T
<1>6. /\ a \in 0..L /\ (x + 1) * B = a + B
      /\ num # 0 => a + B \in 0..L
      /\ num = 0 => a + B >= L
  BY <1>1, <1>3, LeftBounds DEF T, B, L, ms
<1>7. b \in a..L /\ b \in 0..L /\ a \in 0..b
      /\ (num # 0 => b = a + B) /\ (num = 0 => b = L)
  <2>1. a + B \in Nat /\ L \in Nat
    BY <1>1, <1>6
  <2>2. b = IF a + B <= L THEN a + B ELSE L
    BY <2>1, MinOfTwo
  <2> HIDE DEF b, L
  <2> QED
    BY <1>1, <1>6, <2>1, <2>2 DEF B
<1>8. IndexOf(q) = a
  <2>1. CASE num = 0
    <3>1. x = T - 1
      BY <1>1, <1>3, <2>1
    <3> QED
      BY <1>1, <1>3, <2>1, <3>1 DEF IndexOf, T, B
  <2>2. CASE num # 0
    <3>1. Started(q)
      BY <1>1, <1>2, <2>2 DEF Started
    <3> QED
      BY <1>1, <1>3, <2>2, <3>1 DEF IndexOf, WorkInv, BetweenBatches, NextFirst, a
  <2> QED
    BY <2>1, <2>2
<1>9. Work(q) = f[L - b]
  <2>1. CASE num = 0
    <3>1. q.stateLeaves = Copied(s, n) /\ q.ballots = Blank(n) /\ q.ballotTree = Blank(n)
      BY <1>2, <2>1 DEF WorkInv, BeforeBatches, Size
    <3>2. Work(q) = w
      BY <3>1 DEF Work, Start, w
    <3>3. L - b = 0
      BY <1>1, <1>7, <2>1
    <3> QED
      BY <1>5, <3>2, <3>3
  <2>2. CASE num # 0
    <3>1. Started(q)
      BY <1>1, <1>2, <2>2 DEF Started
    <3>2. Work(q) = f[L - Left(q) * B]
      BY <3>1 DEF WorkInv, BetweenBatches, f, w, B
    <3>3. Left(q) * B = b
      BY <1>3, <1>6, <1>7, <2>2
    <3> QED
      BY <3>2, <3>3
  <2> QED
    BY <2>1, <2>2
<1>10. Applied(f[L - b], SubSeq(ms, a + 1, b), e.qv) = f[L - a]
  <2> DEFINE v == e.qv
  <2>1. ms \in Seq(Messages(e)) /\ b \in 0..Len(ms) /\ a \in 0..b
    BY <1>1, <1>7
  <2> HIDE DEF b, v, ms, L, n
  <2>2. Applied(After(w, ms, v)[Len(ms) - b], SubSeq(ms, a + 1, b), v)
          = After(w, ms, v)[Len(ms) - a]
    BY <1>4, <2>1, AfterRest
  <2> QED
    BY <2>2 DEF f, v, L
<1>11. Batch(q) = SubSeq(ms, a + 1, b)
  BY <1>8 DEF Batch, B
<1>12. BatchResult(q, e.qv) = f[L - a]
  BY <1>9, <1>10, <1>11 DEF BatchResult
<1> QED
  BY <1>2, <1>3, <1>6, <1>8, <1>12 DEF a, f, w

BatchDone(q, after, salts) ==
  [q EXCEPT !.stateLeaves = after.stateLeaves, !.ballots = after.ballots,
            !.ballotTree = after.ballotTree, !.numBatchesProcessed = @ + 1,
            !.currentMessageBatchIndex = NextIndex(q), !.salted = salts]

LEMMA BatchedWork ==
  ASSUME NEW e \in Elections, NEW s, SignedUp(s, e), NEW q, WorkInv(q, e, s),
         ~NoLeaves(q), hasUnprocessedMessages(q),
         q.numBatchesProcessed = 0 \/ HasSalt(q), NEW salts
  PROVE  WorkInv(BatchDone(q, BatchResult(q, e.qv), salts), e, s)
<1> DEFINE n == q.numSignups
           ms == q.messages
           L == Len(ms)
           w == Start(s, n)
           f == After(w, ms, e.qv)
           a == NextFirst(q)
           after == BatchResult(q, e.qv)
           r == BatchDone(q, after, salts)
<1>1. /\ n # 0 /\ Left(q) \in Nat \ {0} /\ IndexOf(q) = a /\ a \in 0..L
      /\ after = f[L - a]
  BY NextBatch
<1>2. /\ ms \in Seq(Messages(e)) /\ L \in Nat \ {0} /\ n \in 0..Len(s)
      /\ totalBatches(q) \in Nat /\ q.numBatchesProcessed \in 0..totalBatches(q)
      /\ WorkFields \subseteq DOMAIN q
  BY BatchBounds, LenProperties DEF WorkInv, WorkTyped
<1>3. w \in Works(e, n) /\ n \in Nat \ {0}
  BY <1>1, <1>2, StartTyped
<1>4. after \in Works(e, n)
  <2>1. f \in [0..L -> Works(e, n)]
    BY <1>2, <1>3, AfterDef
  <2>2. L - a \in 0..L
    BY <1>1, <1>2
  <2> HIDE DEF f, a, L
  <2> QED
    BY <1>1, <2>1, <2>2
<1> HIDE DEF after
<1>5. /\ r.stateLeaves = after.stateLeaves /\ r.ballots = after.ballots
      /\ r.ballotTree = after.ballotTree
      /\ r.numBatchesProcessed = q.numBatchesProcessed + 1
      /\ r.currentMessageBatchIndex = NextIndex(q) /\ r.messages = ms
      /\ r.stateCopied = q.stateCopied /\ r.numSignups = n /\ DOMAIN r = DOMAIN q
  BY <1>2 DEF BatchDone, WorkFields
<1> HIDE DEF r
<1>6. totalBatches(r) = totalBatches(q)
  BY <1>5 DEF totalBatches
<1>7. Left(r) = Left(q) - 1 /\ Left(r) \in Nat /\ r.numBatchesProcessed \in 0..totalBatches(r)
      /\ r.numBatchesProcessed # 0
  BY <1>1, <1>2, <1>5, <1>6 DEF Left
<1>8. WorkTyped(r, e, s)
  BY <1>2, <1>3, <1>4, <1>5, <1>7 DEF WorkTyped, Works, Size
<1>9. BeforeBatches(r, s)
  BY <1>1, <1>5, <1>7 DEF BeforeBatches, WorkInv
<1>10. Work(r) = after
  BY <1>4, <1>5 DEF Work, Works
<1>11. Left(r) * messageBatchSize = a
  BY <1>7 DEF NextFirst
<1>12. ASSUME Left(r) > 0
       PROVE  r.currentMessageBatchIndex = (Left(r) - 1) * messageBatchSize
  <2>1. messageBatchSize \in Nat \ {0}
    BY CoreConstants
  <2>2. (Left(r) - 1) * messageBatchSize = Left(r) * messageBatchSize - messageBatchSize
    BY <1>7, <2>1
  <2>3. Left(r) * messageBatchSize > 0
    BY <1>7, <1>12, <2>1
  <2> QED
    BY <1>1, <1>5, <1>11, <2>2, <2>3 DEF NextIndex
<1>13. BetweenBatches(r, e, s)
  BY <1>1, <1>5, <1>10, <1>11, <1>12 DEF BetweenBatches
<1> QED
  BY <1>8, <1>9, <1>13 DEF WorkInv, r, after

-----------------------------------------------------------------------------
(***************************************************************************)
(* The invariant of the polls, and its steps.                              *)
(***************************************************************************)
CoreInv ==
  /\ LockInv
  /\ SignedUp(signedUp, election)
  /\ lock.poll \in PollIds \cup {Undefined, 0}
  /\ \A p \in PollIds : WorkInv(poll[p], election, signedUp)

LEMMA OnePollChanged ==
  ASSUME CoreInv, LockInv', UNCHANGED <<election, signedUp>>,
         lock'.poll \in PollIds \cup {Undefined, 0}, NEW p \in PollIds,
         \A r \in PollIds \ {p} : poll'[r] = poll[r],
         WorkInv(poll'[p], election, signedUp)
  PROVE  CoreInv'
<1>1. \A r \in PollIds : WorkInv(poll'[r], election, signedUp)
  BY DEF CoreInv
<1> QED
  BY <1>1 DEF CoreInv, PollIds

LEMMA NoPollChanged ==
  ASSUME CoreInv, LockInv', UNCHANGED <<election, lock>>,
         SignedUp(signedUp', election),
         \A p \in PollIds :
           WorkInv(poll[p], election, signedUp') /\ WorkFields \subseteq DOMAIN poll'[p]
           /\ \A f \in WorkFields : poll'[p][f] = poll[p][f]
  PROVE  CoreInv'
<1>1. \A p \in PollIds : WorkInv(poll'[p], election, signedUp')
  BY SameWork
<1> QED
  BY <1>1 DEF CoreInv, PollIds

LEMMA PollsDefined ==
  CoreInv => /\ election \in Elections /\ DOMAIN poll = PollIds
             /\ \A p \in PollIds : WorkFields \subseteq DOMAIN poll[p]
BY DEF CoreInv, LockInv, Shapes, WorkInv, WorkTyped

LEMMA SignUpStep ==
  ASSUME CoreInv, LockInv', signUp
  PROVE  CoreInv'
<1>1. PICK leaf \in election.leaves : signedUp' = Append(signedUp, leaf)
  BY DEF signUp
<1>2. UNCHANGED <<election, lock, poll>>
  BY DEF signUp
<1>3. /\ SignedUp(Append(signedUp, leaf), election)
      /\ \A p \in PollIds : WorkInv(poll[p], election, Append(signedUp, leaf))
  <2>1. election \in Elections /\ SignedUp(signedUp, election)
    BY PollsDefined DEF CoreInv
  <2>2. \A p \in PollIds : WorkInv(poll[p], election, signedUp)
    BY DEF CoreInv
  <2>3. SignedUp(Append(signedUp, leaf), election)
    BY <2>1, OneSignedUp
  <2>4. ASSUME NEW p \in PollIds
        PROVE  WorkInv(poll[p], election, Append(signedUp, leaf))
    BY <2>1, <2>2, UsersGrow
  <2> QED
    BY <2>3, <2>4
<1> QED
  BY <1>1, <1>2, <1>3, PollsDefined, NoPollChanged

\* The tally, the subsidy and nothing at all.
LEMMA TallyStep ==
  ASSUME CoreInv, LockInv', NEW p \in PollIds,
         tallyVotes(p) \/ tallyVotesNonQv(p) \/ subsidyPerBatch(p)
  PROVE  CoreInv'
<1>1. DOMAIN poll = PollIds /\ WorkFields \subseteq DOMAIN poll[p]
  BY PollsDefined
<1>2. /\ UNCHANGED <<election, signedUp, lock>>
      /\ \A r \in PollIds \ {p} : poll'[r] = poll[r]
      /\ WorkFields \subseteq DOMAIN poll'[p]
      /\ \A f \in WorkFields : poll'[p][f] = poll[p][f]
  <2>1. CASE tallyVotes(p)
    BY <1>1, <2>1 DEF tallyVotes, WorkFields
  <2>2. CASE tallyVotesNonQv(p)
    BY <1>1, <2>2 DEF tallyVotesNonQv, WorkFields
  <2>3. CASE subsidyPerBatch(p)
    BY <1>1, <2>3 DEF subsidyPerBatch, WorkFields
  <2> QED
    BY <2>1, <2>2, <2>3
<1>3. WorkInv(poll'[p], election, signedUp)
  BY <1>2, SameWork DEF CoreInv
<1> QED
  BY <1>2, <1>3, OnePollChanged DEF CoreInv

LEMMA PublishWorkStep ==
  ASSUME CoreInv, LockInv', NEW p \in PollIds, publishMessage(p)
  PROVE  CoreInv'
<1>1. PICK m \in election.messages : poll' = [poll EXCEPT ![p].messages = Append(@, m)]
  BY DEF publishMessage
<1>2. ~poll[p].stateCopied /\ UNCHANGED <<election, signedUp, lock>>
  BY DEF publishMessage
<1>3. /\ poll'[p] = [poll[p] EXCEPT !.messages = Append(@, m)]
      /\ \A r \in PollIds \ {p} : poll'[r] = poll[r]
  BY <1>1, PollsDefined
<1>4. WorkInv(poll'[p], election, signedUp)
  BY <1>2, <1>3, PublishedWork DEF CoreInv
<1> QED
  BY <1>2, <1>3, <1>4, OnePollChanged DEF CoreInv

LEMMA UpdateWorkStep ==
  ASSUME CoreInv, LockInv', NEW p \in PollIds, NEW n \in DOMAIN signedUp, updatePoll(p, n)
  PROVE  CoreInv'
<1> DEFINE q == poll[p]
           k == Size(q.numSignups)
<1>1. /\ q.numBatchesProcessed = 0 /\ n >= q.numSignups
      /\ poll' = [poll EXCEPT ![p] = Updated(q, n)]
      /\ UNCHANGED <<election, signedUp, lock>>
  BY DEF updatePoll
<1>2. poll'[p] = Updated(q, n) /\ \A r \in PollIds \ {p} : poll'[r] = poll[r]
  BY <1>1, PollsDefined
<1>3. /\ SignedUp(signedUp, election) /\ WorkTyped(q, election, signedUp)
      /\ BeforeBatches(q, signedUp)
  BY DEF CoreInv, WorkInv
<1>4. Len(signedUp) \in Nat /\ n \in 1..Len(signedUp) /\ q.numSignups \in 0..Len(signedUp)
  BY <1>3, LenProperties DEF SignedUp, WorkTyped
<1>5. k \in Nat \ {0} /\ k <= n
  BY <1>1, <1>4 DEF Size
<1>6. /\ WorkFields \subseteq DOMAIN q /\ q.ballots \in [1..k -> Ballot]
      /\ q.messages \in Seq(Messages(election)) /\ Len(q.messages) > 0
      /\ q.numBatchesProcessed \in 0..totalBatches(q)
      /\ q.ballots = Blank(k)
  BY <1>1, <1>3 DEF WorkTyped, BeforeBatches
<1>7. CopiedLeaves(n) = Copied(signedUp, n)
  BY DEF CopiedLeaves, Copied
<1> HIDE DEF q, k
<1>8. WorkInv(Updated(q, n), election, signedUp)
  BY <1>1, <1>3, <1>4, <1>5, <1>6, <1>7, UpdatedWork
<1> QED
  BY <1>1, <1>2, <1>8, OnePollChanged DEF CoreInv

LEMMA RestoreWorkStep ==
  ASSUME CoreInv, LockInv', restore
  PROVE  CoreInv'
<1>1. /\ \A p \in PollIds : poll'[p] = RestoredPoll(poll[p])
      /\ UNCHANGED <<election, signedUp>>
      /\ lock' = [lock EXCEPT !.poll = IF @ = Undefined THEN 0 ELSE @]
  BY DEF restore
<1>2. lock'.poll \in PollIds \cup {Undefined, 0}
  BY <1>1 DEF CoreInv, LockInv
<1>3. ASSUME NEW p \in PollIds
      PROVE  WorkInv(poll'[p], election, signedUp)
  <2> DEFINE q == poll[p]
             n == q.numSignups
             k == Size(n)
             r == [NewPoll EXCEPT !.messages = q.messages, !.ballots = q.ballots,
                                  !.tallyResult = q.tallyResult,
                                  !.currentMessageBatchIndex = q.currentMessageBatchIndex,
                                  !.numBatchesProcessed = q.numBatchesProcessed]
  <2>1. /\ r.messages = q.messages /\ r.ballots = q.ballots /\ r.salted = {}
        /\ r.numBatchesProcessed = q.numBatchesProcessed /\ WorkFields \subseteq DOMAIN r
    BY DEF NewPoll, WorkFields
  <2>2. RestoredPoll(q) = Updated(r, n)
    BY DEF RestoredPoll
  <2>3. /\ SignedUp(signedUp, election) /\ WorkTyped(q, election, signedUp)
        /\ BeforeBatches(q, signedUp)
    BY DEF CoreInv, WorkInv
  <2>4. Len(signedUp) \in Nat /\ n \in 0..Len(signedUp)
    BY <2>3, LenProperties DEF SignedUp, WorkTyped
  <2>5. k \in Nat \ {0} /\ (n # 0 => k = n)
    BY <2>4 DEF Size
  <2> HIDE DEF r
  <2>6. totalBatches(r) = totalBatches(q)
    BY <2>1 DEF totalBatches
  <2>7. /\ r.ballots \in [1..k -> Ballot]
        /\ r.messages \in Seq(Messages(election)) /\ Len(r.messages) > 0
        /\ r.numBatchesProcessed \in 0..totalBatches(r)
        /\ r.numBatchesProcessed = 0 => r.ballots = Blank(k)
        /\ r.numBatchesProcessed # 0 => n # 0
    BY <2>1, <2>3, <2>6 DEF WorkTyped, BeforeBatches
  <2>8. r.numBatchesProcessed # 0 => n # 0 /\ k = n /\ r.salted = {}
    BY <2>1, <2>5, <2>7
  <2>9. CopiedLeaves(n) = Copied(signedUp, n)
    BY DEF CopiedLeaves, Copied
  <2>10. k = Size(n)
    OBVIOUS
  <2> HIDE DEF q, n, k
  <2>11. WorkInv(Updated(r, n), election, signedUp)
    BY <2>1, <2>3, <2>4, <2>5, <2>7, <2>8, <2>9, <2>10, UpdatedWork
  <2> QED
    BY <1>1, <2>2, <2>11 DEF q, n
<1> QED
  BY <1>1, <1>2, <1>3 DEF CoreInv, PollIds

LEMMA ThrowWorkStep ==
  ASSUME CoreInv, LockInv', NEW p \in PollIds, processMessagesThrows(p)
  PROVE  CoreInv'
<1>1. /\ poll[p].numBatchesProcessed = 0
      /\ poll' = [poll EXCEPT ![p].currentMessageBatchIndex = IndexOf(poll[p]),
                              ![p].salted = {IndexOf(poll[p])}]
      /\ UNCHANGED <<election, signedUp>> /\ lock' = Claimed(p)
  BY DEF processMessagesThrows
<1>2. /\ poll'[p] = Thrown(poll[p], IndexOf(poll[p]), {IndexOf(poll[p])})
      /\ \A r \in PollIds \ {p} : poll'[r] = poll[r]
  BY <1>1, PollsDefined DEF Thrown
<1>3. WorkInv(poll'[p], election, signedUp)
  BY <1>1, <1>2, ThrownWork DEF CoreInv
<1>4. lock'.poll \in PollIds \cup {Undefined, 0}
  BY <1>1 DEF Claimed, CoreInv
<1> QED
  BY <1>1, <1>2, <1>3, <1>4, OnePollChanged

LEMMA ProcessWorkStep ==
  ASSUME CoreInv, LockInv', NEW p \in PollIds, processMessages(p)
  PROVE  CoreInv'
<1> DEFINE q == poll[p]
           after == BatchResult(q, election.qv)
           salts == q.salted \cup {IndexOf(q), NextIndex(q)}
<1>1. /\ ~NoLeaves(q) /\ hasUnprocessedMessages(q)
      /\ q.numBatchesProcessed = 0 \/ HasSalt(q)
      /\ UNCHANGED <<election, signedUp>>
  BY DEF processMessages, CanProcess
<1>2. lock' = [Claimed(p) EXCEPT !.being = IF Released(q) THEN FALSE ELSE @]
  BY DEF processMessages
<1>3. poll' = [poll EXCEPT
           ![p].stateLeaves = after.stateLeaves,
           ![p].ballots = after.ballots,
           ![p].ballotTree = after.ballotTree,
           ![p].numBatchesProcessed = @ + 1,
           ![p].currentMessageBatchIndex = NextIndex(q),
           ![p].salted = @ \cup {IndexOf(q), NextIndex(q)}]
  BY DEF processMessages
<1> HIDE DEF after
<1>4. poll'[p] = BatchDone(q, after, salts) /\ \A r \in PollIds \ {p} : poll'[r] = poll[r]
  BY <1>3, PollsDefined DEF BatchDone, WorkFields
<1>5. WorkInv(BatchDone(q, after, salts), election, signedUp)
  <2> HIDE DEF salts, q
  <2>1. WorkInv(q, election, signedUp) /\ SignedUp(signedUp, election) /\ election \in Elections
    BY PollsDefined DEF CoreInv, q
  <2> QED
    BY <1>1, <2>1, BatchedWork DEF after
<1>6. lock'.poll \in PollIds \cup {Undefined, 0}
  BY <1>2 DEF Claimed, CoreInv, LockInv
<1> QED
  BY <1>1, <1>4, <1>5, <1>6, OnePollChanged

LEMMA CoreInitially == Init => CoreInv
<1> SUFFICES ASSUME Init PROVE CoreInv
  OBVIOUS
<1>1. signedUp = <<BlankLeaf>> /\ election \in Elections
  BY DEF Init
<1>2. SignedUp(signedUp, election)
  <2>1. BlankLeaf \in UserLeaf(election)
    BY DEF BlankLeaf, UserLeaf, Keys
  <2> QED
    BY <1>1, <2>1 DEF SignedUp
<1>3. \A p \in PollIds : poll[p] = NewPoll
  BY DEF Init
<1>4. lock.poll = Undefined
  BY DEF Init
<1> QED
  BY <1>2, <1>3, <1>4, LockInitially, WorkInitially DEF CoreInv

LEMMA CoreStep == CoreInv /\ [Next]_vars => CoreInv'
<1> SUFFICES ASSUME CoreInv, [Next]_vars PROVE CoreInv'
  OBVIOUS
<1>1. LockInv'
  BY LockStep DEF CoreInv
<1>2. CASE UNCHANGED vars
  BY <1>1, <1>2, PollsDefined, NoPollChanged DEF vars, CoreInv
<1>3. CASE signUp
  BY <1>1, <1>3, SignUpStep
<1>4. CASE restore
  BY <1>1, <1>4, RestoreWorkStep
<1>5. ASSUME NEW p \in PollIds,
             \/ publishMessage(p)
             \/ \E n \in DOMAIN signedUp : updatePoll(p, n)
             \/ processMessages(p)
             \/ processMessagesThrows(p)
             \/ tallyVotes(p)
             \/ tallyVotesNonQv(p)
             \/ subsidyPerBatch(p)
      PROVE  CoreInv'
  BY <1>1, <1>5, PublishWorkStep, UpdateWorkStep, ProcessWorkStep, ThrowWorkStep, TallyStep
<1> QED
  BY <1>2, <1>3, <1>4, <1>5 DEF Next

-----------------------------------------------------------------------------
(***************************************************************************)
(* What the invariant says of the poll's state.                            *)
(***************************************************************************)
\* The messages processed make, of the users' copy, the poll's state.
LEMMA ProcessedState ==
  ASSUME NEW e \in Elections, NEW s, SignedUp(s, e), NEW q, WorkInv(q, e, s), Started(q)
  PROVE  /\ q.numSignups \in Nat \ {0} /\ q.numSignups \in 0..Len(s)
         /\ Start(s, q.numSignups) \in Works(e, q.numSignups)
         /\ Coherent(Start(s, q.numSignups), s, q.numSignups)
         /\ Processed(q) \in Seq(Messages(e))
         /\ \A j \in DOMAIN Processed(q) : \E i \in DOMAIN q.messages :
              Processed(q)[j] = q.messages[i]
         /\ Applied(Start(s, q.numSignups), Processed(q), e.qv) = Work(q)
         /\ Coherent(Work(q), s, q.numSignups)
<1> DEFINE B == messageBatchSize
           n == q.numSignups
           ms == q.messages
           L == Len(ms)
           left == Left(q)
           a == left * B
           w == Start(s, n)
           f == After(w, ms, e.qv)
           part == SubSeq(ms, a + 1, L)
<1>1. /\ ms \in Seq(Messages(e)) /\ L \in Nat \ {0} /\ n \in 0..Len(s)
      /\ q.numBatchesProcessed \in 0..totalBatches(q) /\ q.numBatchesProcessed # 0 /\ n # 0
  <2>1. ms \in Seq(Messages(e)) /\ L > 0 /\ n \in 0..Len(s)
        /\ q.numBatchesProcessed \in 0..totalBatches(q)
    BY DEF WorkInv, WorkTyped
  <2>2. q.numBatchesProcessed # 0 /\ n # 0
    BY <2>1 DEF WorkInv, BeforeBatches, Started
  <2>3. L \in Nat
    BY <2>1, LenProperties
  <2> QED
    BY <2>1, <2>2, <2>3
<1>2. totalBatches(q) \in Nat \ {0}
  BY <1>1, BatchBounds
<1>3. left \in Nat /\ left < totalBatches(q)
  BY <1>1, <1>2 DEF Left
<1>4. a \in 0..L
  <2> HIDE DEF left
  <2> QED
    BY <1>1, <1>3, LeftBounds
<1>5. n \in Nat \ {0} /\ w \in Works(e, n) /\ Coherent(w, s, n)
  BY <1>1, StartTyped
<1>6. f \in [0..L -> Works(e, n)] /\ f[0] = w
  BY <1>1, <1>5, AfterDef
<1>7. Work(q) = f[L - a]
  BY DEF WorkInv, BetweenBatches
<1>8. Processed(q) = part
  BY DEF Processed, Left
<1> HIDE DEF a
<1>9. /\ part \in Seq(Messages(e)) /\ Len(part) = L - a
      /\ \A j \in 1..(L - a) : part[j] = ms[a + j]
  <2>1. \A j \in (a + 1)..L : ms[j] \in Messages(e)
    BY <1>1, <1>4, ElementOfSeq
  <2>2. /\ a + 1 \in Int /\ L \in Int /\ L - (a + 1) + 1 = L - a
        /\ \A j \in 1..(L - a) : a + 1 + j - 1 = a + j
    BY <1>1, <1>4
  <2>3. /\ part \in Seq(Messages(e)) /\ Len(part) = IF a + 1 <= L THEN L - (a + 1) + 1 ELSE 0
        /\ \A j \in 1..(L - (a + 1) + 1) : part[j] = ms[a + 1 + j - 1]
    BY <2>1, <2>2, SubSeqProperties
  <2> HIDE DEF part, L
  <2> QED
    BY <1>1, <1>4, <2>2, <2>3
<1>10. \A j \in DOMAIN part : \E i \in DOMAIN ms : part[j] = ms[i]
  <2>1. DOMAIN part = 1..(L - a) /\ DOMAIN ms = 1..L
    BY <1>1, <1>9, LenProperties
  <2>2. \A j \in 1..(L - a) : a + j \in 1..L
    BY <1>1, <1>4
  <2> HIDE DEF part, L
  <2> QED
    BY <1>9, <2>1, <2>2
<1>11. Applied(w, part, e.qv) = f[L - a]
  <2> DEFINE v == e.qv
  <2>1. ms \in Seq(Messages(e)) /\ Len(ms) \in 0..Len(ms) /\ a \in 0..Len(ms)
        /\ Len(ms) - Len(ms) = 0
    BY <1>1, <1>4
  <2>2. After(w, ms, v)[0] = w
    BY <1>6
  <2> HIDE DEF v, ms, n, w
  <2>3. Applied(After(w, ms, v)[Len(ms) - Len(ms)], SubSeq(ms, a + 1, Len(ms)), v)
          = After(w, ms, v)[Len(ms) - a]
    BY <1>5, <2>1, AfterRest
  <2>4. Applied(w, SubSeq(ms, a + 1, Len(ms)), v) = After(w, ms, v)[Len(ms) - a]
    BY <2>1, <2>2, <2>3
  <2> QED
    BY <2>4 DEF v
<1>12. Coherent(f[L - a], s, n)
  <2>1. L - a \in 0..Len(ms)
    BY <1>1, <1>4
  <2> HIDE DEF n, w
  <2> QED
    BY <1>1, <1>5, <2>1, AllCoherent
<1> QED
  BY <1>1, <1>5, <1>7, <1>8, <1>9, <1>10, <1>11, <1>12

LEMMA CoreTyped == CoreInv => TypeOK
<1> SUFFICES ASSUME CoreInv PROVE TypeOK
  OBVIOUS
<1>1. election \in Elections /\ lock.being \in BOOLEAN /\ lock.poll \in PollIds \cup {Undefined, 0}
  BY PollsDefined DEF CoreInv, LockInv
<1>2. ASSUME NEW p \in PollIds
      PROVE  LET q == poll[p]
             IN  /\ Len(q.stateLeaves) = q.numSignups
                 /\ q.numSignups > 0 => Len(q.ballots) = q.numSignups
                 /\ q.stateCopied => Len(q.ballotTree) = Len(q.ballots)
                 /\ q.numBatchesProcessed <= totalBatches(q)
                 /\ \A i \in DOMAIN q.stateLeaves : q.stateLeaves[i].voiceCreditBalance >= 0
  <2> DEFINE q == poll[p]
             n == q.numSignups
  <2>1. WorkTyped(q, election, signedUp) /\ SignedUp(signedUp, election)
    BY DEF CoreInv, WorkInv
  <2>2. n \in 0..Len(signedUp) /\ Len(signedUp) \in Nat
    BY <2>1, LenProperties DEF WorkTyped, SignedUp
  <2>3. n \in Nat /\ Size(n) \in Nat /\ (n > 0 => Size(n) = n)
    BY <2>2 DEF Size
  <2>4. /\ q.stateLeaves \in [1..n -> UserLeaf(election)]
        /\ q.ballots \in [1..Size(n) -> Ballot]
        /\ q.stateCopied => q.ballotTree \in [1..Size(n) -> Ballot]
        /\ q.numBatchesProcessed \in 0..totalBatches(q)
    BY <2>1 DEF WorkTyped
  <2>5. /\ Len(q.stateLeaves) = n /\ Len(q.ballots) = Size(n)
        /\ q.stateCopied => Len(q.ballotTree) = Size(n)
    BY <2>3, <2>4, Listed
  <2>6. \A i \in DOMAIN q.stateLeaves : q.stateLeaves[i].voiceCreditBalance \in Nat
    BY <2>4 DEF UserLeaf
  <2>7. q.numBatchesProcessed <= totalBatches(q)
    BY <2>4
  <2> HIDE DEF q, n
  <2>8. /\ Len(q.stateLeaves) = n /\ (n > 0 => Len(q.ballots) = n)
        /\ q.stateCopied => Len(q.ballotTree) = Len(q.ballots)
        /\ \A i \in DOMAIN q.stateLeaves : q.stateLeaves[i].voiceCreditBalance >= 0
    BY <2>3, <2>5, <2>6
  <2> QED
    BY <2>7, <2>8 DEF q, n
<1> QED
  BY <1>1, <1>2 DEF TypeOK

LEMMA CoreProvable == CoreInv => BatchesAreProvable
<1> SUFFICES ASSUME CoreInv, NEW p \in PollIds,
                    Started(poll[p]), ~TopupAtEnd(poll[p]), AllInTime(poll[p])
             PROVE  Committed(poll[p]) =
                      Proved(InitialState(poll[p]), Processed(poll[p]), poll[p].numSignups,
                             election.qv)
  BY DEF BatchesAreProvable
<1> DEFINE e == election
           s == signedUp
           q == poll[p]
           n == q.numSignups
           w == Start(s, n)
           ms == Processed(q)
<1>1. e \in Elections /\ SignedUp(s, e) /\ WorkInv(q, e, s)
  BY PollsDefined DEF CoreInv
<1> HIDE DEF e, s, q
<1>2. /\ n \in Nat \ {0} /\ w \in Works(e, n) /\ Coherent(w, s, n)
      /\ ms \in Seq(Messages(e))
      /\ \A j \in DOMAIN ms : \E i \in DOMAIN q.messages : ms[j] = q.messages[i]
      /\ Applied(w, ms, e.qv) = Work(q) /\ Coherent(Work(q), s, n)
  BY <1>1, ProcessedState DEF q
<1>3. \A i \in 1..n : s[i].inTime
  <2>1. DOMAIN q.stateLeaves = 1..n
    BY <1>1 DEF WorkInv, WorkTyped
  <2>2. Work(q).stateLeaves = q.stateLeaves
    BY DEF Work
  <2> QED
    BY <1>2, <2>1, <2>2 DEF Coherent, AllInTime, q
<1>4. \A j \in DOMAIN ms : ~ (ms[j].msgType = 2 /\ ms[j].stateIndex = n)
  BY <1>2 DEF TopupAtEnd, q
<1>5. Committed(w) = InitialState(q)
  BY DEF Committed, Start, InitialState, Copied, Blank, s
<1>6. Committed(Work(q)) = Committed(q)
  BY DEF Committed, Work
<1> HIDE DEF w, ms, n
<1>7. Proved(Committed(w), ms, n, e.qv) = Committed(Applied(w, ms, e.qv))
  BY <1>1, <1>2, <1>3, <1>4, ManyProved
<1> QED
  BY <1>2, <1>5, <1>6, <1>7 DEF w, ms, n, q, e

LEMMA CoreConserves == CoreInv => CreditsConserved
<1> SUFFICES ASSUME CoreInv, NEW p \in PollIds, Started(poll[p]),
                    NEW i \in DOMAIN poll[p].stateLeaves
             PROVE  poll[p].stateLeaves[i].voiceCreditBalance
                      + BallotCost(poll[p].ballots[i], election.qv)
                      = signedUp[i].voiceCreditBalance + Topups(poll[p], i)
  BY DEF CreditsConserved
<1> DEFINE e == election
           s == signedUp
           q == poll[p]
           n == q.numSignups
           w == Start(s, n)
           ms == Processed(q)
<1>1. e \in Elections /\ SignedUp(s, e) /\ WorkInv(q, e, s)
  BY PollsDefined DEF CoreInv
<1> HIDE DEF e, s, q
<1>2. /\ n \in Nat \ {0} /\ n \in 0..Len(s) /\ w \in Works(e, n)
      /\ ms \in Seq(Messages(e)) /\ Applied(w, ms, e.qv) = Work(q)
  BY <1>1, ProcessedState DEF q
<1>3. i \in 1..n
  BY <1>1 DEF WorkInv, WorkTyped, q
<1>4. Worth(Work(q), i, e.qv) = q.stateLeaves[i].voiceCreditBalance + BallotCost(q.ballots[i], e.qv)
  BY DEF Worth, Work
<1>5. Worth(w, i, e.qv) = s[i].voiceCreditBalance
  BY <1>1, <1>2, <1>3, StartTyped
<1>6. Topups(q, i) = Total([j \in DOMAIN ms |-> ToppedUp(ms[j], i)])
  BY DEF Topups
<1> HIDE DEF w, ms, n
<1>7. Worth(Applied(w, ms, e.qv), i, e.qv)
        = Worth(w, i, e.qv) + Total([j \in DOMAIN ms |-> ToppedUp(ms[j], i)])
  BY <1>1, <1>2, <1>3, ManyConserved
<1> QED
  BY <1>2, <1>4, <1>5, <1>6, <1>7 DEF q, e, s

\* The fields of the Poll objects (core/ts/Poll.ts) stay in step with each
\* other, through updatePoll, batches, tallies and reading back: as many leaves
\* as sign-ups, as many ballots, never more batches processed than there are,
\* and no user with less than no voice credit.
THEOREM CoreTypes == Spec => []TypeOK
<1> QED
  BY CoreInitially, CoreStep, CoreTyped, PTL DEF Spec

\* Whatever the batch size, the electorate and the messages: the state the
\* coordinator commits to after a batch (Poll.processMessages) is the one the
\* circuit (processMessages.circom) reaches from the users' copy over all the
\* messages of the batches processed, unless a topup names the index after the
\* last user or a user signed up late.
THEOREM CircuitFollows == Spec => []BatchesAreProvable
<1> QED
  BY CoreInitially, CoreStep, CoreProvable, PTL DEF Spec

\* Voice credits are conserved by processMessage and processTopup, however the
\* messages are cut into batches: a user's balance and the cost of the user's
\* ballot are always the credits signed up with and topped up.
THEOREM CreditsAreConserved == Spec => []CreditsConserved
<1> QED
  BY CoreInitially, CoreStep, CoreConserves, PTL DEF Spec

-----------------------------------------------------------------------------
(***************************************************************************)
(* More on sums: one after another, term by term, and of a table by rows   *)
(* or by columns.                                                          *)
(***************************************************************************)
LEMMA TotalIsInt ==
  ASSUME NEW n \in Nat, NEW f \in [1..n -> Int]
  PROVE  Total(f) \in Int
BY SumsDef

LEMMA NoTerms ==
  ASSUME NEW f \in [1..0 -> Int]
  PROVE  Total(f) = 0
BY SumsDef, 0 \in Nat

LEMMA TotalOfNat ==
  ASSUME NEW n \in Nat, NEW f \in [1..n -> Nat]
  PROVE  Total(f) \in Nat
<1> DEFINE F == Sums(f)
           S == {k \in 0..n : F[k] \in Nat}
<1>0. f \in [1..n -> Int]
  OBVIOUS
<1>1. /\ F[0] = 0
      /\ \A k \in 1..n : F[k] = F[k - 1] + f[k]
      /\ Total(f) = F[n]
  BY <1>0, SumsDef
<1> HIDE DEF F
<1>2. 0 \in S
  BY <1>1
<1>3. ASSUME NEW i \in 0..(n - 1), i \in S
      PROVE  i + 1 \in S
  <2>1. i + 1 \in 1..n /\ (i + 1) - 1 = i /\ f[i + 1] \in Nat
    OBVIOUS
  <2>2. F[i] \in Nat /\ F[i + 1] = F[i] + f[i + 1]
    BY <1>1, <1>3, <2>1
  <2> QED
    BY <2>1, <2>2
<1> HIDE DEF S
<1>4. 0..n \subseteq S
  BY <1>2, <1>3, RangeInduction
<1> QED
  BY <1>1, <1>4 DEF S

Row(f, n) == n \in Nat /\ f \in [1..n -> Int]

\* In h the n terms of f are followed by the m terms of g.
Joined(h, f, n, g, m) ==
  (\A i \in 1..n : h[i] = f[i]) /\ \A i \in 1..m : h[n + i] = g[i]

LEMMA TotalJoined ==
  ASSUME NEW f, NEW g, NEW h, NEW n, NEW m, NEW l,
         Row(f, n), Row(g, m), Row(h, l), l = n + m, Joined(h, f, n, g, m)
  PROVE  Total(h) = Total(f) + Total(g)
<1> DEFINE F == Sums(f)
           G == Sums(g)
           H == Sums(h)
           S == {k \in 0..n : H[k] = F[k]}
           T == {k \in 0..m : H[n + k] = F[n] + G[k]}
<1>0. /\ n \in Nat /\ f \in [1..n -> Int] /\ m \in Nat /\ g \in [1..m -> Int]
      /\ n + m \in Nat /\ h \in [1..(n + m) -> Int]
  BY DEF Row
<1>1. /\ F \in [0..n -> Int] /\ F[0] = 0
      /\ \A k \in 1..n : F[k] = F[k - 1] + f[k]
      /\ Total(f) = F[n]
  BY <1>0, SumsDef
<1>2. /\ G \in [0..m -> Int] /\ G[0] = 0
      /\ \A k \in 1..m : G[k] = G[k - 1] + g[k]
      /\ Total(g) = G[m]
  BY <1>0, SumsDef
<1>j. (\A i \in 1..n : h[i] = f[i]) /\ \A i \in 1..m : h[n + i] = g[i]
  BY DEF Joined
<1>4. /\ H \in [0..(n + m) -> Int] /\ H[0] = 0
      /\ \A k \in 1..(n + m) : H[k] = H[k - 1] + h[k]
      /\ Total(h) = H[n + m]
  BY <1>0, SumsDef
<1> HIDE DEF F, G, H
<1>5. 0 \in S
  BY <1>0, <1>1, <1>4
<1>6. ASSUME NEW i \in 0..(n - 1), i \in S
      PROVE  i + 1 \in S
  <2>1. i + 1 \in 1..n /\ (i + 1) - 1 = i /\ i + 1 \in 1..(n + m)
    BY <1>0
  <2>2. H[i + 1] = H[i] + h[i + 1] /\ F[i + 1] = F[i] + f[i + 1] /\ h[i + 1] = f[i + 1]
    BY <1>0, <1>1, <1>4, <1>j, <2>1
  <2> QED
    BY <1>6, <2>1, <2>2
<1> HIDE DEF S
<1>7. 0..n \subseteq S
  BY <1>5, <1>6, <1>0, RangeInduction
<1>8. H[n] = F[n] /\ F[n] \in Int
  BY <1>0, <1>1, <1>7 DEF S
<1>9. 0 \in T
  BY <1>0, <1>2, <1>8
<1>10. ASSUME NEW i \in 0..(m - 1), i \in T
       PROVE  i + 1 \in T
  <2>1. i + 1 \in 1..m /\ (i + 1) - 1 = i /\ n + (i + 1) \in 1..(n + m) /\ (n + (i + 1)) - 1 = n + i
        /\ i \in 0..m
    BY <1>0
  <2>2. H[n + (i + 1)] = H[n + i] + h[n + (i + 1)]
    BY <1>4, <2>1
  <2>3. G[i + 1] = G[i] + g[i + 1] /\ h[n + (i + 1)] = g[i + 1]
    BY <1>0, <1>2, <1>j, <2>1
  <2>4. H[n + i] = F[n] + G[i]
    BY <1>10
  <2>5. G[i] \in Int /\ g[i + 1] \in Int
    BY <1>0, <1>2, <2>1
  <2>6. H[n + (i + 1)] = F[n] + G[i + 1]
    BY <1>8, <2>2, <2>3, <2>4, <2>5
  <2> QED
    BY <2>1, <2>6
<1> HIDE DEF T
<1>11. 0..m \subseteq T
  BY <1>9, <1>10, <1>0, RangeInduction
<1> QED
  BY <1>0, <1>1, <1>2, <1>4, <1>11 DEF T

LEMMA OneTermMore ==
  ASSUME NEW k \in Nat, NEW f \in [1..k -> Int], NEW h \in [1..(k + 1) -> Int],
         \A i \in 1..k : h[i] = f[i]
  PROVE  Total(h) = Total(f) + h[k + 1]
<1> DEFINE one == [i \in 1..1 |-> h[k + 1]]
           l == 1
<1>1. one \in [1..l -> Int] /\ one[1] = h[k + 1] /\ l \in Nat /\ \A i \in 1..l : h[k + i] = one[i]
  OBVIOUS
<1> HIDE DEF one
<1>2. Total(one) = h[k + 1]
  <2>1. 1 \in 1..l /\ 1 - 1 = 0
    OBVIOUS
  <2>2. Sums(one)[0] = 0 /\ Sums(one)[1] = Sums(one)[1 - 1] + one[1] /\ Total(one) = Sums(one)[1]
    BY <1>1, <2>1, SumsDef
  <2>3. h[k + 1] \in Int
    OBVIOUS
  <2> QED
    BY <1>1, <2>1, <2>2, <2>3
<1>r. k + l \in Nat /\ h \in [1..(k + l) -> Int]
  OBVIOUS
<1>3. Joined(h, f, k, one, l)
  BY <1>1 DEF Joined
<1> HIDE DEF l
<1>4. Row(f, k) /\ Row(one, l) /\ Row(h, k + l)
  BY <1>1, <1>r DEF Row
<1>5. Total(h) = Total(f) + Total(one)
  BY <1>3, <1>4, TotalJoined
<1> QED
  BY <1>2, <1>5

LEMMA TotalAdded ==
  ASSUME NEW n \in Nat, NEW f \in [1..n -> Int], NEW g \in [1..n -> Int]
  PROVE  Total([i \in 1..n |-> f[i] + g[i]]) = Total(f) + Total(g)
<1> DEFINE h == [i \in 1..n |-> f[i] + g[i]]
           F == Sums(f)
           G == Sums(g)
           H == Sums(h)
           S == {k \in 0..n : H[k] = F[k] + G[k]}
<1>1. /\ F \in [0..n -> Int] /\ F[0] = 0
      /\ \A k \in 1..n : F[k] = F[k - 1] + f[k]
      /\ Total(f) = F[n]
  BY SumsDef
<1>2. /\ G \in [0..n -> Int] /\ G[0] = 0
      /\ \A k \in 1..n : G[k] = G[k - 1] + g[k]
      /\ Total(g) = G[n]
  BY SumsDef
<1>3. h \in [1..n -> Int] /\ \A i \in 1..n : h[i] = f[i] + g[i]
  OBVIOUS
<1> HIDE DEF h
<1>4. /\ H \in [0..n -> Int] /\ H[0] = 0
      /\ \A k \in 1..n : H[k] = H[k - 1] + h[k]
      /\ Total(h) = H[n]
  BY <1>3, SumsDef
<1> HIDE DEF F, G, H
<1>5. 0 \in S
  BY <1>1, <1>2, <1>4
<1>6. ASSUME NEW i \in 0..(n - 1), i \in S
      PROVE  i + 1 \in S
  <2>1. i + 1 \in 1..n /\ (i + 1) - 1 = i /\ i \in 0..n
    OBVIOUS
  <2>2. /\ H[i + 1] = H[i] + h[i + 1] /\ F[i + 1] = F[i] + f[i + 1] /\ G[i + 1] = G[i] + g[i + 1]
        /\ h[i + 1] = f[i + 1] + g[i + 1]
    BY <1>1, <1>2, <1>3, <1>4, <2>1
  <2>3. {F[i], G[i], f[i + 1], g[i + 1]} \subseteq Int
    BY <1>1, <1>2, <2>1
  <2>4. H[i] = F[i] + G[i]
    BY <1>6
  <2> QED
    BY <2>1, <2>2, <2>3, <2>4
<1> HIDE DEF S
<1>7. 0..n \subseteq S
  BY <1>5, <1>6, RangeInduction
<1> QED
  BY <1>1, <1>2, <1>4, <1>7 DEF S, h

\* The sum of a table by its rows is its sum by its columns.
LEMMA TotalByColumns ==
  ASSUME NEW n \in Nat, NEW m \in Nat, NEW F \in [1..n -> [1..m -> Int]]
  PROVE  Total([i \in 1..n |-> Total(F[i])])
           = Total([j \in 1..m |-> Total([i \in 1..n |-> F[i][j]])])
<1> DEFINE Rows(k) == [i \in 1..k |-> Total(F[i])]
           Column(k, j) == [i \in 1..k |-> F[i][j]]
           Columns(k) == [j \in 1..m |-> Total(Column(k, j))]
           S == {k \in 0..n : Total(Rows(k)) = Total(Columns(k))}
<1>1. \A i \in 1..n : F[i] \in [1..m -> Int] /\ Total(F[i]) \in Int
  BY TotalIsInt
<1>2. ASSUME NEW k \in 0..n
      PROVE  /\ Rows(k) \in [1..k -> Int] /\ Columns(k) \in [1..m -> Int]
             /\ \A j \in 1..m : Column(k, j) \in [1..k -> Int] /\ Columns(k)[j] = Total(Column(k, j))
  <2>1. Rows(k) \in [1..k -> Int]
    BY <1>1
  <2>2. \A j \in 1..m : Column(k, j) \in [1..k -> Int]
    BY <1>1
  <2>3. k \in Nat
    OBVIOUS
  <2>4. \A j \in 1..m : Total(Column(k, j)) \in Int
    <3> HIDE DEF Column
    <3> QED
      BY <2>2, <2>3, TotalIsInt
  <2> HIDE DEF Column
  <2> QED
    BY <2>1, <2>2, <2>4
<1>3. 0 \in S
  <2>1. 0 \in 0..n
    OBVIOUS
  <2>2. Rows(0) \in [1..0 -> Int] /\ Columns(0) \in [1..m -> Int]
    BY <1>2, <2>1
  <2>3. \A j \in 1..m : Columns(0)[j] = 0
    <3> SUFFICES ASSUME NEW j \in 1..m PROVE Columns(0)[j] = 0
      OBVIOUS
    <3>1. Column(0, j) \in [1..0 -> Int] /\ Columns(0)[j] = Total(Column(0, j))
      BY <1>2, <2>1
    <3> HIDE DEF Column, Columns
    <3> QED
      BY <3>1, NoTerms
  <2> HIDE DEF Rows, Columns
  <2>4. Total(Rows(0)) = 0 /\ Total(Columns(0)) = 0
    BY <2>2, <2>3, NoTerms, ZeroTotal
  <2> QED
    BY <2>1, <2>4
<1>4. ASSUME NEW k \in 0..(n - 1), k \in S
      PROVE  k + 1 \in S
  <2> DEFINE row == F[k + 1]
             before == Rows(k)
             after == Rows(k + 1)
             sums == Columns(k)
             more == Columns(k + 1)
  <2>1. k \in 0..n /\ k + 1 \in 0..n /\ k \in Nat /\ k + 1 \in 1..n
    OBVIOUS
  <2>2. row \in [1..m -> Int] /\ Total(row) \in Int
    BY <1>1, <2>1
  <2>3. Total(after) = Total(before) + Total(row)
    <3>1. (\A i \in 1..k : after[i] = before[i]) /\ after[k + 1] = Total(row)
      BY <2>1
    <3>2. before \in [1..k -> Int] /\ after \in [1..(k + 1) -> Int]
      BY <1>2, <2>1
    <3> HIDE DEF before, after, row
    <3> QED
      BY <2>1, <3>1, <3>2, OneTermMore
  <2>4. ASSUME NEW j \in 1..m
        PROVE  more[j] = sums[j] + row[j]
    <3> DEFINE c == Column(k, j)
               d == Column(k + 1, j)
    <3>1. (\A i \in 1..k : d[i] = c[i]) /\ d[k + 1] = row[j]
      BY <2>1
    <3>2. c \in [1..k -> Int] /\ d \in [1..(k + 1) -> Int] /\ sums[j] = Total(c) /\ more[j] = Total(d)
      BY <1>2, <2>1
    <3> HIDE DEF c, d, sums, more, row
    <3> QED
      BY <2>1, <3>1, <3>2, OneTermMore
  <2>5. sums \in [1..m -> Int] /\ more \in [1..m -> Int]
    BY <1>2, <2>1
  <2>6. Total(before) = Total(sums)
    BY <1>4
  <2> SUFFICES Total(after) = Total(more)
    BY <2>1
  <2> HIDE DEF sums, more, row, before, after
  <2>7. more = [j \in 1..m |-> sums[j] + row[j]]
    BY <2>4, <2>5
  <2>8. Total(more) = Total(sums) + Total(row)
    BY <2>2, <2>5, <2>7, TotalAdded
  <2> QED
    BY <2>3, <2>6, <2>8
<1>5. 0..n \subseteq S
  <2> HIDE DEF S
  <2> QED
    BY <1>3, <1>4, RangeInduction
<1> QED
  BY <1>5
-----------------------------------------------------------------------------
(***************************************************************************)
(* The results of a poll whose messages are all processed: the tally is    *)
(* that of the ballots counted so far, the subsidy that of the pairs       *)
(* before the next pair of batches.  While messages are left there are no  *)
(* results, or somebody began too early.                                   *)
(***************************************************************************)
ResultFields ==
  {"numBatchesTallied", "tallyResult", "perVOSpentVoiceCredits", "totalSpentVoiceCredits",
   "subsidy", "pair"}

Untallied(q) ==
  /\ q.numBatchesTallied = 0 /\ q.tallyResult = NoVotes
  /\ q.perVOSpentVoiceCredits = NoVotes /\ q.totalSpentVoiceCredits = 0
  /\ q.subsidy = NoVotes /\ q.pair = <<0, 0>>

CostOf(b, qv) == Total([i \in DOMAIN b |-> BallotCost(b[i], qv)])

Counted(q) ==
  LET n == Len(q.ballots)
      end == q.numBatchesTallied * tallyBatchSize
  IN  SubSeq(q.ballots, 1, IF end < n THEN end ELSE n)

Batched(i) == (i - 1) \div subsidyBatchSize

PairsBefore(n, r, c) ==
  {ij \in (1..n) \X (1..n) :
     ij[1] < ij[2] /\ (Batched(ij[1]) < r \/ (Batched(ij[1]) = r /\ Batched(ij[2]) < c))}

TalliedSoFar(q, qv) ==
  /\ q.tallyResult = [o \in Options |-> VotesFor(Counted(q), o)]
  /\ qv => q.perVOSpentVoiceCredits = [o \in Options |-> SquaresFor(Counted(q), o)]
  /\ q.totalSpentVoiceCredits = CostOf(Counted(q), qv)

PairedSoFar(q) ==
  /\ q.pair[1] <= q.pair[2]
  /\ q.pair[1] = q.pair[2] \/ q.pair[2] * subsidyBatchSize < Len(q.ballots)
  /\ q.subsidy =
       [o \in Options |->
          SubsidyOf(q.ballots, PairsBefore(Len(q.ballots), q.pair[1], q.pair[2]), o)]

ResultsInv(q, qv, tooEarly) ==
  /\ ResultFields \subseteq DOMAIN q
  /\ q.numBatchesTallied \in Nat /\ q.pair \in Nat \X Nat
  /\ hasUnprocessedMessages(q) /\ ~tooEarly => Untallied(q)
  /\ Started(q) /\ ~hasUnprocessedMessages(q) /\ ~tooEarly =>
       TalliedSoFar(q, qv) /\ PairedSoFar(q)

BallotList(b, n) == n \in Nat /\ b \in [1..n -> Ballot]

\* What each ballot adds to a sum.
Costs(b, qv) == [i \in DOMAIN b |-> BallotCost(b[i], qv)]
VotesOf(b, o) == [i \in DOMAIN b |-> b[i].votes[o]]
SquaresOf(b, o) == [i \in DOMAIN b |-> b[i].votes[o] * b[i].votes[o]]

LEMMA BallotSums ==
  ASSUME NEW n, NEW b, BallotList(b, n), NEW qv
  PROVE  /\ CostOf(b, qv) = Total(Costs(b, qv)) /\ Row(Costs(b, qv), n)
         /\ CostOf(b, qv) \in Int
         /\ \A i \in 1..n : Costs(b, qv)[i] = BallotCost(b[i], qv)
         /\ \A o \in Options :
              /\ VotesFor(b, o) = Total(VotesOf(b, o)) /\ Row(VotesOf(b, o), n)
              /\ SquaresFor(b, o) = Total(SquaresOf(b, o)) /\ Row(SquaresOf(b, o), n)
              /\ VotesFor(b, o) \in Int /\ SquaresFor(b, o) \in Int
              /\ \A i \in 1..n : /\ VotesOf(b, o)[i] = b[i].votes[o]
                                 /\ SquaresOf(b, o)[i] = b[i].votes[o] * b[i].votes[o]
<1>0. n \in Nat /\ b \in [1..n -> Ballot]
  BY DEF BallotList
<1>1. DOMAIN b = 1..n
  BY <1>0
<1>2. CostOf(b, qv) = Total(Costs(b, qv)) /\ Costs(b, qv) \in [1..n -> Int]
  <2>1. \A i \in 1..n : BallotCost(b[i], qv) \in Int
    BY <1>0, BallotCostIsInt
  <2> QED
    BY <1>1, <2>1 DEF CostOf, Costs
<1>3. \A o \in Options : \A i \in 1..n : b[i].votes[o] \in Nat
  BY <1>0 DEF Ballot
<1>4. \A o \in Options : VotesFor(b, o) = Total(VotesOf(b, o)) /\ VotesOf(b, o) \in [1..n -> Int]
  BY <1>1, <1>3 DEF VotesFor, VotesOf
<1>5. \A o \in Options :
        SquaresFor(b, o) = Total(SquaresOf(b, o)) /\ SquaresOf(b, o) \in [1..n -> Int]
  <2>1. \A o \in Options : \A i \in 1..n : b[i].votes[o] * b[i].votes[o] \in Int
    BY <1>3
  <2> QED
    BY <1>1, <2>1 DEF SquaresFor, SquaresOf
<1>6. /\ Total(Costs(b, qv)) \in Int
      /\ \A o \in Options : Total(VotesOf(b, o)) \in Int /\ Total(SquaresOf(b, o)) \in Int
  BY <1>2, <1>4, <1>5, <1>0, TotalIsInt
<1>7. \A i \in 1..n : /\ Costs(b, qv)[i] = BallotCost(b[i], qv)
                      /\ \A o \in Options :
                           /\ VotesOf(b, o)[i] = b[i].votes[o]
                           /\ SquaresOf(b, o)[i] = b[i].votes[o] * b[i].votes[o]
  BY <1>1 DEF Costs, VotesOf, SquaresOf
<1> QED
  BY <1>0, <1>2, <1>4, <1>5, <1>6, <1>7 DEF Row

\* The cost of ballots, summed up option by option as the tally does it.
LEMMA CostByOption ==
  ASSUME NEW n, NEW b, BallotList(b, n), NEW qv
  PROVE  CostOf(b, qv)
           = Total([o \in Options |-> IF qv THEN SquaresFor(b, o) ELSE VotesFor(b, o)])
<1> DEFINE m == maxVoteOptions
           F == [i \in 1..n |-> [o \in 1..m |-> Cost(b[i].votes[o], qv)]]
           columns == [o \in 1..m |-> Total([i \in 1..n |-> F[i][o]])]
           rows == [i \in 1..n |-> Total(F[i])]
<1>0. n \in Nat /\ b \in [1..n -> Ballot]
  BY DEF BallotList
<1>1. m \in Nat /\ Options = 1..m
  BY CoreConstants DEF Options
<1>2. \A i \in 1..n, o \in 1..m : b[i].votes[o] \in Nat /\ Cost(b[i].votes[o], qv) \in Nat
  <2> SUFFICES ASSUME NEW i \in 1..n, NEW o \in 1..m
               PROVE  b[i].votes[o] \in Nat /\ Cost(b[i].votes[o], qv) \in Nat
    OBVIOUS
  <2>1. b[i].votes[o] \in Nat
    BY <1>0, <1>1 DEF Ballot
  <2> QED
    BY <2>1, CostIsNat
<1>3. F \in [1..n -> [1..m -> Int]]
  BY <1>2
<1>4. Total(rows) = Total(columns)
  <2> HIDE DEF F, m
  <2> QED
    BY <1>0, <1>1, <1>3, TotalByColumns
<1>5. rows = Costs(b, qv)
  BY <1>0, <1>1 DEF BallotCost, Costs
<1>6. ASSUME NEW o \in 1..m
      PROVE  columns[o] = IF qv THEN SquaresFor(b, o) ELSE VotesFor(b, o)
  <2> DEFINE column == [i \in 1..n |-> F[i][o]]
  <2>1. column = IF qv THEN SquaresOf(b, o) ELSE VotesOf(b, o)
    BY <1>0 DEF Cost, SquaresOf, VotesOf
  <2>2. columns[o] = Total(column)
    OBVIOUS
  <2>3. VotesFor(b, o) = Total(VotesOf(b, o)) /\ SquaresFor(b, o) = Total(SquaresOf(b, o))
    BY <1>1, BallotSums
  <2> HIDE DEF column, columns
  <2> QED
    BY <2>1, <2>2, <2>3
<1>7. columns = [o \in Options |-> IF qv THEN SquaresFor(b, o) ELSE VotesFor(b, o)]
  BY <1>1, <1>6
<1> HIDE DEF rows, columns
<1>8. CostOf(b, qv) = Total(Costs(b, qv))
  BY BallotSums
<1> QED
  BY <1>4, <1>5, <1>7, <1>8

\* The ballots c counted after the ballots b.
LEMMA BallotsJoined ==
  ASSUME NEW k, NEW m, NEW l, l = k + m, NEW b, NEW c, NEW d,
         BallotList(b, k), BallotList(c, m), BallotList(d, l), Joined(d, b, k, c, m), NEW qv
  PROVE  /\ CostOf(d, qv) = CostOf(b, qv) + CostOf(c, qv)
         /\ \A o \in Options : /\ VotesFor(d, o) = VotesFor(b, o) + VotesFor(c, o)
                               /\ SquaresFor(d, o) = SquaresFor(b, o) + SquaresFor(c, o)
<1>1. (\A i \in 1..k : i \in 1..l) /\ \A i \in 1..m : k + i \in 1..l
  BY DEF BallotList
<1>2. CostOf(d, qv) = CostOf(b, qv) + CostOf(c, qv)
  <2>1. /\ CostOf(b, qv) = Total(Costs(b, qv)) /\ Row(Costs(b, qv), k)
        /\ \A i \in 1..k : Costs(b, qv)[i] = BallotCost(b[i], qv)
    BY BallotSums
  <2>2. /\ CostOf(c, qv) = Total(Costs(c, qv)) /\ Row(Costs(c, qv), m)
        /\ \A i \in 1..m : Costs(c, qv)[i] = BallotCost(c[i], qv)
    BY BallotSums
  <2>3. /\ CostOf(d, qv) = Total(Costs(d, qv)) /\ Row(Costs(d, qv), l)
        /\ \A i \in 1..l : Costs(d, qv)[i] = BallotCost(d[i], qv)
    BY BallotSums
  <2>4. Joined(Costs(d, qv), Costs(b, qv), k, Costs(c, qv), m)
    BY <1>1, <2>1, <2>2, <2>3 DEF Joined
  <2>5. Total(Costs(d, qv)) = Total(Costs(b, qv)) + Total(Costs(c, qv))
    BY <2>1, <2>2, <2>3, <2>4, TotalJoined
  <2> QED
    BY <2>1, <2>2, <2>3, <2>5
<1>3. ASSUME NEW o \in Options PROVE VotesFor(d, o) = VotesFor(b, o) + VotesFor(c, o)
  <2>1. /\ VotesFor(b, o) = Total(VotesOf(b, o)) /\ Row(VotesOf(b, o), k)
        /\ \A i \in 1..k : VotesOf(b, o)[i] = b[i].votes[o]
    BY BallotSums
  <2>2. /\ VotesFor(c, o) = Total(VotesOf(c, o)) /\ Row(VotesOf(c, o), m)
        /\ \A i \in 1..m : VotesOf(c, o)[i] = c[i].votes[o]
    BY BallotSums
  <2>3. /\ VotesFor(d, o) = Total(VotesOf(d, o)) /\ Row(VotesOf(d, o), l)
        /\ \A i \in 1..l : VotesOf(d, o)[i] = d[i].votes[o]
    BY BallotSums
  <2>4. Joined(VotesOf(d, o), VotesOf(b, o), k, VotesOf(c, o), m)
    BY <1>1, <2>1, <2>2, <2>3 DEF Joined
  <2>5. Total(VotesOf(d, o)) = Total(VotesOf(b, o)) + Total(VotesOf(c, o))
    BY <2>1, <2>2, <2>3, <2>4, TotalJoined
  <2> QED
    BY <2>1, <2>2, <2>3, <2>5
<1>4. ASSUME NEW o \in Options PROVE SquaresFor(d, o) = SquaresFor(b, o) + SquaresFor(c, o)
  <2>1. /\ SquaresFor(b, o) = Total(SquaresOf(b, o)) /\ Row(SquaresOf(b, o), k)
        /\ \A i \in 1..k : SquaresOf(b, o)[i] = b[i].votes[o] * b[i].votes[o]
    BY BallotSums
  <2>2. /\ SquaresFor(c, o) = Total(SquaresOf(c, o)) /\ Row(SquaresOf(c, o), m)
        /\ \A i \in 1..m : SquaresOf(c, o)[i] = c[i].votes[o] * c[i].votes[o]
    BY BallotSums
  <2>3. /\ SquaresFor(d, o) = Total(SquaresOf(d, o)) /\ Row(SquaresOf(d, o), l)
        /\ \A i \in 1..l : SquaresOf(d, o)[i] = d[i].votes[o] * d[i].votes[o]
    BY BallotSums
  <2>4. Joined(SquaresOf(d, o), SquaresOf(b, o), k, SquaresOf(c, o), m)
    BY <1>1, <2>1, <2>2, <2>3 DEF Joined
  <2>5. Total(SquaresOf(d, o)) = Total(SquaresOf(b, o)) + Total(SquaresOf(c, o))
    BY <2>1, <2>2, <2>3, <2>4, TotalJoined
  <2> QED
    BY <2>1, <2>2, <2>3, <2>5
<1> QED
  BY <1>2, <1>3, <1>4

\* The next batch of the tally goes on where the ballots counted end.
LEMMA BatchCounted ==
  ASSUME NEW q, NEW n \in Nat, q.ballots \in [1..n -> Ballot], q.numBatchesTallied \in Nat,
         hasUntalliedBallots(q), NEW r, r.ballots = q.ballots,
         r.numBatchesTallied = q.numBatchesTallied + 1
  PROVE  \E k, m, l \in Nat :
           /\ l = k + m
           /\ BallotList(Counted(q), k) /\ BallotList(TallyBatch(q), m) /\ BallotList(Counted(r), l)
           /\ Joined(Counted(r), Counted(q), k, TallyBatch(q), m)
<1> DEFINE b == q.ballots
           B == tallyBatchSize
           t == q.numBatchesTallied
           k == t * B
           end == IF k + B < n THEN k + B ELSE n
           m == end - k
<1>1. b \in Seq(Ballot) /\ Len(b) = n
  BY Listed
<1>2. B \in Nat \ {0} /\ t \in Nat
  BY CoreConstants
<1>3. k \in Nat /\ (t + 1) * B = k + B
  BY <1>2
<1>4. k < n
  BY <1>1 DEF hasUntalliedBallots
<1>5. Counted(q) = SubSeq(b, 1, k) /\ TallyBatch(q) = SubSeq(b, k + 1, end)
  BY <1>1, <1>4 DEF Counted, TallyBatch
<1>6. Counted(r) = SubSeq(b, 1, end)
  BY <1>1, <1>3 DEF Counted
<1> HIDE DEF b, B, t, k
<1>7. end \in Nat /\ m \in Nat /\ k <= end /\ end <= n /\ k + m = end
  BY <1>2, <1>3, <1>4
<1> HIDE DEF end, m
<1>8. ASSUME NEW j \in 0..n
      PROVE  SubSeq(b, 1, j) \in [1..j -> Ballot] /\ \A i \in 1..j : SubSeq(b, 1, j)[i] = b[i]
  <2>1. j \in Int /\ j - 1 + 1 = j /\ \A i \in 1..j : b[i] \in Ballot /\ 1 + i - 1 = i
    BY <1>1
  <2>2. /\ SubSeq(b, 1, j) \in Seq(Ballot) /\ Len(SubSeq(b, 1, j)) = IF 1 <= j THEN j - 1 + 1 ELSE 0
        /\ \A i \in 1..(j - 1 + 1) : SubSeq(b, 1, j)[i] = b[1 + i - 1]
    BY <2>1, SubSeqProperties
  <2>3. Len(SubSeq(b, 1, j)) = j
    BY <2>2
  <2> QED
    BY <2>1, <2>2, <2>3, LenProperties
<1>9. /\ SubSeq(b, k + 1, end) \in [1..m -> Ballot]
      /\ \A i \in 1..m : SubSeq(b, k + 1, end)[i] = b[k + i]
  <2>1. \A i \in (k + 1)..end : b[i] \in Ballot
    BY <1>1, <1>3, <1>7
  <2>2. /\ end - (k + 1) + 1 = m /\ \A i \in 1..m : k + 1 + i - 1 = k + i
        /\ k + 1 \in Int /\ end \in Int /\ (k + 1 <= end \/ m = 0)
    BY <1>3, <1>7
  <2>3. /\ SubSeq(b, k + 1, end) \in Seq(Ballot)
        /\ Len(SubSeq(b, k + 1, end)) = IF k + 1 <= end THEN end - (k + 1) + 1 ELSE 0
        /\ \A i \in 1..(end - (k + 1) + 1) : SubSeq(b, k + 1, end)[i] = b[k + 1 + i - 1]
    BY <2>1, <2>2, SubSeqProperties
  <2>4. Len(SubSeq(b, k + 1, end)) = m
    BY <1>3, <1>7, <2>2, <2>3
  <2> QED
    BY <2>2, <2>3, <2>4, LenProperties
<1>10. k \in 0..n /\ end \in 0..n
  BY <1>3, <1>4, <1>7
<1>11. (\A i \in 1..k : i \in 1..end) /\ \A i \in 1..m : k + i \in 1..end
  BY <1>3, <1>7
<1>12. /\ SubSeq(b, 1, k) \in [1..k -> Ballot] /\ SubSeq(b, 1, end) \in [1..end -> Ballot]
       /\ \A i \in 1..k : SubSeq(b, 1, end)[i] = SubSeq(b, 1, k)[i]
       /\ \A i \in 1..m : SubSeq(b, 1, end)[k + i] = SubSeq(b, k + 1, end)[i]
  BY <1>8, <1>9, <1>10, <1>11
<1>13. /\ BallotList(Counted(q), k) /\ BallotList(TallyBatch(q), m) /\ BallotList(Counted(r), end)
       /\ Joined(Counted(r), Counted(q), k, TallyBatch(q), m)
  BY <1>3, <1>5, <1>6, <1>7, <1>9, <1>12 DEF Joined, BallotList
<1> HIDE DEF Counted, TallyBatch
<1> QED
  BY <1>3, <1>7, <1>13

-----------------------------------------------------------------------------
(***************************************************************************)
(* Sums over a finite set, as MapThenSumSet computes them: the element     *)
(* chosen first, then the rest.  SumsOver(t, P, h): h has the sums of the  *)
(* terms t over all subsets of P.                                          *)
(***************************************************************************)
Pick(s) == CHOOSE x \in s : TRUE

SumsOver(t, P, h) ==
  /\ IsFiniteSet(P) /\ \A x \in P : t[x] \in Int
  /\ h \in [SUBSET P -> Int]
  /\ h[{}] = 0
  /\ \A s \in SUBSET P : s # {} => h[s] = t[Pick(s)] + h[s \ {Pick(s)}]

LEMMA Picked == ASSUME NEW s, s # {} PROVE Pick(s) \in s
BY DEF Pick

\* Subsets of a finite set, one element less at a time.
LEMMA SubsetInduction ==
  ASSUME NEW P, IsFiniteSet(P), NEW G, {} \in G,
         \A s \in SUBSET P : s # {} /\ (\A x \in s : s \ {x} \in G) => s \in G
  PROVE  SUBSET P \subseteq G
<1> DEFINE n == Cardinality(P)
           K == {k \in 0..n : \A s \in SUBSET P : Cardinality(s) = k => s \in G}
<1>1. \A s \in SUBSET P : IsFiniteSet(s) /\ Cardinality(s) \in 0..n
  BY FS_Subset, FS_CardinalityType
<1>2. n \in Nat
  BY FS_CardinalityType
<1>3. 0 \in K
  BY <1>1, <1>2, FS_EmptySet
<1>4. ASSUME NEW k \in 0..(n - 1), k \in K
      PROVE  k + 1 \in K
  <2>1. k + 1 \in 0..n
    BY <1>2
  <2>2. ASSUME NEW s \in SUBSET P, Cardinality(s) = k + 1
        PROVE  s \in G
    <3>1. s # {}
      BY <1>2, <2>2, FS_EmptySet
    <3>2. ASSUME NEW x \in s
          PROVE  s \ {x} \in G
      <4>1. Cardinality(s \ {x}) = k + 1 - 1
        BY <1>1, <2>2, FS_RemoveElement
      <4>2. k + 1 - 1 = k
        OBVIOUS
      <4> QED
        BY <1>4, <4>1, <4>2
    <3> QED
      BY <3>1, <3>2
  <2> QED
    BY <2>1, <2>2
<1> HIDE DEF K
<1>5. 0..n \subseteq K
  BY <1>2, <1>3, <1>4, RangeInduction
<1> QED
  BY <1>1, <1>5 DEF K

LEMMA SumsExist ==
  ASSUME NEW P, IsFiniteSet(P), NEW t \in [P -> Int]
  PROVE  \E h : SumsOver(t, P, h)
<1> DEFINE n == Cardinality(P)
           UpTo(h, k) ==
             \A s \in SUBSET P : Cardinality(s) <= k =>
               h[s] = IF s = {} THEN 0 ELSE t[Pick(s)] + h[s \ {Pick(s)}]
           K == {k \in 0..n : \E h \in [SUBSET P -> Int] : UpTo(h, k)}
<1>1. \A s \in SUBSET P : IsFiniteSet(s) /\ Cardinality(s) \in 0..n
  BY FS_Subset, FS_CardinalityType
<1>2. n \in Nat
  BY FS_CardinalityType
<1>3. \A s \in SUBSET P : s # {} =>
        /\ s \ {Pick(s)} \in SUBSET P /\ t[Pick(s)] \in Int
        /\ Cardinality(s \ {Pick(s)}) = Cardinality(s) - 1
  BY <1>1, Picked, FS_RemoveElement
<1>4. 0 \in K
  <2> DEFINE h == [s \in SUBSET P |-> 0]
  <2>1. UpTo(h, 0)
    BY <1>1, FS_EmptySet
  <2>2. h \in [SUBSET P -> Int] /\ 0 \in 0..n
    BY <1>2
  <2> HIDE DEF h, UpTo
  <2> QED
    BY <2>1, <2>2
<1>5. ASSUME NEW k \in 0..(n - 1), k \in K
      PROVE  k + 1 \in K
  <2>1. PICK h \in [SUBSET P -> Int] : UpTo(h, k)
    BY <1>5
  <2> DEFINE g == [s \in SUBSET P |-> IF Cardinality(s) = k + 1 THEN t[Pick(s)] + h[s \ {Pick(s)}]
                                      ELSE h[s]]
  <2>2. \A s \in SUBSET P : Cardinality(s) = k + 1 => s # {}
    <3>1. k + 1 # 0
      BY <1>2
    <3>2. Cardinality({}) = 0
      BY FS_EmptySet
    <3> QED
      BY <3>1, <3>2
  <2>3. g \in [SUBSET P -> Int]
    <3>1. ASSUME NEW s \in SUBSET P, Cardinality(s) = k + 1
          PROVE  t[Pick(s)] + h[s \ {Pick(s)}] \in Int
      <4>1. t[Pick(s)] \in Int /\ h[s \ {Pick(s)}] \in Int
        BY <1>3, <2>2, <3>1
      <4> QED
        BY <4>1
    <3>2. \A s \in SUBSET P : h[s] \in Int
      OBVIOUS
    <3> QED
      BY <3>1, <3>2
  <2>4. \A s \in SUBSET P :
          g[s] = IF Cardinality(s) = k + 1 THEN t[Pick(s)] + h[s \ {Pick(s)}] ELSE h[s]
    OBVIOUS
  <2> HIDE DEF g
  <2>5. UpTo(g, k + 1)
    <3> SUFFICES ASSUME NEW s \in SUBSET P, Cardinality(s) <= k + 1
                 PROVE  g[s] = IF s = {} THEN 0 ELSE t[Pick(s)] + g[s \ {Pick(s)}]
      OBVIOUS
    <3>1. Cardinality(s) \in Nat
      BY <1>1, <1>2
    <3>2. s # {} => s \ {Pick(s)} \in SUBSET P /\ g[s \ {Pick(s)}] = h[s \ {Pick(s)}]
      <4> SUFFICES ASSUME s # {}
                   PROVE  s \ {Pick(s)} \in SUBSET P /\ g[s \ {Pick(s)}] = h[s \ {Pick(s)}]
        OBVIOUS
      <4>1. s \ {Pick(s)} \in SUBSET P /\ Cardinality(s \ {Pick(s)}) = Cardinality(s) - 1
        BY <1>3
      <4>2. Cardinality(s \ {Pick(s)}) # k + 1
        BY <3>1, <4>1
      <4> QED
        BY <2>4, <4>1, <4>2
    <3>3. CASE Cardinality(s) = k + 1
      BY <2>2, <2>4, <3>2, <3>3
    <3>4. CASE Cardinality(s) # k + 1
      <4>1. Cardinality(s) <= k
        BY <3>1, <3>4
      <4>2. h[s] = IF s = {} THEN 0 ELSE t[Pick(s)] + h[s \ {Pick(s)}]
        BY <2>1, <4>1
      <4> QED
        BY <2>4, <3>2, <3>4, <4>2
    <3> QED
      BY <3>3, <3>4
  <2>6. k + 1 \in 0..n
    BY <1>2
  <2> HIDE DEF UpTo
  <2> QED
    BY <2>3, <2>5, <2>6
<1>6. n \in K
  <2> HIDE DEF K
  <2>1. 0..n \subseteq K
    BY <1>2, <1>4, <1>5, RangeInduction
  <2> QED
    BY <1>2, <2>1
<1>7. PICK h \in [SUBSET P -> Int] : UpTo(h, n)
  BY <1>6
<1>8. \A s \in SUBSET P : h[s] = IF s = {} THEN 0 ELSE t[Pick(s)] + h[s \ {Pick(s)}]
  <2> SUFFICES ASSUME NEW s \in SUBSET P
               PROVE  h[s] = IF s = {} THEN 0 ELSE t[Pick(s)] + h[s \ {Pick(s)}]
    OBVIOUS
  <2>1. Cardinality(s) <= n
    BY <1>1, <1>2
  <2> QED
    BY <1>7, <2>1
<1>9. SumsOver(t, P, h)
  BY <1>8 DEF SumsOver
<1> QED
  BY <1>9

\* Any element may be taken first.
LEMMA AnyFirst ==
  ASSUME NEW P, NEW t, NEW h, SumsOver(t, P, h)
  PROVE  \A s \in SUBSET P : \A x \in s : h[s] = t[x] + h[s \ {x}]
<1> DEFINE G == {s \in SUBSET P : \A x \in s : h[s] = t[x] + h[s \ {x}]}
<1>0. IsFiniteSet(P) /\ \A x \in P : t[x] \in Int
  BY DEF SumsOver
<1>1. {} \in G
  OBVIOUS
<1>2. ASSUME NEW s \in SUBSET P, s # {}, \A x \in s : s \ {x} \in G
      PROVE  s \in G
  <2> SUFFICES ASSUME NEW x \in s PROVE h[s] = t[x] + h[s \ {x}]
    OBVIOUS
  <2> DEFINE y == Pick(s)
             both == (s \ {x}) \ {y}
  <2>1. y \in s /\ h[s] = t[y] + h[s \ {y}]
    BY <1>2, Picked DEF SumsOver
  <2> HIDE DEF y
  <2>2. CASE x = y
    BY <2>1, <2>2
  <2>3. CASE x # y
    <3>1. x \in s \ {y} /\ y \in s \ {x} /\ (s \ {y}) \ {x} = both
      BY <2>1, <2>3
    <3>2. h[s \ {y}] = t[x] + h[both]
      BY <1>2, <2>1, <3>1
    <3>3. h[s \ {x}] = t[y] + h[both]
      BY <1>2, <2>1, <3>1
    <3>4. h[both] \in Int /\ t[x] \in Int /\ t[y] \in Int
      BY <2>1 DEF SumsOver
    <3> HIDE DEF both
    <3> QED
      BY <2>1, <3>2, <3>3, <3>4
  <2> QED
    BY <2>2, <2>3
<1> HIDE DEF G
<1>3. SUBSET P \subseteq G
  BY <1>0, <1>1, <1>2, SubsetInduction
<1> QED
  BY <1>3 DEF G

LEMMA DisjointSums ==
  ASSUME NEW P, NEW t, NEW h, SumsOver(t, P, h),
         NEW A \in SUBSET P, NEW B \in SUBSET P, A \cap B = {}
  PROVE  h[A \cup B] = h[A] + h[B]
<1> DEFINE G == {C \in SUBSET P : A \cap C = {} => h[A \cup C] = h[A] + h[C]}
<1>0. /\ IsFiniteSet(P) /\ \A x \in P : t[x] \in Int
      /\ \A s \in SUBSET P : h[s] \in Int
  BY DEF SumsOver
<1>1. {} \in G
  <2>1. h[A] \in Int /\ h[{}] = 0 /\ A \cup {} = A
    BY <1>0 DEF SumsOver
  <2> QED
    BY <2>1
<1>2. ASSUME NEW C \in SUBSET P, C # {}, \A x \in C : C \ {x} \in G
      PROVE  C \in G
  <2> SUFFICES ASSUME A \cap C = {} PROVE h[A \cup C] = h[A] + h[C]
    OBVIOUS
  <2>1. PICK x \in C : TRUE
    BY <1>2
  <2>2. (A \cup C) \ {x} = A \cup (C \ {x}) /\ A \cap (C \ {x}) = {} /\ x \in A \cup C
        /\ A \cup C \in SUBSET P
    BY <2>1
  <2>3. h[A \cup C] = t[x] + h[A \cup (C \ {x})]
    BY <2>2, AnyFirst
  <2>4. h[C] = t[x] + h[C \ {x}]
    BY AnyFirst
  <2>5. h[A \cup (C \ {x})] = h[A] + h[C \ {x}]
    BY <1>2, <2>2
  <2>6. h[A] \in Int /\ h[C \ {x}] \in Int /\ t[x] \in Int
    BY <1>0
  <2> QED
    BY <2>3, <2>4, <2>5, <2>6
<1> HIDE DEF G
<1>3. SUBSET P \subseteq G
  BY <1>0, <1>1, <1>2, SubsetInduction
<1> QED
  BY <1>3 DEF G

\* Sums over the subsets of a smaller set are the same.
LEMMA SumsWithin ==
  ASSUME NEW P, NEW Q \in SUBSET P, NEW t, NEW h, SumsOver(t, P, h), NEW g, SumsOver(t, Q, g)
  PROVE  g[Q] = h[Q]
<1> DEFINE G == {s \in SUBSET Q : g[s] = h[s]}
<1>0. IsFiniteSet(Q)
  BY DEF SumsOver
<1>1. {} \in G
  BY DEF SumsOver
<1>2. ASSUME NEW s \in SUBSET Q, s # {}, \A x \in s : s \ {x} \in G
      PROVE  s \in G
  <2>1. Pick(s) \in s /\ s \in SUBSET P
    BY <1>2, Picked
  <2>2. g[s] = t[Pick(s)] + g[s \ {Pick(s)}] /\ h[s] = t[Pick(s)] + h[s \ {Pick(s)}]
    BY <1>2, <2>1 DEF SumsOver
  <2> QED
    BY <1>2, <2>1, <2>2
<1> HIDE DEF G
<1>3. SUBSET Q \subseteq G
  BY <1>0, <1>1, <1>2, SubsetInduction
<1> QED
  BY <1>3 DEF G

-----------------------------------------------------------------------------
(***************************************************************************)
(* The subsidy as such a sum.                                              *)
(***************************************************************************)
\* What the pair of ballots ij adds to option o.
Term(b, o, ij) ==
  2 * coefficientCalculation(b[ij[1]], b[ij[2]]) * b[ij[1]].votes[o] * b[ij[2]].votes[o]

Terms(b, o, P) == [ij \in P |-> Term(b, o, ij)]

LEMMA SubsidyIsSum ==
  ASSUME NEW All, NEW P \in SUBSET All, NEW b, NEW o,
         NEW h, SumsOver(Terms(b, o, All), All, h)
  PROVE  SubsidyOf(b, P, o) = h[P]
<1> DEFINE t == Terms(b, o, All)
           u == Terms(b, o, P)
           sum == CHOOSE g : g = [s \in SUBSET P |->
                    IF s = {} THEN 0 ELSE Term(b, o, Pick(s)) + g[s \ {Pick(s)}]]
<1>1. SubsidyOf(b, P, o) = sum[P]
  BY DEF SubsidyOf, MapThenSumSet, MapThenFoldSet, Term, Pick
<1>2. IsFiniteSet(P) /\ u \in [P -> Int]
  BY FS_Subset DEF SumsOver, Terms
<1>3. PICK g : SumsOver(u, P, g)
  BY <1>2, SumsExist
<1>4. \A s \in SUBSET P : s # {} => /\ Pick(s) \in P /\ u[Pick(s)] = Term(b, o, Pick(s))
                                    /\ t[Pick(s)] = Term(b, o, Pick(s))
  BY Picked DEF Terms
<1> HIDE DEF t, u
<1>s. \A x \in P : t[x] \in Int
  BY DEF SumsOver, t
<1>5. SumsOver(t, P, g)
  BY <1>s, <1>3, <1>4 DEF SumsOver
<1>6. g = [s \in SUBSET P |-> IF s = {} THEN 0 ELSE Term(b, o, Pick(s)) + g[s \ {Pick(s)}]]
  BY <1>3, <1>4 DEF SumsOver
<1>7. sum = [s \in SUBSET P |-> IF s = {} THEN 0 ELSE Term(b, o, Pick(s)) + sum[s \ {Pick(s)}]]
  BY <1>6
<1> HIDE DEF sum
<1> DEFINE G == {s \in SUBSET P : sum[s] = g[s]}
<1>8. {} \in G
  BY <1>6, <1>7
<1>9. ASSUME NEW s \in SUBSET P, s # {}, \A x \in s : s \ {x} \in G
      PROVE  s \in G
  <2>1. Pick(s) \in s
    BY <1>9, Picked
  <2>2. sum[s] = Term(b, o, Pick(s)) + sum[s \ {Pick(s)}]
    BY <1>7, <1>9
  <2>3. g[s] = Term(b, o, Pick(s)) + g[s \ {Pick(s)}]
    BY <1>6, <1>9
  <2> QED
    BY <1>9, <2>1, <2>2, <2>3
<1> HIDE DEF G
<1>10. SUBSET P \subseteq G
  BY <1>2, <1>8, <1>9, SubsetInduction
<1>11. sum[P] = g[P]
  BY <1>10 DEF G
<1>12. SumsOver(t, All, h)
  BY DEF t
<1>13. g[P] = h[P]
  BY <1>5, <1>12, SumsWithin
<1> QED
  BY <1>1, <1>11, <1>13

Pairs(n) == (1..n) \X (1..n)

LEMMA TermIsInt ==
  ASSUME NEW n, NEW b, BallotList(b, n), NEW o \in Options, NEW ij \in Pairs(n)
  PROVE  Term(b, o, ij) \in Int
<1> DEFINE row == b[ij[1]]
           col == b[ij[2]]
           f == [k \in Options |-> row.votes[k] * col.votes[k]]
<1>1. row.votes \in [Options -> Nat] /\ col.votes \in [Options -> Nat]
  BY DEF BallotList, Pairs, Ballot
<1>2. coefficientCalculation(row, col) = (MM * 10^WW) \div (MM + Total(f))
  BY DEF coefficientCalculation
<1>3. Term(b, o, ij) = 2 * coefficientCalculation(row, col) * row.votes[o] * col.votes[o]
  BY DEF Term
<1> HIDE DEF row, col
<1>4. \A k \in Options : row.votes[k] * col.votes[k] \in Nat
  BY <1>1
<1>5. f \in [1..maxVoteOptions -> Nat] /\ maxVoteOptions \in Nat
  BY <1>4, CoreConstants DEF Options
<1> HIDE DEF f
<1>6. Total(f) \in Nat
  BY <1>5, TotalOfNat
<1>7. MM + Total(f) \in Nat \ {0} /\ MM \in Nat
  BY <1>6, CoreConstants
<1>8. MM * 10^WW \in Nat
  <2> DEFINE ten == 10^WW
  <2>1. ten \in Nat
    BY PowerOfTen
  <2> HIDE DEF ten
  <2>2. MM * ten \in Nat
    BY <1>7, <2>1
  <2> QED
    BY <2>2 DEF ten
<1>9. coefficientCalculation(row, col) \in Int
  BY <1>2, <1>7, <1>8, DivIsInt
<1>10. row.votes[o] \in Int /\ col.votes[o] \in Int
  BY <1>1
<1> DEFINE k == coefficientCalculation(row, col)
           v == row.votes[o]
           w == col.votes[o]
<1>11. k \in Int /\ v \in Int /\ w \in Int /\ Term(b, o, ij) = 2 * k * v * w
  BY <1>3, <1>9, <1>10
<1> HIDE DEF k, v, w
<1>12. 2 * k \in Int
  BY <1>11
<1>13. 2 * k * v \in Int
  BY <1>11, <1>12
<1> DEFINE kv == 2 * k * v
<1>14. kv \in Int /\ Term(b, o, ij) = kv * w
  BY <1>11, <1>13
<1> HIDE DEF kv
<1> QED
  BY <1>11, <1>14

\* The subsidy of no pair, and of pairs one set after another.
LEMMA SubsidySums ==
  ASSUME NEW n, NEW b, BallotList(b, n), NEW o \in Options,
         NEW A \in SUBSET Pairs(n), NEW B \in SUBSET Pairs(n), A \cap B = {}
  PROVE  /\ SubsidyOf(b, {}, o) = 0
         /\ SubsidyOf(b, A \cup B, o) = SubsidyOf(b, A, o) + SubsidyOf(b, B, o)
         /\ SubsidyOf(b, A, o) \in Int
<1> DEFINE All == Pairs(n)
           t == Terms(b, o, All)
<1>1. IsFiniteSet(All)
  <2>1. n \in Nat /\ 1 \in Int
    BY DEF BallotList
  <2>2. IsFiniteSet(1..n)
    BY <2>1, FS_Interval
  <2> QED
    BY <2>2, FS_Product DEF Pairs
<1>2. t \in [All -> Int]
  BY TermIsInt DEF Terms
<1>3. PICK h : SumsOver(t, All, h)
  <2> HIDE DEF t, All
  <2> QED
    BY <1>1, <1>2, SumsExist
<1>4. A \in SUBSET All /\ B \in SUBSET All /\ A \cup B \in SUBSET All /\ {} \in SUBSET All
  OBVIOUS
<1> HIDE DEF All
<1>5. ASSUME NEW P \in SUBSET All PROVE SubsidyOf(b, P, o) = h[P]
  BY <1>3, SubsidyIsSum
<1> HIDE DEF t
<1>6. h[A \cup B] = h[A] + h[B]
  BY <1>3, <1>4, DisjointSums
<1>7. h[{}] = 0 /\ h[A] \in Int
  BY <1>3, <1>4 DEF SumsOver
<1> QED
  BY <1>4, <1>5, <1>6, <1>7

-----------------------------------------------------------------------------
(***************************************************************************)
(* The walk over pairs of batches.                                         *)
(***************************************************************************)
LEMMA BatchOfBallot ==
  ASSUME NEW i \in Nat \ {0}
  PROVE  /\ Batched(i) \in Nat
         /\ Batched(i) * subsidyBatchSize <= i - 1
         /\ i - 1 < (Batched(i) + 1) * subsidyBatchSize
         /\ subsidyBatchSize \in Nat \ {0}
<1> DEFINE B == subsidyBatchSize
           x == i - 1
           d == x \div B
           r == x % B
<1>1. B \in Nat \ {0} /\ x \in Nat
  BY CoreConstants DEF subsidyBatchSize
<1>2. Batched(i) = d
  BY DEF Batched
<1> HIDE DEF B, x
<1>3. d \in Nat /\ r \in 0..(B - 1) /\ x = B * d + r
  BY <1>1
<1> HIDE DEF d, r
<1>4. d * B = B * d /\ (d + 1) * B = d * B + B /\ d * B \in Nat
  BY <1>1, <1>3
<1>5. d * B <= x /\ x < (d + 1) * B
  BY <1>1, <1>3, <1>4
<1> QED
  BY <1>1, <1>2, <1>3, <1>5 DEF x, B

LEMMA TimesMonotone ==
  ASSUME NEW x \in Nat, NEW y \in Nat, NEW b \in Nat, x <= y
  PROVE  x * b <= y * b
<1>1. y = x + (y - x) /\ y - x \in Nat
  OBVIOUS
<1>2. y * b = x * b + (y - x) * b
  BY <1>1
<1>3. (y - x) * b \in Nat /\ x * b \in Nat
  BY <1>1
<1> QED
  BY <1>2, <1>3

\* A ballot's batch is before c exactly if the ballot is.
LEMMA BatchBefore ==
  ASSUME NEW i \in Nat \ {0}, NEW c \in Nat
  PROVE  Batched(i) < c <=> i <= c * subsidyBatchSize
<1> DEFINE B == subsidyBatchSize
           d == Batched(i)
<1>1. d \in Nat /\ d * B <= i - 1 /\ i - 1 < (d + 1) * B /\ B \in Nat \ {0}
  BY BatchOfBallot
<1> HIDE DEF B, d
<1>2. c * B \in Nat /\ d * B \in Nat /\ (d + 1) * B \in Nat
  BY <1>1
<1>3. CASE d < c
  <2>1. d + 1 \in Nat /\ d + 1 <= c
    BY <1>1, <1>3
  <2>2. (d + 1) * B <= c * B
    BY <1>1, <2>1, TimesMonotone
  <2> QED
    BY <1>1, <1>2, <1>3, <2>2 DEF B, d
<1>4. CASE ~ (d < c)
  <2>1. c <= d
    BY <1>1, <1>4
  <2>2. c * B <= d * B
    BY <1>1, <2>1, TimesMonotone
  <2>3. ~ (i <= c * B)
    BY <1>1, <1>2, <2>2
  <2> QED
    BY <1>4, <2>3 DEF B, d
<1> QED
  BY <1>3, <1>4

LEMMA BatchesOrdered ==
  ASSUME NEW i \in Nat \ {0}, NEW j \in Nat \ {0}
  PROVE  /\ i < j => Batched(i) <= Batched(j)
         /\ Batched(i) < Batched(j) => i < j
<1>1. Batched(i) \in Nat /\ Batched(j) \in Nat
  BY BatchOfBallot
<1>2. ASSUME i < j PROVE Batched(i) <= Batched(j)
  <2>1. Batched(j) < Batched(j) + 1 /\ Batched(j) + 1 \in Nat
    BY <1>1
  <2> DEFINE x == (Batched(j) + 1) * subsidyBatchSize
  <2>2. j <= x
    BY <2>1, BatchBefore
  <2>3. x \in Nat
    BY <2>1, BatchOfBallot
  <2>4. i <= x
    <3> HIDE DEF x
    <3> QED
      BY <1>2, <2>2, <2>3
  <2>5. Batched(i) < Batched(j) + 1
    BY <2>1, <2>4, BatchBefore
  <2> QED
    BY <1>1, <2>5
<1>3. ASSUME Batched(i) < Batched(j) PROVE i < j
  <2> DEFINE x == Batched(j) * subsidyBatchSize
  <2>1. i <= x
    BY <1>1, <1>3, BatchBefore
  <2>2. ~ (j <= x)
    BY <1>1, BatchBefore
  <2>3. x \in Nat
    BY <1>1, BatchOfBallot
  <2> HIDE DEF x
  <2> QED
    BY <2>1, <2>2, <2>3
<1> QED
  BY <1>2, <1>3

LEMMA NoPairs == ASSUME NEW n \in Nat PROVE PairsBefore(n, 0, 0) = {}
<1>1. \A i \in 1..n : i \in Nat \ {0}
  OBVIOUS
<1>2. \A i \in 1..n : Batched(i) \in Nat
  BY <1>1, BatchOfBallot
<1>3. ASSUME NEW ij \in (1..n) \X (1..n)
      PROVE  ~ (Batched(ij[1]) < 0) /\ ~ (Batched(ij[2]) < 0)
  BY <1>2
<1> QED
  BY <1>3 DEF PairsBefore

\* At the end of the walk all pairs are behind it.
LEMMA AllPairs ==
  ASSUME NEW n \in Nat, NEW r \in Nat, NEW c \in Nat, r <= c,
         r = c \/ c * subsidyBatchSize < n,
         ~ (r * subsidyBatchSize < n /\ c * subsidyBatchSize < n)
  PROVE  PairsBefore(n, r, c) = {ij \in (1..n) \X (1..n) : ij[1] < ij[2]}
<1> DEFINE B == subsidyBatchSize
<1>1. B \in Nat
  BY CoreConstants DEF subsidyBatchSize
<1>2. r * B \in Nat /\ c * B \in Nat /\ r * B <= c * B
  BY <1>1, TimesMonotone
<1> DEFINE x == r * B
           y == c * B
<1>3. x \in Nat /\ y \in Nat /\ x <= y /\ (r = c => x = y)
      /\ (r = c \/ y < n) /\ ~ (x < n /\ y < n)
  BY <1>2
<1> HIDE DEF x, y
<1>4. n <= x
  BY <1>3
<1>5. ASSUME NEW i \in 1..n PROVE Batched(i) < r
  <2>1. i \in Nat \ {0} /\ i <= x
    BY <1>3, <1>4
  <2> QED
    BY <2>1, BatchBefore DEF x
<1> QED
  BY <1>5 DEF PairsBefore

IsPair(x, r, c) == x = <<r, c>> /\ r \in Nat /\ c \in Nat

\* The walk is at row r and column c of a poll of n ballots.
WalkAt(n, r, c) == /\ r \in Nat /\ c \in Nat /\ r <= c
                   /\ r = c \/ c * subsidyBatchSize < n
Parted(C, A, B, n) == /\ A \in SUBSET Pairs(n) /\ B \in SUBSET Pairs(n)
                      /\ A \cap B = {} /\ C = A \cup B

LEMMA PairsWalk ==
  ASSUME NEW q, NEW n, BallotList(q.ballots, n), NEW r, NEW c, IsPair(q.pair, r, c), r <= c,
         hasUnfinishedSubsidyCalculation(q),
         NEW rr, NEW cc, IsPair(increaseSubsidyIndex(q), rr, cc)
  PROVE  /\ WalkAt(n, rr, cc)
         /\ Parted(PairsBefore(n, rr, cc), PairsBefore(n, r, c), BallotPairs(q), n)
<1> DEFINE B == subsidyBatchSize
           Next1 == (c + 1) * B < n
<1>0. /\ q.pair = <<r, c>> /\ r \in Nat /\ c \in Nat
      /\ increaseSubsidyIndex(q) = <<rr, cc>>
  BY DEF IsPair
<1>1. /\ n \in Nat /\ DOMAIN q.ballots = 1..n /\ Len(q.ballots) = n
      /\ B \in Nat \ {0}
  BY Listed, CoreConstants DEF BallotList, subsidyBatchSize
<1>2. /\ Next1 => rr = r /\ cc = c + 1
      /\ ~Next1 => rr = r + 1 /\ cc = r + 1
  <2>1. increaseSubsidyIndex(q) = IF Next1 THEN <<r, c + 1>> ELSE <<r + 1, r + 1>>
    BY <1>0, <1>1 DEF increaseSubsidyIndex
  <2> HIDE DEF Next1
  <2> QED
    BY <1>0, <2>1
<1>3. /\ rr \in Nat /\ cc \in Nat /\ rr <= cc
      /\ rr = cc \/ cc * B < n
  <2>1. CASE Next1
    <3>1. cc * B < n
      BY <1>2, <2>1
    <3> QED
      BY <1>0, <1>2, <2>1, <3>1
  <2>2. CASE ~Next1
    BY <1>0, <1>2, <2>2
  <2> QED
    BY <2>1, <2>2
<1>4. ASSUME NEW i \in 1..n
      PROVE  i \in Nat \ {0} /\ Batched(i) \in Nat /\ (~Next1 => Batched(i) < c + 1)
  <2>1. i \in Nat \ {0} /\ c + 1 \in Nat
    BY <1>0, <1>1
  <2>2. ~Next1 => i <= (c + 1) * B
    <3> DEFINE x == (c + 1) * B
    <3>1. x \in Nat
      BY <1>0, <1>1
    <3>2. Next1 <=> x < n
      OBVIOUS
    <3> HIDE DEF x, Next1
    <3>3. ~Next1 => i <= x
      BY <1>1, <3>1, <3>2
    <3> QED
      BY <3>3 DEF x
  <2> HIDE DEF Next1
  <2> QED
    BY <2>1, <2>2, BatchOfBallot, BatchBefore
<1>5. \A i, j \in 1..n : /\ i < j => Batched(i) <= Batched(j)
                         /\ Batched(i) < Batched(j) => i < j
  BY <1>4, BatchesOrdered
<1>6. BallotPairs(q) = {ij \in (1..n) \X (1..n) :
                          /\ Batched(ij[1]) = r /\ Batched(ij[2]) = c
                          /\ r # c \/ ij[1] < ij[2]}
  BY <1>0, <1>1 DEF BallotPairs, Batched
<1> DEFINE Old(i, j) == i < j /\ (Batched(i) < r \/ (Batched(i) = r /\ Batched(j) < c))
           Now(i, j) == Batched(i) = r /\ Batched(j) = c /\ (r # c \/ i < j)
           New(i, j) == i < j /\ (Batched(i) < rr \/ (Batched(i) = rr /\ Batched(j) < cc))
<1>7. ASSUME NEW i \in 1..n, NEW j \in 1..n
      PROVE  (New(i, j) <=> Old(i, j) \/ Now(i, j)) /\ ~ (Old(i, j) /\ Now(i, j))
  <2> DEFINE bi == Batched(i)
             bj == Batched(j)
  <2>1. /\ bi \in Nat /\ bj \in Nat /\ i \in Nat /\ j \in Nat
        /\ i < j => bi <= bj
        /\ bi < bj => i < j
        /\ ~Next1 => bj < c + 1 /\ bi < c + 1
    BY <1>4, <1>5
  <2> HIDE DEF bi, bj, Next1
  <2>2. ~ (Old(i, j) /\ Now(i, j))
    BY <1>0, <2>1 DEF bi, bj
  <2>3. CASE Next1
    <3>1. New(i, j) <=> i < j /\ (bi < r \/ (bi = r /\ bj < c + 1))
      BY <1>2, <2>3 DEF bi, bj
    <3>2. Old(i, j) \/ Now(i, j) <=> \/ i < j /\ (bi < r \/ (bi = r /\ bj < c))
                                     \/ bi = r /\ bj = c /\ (r # c \/ i < j)
      BY DEF bi, bj
    <3>3. (bi = r /\ bj = c /\ r # c) => i < j
      BY <2>1
    <3> HIDE DEF Old, Now, New
    <3> QED
      BY <1>0, <2>1, <2>2, <3>1, <3>2, <3>3
  <2>4. CASE ~Next1
    <3>1. New(i, j) <=> i < j /\ (bi < r + 1 \/ (bi = r + 1 /\ bj < r + 1))
      BY <1>2, <2>4 DEF bi, bj
    <3>2. Old(i, j) \/ Now(i, j) <=> \/ i < j /\ (bi < r \/ (bi = r /\ bj < c))
                                     \/ bi = r /\ bj = c /\ (r # c \/ i < j)
      BY DEF bi, bj
    <3>3. (bi = r /\ bj = c /\ r # c) => i < j
      BY <2>1
    <3> HIDE DEF Old, Now, New
    <3> QED
      BY <1>0, <2>1, <2>2, <2>4, <3>1, <3>2, <3>3
  <2> QED
    BY <2>2, <2>3, <2>4
<1>8. /\ PairsBefore(n, r, c) = {ij \in (1..n) \X (1..n) : Old(ij[1], ij[2])}
      /\ PairsBefore(n, rr, cc) = {ij \in (1..n) \X (1..n) : New(ij[1], ij[2])}
      /\ BallotPairs(q) = {ij \in (1..n) \X (1..n) : Now(ij[1], ij[2])}
  BY <1>6 DEF PairsBefore
<1> HIDE DEF Old, New, Now
<1>9. PairsBefore(n, r, c) \cap BallotPairs(q) = {}
  BY <1>7, <1>8
<1>10. PairsBefore(n, rr, cc) = PairsBefore(n, r, c) \cup BallotPairs(q)
  BY <1>7, <1>8
<1>11. BallotPairs(q) \in SUBSET Pairs(n) /\ PairsBefore(n, r, c) \in SUBSET Pairs(n)
  BY <1>8 DEF Pairs
<1> QED
  BY <1>3, <1>9, <1>10, <1>11 DEF WalkAt, Parted

-----------------------------------------------------------------------------
(***************************************************************************)
(* The results after one more batch of ballots, after one more pair of     *)
(* batches, and before there are any.                                      *)
(***************************************************************************)
LEMMA TalliedOn ==
  ASSUME NEW q, NEW r, NEW qv, NEW n, BallotList(q.ballots, n), q.numBatchesTallied \in Nat,
         hasUntalliedBallots(q), TalliedSoFar(q, qv),
         r.ballots = q.ballots, r.numBatchesTallied = q.numBatchesTallied + 1,
         r.tallyResult = [o \in Options |-> q.tallyResult[o] + VotesFor(TallyBatch(q), o)],
         qv => r.perVOSpentVoiceCredits =
                 [o \in Options |-> q.perVOSpentVoiceCredits[o] + SquaresFor(TallyBatch(q), o)],
         r.totalSpentVoiceCredits = q.totalSpentVoiceCredits +
           Total([o \in Options |-> IF qv THEN SquaresFor(TallyBatch(q), o)
                                    ELSE VotesFor(TallyBatch(q), o)])
  PROVE  TalliedSoFar(r, qv)
<1>1. n \in Nat /\ q.ballots \in [1..n -> Ballot]
  BY DEF BallotList
<1>2. PICK k, m, l \in Nat :
        /\ l = k + m
        /\ BallotList(Counted(q), k) /\ BallotList(TallyBatch(q), m) /\ BallotList(Counted(r), l)
        /\ Joined(Counted(r), Counted(q), k, TallyBatch(q), m)
  BY <1>1, BatchCounted
<1>3. /\ CostOf(Counted(r), qv) = CostOf(Counted(q), qv) + CostOf(TallyBatch(q), qv)
      /\ \A o \in Options :
           /\ VotesFor(Counted(r), o) = VotesFor(Counted(q), o) + VotesFor(TallyBatch(q), o)
           /\ SquaresFor(Counted(r), o) = SquaresFor(Counted(q), o) + SquaresFor(TallyBatch(q), o)
  BY <1>2, BallotsJoined
<1>4. CostOf(TallyBatch(q), qv)
        = Total([o \in Options |-> IF qv THEN SquaresFor(TallyBatch(q), o)
                                   ELSE VotesFor(TallyBatch(q), o)])
  BY <1>2, CostByOption
<1>5. r.totalSpentVoiceCredits = CostOf(Counted(r), qv)
  BY <1>3, <1>4 DEF TalliedSoFar
<1>6. r.tallyResult = [o \in Options |-> VotesFor(Counted(r), o)]
  BY <1>3 DEF TalliedSoFar
<1>7. qv => r.perVOSpentVoiceCredits = [o \in Options |-> SquaresFor(Counted(r), o)]
  BY <1>3 DEF TalliedSoFar
<1> QED
  BY <1>5, <1>6, <1>7 DEF TalliedSoFar

LEMMA NextPair ==
  ASSUME NEW q, q.pair \in Nat \X Nat
  PROVE  \E rr, cc : IsPair(increaseSubsidyIndex(q), rr, cc)
<1>1. q.pair[1] \in Nat /\ q.pair[2] \in Nat
  OBVIOUS
<1>2. q.pair[1] + 1 \in Nat /\ q.pair[2] + 1 \in Nat
  BY <1>1
<1> QED
  BY <1>1, <1>2 DEF increaseSubsidyIndex, IsPair

LEMMA SubsidyOfParts ==
  ASSUME NEW n, NEW b, BallotList(b, n), NEW A, NEW B, NEW C, Parted(C, A, B, n)
  PROVE  \A o \in Options : SubsidyOf(b, C, o) = SubsidyOf(b, A, o) + SubsidyOf(b, B, o)
<1>1. A \in SUBSET Pairs(n) /\ B \in SUBSET Pairs(n) /\ A \cap B = {} /\ C = A \cup B
  BY DEF Parted
<1>2. TAKE o \in Options
<1> QED
  BY <1>1, SubsidySums

LEMMA PairedOn ==
  ASSUME NEW q, NEW r, NEW n, BallotList(q.ballots, n), q.pair \in Nat \X Nat,
         hasUnfinishedSubsidyCalculation(q), PairedSoFar(q),
         r.ballots = q.ballots, r.pair = increaseSubsidyIndex(q),
         r.subsidy =
           [o \in Options |-> q.subsidy[o] + SubsidyOf(q.ballots, BallotPairs(q), o)]
  PROVE  PairedSoFar(r)
<1>1. Len(q.ballots) = n
  BY Listed DEF BallotList
<1>2. \E row, col : IsPair(q.pair, row, col)
  BY DEF IsPair
<1>3. PICK row, col : IsPair(q.pair, row, col)
  BY <1>2
<1>4. PICK rr, cc : IsPair(increaseSubsidyIndex(q), rr, cc)
  BY NextPair
<1>5. q.pair[1] = row /\ q.pair[2] = col /\ r.pair[1] = rr /\ r.pair[2] = cc
  BY <1>3, <1>4 DEF IsPair
<1>6. row <= col
  BY <1>5 DEF PairedSoFar
<1>7. /\ WalkAt(n, rr, cc)
      /\ Parted(PairsBefore(n, rr, cc), PairsBefore(n, row, col), BallotPairs(q), n)
  BY <1>3, <1>4, <1>6, PairsWalk
<1>8. \A o \in Options :
        SubsidyOf(q.ballots, PairsBefore(n, rr, cc), o)
          = SubsidyOf(q.ballots, PairsBefore(n, row, col), o)
            + SubsidyOf(q.ballots, BallotPairs(q), o)
  BY <1>7, SubsidyOfParts
<1>9. q.subsidy = [o \in Options |-> SubsidyOf(q.ballots, PairsBefore(n, row, col), o)]
  BY <1>1, <1>5 DEF PairedSoFar
<1>10. r.subsidy = [o \in Options |-> SubsidyOf(r.ballots, PairsBefore(n, rr, cc), o)]
  BY <1>8, <1>9
<1>11. rr <= cc /\ (rr = cc \/ cc * subsidyBatchSize < n)
  BY <1>7 DEF WalkAt
<1> QED
  BY <1>1, <1>5, <1>10, <1>11 DEF PairedSoFar

LEMMA EmptySums ==
  ASSUME NEW b, BallotList(b, 0), NEW qv
  PROVE  /\ CostOf(b, qv) = 0
         /\ \A o \in Options : VotesFor(b, o) = 0 /\ SquaresFor(b, o) = 0
<1>1. \A f : Row(f, 0) => Total(f) = 0
  BY NoTerms DEF Row
<1> QED
  BY <1>1, BallotSums

LEMMA UntalliedSums ==
  ASSUME NEW q, NEW n, BallotList(q.ballots, n), Untallied(q), NEW qv
  PROVE  TalliedSoFar(q, qv) /\ PairedSoFar(q)
<1>1. n \in Nat /\ Len(q.ballots) = n
  BY Listed DEF BallotList
<1>2. BallotList(Counted(q), 0)
  <2>1. 0 * tallyBatchSize = 0
    BY CoreConstants
  <2>2. Counted(q) = SubSeq(q.ballots, 1, 0)
    BY <1>1, <2>1 DEF Counted, Untallied
  <2>3. SubSeq(q.ballots, 1, 0) = << >>
    BY SubSeqEmpty
  <2> QED
    BY <2>2, <2>3 DEF BallotList
<1>3. /\ CostOf(Counted(q), qv) = 0
      /\ \A o \in Options : VotesFor(Counted(q), o) = 0 /\ SquaresFor(Counted(q), o) = 0
  BY <1>2, EmptySums
<1>4. TalliedSoFar(q, qv)
  BY <1>3 DEF TalliedSoFar, Untallied, NoVotes
<1>5. q.pair[1] = 0 /\ q.pair[2] = 0 /\ PairsBefore(n, 0, 0) = {}
  BY <1>1, NoPairs DEF Untallied
<1>6. \A o \in Options : SubsidyOf(q.ballots, {}, o) = 0
  <2>1. {} \in SUBSET Pairs(n) /\ {} \cap {} = {}
    OBVIOUS
  <2> QED
    BY <2>1, SubsidySums
<1>7. PairedSoFar(q)
  <2> DEFINE P == PairsBefore(Len(q.ballots), q.pair[1], q.pair[2])
  <2>1. P = {}
    BY <1>1, <1>5
  <2> HIDE DEF P
  <2>2. \A o \in Options : SubsidyOf(q.ballots, P, o) = 0
    BY <1>6, <2>1
  <2>3. q.subsidy = [o \in Options |-> SubsidyOf(q.ballots, P, o)]
    BY <2>2 DEF Untallied, NoVotes
  <2>4. q.pair[1] <= q.pair[2] /\ q.pair[1] = q.pair[2]
    BY <1>5
  <2> QED
    BY <2>3, <2>4 DEF PairedSoFar, P
<1> QED
  BY <1>4, <1>7

-----------------------------------------------------------------------------
(***************************************************************************)
(* The steps.                                                              *)
(***************************************************************************)
SameResults(q, r) ==
  /\ ResultFields \subseteq DOMAIN r
  /\ \A f \in ResultFields : r[f] = q[f]

LEMMA SameUntallied ==
  ASSUME NEW q, NEW r, SameResults(q, r), Untallied(q)
  PROVE  Untallied(r)
BY DEF SameResults, ResultFields, Untallied

\* Whatever is done to a poll with messages left, but to its results.
LEMMA NoResultsYet ==
  ASSUME NEW q, NEW r, NEW qv, NEW tooEarly, ResultsInv(q, qv, tooEarly),
         hasUnprocessedMessages(q), SameResults(q, r), NEW n, BallotList(r.ballots, n)
  PROVE  ResultsInv(r, qv, tooEarly)
<1>1. ~tooEarly => Untallied(r)
  BY SameUntallied DEF ResultsInv
<1>2. ~tooEarly => TalliedSoFar(r, qv) /\ PairedSoFar(r)
  BY <1>1, UntalliedSums
<1>3. ResultFields \subseteq DOMAIN r /\ r.numBatchesTallied \in Nat /\ r.pair \in Nat \X Nat
  BY DEF ResultsInv, SameResults, ResultFields
<1> QED
  BY <1>1, <1>2, <1>3 DEF ResultsInv

LEMMA Later ==
  ASSUME NEW q, NEW qv, NEW before, NEW after, ResultsInv(q, qv, before), ~after => ~before
  PROVE  ResultsInv(q, qv, after)
BY DEF ResultsInv

LEMMA BallotsOf ==
  ASSUME NEW q, NEW e, NEW s, WorkInv(q, e, s), SignedUp(s, e)
  PROVE  /\ Size(q.numSignups) \in Nat \ {0} /\ BallotList(q.ballots, Size(q.numSignups))
         /\ totalBatches(q) \in Nat \ {0} /\ q.numBatchesProcessed \in 0..totalBatches(q)
         /\ q.numSignups # 0 => Size(q.numSignups) = q.numSignups
<1>1. /\ q.numSignups \in 0..Len(s) /\ q.ballots \in [1..Size(q.numSignups) -> Ballot]
      /\ q.messages \in Seq(Messages(e)) /\ Len(q.messages) > 0
      /\ q.numBatchesProcessed \in 0..totalBatches(q)
  BY DEF WorkInv, WorkTyped
<1>2. Len(s) \in Nat /\ Len(q.messages) \in Nat \ {0}
  BY <1>1, LenProperties DEF SignedUp
<1>3. totalBatches(q) \in Nat \ {0}
  BY <1>2, BatchBounds
<1>4. Size(q.numSignups) \in Nat \ {0} /\ (q.numSignups # 0 => Size(q.numSignups) = q.numSignups)
  BY <1>1, <1>2 DEF Size
<1> QED
  BY <1>1, <1>3, <1>4 DEF BallotList

\* No batch is processed before updatePoll, and then messages are left.
LEMMA NoneProcessed ==
  ASSUME NEW q, NEW e, NEW s, WorkInv(q, e, s), SignedUp(s, e),
         ~q.stateCopied \/ q.numBatchesProcessed = 0
  PROVE  hasUnprocessedMessages(q)
<1>1. q.numBatchesProcessed = 0
  BY DEF WorkInv, BeforeBatches
<1>2. totalBatches(q) \in Nat \ {0}
  BY BallotsOf
<1> QED
  BY <1>1, <1>2 DEF hasUnprocessedMessages

AllResults == \A p \in PollIds : ResultsInv(poll[p], election.qv, early)

LEMMA OneResultChanged ==
  ASSUME AllResults, UNCHANGED election, ~early' => ~early, NEW p \in PollIds,
         \A r \in PollIds \ {p} : poll'[r] = poll[r],
         ResultsInv(poll'[p], election.qv, early')
  PROVE  AllResults'
<1>1. ASSUME NEW r \in PollIds PROVE ResultsInv(poll'[r], election.qv, early')
  <2>1. CASE r = p
    BY <2>1
  <2>2. CASE r # p
    BY <2>2, Later DEF AllResults
  <2> QED
    BY <2>1, <2>2
<1> QED
  BY <1>1 DEF AllResults, PollIds

LEMMA PollAfter ==
  ASSUME CoreInv', UNCHANGED election, NEW p \in PollIds
  PROVE  BallotList(poll'[p].ballots, Size(poll'[p].numSignups))
<1>1. WorkInv(poll'[p], election', signedUp') /\ SignedUp(signedUp', election')
  BY DEF CoreInv, PollIds
<1> QED
  BY <1>1, BallotsOf

\* What leaves the results of a poll alone while messages are left.
LEMMA QuietResults ==
  ASSUME AllResults, CoreInv', UNCHANGED <<election, early>>, NEW p \in PollIds,
         hasUnprocessedMessages(poll[p]), SameResults(poll[p], poll'[p]),
         \A r \in PollIds \ {p} : poll'[r] = poll[r]
  PROVE  AllResults'
<1>1. ResultsInv(poll[p], election.qv, early)
  BY DEF AllResults
<1>2. ResultsInv(poll'[p], election.qv, early')
  BY <1>1, PollAfter, NoResultsYet
<1> QED
  BY <1>2, OneResultChanged

LEMMA MessageResults ==
  ASSUME CoreInv, AllResults, CoreInv', NEW p \in PollIds,
         \/ publishMessage(p)
         \/ \E n \in DOMAIN signedUp : updatePoll(p, n)
         \/ processMessages(p)
         \/ processMessagesThrows(p)
  PROVE  AllResults'
<1>1. DOMAIN poll = PollIds /\ WorkFields \subseteq DOMAIN poll[p]
      /\ WorkInv(poll[p], election, signedUp) /\ SignedUp(signedUp, election)
      /\ ResultFields \subseteq DOMAIN poll[p]
  BY PollsDefined DEF CoreInv, AllResults, ResultsInv
<1>2. /\ UNCHANGED <<election, early>> /\ SameResults(poll[p], poll'[p])
      /\ \A r \in PollIds \ {p} : poll'[r] = poll[r]
  <2>1. CASE publishMessage(p)
    BY <1>1, <2>1 DEF publishMessage, SameResults, ResultFields, WorkFields
  <2>2. ASSUME NEW n \in DOMAIN signedUp, updatePoll(p, n)
        PROVE  /\ UNCHANGED <<election, early>> /\ SameResults(poll[p], poll'[p])
               /\ \A r \in PollIds \ {p} : poll'[r] = poll[r]
    BY <1>1, <2>2 DEF updatePoll, Updated, SameResults, ResultFields, WorkFields
  <2>3. CASE processMessages(p)
    <3>1. PICK after : poll' = [poll EXCEPT
            ![p].stateLeaves = after.stateLeaves,
            ![p].ballots = after.ballots,
            ![p].ballotTree = after.ballotTree,
            ![p].numBatchesProcessed = @ + 1,
            ![p].currentMessageBatchIndex = NextIndex(poll[p]),
            ![p].salted = @ \cup {IndexOf(poll[p]), NextIndex(poll[p])}]
      BY <2>3 DEF processMessages
    <3>2. UNCHANGED <<election, early>>
      BY <2>3 DEF processMessages
    <3> QED
      BY <1>1, <3>1, <3>2 DEF SameResults, ResultFields, WorkFields
  <2>4. CASE processMessagesThrows(p)
    BY <1>1, <2>4 DEF processMessagesThrows, SameResults, ResultFields, WorkFields
  <2> QED
    BY <2>1, <2>2, <2>3, <2>4
<1>3. hasUnprocessedMessages(poll[p])
  <2>1. CASE publishMessage(p)
    BY <1>1, <2>1, NoneProcessed DEF publishMessage
  <2>2. ASSUME NEW n \in DOMAIN signedUp, updatePoll(p, n)
        PROVE  hasUnprocessedMessages(poll[p])
    BY <1>1, <2>2, NoneProcessed DEF updatePoll
  <2>3. CASE processMessages(p) \/ processMessagesThrows(p)
    BY <2>3 DEF processMessages, processMessagesThrows, CanProcess
  <2> QED
    BY <2>1, <2>2, <2>3
<1> QED
  BY <1>2, <1>3, QuietResults

LEMMA RestoreResults ==
  ASSUME CoreInv, AllResults, CoreInv', restore
  PROVE  AllResults'
<1>1. UNCHANGED <<election, early>> /\ \A p \in PollIds : poll'[p] = RestoredPoll(poll[p])
  BY DEF restore
<1>2. ASSUME NEW p \in PollIds PROVE ResultsInv(poll'[p], election.qv, early')
  <2> DEFINE q == poll[p]
             r == RestoredPoll(q)
  <2>1. ResultsInv(q, election.qv, early)
    BY DEF AllResults
  <2>2. /\ ResultFields \subseteq DOMAIN r
        /\ r.numBatchesTallied = 0 /\ r.tallyResult = q.tallyResult
        /\ r.perVOSpentVoiceCredits = NoVotes /\ r.totalSpentVoiceCredits = 0
        /\ r.subsidy = NoVotes /\ r.pair = <<0, 0>>
        /\ r.messages = q.messages /\ r.numBatchesProcessed = q.numBatchesProcessed
        /\ r.salted = {}
    BY DEF RestoredPoll, Updated, NewPoll, ResultFields
  <2>3. poll'[p] = r /\ BallotList(r.ballots, Size(r.numSignups))
    BY <1>1, PollAfter
  <2>4. r.numBatchesTallied \in Nat /\ r.pair \in Nat \X Nat /\ ~Started(r)
        /\ (hasUnprocessedMessages(r) <=> hasUnprocessedMessages(q))
    BY <2>2 DEF Started, HasSalt, hasUnprocessedMessages, totalBatches
  <2> HIDE DEF q, r
  <2>5. hasUnprocessedMessages(q) /\ ~early => Untallied(r)
    BY <2>1, <2>2 DEF ResultsInv, Untallied
  <2>6. ResultsInv(r, election.qv, early)
    BY <2>2, <2>4, <2>5 DEF ResultsInv
  <2> QED
    BY <1>1, <2>3, <2>6
<1> QED
  BY <1>1, <1>2 DEF AllResults, PollIds

\* After a tally or a step of the subsidy nobody began too early only if all
\* messages are processed.
LEMMA TallyResults ==
  ASSUME CoreInv, AllResults, CoreInv', NEW p \in PollIds, tallyVotes(p) \/ tallyVotesNonQv(p)
  PROVE  AllResults'
<1> DEFINE q == poll[p]
           r == poll'[p]
           n == Size(q.numSignups)
           qv == election.qv
<1>1. /\ DOMAIN poll = PollIds /\ WorkFields \subseteq DOMAIN q
      /\ WorkInv(q, election, signedUp) /\ SignedUp(signedUp, election)
      /\ ResultsInv(q, qv, early) /\ ResultFields \subseteq DOMAIN q
  BY PollsDefined DEF CoreInv, AllResults, ResultsInv
<1>2. /\ UNCHANGED election /\ early' = (early \/ hasUnprocessedMessages(q))
      /\ \A x \in PollIds \ {p} : poll'[x] = poll[x]
      /\ CanTally(q)
  BY <1>1 DEF tallyVotes, tallyVotesNonQv
<1>3. /\ r.tallyResult = [o \in Options |-> q.tallyResult[o] + VotesFor(TallyBatch(q), o)]
      /\ qv => r.perVOSpentVoiceCredits =
                 [o \in Options |-> q.perVOSpentVoiceCredits[o] + SquaresFor(TallyBatch(q), o)]
      /\ r.totalSpentVoiceCredits = q.totalSpentVoiceCredits +
           Total([o \in Options |-> IF qv THEN SquaresFor(TallyBatch(q), o)
                                    ELSE VotesFor(TallyBatch(q), o)])
      /\ r.numBatchesTallied = q.numBatchesTallied + 1
  <2>1. CASE tallyVotes(p)
    BY <1>1, <2>1 DEF tallyVotes, ResultFields
  <2>2. CASE tallyVotesNonQv(p)
    BY <1>1, <2>2 DEF tallyVotesNonQv, ResultFields
  <2> QED
    BY <2>1, <2>2
<1>4. /\ ResultFields \subseteq DOMAIN r
      /\ r.subsidy = q.subsidy /\ r.pair = q.pair /\ r.ballots = q.ballots
      /\ r.messages = q.messages /\ r.numBatchesProcessed = q.numBatchesProcessed
      /\ r.stateCopied = q.stateCopied /\ r.salted = q.salted
      /\ r.currentMessageBatchIndex = q.currentMessageBatchIndex
  <2>1. CASE tallyVotes(p)
    BY <1>1, <2>1 DEF tallyVotes, ResultFields, WorkFields
  <2>2. CASE tallyVotesNonQv(p)
    BY <1>1, <2>2 DEF tallyVotesNonQv, ResultFields, WorkFields
  <2> QED
    BY <2>1, <2>2
<1> HIDE DEF q, r, qv
<1>5. (Started(r) <=> Started(q)) /\ (hasUnprocessedMessages(r) <=> hasUnprocessedMessages(q))
  BY <1>4 DEF Started, HasSalt, hasUnprocessedMessages, totalBatches
<1>6. BallotList(q.ballots, n)
  BY <1>1, BallotsOf
<1>7. q.numBatchesTallied \in Nat /\ q.pair \in Nat \X Nat /\ hasUntalliedBallots(q)
  BY <1>1, <1>2 DEF ResultsInv, CanTally
<1>8. ASSUME Started(r), ~early' PROVE TalliedSoFar(r, qv) /\ PairedSoFar(r)
  <2>1. TalliedSoFar(q, qv) /\ PairedSoFar(q)
    BY <1>1, <1>2, <1>5, <1>8 DEF ResultsInv
  <2>2. PairedSoFar(r)
    BY <1>4, <2>1 DEF PairedSoFar
  <2>3. TalliedSoFar(r, qv)
    BY <1>3, <1>4, <1>6, <1>7, <2>1, TalliedOn
  <2> QED
    BY <2>2, <2>3
<1>9. r.numBatchesTallied \in Nat /\ r.pair \in Nat \X Nat
  BY <1>3, <1>4, <1>7
<1>10. ResultsInv(r, qv, early')
  BY <1>2, <1>4, <1>5, <1>8, <1>9 DEF ResultsInv
<1> QED
  BY <1>2, <1>10, OneResultChanged DEF r, qv

LEMMA SubsidyResults ==
  ASSUME CoreInv, AllResults, CoreInv', NEW p \in PollIds, subsidyPerBatch(p)
  PROVE  AllResults'
<1> DEFINE q == poll[p]
           r == poll'[p]
           n == Size(q.numSignups)
           qv == election.qv
<1>1. /\ DOMAIN poll = PollIds /\ WorkFields \subseteq DOMAIN q
      /\ WorkInv(q, election, signedUp) /\ SignedUp(signedUp, election)
      /\ ResultsInv(q, qv, early) /\ ResultFields \subseteq DOMAIN q
  BY PollsDefined DEF CoreInv, AllResults, ResultsInv
<1>2. /\ UNCHANGED election /\ early' = (early \/ hasUnprocessedMessages(q))
      /\ \A x \in PollIds \ {p} : poll'[x] = poll[x]
      /\ hasUnfinishedSubsidyCalculation(q)
  BY <1>1 DEF subsidyPerBatch
<1>3. /\ r.subsidy = [o \in Options |-> q.subsidy[o] + SubsidyOf(q.ballots, BallotPairs(q), o)]
      /\ r.pair = increaseSubsidyIndex(q)
  BY <1>1 DEF subsidyPerBatch, ResultFields
<1>4. /\ ResultFields \subseteq DOMAIN r
      /\ r.tallyResult = q.tallyResult /\ r.numBatchesTallied = q.numBatchesTallied
      /\ r.perVOSpentVoiceCredits = q.perVOSpentVoiceCredits
      /\ r.totalSpentVoiceCredits = q.totalSpentVoiceCredits /\ r.ballots = q.ballots
      /\ r.messages = q.messages /\ r.numBatchesProcessed = q.numBatchesProcessed
      /\ r.stateCopied = q.stateCopied /\ r.salted = q.salted
      /\ r.currentMessageBatchIndex = q.currentMessageBatchIndex
  BY <1>1 DEF subsidyPerBatch, ResultFields, WorkFields
<1> HIDE DEF q, r, qv
<1>5. (Started(r) <=> Started(q)) /\ (hasUnprocessedMessages(r) <=> hasUnprocessedMessages(q))
  BY <1>4 DEF Started, HasSalt, hasUnprocessedMessages, totalBatches
<1>6. BallotList(q.ballots, n)
  BY <1>1, BallotsOf
<1>7. q.numBatchesTallied \in Nat /\ q.pair \in Nat \X Nat
  BY <1>1 DEF ResultsInv
<1>8. ASSUME Started(r), ~early' PROVE TalliedSoFar(r, qv) /\ PairedSoFar(r)
  <2>1. TalliedSoFar(q, qv) /\ PairedSoFar(q)
    BY <1>1, <1>2, <1>5, <1>8 DEF ResultsInv
  <2>2. Counted(r) = Counted(q)
    BY <1>4 DEF Counted
  <2>3. TalliedSoFar(r, qv)
    BY <1>4, <2>1, <2>2 DEF TalliedSoFar
  <2>4. PairedSoFar(r)
    BY <1>2, <1>3, <1>4, <1>6, <1>7, <2>1, PairedOn
  <2> QED
    BY <2>3, <2>4
<1>9. r.numBatchesTallied \in Nat /\ r.pair \in Nat \X Nat
  <2>1. \E rr, cc : IsPair(r.pair, rr, cc)
    BY <1>3, <1>7, NextPair
  <2> QED
    BY <1>4, <1>7, <2>1 DEF IsPair
<1>10. ResultsInv(r, qv, early')
  BY <1>2, <1>4, <1>5, <1>8, <1>9 DEF ResultsInv
<1> QED
  BY <1>2, <1>10, OneResultChanged DEF r, qv

LEMMA ResultsInitially == Init => AllResults
<1> SUFFICES ASSUME Init PROVE AllResults
  OBVIOUS
<1>1. \A p \in PollIds : poll[p] = NewPoll
  BY DEF Init
<1>2. ResultsInv(NewPoll, election.qv, early)
  <2>1. /\ ResultFields \subseteq DOMAIN NewPoll /\ Untallied(NewPoll) /\ ~Started(NewPoll)
    BY DEF NewPoll, ResultFields, Untallied, Started
  <2> QED
    BY <2>1 DEF ResultsInv, Untallied
<1> QED
  BY <1>1, <1>2 DEF AllResults

LEMMA ResultsStep == CoreInv /\ AllResults /\ CoreInv' /\ [Next]_vars => AllResults'
<1> SUFFICES ASSUME CoreInv, AllResults, CoreInv', [Next]_vars PROVE AllResults'
  OBVIOUS
<1>1. CASE UNCHANGED vars
  BY <1>1 DEF vars, AllResults, PollIds
<1>2. CASE signUp
  BY <1>2 DEF signUp, AllResults, PollIds
<1>3. CASE restore
  BY <1>3, RestoreResults
<1>4. ASSUME NEW p \in PollIds,
             \/ publishMessage(p)
             \/ \E n \in DOMAIN signedUp : updatePoll(p, n)
             \/ processMessages(p)
             \/ processMessagesThrows(p)
             \/ tallyVotes(p)
             \/ tallyVotesNonQv(p)
             \/ subsidyPerBatch(p)
      PROVE  AllResults'
  BY <1>4, MessageResults, TallyResults, SubsidyResults
<1> QED
  BY <1>1, <1>2, <1>3, <1>4 DEF Next

LEMMA WholeList ==
  ASSUME NEW n, NEW b, BallotList(b, n)
  PROVE  SubSeq(b, 1, n) = b
<1>1. n \in Nat /\ b \in [1..n -> Ballot]
  BY DEF BallotList
<1>2. n \in Int /\ n - 1 + 1 = n /\ \A i \in 1..n : b[i] \in Ballot /\ 1 + i - 1 = i
  BY <1>1
<1>3. /\ SubSeq(b, 1, n) \in Seq(Ballot)
      /\ Len(SubSeq(b, 1, n)) = IF 1 <= n THEN n - 1 + 1 ELSE 0
      /\ \A i \in 1..(n - 1 + 1) : SubSeq(b, 1, n)[i] = b[1 + i - 1]
  BY <1>2, SubSeqProperties
<1> DEFINE c == SubSeq(b, 1, n)
<1> HIDE DEF c
<1>4. Len(c) = n
  BY <1>1, <1>3 DEF c
<1>5. c = [i \in 1..n |-> c[i]]
  BY <1>3, <1>4, LenProperties DEF c
<1>6. b = [i \in 1..n |-> b[i]]
  BY <1>1
<1>7. \A i \in 1..n : c[i] = b[i]
  BY <1>2, <1>3 DEF c
<1> QED
  BY <1>5, <1>6, <1>7 DEF c

\* Without a batch processed nothing is finished.
LEMMA Unfinished ==
  ASSUME NEW q, NEW n \in Nat \ {0}, BallotList(q.ballots, n), Untallied(q)
  PROVE  hasUntalliedBallots(q) /\ hasUnfinishedSubsidyCalculation(q)
<1>1. Len(q.ballots) = n /\ 0 < n
  BY Listed DEF BallotList
<1>2. 0 * tallyBatchSize = 0 /\ 0 * subsidyBatchSize = 0
  BY CoreConstants DEF subsidyBatchSize
<1>3. q.numBatchesTallied = 0 /\ \A k \in {1, 2} : q.pair[k] = 0
  BY DEF Untallied
<1>4. hasUntalliedBallots(q)
  BY <1>1, <1>2, <1>3 DEF hasUntalliedBallots
<1>5. hasUnfinishedSubsidyCalculation(q)
  BY <1>1, <1>2, <1>3 DEF hasUnfinishedSubsidyCalculation
<1> QED
  BY <1>4, <1>5

LEMMA AllCounted ==
  ASSUME NEW q, NEW n, BallotList(q.ballots, n), q.numBatchesTallied \in Nat,
         ~hasUntalliedBallots(q)
  PROVE  Counted(q) = q.ballots
<1>1. Len(q.ballots) = n
  BY Listed DEF BallotList
<1>2. Counted(q) = SubSeq(q.ballots, 1, n)
  BY <1>1 DEF hasUntalliedBallots, Counted
<1> QED
  BY <1>2, WholeList

LEMMA AllPaired ==
  ASSUME NEW q, NEW n, BallotList(q.ballots, n), q.pair \in Nat \X Nat, PairedSoFar(q),
         ~hasUnfinishedSubsidyCalculation(q)
  PROVE  \A o \in Options :
           q.subsidy[o] =
             SubsidyOf(q.ballots,
                       {ij \in (DOMAIN q.ballots) \X (DOMAIN q.ballots) : ij[1] < ij[2]}, o)
<1> DEFINE r == q.pair[1]
           c == q.pair[2]
           all == {ij \in (1..n) \X (1..n) : ij[1] < ij[2]}
<1>1. n \in Nat /\ Len(q.ballots) = n /\ DOMAIN q.ballots = 1..n
  BY Listed DEF BallotList
<1>2. r \in Nat /\ c \in Nat
  OBVIOUS
<1>3. /\ r <= c /\ (r = c \/ c * subsidyBatchSize < n)
      /\ ~ (r * subsidyBatchSize < n /\ c * subsidyBatchSize < n)
  BY <1>1 DEF PairedSoFar, hasUnfinishedSubsidyCalculation
<1>4. q.subsidy = [o \in Options |-> SubsidyOf(q.ballots, PairsBefore(n, r, c), o)]
  BY <1>1 DEF PairedSoFar
<1> HIDE DEF r, c
<1>5. PairsBefore(n, r, c) = all
  BY <1>1, <1>2, <1>3, AllPairs
<1> HIDE DEF all
<1>6. q.subsidy = [o \in Options |-> SubsidyOf(q.ballots, all, o)]
  BY <1>4, <1>5
<1>7. all = {ij \in (DOMAIN q.ballots) \X (DOMAIN q.ballots) : ij[1] < ij[2]}
  BY <1>1 DEF all
<1> QED
  BY <1>6, <1>7

\* What a user signed up with and was topped up with, and what is left.
SpentBy(q, i) ==
  signedUp[i].voiceCreditBalance + Topups(q, i) - q.stateLeaves[i].voiceCreditBalance

LEMMA SpentIsCost ==
  ASSUME CoreInv, NEW p \in PollIds, Started(poll[p])
  PROVE  \A i \in DOMAIN poll[p].ballots :
           SpentBy(poll[p], i) = BallotCost(poll[p].ballots[i], election.qv)
<1> DEFINE q == poll[p]
           n == q.numSignups
           ms == Processed(q)
<1>1. election \in Elections /\ SignedUp(signedUp, election) /\ WorkInv(q, election, signedUp)
  BY PollsDefined DEF CoreInv
<1> HIDE DEF q
<1>2. n \in Nat \ {0} /\ n \in 0..Len(signedUp) /\ ms \in Seq(Messages(election))
  BY <1>1, ProcessedState DEF q
<1>3. /\ q.ballots \in [1..n -> Ballot] /\ q.stateLeaves \in [1..n -> UserLeaf(election)]
  BY <1>1, <1>2 DEF WorkInv, WorkTyped, Size
<1>4. ASSUME NEW i \in 1..n
      PROVE  SpentBy(q, i) = BallotCost(q.ballots[i], election.qv)
  <2> DEFINE x == signedUp[i].voiceCreditBalance
             y == Topups(q, i)
             z == q.stateLeaves[i].voiceCreditBalance
             cost == BallotCost(q.ballots[i], election.qv)
  <2>1. x \in Int
    <3>1. signedUp \in Seq(UserLeaf(election)) /\ i \in 1..Len(signedUp)
      BY <1>1, <1>2, LenProperties DEF SignedUp
    <3>2. signedUp[i] \in UserLeaf(election)
      BY <3>1, ElementOfSeq
    <3> QED
      BY <3>2 DEF UserLeaf
  <2>2. z \in Int
    <3>1. q.stateLeaves[i] \in UserLeaf(election)
      BY <1>3
    <3> QED
      BY <3>1 DEF UserLeaf
  <2>3. cost \in Int
    BY <1>3, BallotCostIsInt
  <2>4. y \in Int
    <3> DEFINE f == [j \in DOMAIN ms |-> ToppedUp(ms[j], i)]
               l == Len(ms)
    <3>1. l \in Nat /\ DOMAIN ms = 1..l /\ \A j \in 1..l : ms[j] \in Messages(election)
      BY <1>2, LenProperties, ElementOfSeq
    <3>2. \A j \in 1..l : ToppedUp(ms[j], i) \in Int
      BY <1>1, <3>1, MessageFields DEF ToppedUp
    <3>3. f \in [1..l -> Int]
      BY <3>1, <3>2
    <3>4. y = Total(f)
      BY DEF Topups
    <3> HIDE DEF f, l
    <3> QED
      BY <3>1, <3>3, <3>4, TotalIsInt
  <2>5. z + cost = x + y
    BY <1>3, CoreConserves DEF CreditsConserved, q
  <2>6. SpentBy(q, i) = x + y - z
    BY DEF SpentBy
  <2> HIDE DEF x, y, z, cost
  <2>7. SpentBy(q, i) = cost
    BY <2>1, <2>2, <2>3, <2>4, <2>5, <2>6
  <2> QED
    BY <2>7 DEF cost
<1> QED
  BY <1>3, <1>4 DEF q

LEMMA FinalResults == CoreInv /\ AllResults => ResultsOfFinalBallots
<1> SUFFICES ASSUME CoreInv, AllResults, NEW p \in PollIds, ~early, Started(poll[p])
             PROVE
               LET q == poll[p]
                   pairs == {ij \in (DOMAIN q.ballots) \X (DOMAIN q.ballots) : ij[1] < ij[2]}
               IN  /\ ~hasUntalliedBallots(q) =>
                        /\ \A o \in Options : q.tallyResult[o] = VotesFor(q.ballots, o)
                        /\ q.totalSpentVoiceCredits =
                             Total([i \in DOMAIN q.ballots |->
                               signedUp[i].voiceCreditBalance + Topups(q, i)
                                 - q.stateLeaves[i].voiceCreditBalance])
                        /\ election.qv => q.totalSpentVoiceCredits =
                             Total(q.perVOSpentVoiceCredits)
                   /\ ~hasUnfinishedSubsidyCalculation(q) =>
                        \A o \in Options : q.subsidy[o] = SubsidyOf(q.ballots, pairs, o)
  BY DEF ResultsOfFinalBallots
<1> DEFINE q == poll[p]
           qv == election.qv
           n == Size(q.numSignups)
<1>1. /\ ResultsInv(q, qv, early) /\ Started(q)
      /\ WorkInv(q, election, signedUp) /\ SignedUp(signedUp, election)
  BY DEF CoreInv, AllResults
<1>2. \A i \in DOMAIN q.ballots : SpentBy(q, i) = BallotCost(q.ballots[i], qv)
  BY SpentIsCost
<1> HIDE DEF q, qv
<1>3. n \in Nat \ {0} /\ BallotList(q.ballots, n)
  BY <1>1, BallotsOf
<1> HIDE DEF n
<1>4. ASSUME ~hasUntalliedBallots(q)
      PROVE  /\ \A o \in Options : q.tallyResult[o] = VotesFor(q.ballots, o)
             /\ q.totalSpentVoiceCredits = Total([i \in DOMAIN q.ballots |-> SpentBy(q, i)])
             /\ qv => q.totalSpentVoiceCredits = Total(q.perVOSpentVoiceCredits)
  <2>1. ~hasUnprocessedMessages(q)
    BY <1>1, <1>3, <1>4, Unfinished DEF ResultsInv
  <2>2. TalliedSoFar(q, qv) /\ q.numBatchesTallied \in Nat
    BY <1>1, <2>1 DEF ResultsInv
  <2>3. Counted(q) = q.ballots
    BY <1>3, <1>4, <2>2, AllCounted
  <2>4. /\ q.tallyResult = [o \in Options |-> VotesFor(q.ballots, o)]
        /\ qv => q.perVOSpentVoiceCredits = [o \in Options |-> SquaresFor(q.ballots, o)]
        /\ q.totalSpentVoiceCredits = CostOf(q.ballots, qv)
    BY <2>2, <2>3 DEF TalliedSoFar
  <2>5. CostOf(q.ballots, qv) = Total([i \in DOMAIN q.ballots |-> SpentBy(q, i)])
    <3>1. [i \in DOMAIN q.ballots |-> SpentBy(q, i)]
            = [i \in DOMAIN q.ballots |-> BallotCost(q.ballots[i], qv)]
      BY <1>2
    <3> QED
      BY <3>1 DEF CostOf
  <2>6. ASSUME qv
        PROVE  CostOf(q.ballots, qv) = Total([o \in Options |-> SquaresFor(q.ballots, o)])
    <3>1. CostOf(q.ballots, qv)
            = Total([o \in Options |-> IF qv THEN SquaresFor(q.ballots, o)
                                       ELSE VotesFor(q.ballots, o)])
      BY <1>3, CostByOption
    <3>2. [o \in Options |-> IF qv THEN SquaresFor(q.ballots, o) ELSE VotesFor(q.ballots, o)]
            = [o \in Options |-> SquaresFor(q.ballots, o)]
      BY <2>6
    <3> QED
      BY <3>1, <3>2
  <2> QED
    BY <2>4, <2>5, <2>6
<1>5. ASSUME ~hasUnfinishedSubsidyCalculation(q)
      PROVE  \A o \in Options :
               q.subsidy[o] =
                 SubsidyOf(q.ballots,
                           {ij \in (DOMAIN q.ballots) \X (DOMAIN q.ballots) : ij[1] < ij[2]}, o)
  <2>1. ~hasUnprocessedMessages(q)
    BY <1>1, <1>3, <1>5, Unfinished DEF ResultsInv
  <2>2. PairedSoFar(q) /\ q.pair \in Nat \X Nat
    BY <1>1, <2>1 DEF ResultsInv
  <2> QED
    BY <1>3, <1>5, <2>2, AllPaired
<1> QED
  BY <1>4, <1>5 DEF q, qv, SpentBy

\* Once all messages are processed, and unless somebody began too early
\* (Poll.tallyVotes and Poll.subsidyPerBatch do not ask), however the ballots
\* are cut into batches: the tally is the sum over the final ballots, the total
\* spent is what the users have spent and what the options have received, and
\* the subsidy takes each pair of ballots once.
THEOREM ResultsAreFinal == Spec => []ResultsOfFinalBallots
<1>1. Init => CoreInv /\ AllResults
  BY CoreInitially, ResultsInitially
<1>2. CoreInv /\ AllResults /\ [Next]_vars => (CoreInv /\ AllResults)'
  BY CoreStep, ResultsStep
<1> QED
  BY <1>1, <1>2, FinalResults, PTL DEF Spec
=============================================================================
