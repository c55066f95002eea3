------------------------------ MODULE CorePoll ------------------------------
(***************************************************************************)
(* The coordinator's computation (core/ts/MaciState.ts, core/ts/Poll.ts):  *)
(* a MaciState whose polls collect messages, copy the users who signed up, *)
(* process the messages in batches from the last one to the first and      *)
(* tally the ballots.  The statement the circuit proves of a batch         *)
(* (circuits/circom/processMessages.circom) stands beside it, for every    *)
(* batch needs a proof.                                                    *)
(*                                                                         *)
(* A message is what it decrypts to, with the key it is signed with; a     *)
(* message that cannot be decrypted or carries no valid signature is       *)
(* signed with NoKey.  A Merkle root is modelled by the leaves under it.   *)
(*                                                                         *)
(* The calls come in the order genMaciState makes them: all messages,      *)
(* updatePoll, which may be repeated, then the batches.  The coordinator   *)
(* may write the whole state to a file and read it back at any time, as    *)
(* genLocalState and genProofs do before the first batch.                  *)
(***************************************************************************)
EXTENDS Integers, Sequences, FiniteSetsExt, SequencesExt

CONSTANTS
  Elections,        (* [polls |-> the polls' IDs,                          *)
                    (*  leaves |-> the state leaves users sign up with,    *)
                    (*  messages |-> the messages that may be published,   *)
                    (*  maxMessages |-> bound on the messages of a poll,   *)
                    (*  qv |-> quadratic voting or not]                    *)
  BlankKey, NoKey,  (* the key of leaf 0; the key of no leaf               *)
  maxVoteOptions, messageBatchSize, tallyBatchSize,
  MM, WW,           (* the parameters of the subsidy                       *)
  MaxUsers          (* bound on sign-ups                                   *)

ASSUME CoreConstants ==
  /\ {maxVoteOptions, messageBatchSize, tallyBatchSize, MM, MaxUsers} \subseteq Nat \ {0}
  /\ WW \in Nat
  /\ \A e \in Elections : e.polls \subseteq Nat /\ e.maxMessages \in Nat \ {0} /\ e.qv \in BOOLEAN
  /\ BlankKey # NoKey
  /\ \A e \in Elections : \A leaf \in e.leaves :
       /\ leaf \in [pubKey : {leaf.pubKey}, voiceCreditBalance : Nat, inTime : BOOLEAN]
       /\ leaf.pubKey \notin {BlankKey, NoKey}

\* The prover knows nothing of powers.
ASSUME PowerOfTen == 10^WW \in Nat

\* Nobody has the private key of BlankKey (genBlankLeaf, domainobjs/ts/stateLeaf.ts:50).
ASSUME MessagesTyped ==
  \A e \in Elections : \A m \in e.messages :
    /\ m.stateIndex \in Nat
    /\ m.msgType = 1 => /\ {m.voteOptionIndex, m.newVoteWeight, m.nonce} \subseteq Nat
                        /\ m.signer # BlankKey
    /\ m.msgType # 1 => m.msgType = 2 /\ m.amount \in Nat

VARIABLES
  election,         (* the one of Elections that is held                   *)
  signedUp,         (* MaciState.stateLeaves, the leaf of index i at i + 1 *)
  lock,             (* [being |-> pollBeingProcessed,                      *)
                    (*  poll |-> currentPollBeingProcessed]                *)
  poll,             (* the Poll objects                                    *)
  early             (* history: a ballot was counted before the last batch *)

vars == <<election, signedUp, lock, poll, early>>

PollIds == election.polls

\* The subsidy's batches are as large as the tally's.
subsidyBatchSize == tallyBatchSize

Options == 1..maxVoteOptions      \* option index o is at o + 1
BlankLeaf == [pubKey |-> BlankKey, voiceCreditBalance |-> 0, inTime |-> TRUE]
BlankBallot == [nonce |-> 0, votes |-> [o \in Options |-> 0]]

\* The placeholder that Poll.init publishes: a vote nobody signed.
Placeholder ==
  [msgType |-> 1, stateIndex |-> 0, newPubKey |-> BlankKey, voteOptionIndex |-> 0,
   newVoteWeight |-> 0, nonce |-> 0, signer |-> NoKey]

Undefined == -1

NoVotes == [o \in Options |-> 0]

Total(f) ==
  LET sum[k \in 0..Len(f)] == IF k = 0 THEN 0 ELSE sum[k - 1] + f[k] IN sum[Len(f)]

\* salted and subsidySalts are the indices that have a salt.
NewPoll ==
  [messages |-> <<Placeholder>>, stateLeaves |-> << >>, ballots |-> <<BlankBallot>>,
   ballotTree |-> << >>, stateCopied |-> FALSE, numSignups |-> 0,
   numBatchesProcessed |-> 0, currentMessageBatchIndex |-> Undefined, salted |-> {},
   numBatchesTallied |-> 0, tallyResult |-> NoVotes,
   perVOSpentVoiceCredits |-> NoVotes, totalSpentVoiceCredits |-> 0,
   subsidy |-> NoVotes, pair |-> <<0, 0>>, subsidySalts |-> {}]

Init ==
  /\ election \in Elections
  /\ signedUp = <<BlankLeaf>>
  /\ lock = [being |-> FALSE, poll |-> Undefined]
  /\ poll = [p \in PollIds |-> NewPoll]
  /\ early = FALSE

signUp ==
  /\ Len(signedUp) <= MaxUsers
  /\ \E leaf \in election.leaves : signedUp' = Append(signedUp, leaf)
  /\ UNCHANGED <<election, lock, poll, early>>

\* publishMessage and topupMessage; before updatePoll, as said above.
publishMessage(p) ==
  /\ ~poll[p].stateCopied
  /\ Len(poll[p].messages) < election.maxMessages
  /\ \E m \in election.messages : poll' = [poll EXCEPT ![p].messages = Append(@, m)]
  /\ UNCHANGED <<election, signedUp, lock, early>>

\* Mutant: the users who sign up later are copied too.
CopiedWhole(n) == signedUp

CopiedLeaves(n) == SubSeq(signedUp, 1, n)

\* The leaves are copied anew; the ballots there are stay, and only missing
\* ones are added, while the ballot tree is built from blank ballots.
Updated(q, n) ==
  LET blank == [i \in 1..Max({n, Len(q.ballots)}) |-> BlankBallot]
  IN  [q EXCEPT !.stateCopied = TRUE,
                !.numSignups = n,
                !.stateLeaves = CopiedLeaves(n),
                !.ballots = q.ballots \o SubSeq(blank, Len(q.ballots) + 1, n),
                !.ballotTree = blank]

\* The number the coordinator passes is the contract's, which never falls.
updatePoll(p, n) ==
  /\ poll[p].numBatchesProcessed = 0
  /\ n >= poll[p].numSignups
  /\ poll' = [poll EXCEPT ![p] = Updated(@, n)]
  /\ UNCHANGED <<election, signedUp, lock, early>>

-----------------------------------------------------------------------------
(***************************************************************************)
(* One message, applied to the state leaves and ballots of a poll q.       *)
(***************************************************************************)
\* What a vote of this weight costs, with or without quadratic voting.
Cost(weight, qv) == IF qv THEN weight * weight ELSE weight

\* Mutant: the credits spent on the option before are not given back.
CreditsLeftNoRefund(leaf, ballot, m, qv) ==
  leaf.voiceCreditBalance - Cost(m.newVoteWeight, qv)

voiceCreditsLeft(leaf, ballot, m, qv) ==
  leaf.voiceCreditBalance + Cost(ballot.votes[m.voteOptionIndex + 1], qv)
    - Cost(m.newVoteWeight, qv)

NewBallot(ballot, m) ==
  [nonce |-> ballot.nonce + 1,
   votes |-> [ballot.votes EXCEPT ![m.voteOptionIndex + 1] = m.newVoteWeight]]

\* The checks of processMessage, in its order.
CommandValid(q, m, qv) ==
  /\ m.stateIndex < Len(q.ballots) /\ m.stateIndex >= 1
  /\ m.stateIndex < Len(q.stateLeaves)
  /\ LET leaf == q.stateLeaves[m.stateIndex + 1]
         ballot == q.ballots[m.stateIndex + 1]
     IN  /\ m.signer = leaf.pubKey
         /\ m.nonce = ballot.nonce + 1
         /\ m.voteOptionIndex < maxVoteOptions
         /\ voiceCreditsLeft(leaf, ballot, m, qv) >= 0

\* The ballot tree's leaf changes with the ballot.
processMessage(q, m, qv) ==
  LET i == m.stateIndex + 1
  IN  IF ~CommandValid(q, m, qv) THEN q
      ELSE [q EXCEPT !.stateLeaves[i].pubKey = m.newPubKey,
                     !.stateLeaves[i].voiceCreditBalance =
                       voiceCreditsLeft(q.stateLeaves[i], q.ballots[i], m, qv),
                     !.ballots[i] = NewBallot(@, m),
                     !.ballotTree[i] = NewBallot(q.ballots[i], m)]

processTopup(q, m) ==
  LET known == m.stateIndex < Len(q.ballots)
  IN  [q EXCEPT !.stateLeaves[IF known THEN m.stateIndex + 1 ELSE 1].voiceCreditBalance =
                  @ + (IF known THEN m.amount ELSE 0)]

processOne(q, m, qv) ==
  IF m.msgType = 1 THEN processMessage(q, m, qv) ELSE processTopup(q, m)

-----------------------------------------------------------------------------
(***************************************************************************)
(* The batches of one poll q.                                              *)
(***************************************************************************)
totalBatches(q) ==
  LET n == Len(q.messages)
  IN  IF n <= messageBatchSize THEN 1
      ELSE n \div messageBatchSize + (IF n % messageBatchSize > 0 THEN 1 ELSE 0)

\* Mutant: a partial batch is no batch.
HasFullBatchLeft(q) == (q.numBatchesProcessed + 1) * messageBatchSize <= Len(q.messages)

hasUnprocessedMessages(q) == q.numBatchesProcessed < totalBatches(q)

FirstIndex(q) ==
  LET n == Len(q.messages)
      r == n % messageBatchSize
  IN  IF n = 0 THEN 0 ELSE IF r = 0 THEN n - messageBatchSize ELSE n - r

IndexOf(q) ==
  IF q.numBatchesProcessed = 0 THEN FirstIndex(q) ELSE q.currentMessageBatchIndex

\* The messages of the next batch; there may be fewer than batchSize.
Batch(q) ==
  SubSeq(q.messages, IndexOf(q) + 1, Min({IndexOf(q) + messageBatchSize, Len(q.messages)}))

\* What messages change.
Work(q) ==
  [stateLeaves |-> q.stateLeaves, ballots |-> q.ballots, ballotTree |-> q.ballotTree]

\* After the messages ms, the last one first.
Applied(w, ms, qv) ==
  LET after[k \in 0..Len(ms)] ==
        IF k = 0 THEN w ELSE processOne(after[k - 1], ms[Len(ms) + 1 - k], qv)
  IN  after[Len(ms)]

BatchResult(q, qv) == Applied(Work(q), Batch(q), qv)

\* Mutant: the lock is released one batch late.
ReleasedAfter(q) == q.numBatchesProcessed * messageBatchSize >= Len(q.messages)

\* The last batch releases the lock.
Released(q) == (q.numBatchesProcessed + 1) * messageBatchSize >= Len(q.messages)

\* The first batch takes the lock before the lock is checked; what it wrote
\* stays when it then throws because there are no state leaves, and any later
\* call throws at once, for the batch index is there already.
Claimed(p) == IF poll[p].numBatchesProcessed = 0 THEN [being |-> TRUE, poll |-> p] ELSE lock

CanProcess(p) ==
  /\ hasUnprocessedMessages(poll[p])
  /\ poll[p].numBatchesProcessed = 0 => poll[p].currentMessageBatchIndex = Undefined
  /\ Claimed(p).being => Claimed(p).poll = p

\* Before updatePoll, or updated with no leaf at all.
NoLeaves(q) == ~q.stateCopied \/ q.stateLeaves = << >>

\* What the commitment to the state and the ballots needs.
HasSalt(q) == q.currentMessageBatchIndex \in q.salted

processMessagesThrows(p) ==
  /\ CanProcess(p)
  /\ poll[p].numBatchesProcessed = 0
  /\ NoLeaves(poll[p])
  /\ poll' = [poll EXCEPT ![p].currentMessageBatchIndex = IndexOf(poll[p]),
                          ![p].salted = {IndexOf(poll[p])}]
  /\ lock' = Claimed(p)
  /\ UNCHANGED <<election, signedUp, early>>

\* The index of the batch after the next; it stays at 0.
NextIndex(q) == IF IndexOf(q) > 0 THEN IndexOf(q) - messageBatchSize ELSE 0

processMessages(p) ==
  LET q == poll[p]
  IN  /\ CanProcess(p)
      /\ ~NoLeaves(q)
      /\ q.numBatchesProcessed = 0 \/ HasSalt(q)
      /\ lock' = [Claimed(p) EXCEPT !.being = IF Released(q) THEN FALSE ELSE @]
      /\ \E after \in {BatchResult(q, election.qv)} : poll' = [poll EXCEPT
           ![p].stateLeaves = after.stateLeaves,
           ![p].ballots = after.ballots,
           ![p].ballotTree = after.ballotTree,
           ![p].numBatchesProcessed = @ + 1,
           ![p].currentMessageBatchIndex = NextIndex(q),
           ![p].salted = @ \cup {IndexOf(q), NextIndex(q)}]
      /\ UNCHANGED <<election, signedUp, early>>

hasUntalliedBallots(q) == q.numBatchesTallied * tallyBatchSize < Len(q.ballots)

\* Mutant: a partial last batch misses its last ballot.
LastBallotMissed(q) ==
  LET start == q.numBatchesTallied * tallyBatchSize
      n == Len(q.ballots)
  IN  SubSeq(q.ballots, start + 1,
             IF start + tallyBatchSize < n THEN start + tallyBatchSize ELSE n - 1)

TallyBatch(q) ==
  LET start == q.numBatchesTallied * tallyBatchSize
      n == Len(q.ballots)
  IN  SubSeq(q.ballots, start + 1, IF start + tallyBatchSize < n THEN start + tallyBatchSize ELSE n)

VotesFor(ballots, o) == Total([i \in DOMAIN ballots |-> ballots[i].votes[o]])
SquaresFor(ballots, o) ==
  Total([i \in DOMAIN ballots |-> ballots[i].votes[o] * ballots[i].votes[o]])

\* Allowed as soon as the salt of the current batch index is there.
CanTally(q) == HasSalt(q) /\ hasUntalliedBallots(q) /\ q.stateCopied

tallyVotes(p) ==
  LET q == poll[p]
      b == TallyBatch(q)
  IN  /\ election.qv
      /\ CanTally(q)
      /\ poll' = [poll EXCEPT
           ![p].tallyResult = [o \in Options |-> @[o] + VotesFor(b, o)],
           ![p].perVOSpentVoiceCredits = [o \in Options |-> @[o] + SquaresFor(b, o)],
           ![p].totalSpentVoiceCredits = @ + Total([o \in Options |-> SquaresFor(b, o)]),
           ![p].numBatchesTallied = @ + 1]
      /\ early' = (early \/ hasUnprocessedMessages(q))
      /\ UNCHANGED <<election, signedUp, lock>>

tallyVotesNonQv(p) ==
  LET q == poll[p]
      b == TallyBatch(q)
  IN  /\ ~election.qv
      /\ CanTally(q)
      /\ poll' = [poll EXCEPT
           ![p].tallyResult = [o \in Options |-> @[o] + VotesFor(b, o)],
           ![p].totalSpentVoiceCredits = @ + Total([o \in Options |-> VotesFor(b, o)]),
           ![p].numBatchesTallied = @ + 1]
      /\ early' = (early \/ hasUnprocessedMessages(q))
      /\ UNCHANGED <<election, signedUp, lock>>

-----------------------------------------------------------------------------
(***************************************************************************)
(* The subsidy: the batches of ballots taken in pairs <<rbi, cbi>>, row by *)
(* row from the diagonal on.                                               *)
(***************************************************************************)
hasUnfinishedSubsidyCalculation(q) ==
  \A k \in {1, 2} : q.pair[k] * subsidyBatchSize < Len(q.ballots)

increaseSubsidyIndex(q) ==
  LET rbi == q.pair[1]  cbi == q.pair[2]
  IN  IF (cbi + 1) * subsidyBatchSize < Len(q.ballots) THEN <<rbi, cbi + 1>>
      ELSE <<rbi + 1, rbi + 1>>

previousSubsidyIndex(q) ==
  LET rbi == q.pair[1]  cbi == q.pair[2]
      numBatches == (Len(q.ballots) + subsidyBatchSize - 1) \div subsidyBatchSize
  IN  IF q.pair = <<0, 0>> THEN q.pair
      ELSE IF cbi > rbi THEN <<rbi, cbi - 1>> ELSE <<rbi - 1, numBatches - 1>>

coefficientCalculation(row, col) ==
  (MM * 10^WW) \div (MM + Total([o \in Options |-> row.votes[o] * col.votes[o]]))

\* What the pairs of ballots in P add to option o.
SubsidyOf(ballots, P, o) ==
  MapThenSumSet(LAMBDA ij : 2 * coefficientCalculation(ballots[ij[1]], ballots[ij[2]])
                              * ballots[ij[1]].votes[o] * ballots[ij[2]].votes[o], P)

\* The pairs of ballots of the next pair of batches; ballots past the last
\* one are empty and add nothing.
BallotPairs(q) ==
  LET batch(k) == {i \in DOMAIN q.ballots : (i - 1) \div subsidyBatchSize = q.pair[k]}
  IN  {ij \in batch(1) \X batch(2) : q.pair[1] # q.pair[2] \/ ij[1] < ij[2]}

subsidyPerBatch(p) ==
  LET q == poll[p]
  IN  /\ hasUnfinishedSubsidyCalculation(q)
      /\ HasSalt(q) /\ q.stateCopied
      /\ q.pair # <<0, 0>> => previousSubsidyIndex(q) \in q.subsidySalts
      /\ poll' = [poll EXCEPT
           ![p].subsidy = [o \in Options |-> @[o] + SubsidyOf(q.ballots, BallotPairs(q), o)],
           ![p].subsidySalts = @ \cup {q.pair},
           ![p].pair = increaseSubsidyIndex(q)]
      /\ early' = (early \/ hasUnprocessedMessages(q))
      /\ UNCHANGED <<election, signedUp, lock>>

-----------------------------------------------------------------------------
(***************************************************************************)
(* toJSON and fromJSON.  The file has neither the salts nor the state      *)
(* after the batches processed nor the counters of the tally.              *)
(***************************************************************************)
\* Mutant: the salts are in the file as well.
RestoredWithSalts(q) ==
  Updated([NewPoll EXCEPT !.messages = q.messages, !.ballots = q.ballots,
                          !.tallyResult = q.tallyResult,
                          !.currentMessageBatchIndex = q.currentMessageBatchIndex,
                          !.numBatchesProcessed = q.numBatchesProcessed,
                          !.salted = q.salted],
          q.numSignups)

RestoredPoll(q) ==
  Updated([NewPoll EXCEPT !.messages = q.messages, !.ballots = q.ballots,
                          !.tallyResult = q.tallyResult,
                          !.currentMessageBatchIndex = q.currentMessageBatchIndex,
                          !.numBatchesProcessed = q.numBatchesProcessed],
          q.numSignups)

\* An unset currentPollBeingProcessed is read back as 0.
restore ==
  /\ poll' = [p \in PollIds |-> RestoredPoll(poll[p])]
  /\ lock' = [lock EXCEPT !.poll = IF @ = Undefined THEN 0 ELSE @]
  /\ UNCHANGED <<election, signedUp, early>>

Next ==
  \/ signUp
  \/ \E p \in PollIds :
       \/ publishMessage(p)
       \/ \E n \in DOMAIN signedUp : updatePoll(p, n)
       \/ processMessages(p)
       \/ processMessagesThrows(p)
       \/ tallyVotes(p)
       \/ tallyVotesNonQv(p)
       \/ subsidyPerBatch(p)
  \/ restore

\* The coordinator processes the batches of every poll, as genProofs does for
\* one poll; nobody has to sign up or to publish.
Fairness ==
  \A p \in UNION {e.polls : e \in Elections} : WF_vars(p \in PollIds /\ processMessages(p))

Spec == Init /\ [][Next]_vars /\ Fairness

-----------------------------------------------------------------------------
(***************************************************************************)
(* The circuit.  A root with a leaf put at an index other than the one     *)
(* that was opened is Garbage: no state the coordinator can commit to.     *)
(***************************************************************************)
Garbage == << >>

\* MessageValidator and MessageValidatorNonQv, without the range checks of the
\* field elements.
MessageValidator(leaf, ballot, m, numSignUps, qv) ==
  /\ m.stateIndex < numSignUps
  /\ m.voteOptionIndex < maxVoteOptions
  /\ m.nonce = ballot.nonce + 1
  /\ m.signer = leaf.pubKey
  /\ leaf.inTime
  /\ Cost(ballot.votes[m.voteOptionIndex + 1], qv) + leaf.voiceCreditBalance
       >= Cost(m.newVoteWeight, qv)

OpenedIndex(m, numSignUps) == IF m.stateIndex < numSignUps THEN m.stateIndex ELSE 0

ProcessOne(st, m, numSignUps, qv) ==
  LET i == OpenedIndex(m, numSignUps) + 1
      leaf == st.stateLeaves[i]
      ballot == st.ballots[i]
      before == ballot.votes[m.voteOptionIndex + 1]
  IN  IF ~MessageValidator(leaf, ballot, m, numSignUps, qv) THEN st
      ELSE [stateLeaves |->
              [st.stateLeaves EXCEPT
                 ![i] = [leaf EXCEPT !.pubKey = m.newPubKey,
                                     !.voiceCreditBalance =
                                       @ + Cost(before, qv) - Cost(m.newVoteWeight, qv)]],
            ballots |->
              [st.ballots EXCEPT
                 ![i] = [nonce |-> m.nonce,
                         votes |-> [ballot.votes EXCEPT
                                      ![m.voteOptionIndex + 1] = m.newVoteWeight]]]]

ProcessTopup(st, m, numSignUps) ==
  LET opened == OpenedIndex(m, numSignUps)
      valid == m.stateIndex <= numSignUps
      put == IF valid THEN m.stateIndex ELSE 0
      leaf == [st.stateLeaves[opened + 1] EXCEPT
                 !.voiceCreditBalance = @ + (IF valid THEN m.amount ELSE 0)]
  IN  [st EXCEPT !.stateLeaves =
         IF put = opened THEN [@ EXCEPT ![put + 1] = leaf] ELSE Garbage]

\* The state after the messages ms, the last one first, in one go; once the
\* root is garbage there is nothing to open any more.
Opened(st, m, numSignUps, qv) ==
  IF st.stateLeaves = Garbage THEN st
  ELSE IF m.msgType = 1 THEN ProcessOne(st, m, numSignUps, qv)
  ELSE ProcessTopup(st, m, numSignUps)

Proved(st, ms, numSignUps, qv) ==
  LET after[k \in 0..Len(ms)] ==
        IF k = 0 THEN st ELSE Opened(after[k - 1], ms[Len(ms) + 1 - k], numSignUps, qv)
  IN  after[Len(ms)]

-----------------------------------------------------------------------------
\* Some batch is processed and its result can be committed to.
Started(q) == q.stateCopied /\ q.numBatchesProcessed > 0 /\ HasSalt(q)

\* What such a commitment opens to.
Committed(q) == [stateLeaves |-> q.stateLeaves, ballots |-> q.ballotTree]

\* The messages of the batches processed so far: all but those before the
\* last batch's first message.
Processed(q) ==
  LET left == totalBatches(q) - q.numBatchesProcessed
  IN  SubSeq(q.messages, left * messageBatchSize + 1, Len(q.messages))

InitialState(q) ==
  [stateLeaves |-> SubSeq(signedUp, 1, q.numSignups),
   ballots |-> [i \in 1..q.numSignups |-> BlankBallot]]

TopupAtEnd(q) == \E i \in DOMAIN q.messages :
  q.messages[i].msgType = 2 /\ q.messages[i].stateIndex = q.numSignups
AllInTime(q) == \A i \in DOMAIN q.stateLeaves : q.stateLeaves[i].inTime

\* The Poll objects' fields, in step with each other.
TypeOK ==
  /\ election \in Elections
  /\ lock.being \in BOOLEAN /\ lock.poll \in PollIds \cup {Undefined, 0}
  /\ \A p \in PollIds :
       /\ Len(poll[p].stateLeaves) = poll[p].numSignups
       /\ poll[p].numSignups > 0 => Len(poll[p].ballots) = poll[p].numSignups
       /\ poll[p].stateCopied => Len(poll[p].ballotTree) = Len(poll[p].ballots)
       /\ poll[p].numBatchesProcessed <= totalBatches(poll[p])
       /\ \A i \in DOMAIN poll[p].stateLeaves : poll[p].stateLeaves[i].voiceCreditBalance >= 0

\* However the messages are cut into batches, and however often the state was
\* written and read back, what the poll can commit to is the state the circuit
\* reaches from the users' copy over all messages processed, so each batch has
\* a proof; users who sign up after updatePoll have no part in it.  Two cases
\* are excepted: a topup of the index numSignups, and a user who signed up
\* after the poll's end.
BatchesAreProvable ==
  \A p \in PollIds :
    LET q == poll[p]
    IN  Started(q) /\ ~TopupAtEnd(q) /\ AllInTime(q) =>
          Committed(q) = Proved(InitialState(q), Processed(q), q.numSignups, election.qv)

\* No voice credit is made or lost: what a user has left and what the ballot
\* cost are what the user signed up with and was topped up with.
ToppedUp(m, i) == IF m.msgType = 2 /\ m.stateIndex = i - 1 THEN m.amount ELSE 0
Topups(q, i) ==
  LET ms == Processed(q) IN Total([j \in DOMAIN ms |-> ToppedUp(ms[j], i)])
BallotCost(ballot, qv) == Total([o \in Options |-> Cost(ballot.votes[o], qv)])

CreditsConserved ==
  \A p \in PollIds : Started(poll[p]) =>
    \A i \in DOMAIN poll[p].stateLeaves :
      poll[p].stateLeaves[i].voiceCreditBalance + BallotCost(poll[p].ballots[i], election.qv)
      = signedUp[i].voiceCreditBalance + Topups(poll[p], i)

\* The tally of all ballots is the sum over the final ballots, the total spent
\* is what the users have spent, and once the walk over pairs of batches has
\* ended the subsidy is the one of all pairs of different final ballots, each
\* pair taken once; unless tallying or the subsidy began too early.
ResultsOfFinalBallots ==
  \A p \in PollIds :
    LET q == poll[p]
        pairs == {ij \in (DOMAIN q.ballots) \X (DOMAIN q.ballots) : ij[1] < ij[2]}
    IN  ~early /\ Started(q) =>
          /\ ~hasUntalliedBallots(q) =>
               /\ \A o \in Options : q.tallyResult[o] = VotesFor(q.ballots, o)
               /\ q.totalSpentVoiceCredits =
                    Total([i \in DOMAIN q.ballots |->
                      signedUp[i].voiceCreditBalance + Topups(q, i)
                        - q.stateLeaves[i].voiceCreditBalance])
               /\ election.qv => q.totalSpentVoiceCredits =
                    Total(q.perVOSpentVoiceCredits)
          /\ ~hasUnfinishedSubsidyCalculation(q) =>
               \A o \in Options : q.subsidy[o] = SubsidyOf(q.ballots, pairs, o)

InProgress(p) == poll[p].numBatchesProcessed > 0 /\ hasUnprocessedMessages(poll[p])

\* The first batch has thrown.
Failed(p) ==
  poll[p].numBatchesProcessed = 0 /\ poll[p].currentMessageBatchIndex # Undefined

\* Read back between two batches: no salt for the next one.
Torn(p) == InProgress(p) /\ ~HasSalt(poll[p])

\* The lock is held for a poll between its first batch and its last, or for
\* good once its first batch has thrown, and never by a poll that is done.
LockHeldInProgress ==
  lock.being <=> \E p \in PollIds : (InProgress(p) \/ Failed(p)) /\ lock.poll = p

\* Although the polls take the lock from each other, every poll that has its
\* copy of the users is processed to the end, provided no first batch throws
\* and the state is not read back between two batches.
EveryPollProcessed ==
  [](\A p \in PollIds : ~Failed(p) /\ ~Torn(p)) =>
    \A p \in UNION {e.polls : e \in Elections} :
      (p \in PollIds /\ poll[p].numSignups > 0)
        ~> (p \in PollIds /\ ~hasUnprocessedMessages(poll[p]))

\* "Prevent other polls from being processed until this poll has been fully
\* processed" (core/ts/Poll.ts).
OnePollAtATime == \A p, r \in PollIds : InProgress(p) /\ InProgress(r) => p = r
=============================================================================
