------------------------------- MODULE Tally --------------------------------
(***************************************************************************)
(* The contracts that use the commitment MessageProcessor ends with:       *)
(* Tally (contracts/Tally.sol; TallyNonQv.sol has the same tallyVotes),    *)
(* which adds up the ballots batch by batch, and Subsidy                   *)
(* (contracts/Subsidy.sol), which walks over the pairs of ballot batches.  *)
(* With Poll and MessageProcessor they are all the contracts of one poll.  *)
(*                                                                         *)
(* tallyCommitment and subsidyCommitment are modelled by what was added:   *)
(* the state indices of the ballots tallied and the pairs of batches.      *)
(***************************************************************************)
EXTENDS MessageProcessor

CONSTANT
  tallyBatchSize    (* TREE_ARITY ** intStateTreeDepth, Subsidy's too       *)

ASSUME TallyConstants == tallyBatchSize \in Nat \ {0}

VARIABLES
  tallySbCommitment,    (* Tally's own sbCommitment                         *)
  tallyBatchNum,
  tallyCommitment,
  subsidySbCommitment,  (* Subsidy's own sbCommitment                       *)
  rbi, cbi,             (* row and column batch index                       *)
  subsidyCommitment

tallyVars == <<tallySbCommitment, tallyBatchNum, tallyCommitment>>
subsidyVars == <<subsidySbCommitment, rbi, cbi, subsidyCommitment>>
vars == <<pollVars, mpVars, tallyVars, subsidyVars>>

Init ==
  /\ PollInit /\ MPInit
  /\ tallySbCommitment = Empty /\ tallyBatchNum = 0 /\ tallyCommitment = << >>
  /\ subsidySbCommitment = Empty /\ rbi = 0 /\ cbi = 0 /\ subsidyCommitment = << >>

\* Mutant: without the requirement that all messages are processed.
UpdatedAnyTime(sb) == IF sb = Empty THEN {sbCommitment} ELSE {sb}

\* updateSbCommitment of Tally and Subsidy: the value it leaves, none if it
\* reverts because processing is not complete.
Updated(sb) ==
  IF ~processingComplete THEN {} ELSE IF sb = Empty THEN {sbCommitment} ELSE {sb}

updateTallySbCommitment ==
  /\ tallySbCommitment' \in Updated(tallySbCommitment)
  /\ UNCHANGED <<pollVars, mpVars, tallyBatchNum, tallyCommitment, subsidyVars>>

isTallied == tallyBatchNum * tallyBatchSize >= numSignups

\* Mutant: the last batch is taken to be full.
FullBallotBatch(start) == [i \in 1..tallyBatchSize |-> start + i - 1]

\* Tally only says where a batch starts; that it stops at the last ballot is
\* core's and the circuit's doing.
BallotBatch(start) ==
  SubSeq([i \in 1..numSignups |-> i - 1], start + 1,
         IF start + tallyBatchSize < numSignups THEN start + tallyBatchSize ELSE numSignups)

tallyVotes ==
  /\ over
  /\ tallySbCommitment' \in Updated(tallySbCommitment)
  /\ ~isTallied
  /\ tallyBatchNum' = tallyBatchNum + 1
  /\ tallyCommitment' = tallyCommitment \o BallotBatch(tallyBatchNum * tallyBatchSize)
  /\ UNCHANGED <<pollVars, mpVars, subsidyVars>>

updateSubsidySbCommitment ==
  /\ subsidySbCommitment' \in Updated(subsidySbCommitment)
  /\ UNCHANGED <<pollVars, mpVars, tallyVars, rbi, cbi, subsidyCommitment>>

\* Mutant: the next row starts at the first column.
NextFromColumnZero ==
  IF cbi * tallyBatchSize + tallyBatchSize < numSignups
  THEN <<rbi, cbi + 1>> ELSE <<rbi + 1, 0>>

\* increaseSubsidyIndex: along the row, then to the diagonal of the next.
NextSubsidyIndex ==
  IF cbi * tallyBatchSize + tallyBatchSize < numSignups
  THEN <<rbi, cbi + 1>> ELSE <<rbi + 1, rbi + 1>>

\* The contract and subsidy.circom both let a row begin AT numSignups.
updateSubsidy ==
  /\ over
  /\ subsidySbCommitment' \in Updated(subsidySbCommitment)
  /\ rbi * tallyBatchSize <= numSignups /\ cbi * tallyBatchSize <= numSignups
  /\ subsidyCommitment' = Append(subsidyCommitment, <<rbi, cbi>>)
  /\ rbi' = NextSubsidyIndex[1] /\ cbi' = NextSubsidyIndex[2]
  /\ UNCHANGED <<pollVars, mpVars, tallyVars>>

Next ==
  \/ MPNext /\ UNCHANGED <<tallyVars, subsidyVars>>
  \/ updateTallySbCommitment
  \/ tallyVotes
  \/ updateSubsidySbCommitment
  \/ updateSubsidy

Step(A) == A /\ UNCHANGED <<mpVars, tallyVars, subsidyVars>>

\* Time passes, and a coordinator who wants the result merges both trees,
\* processes the messages and tallies the ballots, retrying what reverts.
\* Nobody has to publish.  The two steps on the queue are weakly fair with
\* their ENABLED written out, which TLC could not evaluate in reasonable time.
Fairness ==
  /\ WF_vars(Step(PeriodEnds))
  /\ WF_vars(Step(MergeStateTree))
  /\ <>[](isAfterVotingDeadline /\ CanMergeSubRoots(messageAq)) =>
       []<><<Step(MergeMessageSubRoots)>>_vars
  /\ <>[](/\ isAfterVotingDeadline
          /\ CanMerge(messageAq, messageTreeDepth)
          /\ getMainRoot(messageAq, messageTreeDepth) = Empty) =>
       []<><<Step(mergeMessageAq)>>_vars
  /\ WF_vars(processMessages /\ UNCHANGED <<tallyVars, subsidyVars>>)
  /\ WF_vars(tallyVotes)
  /\ WF_vars(updateSubsidy)

Spec == Init /\ [][Next]_vars /\ Fairness

-----------------------------------------------------------------------------
TallyBatches == (numSignups + tallyBatchSize - 1) \div tallyBatchSize

\* MessageProcessor's and the tallying contracts' storage.
TypeOK ==
  /\ MPTypeOK
  /\ over \in BOOLEAN /\ finished \in BOOLEAN /\ stateAqMerged \in BOOLEAN
  /\ numMessages <= maxMessages
  /\ merging \in {"no", "yes", "late"}
  /\ tallyBatchNum \in 0..TallyBatches
  /\ rbi \in 0..(TallyBatches + 1) /\ cbi \in rbi..(TallyBatches + 1)

\* Tally and Subsidy each copy the commitment once, and what they keep is the
\* commitment after the last batch, whatever is submitted in between.
ResultsUseFinalCommitment ==
  \A sb \in {tallySbCommitment, subsidySbCommitment} :
    sb # Empty => processingComplete /\ sb = sbCommitment

\* The ballots tallied so far are the first ones in order, each once, and
\* isTallied means all of the ballots of the merged sign-ups and no other.
BallotsTalliedOnce ==
  /\ tallyCommitment = [i \in 1..Len(tallyCommitment) |-> i - 1]
  /\ Len(tallyCommitment) <= numSignups
  /\ isTallied <=> Len(tallyCommitment) = numSignups

\* No pair of ballot batches is counted twice, in either order, and when no row
\* is left every pair of a row and a column not before it has been counted.
SubsidyPairsOnce ==
  /\ \A i, j \in DOMAIN subsidyCommitment :
       Range(subsidyCommitment[i]) = Range(subsidyCommitment[j]) => i = j
  /\ stateAqMerged /\ rbi * tallyBatchSize >= numSignups =>
       {p \in (0..(TallyBatches - 1)) \X (0..(TallyBatches - 1)) : p[1] <= p[2]}
         \subseteq Range(subsidyCommitment)

\* The coordinator gets the ballots tallied, unless a voter publishes after
\* the message queue's merge has begun.
TalliedUnlessLate == <>(merging = "late" \/ (tallySbCommitment # Empty /\ isTallied))
=============================================================================
