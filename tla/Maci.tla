-------------------------------- MODULE Maci --------------------------------
(***************************************************************************)
(* The MACI contract (contracts/MACI.sol) with its state queue and, of     *)
(* each poll it deploys, the calls that merge the state queue              *)
(* (contracts/Poll.sol): users sign up all the time, polls come one after  *)
(* the other and each keeps a snapshot of the users.                       *)
(*                                                                         *)
(* The k-th user to sign up, and the state leaf of that user, is modelled  *)
(* by the number k.  The blank leaf MACI begins with is Zero, for the      *)
(* queue's blank is the same hash.  Whether the gatekeeper lets a user in  *)
(* is the environment's choice of taking the step signUp.                  *)
(***************************************************************************)
EXTENDS AccQueueOps

CONSTANTS
  stateTreeDepth,   (* depth of the merged state tree, one mainRoots has    *)
  SrQueueLimits,    (* the numSrQueueOps arguments tried                   *)
  MaxPolls,         (* bound on the polls deployed                         *)
  MaxSignUps        (* bound on numSignUps                                 *)

ASSUME MaciConstants ==
  /\ stateTreeDepth \in Levels
  /\ SrQueueLimits \subseteq Nat
  /\ MaxPolls \in Nat /\ MaxSignUps \in Nat

VARIABLES
  stateAq,          (* the storage of MACI's AccQueue                      *)
  numSignUps,
  subtreesMerged,   (* sign-ups are blocked                                *)
  polls,            (* the polls deployed, the poll of ID p - 1 at p       *)
  stateIndexOf,     (* history: the state index in the k-th SignUp event   *)
  lateSignUp,       (* history: somebody signed up after a poll had called *)
                    (*   mergeStateAqSubRoots                              *)
  blanks            (* history: "none", "queued" once a merge has queued   *)
                    (*   blank subroots, "overtaken" once others followed  *)

vars == <<stateAq, numSignUps, subtreesMerged, polls, stateIndexOf, lateSignUp, blanks>>

Users == DOMAIN stateIndexOf
nextPollId == Len(polls)
NewPoll == [stateAqMerged |-> FALSE, mergedStateRoot |-> Empty, numSignups |-> 0]

\* The constructor signs up a blank leaf.
Init ==
  /\ stateAq = enqueue(NewAccQueue, Zero)
  /\ numSignUps = 1
  /\ subtreesMerged = FALSE
  /\ polls = << >>
  /\ stateIndexOf = << >>
  /\ lateSignUp = FALSE
  /\ blanks = "none"

SignUpBlocked == subtreesMerged

signUp ==
  /\ ~SignUpBlocked
  /\ numSignUps < hashLength ^ stateTreeDepth
  /\ numSignUps < MaxSignUps
  /\ numSignUps' = numSignUps + 1
  /\ stateAq' = enqueue(stateAq, Len(stateIndexOf) + 1)
  /\ stateIndexOf' = Append(stateIndexOf, stateAq.numLeaves)
  /\ lateSignUp' = (lateSignUp \/ stateAq.nextSubRootIndex > 0 \/ stateAq.treeMerged)
  /\ UNCHANGED <<subtreesMerged, polls, blanks>>

\* Mutant: polls are deployed without waiting for one another.
PreviousIgnored == TRUE

\* The flag treeMerged of the queue, which nothing ever clears, stands for
\* "the previous poll is completed".
PreviousCompleted == stateAq.treeMerged

deployPoll ==
  /\ nextPollId < MaxPolls
  /\ nextPollId > 0 => PreviousCompleted
  /\ polls' = Append(polls, NewPoll)
  /\ UNCHANGED <<stateAq, numSignUps, subtreesMerged, stateIndexOf, lateSignUp, blanks>>

QueuesBlanks(aq) ==
  /\ aq.subTreesMerged
  /\ aq.currentSubtreeIndex > 1
  /\ aq.currentSubtreeIndex # hashLength ^ calcMinHeight(aq.currentSubtreeIndex)

\* Mutant: the block is set by an unfinished merge too.
BlockedFromFirstCall(aq) == TRUE

BlockedAfter(aq) == aq.subTreesMerged \/ subtreesMerged

\* Poll.mergeMaciStateAqSubRoots and MACI.mergeStateAqSubRoots.
mergeMaciStateAqSubRoots(p, numSrQueueOps) ==
  /\ ~polls[p].stateAqMerged
  /\ CanMergeSubRoots(stateAq)
  /\ stateAq' = mergeSubRoots(stateAq, numSrQueueOps)
  /\ subtreesMerged' = BlockedAfter(stateAq')
  /\ blanks' =
       IF blanks # "none" /\ stateAq'.nextSubRootIndex > stateAq.nextSubRootIndex
       THEN "overtaken"
       ELSE IF blanks = "none" /\ QueuesBlanks(stateAq') THEN "queued" ELSE blanks
  /\ UNCHANGED <<numSignUps, polls, stateIndexOf, lateSignUp>>

Snapshot(root) ==
  [stateAqMerged |-> TRUE, mergedStateRoot |-> root, numSignups |-> numSignUps]

\* Mutant: the block outlives the merge.
BlockKept == subtreesMerged

BlockAfterMerge == FALSE

\* Poll.mergeMaciStateAq and MACI.mergeStateAq.
mergeMaciStateAq(p) ==
  /\ ~polls[p].stateAqMerged
  /\ CanMerge(stateAq, stateTreeDepth)
  /\ subtreesMerged' = BlockAfterMerge
  /\ stateAq' = merge(stateAq, stateTreeDepth)
  /\ polls' = [polls EXCEPT ![p] = Snapshot(MergedRoot(stateAq, stateTreeDepth))]
  /\ UNCHANGED <<numSignUps, stateIndexOf, lateSignUp, blanks>>

MergeSubRootsBy(p) ==
  p \in DOMAIN polls /\ \E n \in SrQueueLimits : mergeMaciStateAqSubRoots(p, n)
MergeBy(p) == p \in DOMAIN polls /\ mergeMaciStateAq(p)

PollIds == 1..MaxPolls

Next ==
  \/ signUp
  \/ deployPoll
  \/ \E p \in PollIds : MergeSubRootsBy(p)
  \/ \E p \in PollIds : MergeBy(p)

\* The coordinator of each poll merges, repeating what reverts or is left
\* unfinished; nobody has to sign up or to deploy a poll.  These are weak
\* fairness with ENABLED written out: a merge that is not refused changes
\* the storage.
Unmerged(p) == p \in DOMAIN polls /\ ~polls[p].stateAqMerged

Fairness ==
  \A p \in PollIds :
    /\ <>[](Unmerged(p) /\ CanMergeSubRoots(stateAq)) => []<><<MergeSubRootsBy(p)>>_vars
    /\ <>[](Unmerged(p) /\ CanMerge(stateAq, stateTreeDepth)) => []<><<MergeBy(p)>>_vars

Spec == Init /\ [][Next]_vars /\ Fairness

-----------------------------------------------------------------------------
Merged(p) == p \in DOMAIN polls /\ polls[p].stateAqMerged

\* updatePoll of core/ts/Poll.ts, after genMaciState has replayed the SignUp
\* events: the root of the first n state leaves, without gaps, after MACI's
\* blank leaf.
updatePollRoot(n) ==
  <<Zero>> \o [u \in 1..(n - 1) |-> u] \o ZeroLeaves(hashLength ^ stateTreeDepth - n)

\* While sign-ups are blocked the subtrees stay merged and there is a poll
\* whose mergeMaciStateAq lifts the block.
BlockIsLiftable ==
  subtreesMerged => stateAq.subTreesMerged /\ \E p \in PollIds : Unmerged(p)

\* A poll's state root opens, at the index each SignUp event gave, to the
\* leaf of that user, and holds nobody else; sign-ups between the calls of a
\* merge included, unless the merge resumes after blank subroots.
SnapshotAtStateIndices ==
  blanks # "overtaken" =>
    \A p \in PollIds : Merged(p) =>
      \A i \in 1..(hashLength ^ stateTreeDepth) :
        LET at == {u \in Users : u < polls[p].numSignups /\ stateIndexOf[u] = i - 1}
        IN  polls[p].mergedStateRoot[i] \in (IF at = {} THEN {Zero} ELSE at)

\* If nobody signs up once the first merge has begun, every poll's root is the
\* one the coordinator computes from the events.
RootIsReplayable ==
  ~lateSignUp => \A p \in PollIds : Merged(p) =>
    polls[p].mergedStateRoot = updatePollRoot(polls[p].numSignups)

\* Every poll deployed gets its snapshot, although sign-ups undo an unfinished
\* merge and the polls share one queue; and the block of sign-ups is lifted.
EveryPollMerges ==
  /\ \A p \in PollIds : p \in DOMAIN polls ~> Merged(p)
  /\ subtreesMerged ~> ~subtreesMerged

\* "we need to ensure that the stateRoot is correct", the assertion that ends
\* genMaciState (contracts/ts/genMaciState.ts).
StateRootIsCorrect ==
  \A p \in PollIds : Merged(p) =>
    polls[p].mergedStateRoot = updatePollRoot(polls[p].numSignups)
=============================================================================
