----------------------------- MODULE MaciProofs -----------------------------
(***************************************************************************)
(* For every shape of the state queue, every number of polls and sign-ups  *)
(* and however the merge scripts interleave and crash: a block of          *)
(* sign-ups can be lifted, and a script that goes on has its snapshot.     *)
(***************************************************************************)
EXTENDS TreeMerger, AccQueueOpsProofs

Places == {"stopped", "loop", "subroots", "check", "merge", "wait", "done"}

\* polls is an array and script has a place for each poll.
Shapes ==
  /\ polls \in Seq(Range(polls))
  /\ script \in [PollIds -> Places]

\* Polls are added at the end, and a step of Maci changes none but the one
\* that takes its snapshot.
LEMMA PollsKept ==
  ASSUME Shapes, Next
  PROVE  /\ polls' \in Seq(Range(polls'))
         /\ \A p \in DOMAIN polls :
              p \in DOMAIN polls' /\ (polls[p].stateAqMerged => polls'[p].stateAqMerged)
<1>1. DOMAIN polls = 1..Len(polls) /\ Len(polls) \in Nat
  BY DEF Shapes
<1>2. CASE signUp \/ \E p \in PollIds : MergeSubRootsBy(p)
  BY <1>2 DEF signUp, MergeSubRootsBy, mergeMaciStateAqSubRoots, Shapes
<1>3. CASE deployPoll
  <2>1. polls' = Append(polls, NewPoll)
    BY <1>3 DEF deployPoll
  <2>2. polls \in Seq(Range(polls) \cup {NewPoll})
    BY DEF Shapes
  <2>3. /\ Len(polls') = Len(polls) + 1 /\ DOMAIN polls' = 1..(Len(polls) + 1)
        /\ \A p \in 1..Len(polls) : polls'[p] = polls[p]
    BY <2>1, <2>2
  <2>4. polls' \in Seq(Range(polls'))
    BY <1>1, <2>1, <2>2, <2>3 DEF Range
  <2> QED
    BY <1>1, <2>3, <2>4
<1>4. ASSUME NEW p \in PollIds, MergeBy(p)
      PROVE  /\ polls' \in Seq(Range(polls'))
             /\ \A r \in DOMAIN polls :
                  r \in DOMAIN polls' /\ (polls[r].stateAqMerged => polls'[r].stateAqMerged)
  <2>1. PICK root : polls' = [polls EXCEPT ![p] = Snapshot(root)]
    BY <1>4 DEF MergeBy, mergeMaciStateAq
  <2>2. Snapshot(root).stateAqMerged
    BY DEF Snapshot
  <2>3. polls' \in [1..Len(polls) -> Range(polls')]
    BY <1>1, <2>1 DEF Range
  <2>4. polls' \in Seq(Range(polls'))
    BY <1>1, <2>3, SeqDef
  <2> QED
    BY <1>1, <2>1, <2>2, <2>3, <2>4
<1> QED
  BY <1>2, <1>3, <1>4 DEF Next

LEMMA ShapesStep ==
  ASSUME Shapes, [MergerNext]_mergerVars
  PROVE  Shapes'
<1>1. CASE Next /\ script' \in [PollIds -> Places]
  BY <1>1, PollsKept DEF Shapes
<1>2. CASE UNCHANGED vars /\ script' \in [PollIds -> Places]
  BY <1>2 DEF Shapes, vars
<1>3. CASE (signUp \/ deployPoll) /\ Idle
  BY <1>1, <1>3 DEF Idle, Shapes, Next
<1>4. ASSUME NEW p \in PollIds, ScriptStep(p) \/ crash(p)
      PROVE  Shapes'
  <2>1. ASSUME NEW pc \in Places, GoTo(p, pc)
        PROVE  script' \in [PollIds -> Places]
    BY <2>1 DEF GoTo, Shapes
  <2>2. CASE start(p) \/ readSubTreesMerged(p) \/ readMainRoot(p) \/ receive(p)
    BY <1>2, <2>1, <2>2 DEF start, readSubTreesMerged, readMainRoot, receive, Places
  <2>3. CASE crash(p)
    BY <1>2, <2>3 DEF crash, Places, Shapes
  <2>4. CASE sendMergeSubRoots(p)
    BY <1>1, <1>2, <2>1, <2>4 DEF sendMergeSubRoots, Places, Next
  <2>5. CASE sendMerge(p)
    BY <1>1, <1>2, <2>1, <2>5 DEF sendMerge, Places, Next
  <2> QED
    BY <1>4, <2>2, <2>3, <2>4, <2>5 DEF ScriptStep
<1>5. CASE UNCHANGED mergerVars
  BY <1>2, <1>5 DEF mergerVars, Shapes
<1> QED
  BY <1>3, <1>4, <1>5 DEF MergerNext

LEMMA ShapesInitially == MergerInit => Shapes
BY DEF MergerInit, Init, Shapes, Places, Range

-----------------------------------------------------------------------------
(***************************************************************************)
(* Blocked sign-ups.  mergeStateAqSubRoots is refused while the subtrees   *)
(* are merged, so it blocks only in the step that merges them, sent by a   *)
(* poll that has no snapshot yet.                                          *)
(***************************************************************************)
BlockInv == Shapes /\ BlockIsLiftable

LEMMA BlockStep ==
  ASSUME BlockInv, [MergerNext]_mergerVars
  PROVE  BlockInv'
<1>1. Shapes'
  BY ShapesStep DEF BlockInv
<1> SUFFICES BlockIsLiftable'
  BY <1>1 DEF BlockInv
<1>2. CASE UNCHANGED vars
  BY <1>2 DEF BlockInv, BlockIsLiftable, Unmerged, PollIds, vars
<1>3. CASE signUp
  BY <1>3 DEF signUp, SignUpBlocked, BlockIsLiftable
<1>4. CASE deployPoll
  <2>1. polls' = Append(polls, NewPoll) /\ UNCHANGED <<stateAq, subtreesMerged>>
    BY <1>4 DEF deployPoll
  <2>2. polls \in Seq(Range(polls) \cup {NewPoll})
    BY DEF BlockInv, Shapes
  <2>3. \A p \in DOMAIN polls : p \in DOMAIN polls' /\ polls'[p] = polls[p]
    BY <2>1, <2>2
  <2> QED
    BY <2>1, <2>3 DEF BlockInv, BlockIsLiftable, Unmerged, PollIds
<1>5. ASSUME NEW p \in PollIds, MergeSubRootsBy(p)
      PROVE  BlockIsLiftable'
  <2>1. PICK n \in SrQueueLimits : mergeMaciStateAqSubRoots(p, n)
    BY <1>5 DEF MergeSubRootsBy
  <2>2. ~subtreesMerged
    BY <2>1 DEF mergeMaciStateAqSubRoots, CanMergeSubRoots, BlockInv, BlockIsLiftable
  <2>3. subtreesMerged' = (stateAq'.subTreesMerged \/ subtreesMerged)
    BY <2>1 DEF mergeMaciStateAqSubRoots, BlockedAfter
  <2>4. Unmerged(p)'
    BY <1>5, <2>1 DEF MergeSubRootsBy, mergeMaciStateAqSubRoots, Unmerged
  <2> QED
    BY <2>2, <2>3, <2>4 DEF BlockIsLiftable, PollIds
<1>6. ASSUME NEW p \in PollIds, MergeBy(p)
      PROVE  BlockIsLiftable'
  BY <1>6 DEF MergeBy, mergeMaciStateAq, BlockAfterMerge, BlockIsLiftable
<1>7. CASE \E p \in PollIds : ScriptStep(p) \/ crash(p)
  BY <1>2, <1>5, <1>6, <1>7
     DEF ScriptStep, start, readSubTreesMerged, sendMergeSubRoots, readMainRoot, sendMerge,
         receive, crash
<1> QED
  BY <1>2, <1>3, <1>4, <1>7 DEF MergerNext, mergerVars

\* Whenever sign-ups are blocked (MACI.subtreesMerged), the subtrees are merged
\* and a poll without a snapshot is there, whose mergeMaciStateAq lifts the
\* block: no sequence of merges, sign-ups and crashes shuts MACI for good.
THEOREM BlockLiftable == MergerSpec => []BlockIsLiftable
<1>1. MergerInit => BlockInv
  BY ShapesInitially DEF BlockInv, MergerInit, Init, BlockIsLiftable
<1>2. BlockInv /\ [MergerNext]_mergerVars => BlockInv'
  BY BlockStep
<1>3. BlockInv => BlockIsLiftable
  BY DEF BlockInv
<1> QED
  BY <1>1, <1>2, <1>3, PTL DEF MergerSpec

-----------------------------------------------------------------------------
(***************************************************************************)
(* The functions of the queue and its merged roots: only merge sets a main *)
(* root or treeMerged, and nothing clears treeMerged.                      *)
(***************************************************************************)
HasRoots(aq) == {"treeMerged", "mainRoots"} \subseteq DOMAIN aq

NoRoots == [l \in Levels |-> Empty]

KeepsRoots(aq, new) ==
  /\ HasRoots(new)
  /\ new.treeMerged = aq.treeMerged
  /\ new.mainRoots \in {aq.mainRoots, NoRoots}

LEMMA EnqueueKeeps ==
  ASSUME NEW aq, HasRoots(aq), NEW leaf
  PROVE  KeepsRoots(aq, enqueue(aq, leaf))
<1>1. KeepsRoots(aq, InvalidateRoots(aq))
  BY DEF HasRoots, KeepsRoots, InvalidateRoots, NoRoots
<1> QED
  BY <1>1 DEF HasRoots, KeepsRoots, enqueue, AddSubRoot

LEMMA FillKeeps ==
  ASSUME NEW aq, HasRoots(aq)
  PROVE  KeepsRoots(aq, FillStarted(aq))
<1>1. ASSUME NEW subRoot
      PROVE  KeepsRoots(aq, AddSubRoot(aq, subRoot))
  BY DEF HasRoots, KeepsRoots, AddSubRoot
<1>2. KeepsRoots(aq, fill(aq))
  BY <1>1 DEF HasRoots, KeepsRoots, fill, NoRoots
<1> QED
  BY <1>2 DEF FillStarted, HasRoots, KeepsRoots

LEMMA MergeManyKeeps ==
  ASSUME NEW aq, HasRoots(aq), NEW n
  PROVE  KeepsRoots(aq, MergeManySubRoots(aq, n))
BY DEF HasRoots, KeepsRoots, MergeManySubRoots

LEMMA MergeSubRootsKeeps ==
  ASSUME NEW aq, HasRoots(aq), NEW n
  PROVE  KeepsRoots(aq, mergeSubRoots(aq, n))
<1> DEFINE full == FillStarted(aq)
<1>1. KeepsRoots(aq, full)
  BY FillKeeps
<1>2. KeepsRoots(full, MergeManySubRoots(full, n))
  BY <1>1, MergeManyKeeps DEF KeepsRoots
<1> HIDE DEF full
<1>3. KeepsRoots(aq, MergeManySubRoots(full, n))
  BY <1>1, <1>2 DEF KeepsRoots
<1> QED
  BY <1>1, <1>3 DEF mergeSubRoots, HasRoots, KeepsRoots, full

-----------------------------------------------------------------------------
(***************************************************************************)
(* The snapshot.  Whatever was merged, the first poll has merged it or has *)
(* merged before: a second poll is deployed only then.                     *)
(***************************************************************************)
FirstPollMerged ==
  /\ HasRoots(stateAq)
  /\ stateAq.treeMerged \/ stateAq.mainRoots[stateTreeDepth] # Empty \/ Len(polls) > 1
       => Merged(1)

PastMerge == \A p \in PollIds : script[p] \in {"wait", "done"} => Merged(p)

SnapshotInv == Shapes /\ FirstPollMerged /\ PastMerge

LEMMA MergedKept ==
  ASSUME Shapes, [Next]_vars
  PROVE  \A p : Merged(p) => Merged(p)'
<1>1. CASE Next
  BY <1>1, PollsKept DEF Merged
<1>2. CASE UNCHANGED vars
  BY <1>2 DEF Merged, vars
<1> QED
  BY <1>1, <1>2

LEMMA FirstPollStep ==
  ASSUME SnapshotInv, [Next]_vars
  PROVE  FirstPollMerged'
<1> USE DEF SnapshotInv
<1>1. Merged(1) => Merged(1)'
  BY MergedKept
<1>2. NoRoots[stateTreeDepth] = Empty
  BY MaciConstants DEF NoRoots
<1>3. ASSUME KeepsRoots(stateAq, stateAq'), UNCHANGED polls
      PROVE  FirstPollMerged'
  BY <1>1, <1>2, <1>3 DEF FirstPollMerged, KeepsRoots
<1>4. CASE signUp
  BY <1>3, <1>4, EnqueueKeeps DEF signUp, FirstPollMerged
<1>5. CASE deployPoll
  <2>1. polls' = Append(polls, NewPoll) /\ UNCHANGED stateAq
    BY <1>5 DEF deployPoll
  <2>2. Len(polls) > 0 => stateAq.treeMerged
    BY <1>5 DEF deployPoll, nextPollId, PreviousCompleted
  <2>3. Len(polls) \in Nat /\ Len(polls') = Len(polls) + 1
    <3>1. polls \in Seq(Range(polls) \cup {NewPoll})
      BY DEF Shapes
    <3> QED
      BY <2>1, <3>1
  <2> QED
    BY <1>1, <2>1, <2>2, <2>3 DEF FirstPollMerged
<1>6. ASSUME NEW p \in PollIds, MergeSubRootsBy(p)
      PROVE  FirstPollMerged'
  BY <1>3, <1>6, MergeSubRootsKeeps
     DEF MergeSubRootsBy, mergeMaciStateAqSubRoots, FirstPollMerged
<1>7. ASSUME NEW p \in PollIds, MergeBy(p)
      PROVE  FirstPollMerged'
  <2>1. HasRoots(stateAq')
    BY <1>7 DEF MergeBy, mergeMaciStateAq, merge, FirstPollMerged, HasRoots
  <2>2. p \in 1..Len(polls) /\ Len(polls) \in Nat
    BY <1>7 DEF MergeBy, Shapes
  <2>3. CASE p = 1
    BY <1>7, <2>1, <2>2, <2>3
       DEF MergeBy, mergeMaciStateAq, Snapshot, Merged, FirstPollMerged
  <2>4. CASE p # 1
    <3>1. Merged(1)
      BY <2>2, <2>4 DEF FirstPollMerged
    <3> QED
      BY <1>1, <2>1, <3>1 DEF FirstPollMerged
  <2> QED
    BY <2>3, <2>4
<1>8. CASE UNCHANGED vars
  BY <1>8 DEF vars, FirstPollMerged, Merged, HasRoots
<1> QED
  BY <1>4, <1>5, <1>6, <1>7, <1>8 DEF Next

LEMMA PastMergeStep ==
  ASSUME SnapshotInv, [MergerNext]_mergerVars
  PROVE  PastMerge'
<1> USE DEF SnapshotInv
<1>1. ASSUME [Next]_vars, UNCHANGED script
      PROVE  PastMerge'
  BY <1>1, MergedKept DEF PastMerge
<1>2. ASSUME NEW p \in PollIds, NEW pc \in Places, GoTo(p, pc), [Next]_vars,
             pc \in {"wait", "done"} => Merged(p)'
      PROVE  PastMerge'
  BY <1>2, MergedKept DEF PastMerge, GoTo, Shapes
<1>3. CASE (signUp \/ deployPoll) /\ Idle
  BY <1>1, <1>3 DEF Idle, Next
<1>4. ASSUME NEW p \in PollIds, ScriptStep(p)
      PROVE  PastMerge'
  <2>1. CASE start(p) \/ readSubTreesMerged(p)
    BY <1>2, <2>1 DEF start, readSubTreesMerged, Places
  <2>2. CASE sendMergeSubRoots(p)
    BY <1>2, <2>2 DEF sendMergeSubRoots, Places, Next
  <2>3. CASE readMainRoot(p)
    <3>1. CASE GoTo(p, "stopped") \/ GoTo(p, "merge")
      BY <1>2, <2>3, <3>1 DEF readMainRoot, Places
    <3>2. CASE GoTo(p, "done") /\ ~HasToMerge(p)
      <4>1. p = 1 /\ stateAq.mainRoots[stateTreeDepth] # Empty
        BY <3>2, MaciConstants DEF HasToMerge, getMainRoot, PollIds
      <4>2. Merged(1)'
        BY <2>3, <4>1, MergedKept DEF FirstPollMerged, readMainRoot
      <4> QED
        BY <1>2, <2>3, <3>2, <4>1, <4>2 DEF readMainRoot, Places
    <3> QED
      BY <2>3, <3>1, <3>2 DEF readMainRoot
  <2>4. CASE sendMerge(p)
    <3>1. CASE MergeBy(p) /\ GoTo(p, "wait")
      <4>1. Merged(p)'
        BY <3>1 DEF MergeBy, mergeMaciStateAq, Snapshot, Merged
      <4> QED
        BY <1>2, <3>1, <4>1 DEF Places, Next
    <3>2. CASE GoTo(p, "stopped") /\ UNCHANGED vars
      BY <1>2, <3>2 DEF Places
    <3> QED
      BY <2>4, <3>1, <3>2 DEF sendMerge
  <2>5. CASE receive(p)
    BY <1>2, <2>5, MergedKept DEF receive, At, PastMerge, Places
  <2> QED
    BY <1>4, <2>1, <2>2, <2>3, <2>4, <2>5 DEF ScriptStep
<1>5. ASSUME NEW p \in PollIds, crash(p)
      PROVE  PastMerge'
  BY <1>5, MergedKept DEF crash, PastMerge, Shapes
<1>6. CASE UNCHANGED mergerVars
  BY <1>1, <1>6 DEF mergerVars
<1> QED
  BY <1>3, <1>4, <1>5, <1>6 DEF MergerNext

LEMMA SnapshotInitially == MergerInit => SnapshotInv
<1> SUFFICES ASSUME MergerInit PROVE SnapshotInv
  OBVIOUS
<1>1. KeepsRoots(NewAccQueue, stateAq)
  BY EnqueueKeeps DEF MergerInit, Init, NewAccQueue, HasRoots
<1>2. ~NewAccQueue.treeMerged /\ NewAccQueue.mainRoots[stateTreeDepth] = Empty
  BY MaciConstants DEF NewAccQueue
<1>3. NoRoots[stateTreeDepth] = Empty
  BY MaciConstants DEF NoRoots
<1>4. FirstPollMerged
  BY <1>1, <1>2, <1>3 DEF MergerInit, Init, FirstPollMerged, KeepsRoots
<1> QED
  BY <1>4, ShapesInitially DEF SnapshotInv, PastMerge, MergerInit

\* A step of the scripts is one of Maci or none.
LEMMA MergerSteps == [MergerNext]_mergerVars => [Next]_vars
BY DEF MergerNext, mergerVars, ScriptStep, start, readSubTreesMerged, sendMergeSubRoots,
       readMainRoot, sendMerge, receive, crash, Next

LEMMA SnapshotStep == SnapshotInv /\ [MergerNext]_mergerVars => SnapshotInv'
<1> SUFFICES ASSUME SnapshotInv, [MergerNext]_mergerVars PROVE SnapshotInv'
  OBVIOUS
<1>1. [Next]_vars
  BY MergerSteps
<1> QED
  BY <1>1, ShapesStep, FirstPollStep, PastMergeStep DEF SnapshotInv

\* A merge script that goes on to the message queue, by a merge of its own or
\* because it found a main root, has a poll that recorded its state root
\* (Poll.stateAqMerged), in whatever order the scripts of all polls, sign-ups
\* and crashes come.
THEOREM DoneSnapshot == MergerSpec => []DoneHoldsSnapshot
<1>1. SnapshotInv => DoneHoldsSnapshot
  BY DEF SnapshotInv, PastMerge, DoneHoldsSnapshot, At
<1> QED
  BY <1>1, SnapshotInitially, SnapshotStep, PTL DEF MergerSpec

-----------------------------------------------------------------------------
(***************************************************************************)
(* The state queue and its users.  Every leaf belongs to the user whose    *)
(* SignUp event names its position, or is blank; and the root over the     *)
(* subroots is right unless subroots came after blank ones.                *)
(***************************************************************************)
StateLeaves == Nat \cup {Zero}
OwnersIn(index, i) == {u \in DOMAIN index : index[u] = i - 1}

InPlace(index, leaves) ==
  /\ \A u \in DOMAIN index : index[u] < Len(leaves)
  /\ \A i \in 1..Len(leaves) :
       leaves[i] \in (IF OwnersIn(index, i) = {} THEN {Zero} ELSE OwnersIn(index, i))

UsersInPlace ==
  /\ stateIndexOf \in Seq(Nat) /\ numSignUps = Len(stateIndexOf) + 1
  /\ InPlace(stateIndexOf, Leaves(stateAq))

\* A subtree holds a user or the first blank leaf, so that there are no more
\* subtrees than sign-ups, the one that a merge fills up included.
StateQueueInv ==
  /\ Stored(StateLeaves, stateAq) /\ numSignUps \in Nat
  /\ FillStarted(stateAq).currentSubtreeIndex <= numSignUps
  /\ numSignUps <= hashLength ^ stateTreeDepth
  /\ CanMergeSubRoots(stateAq) => Mergeable(stateAq)
  /\ blanks \in {"none", "queued", "overtaken"}
  /\ blanks # "none" => stateAq.currentSubtreeIndex > 1
  /\ blanks = "none" => Unmixed(StateLeaves, stateAq)
  /\ (blanks # "overtaken" /\ stateAq.subTreesMerged) => Rooted(stateAq)

SnapshotsCount == \A p \in PollIds : Merged(p) => polls[p].numSignups \in 1..numSignUps

\* The leaves that genMaciState replays from the first n sign-ups.
Replayed(n) == <<Zero>> \o UpTo(n - 1)

\* As long as nobody signs up during a merge, zeros come only at the end.
ReplayInv ==
  ~lateSignUp =>
    /\ numSignUps <= stateAq.numLeaves
    /\ Leaves(stateAq) = Replayed(numSignUps) \o ZeroLeaves(stateAq.numLeaves - numSignUps)
    /\ (stateAq.nextSubRootIndex = 0 /\ ~stateAq.treeMerged /\ ~subtreesMerged) =>
         stateAq.numLeaves = numSignUps
    /\ blanks # "overtaken"
    /\ blanks = "queued" => ~Mergeable(stateAq)

StateInv ==
  /\ StateQueueInv
  /\ UsersInPlace
  /\ SnapshotsCount
  /\ SnapshotAtStateIndices
  /\ ReplayInv
  /\ RootIsReplayable

\* A new user is where the event says, and the others stay where they are.
LEMMA UserAdded ==
  ASSUME NEW index \in Seq(Nat), NEW leaves \in Seq(StateLeaves), InPlace(index, leaves)
  PROVE  InPlace(Append(index, Len(leaves)), leaves \o <<Len(index) + 1>>)
<1> DEFINE n == Len(leaves)
           user == Len(index) + 1
           last == <<user>>
           more == leaves \o last
           index2 == Append(index, n)
<1>1. n \in Nat /\ Len(index) \in Nat /\ user \in StateLeaves /\ user \in Nat /\ user >= 1
  BY DEF StateLeaves
<1>2. /\ index2 \in Seq(Nat) /\ DOMAIN index2 = 1..user /\ DOMAIN index = 1..(user - 1)
      /\ index2[user] = n /\ \A u \in 1..(user - 1) : index2[u] = index[u]
  BY <1>1
<1>3. last \in Seq(StateLeaves) /\ Len(last) = 1 /\ last[1] = user
  BY <1>1
<1> HIDE DEF n, user, last, index2
<1>4. /\ Len(more) = n + 1
      /\ \A i \in 1..(n + 1) : more[i] = IF i <= n THEN leaves[i] ELSE last[i - n]
  <2>1. /\ Len(more) = n + Len(last)
        /\ \A i \in 1..(n + Len(last)) : more[i] = IF i <= n THEN leaves[i] ELSE last[i - n]
    BY <1>3, Concatenated DEF n
  <2> HIDE DEF more
  <2> QED
    BY <1>3, <2>1
<1> HIDE DEF more
<1>5. more[n + 1] = user /\ \A i \in 1..n : more[i] = leaves[i]
  BY <1>1, <1>3, <1>4
<1>6. \A u \in 1..(user - 1) : index[u] \in Nat /\ index[u] < n
  <2>1. \A u \in 1..(user - 1) : index[u] < n
    BY <1>2 DEF InPlace, n
  <2>2. Len(index) = user - 1
    BY <1>1 DEF user
  <2>3. \A u \in 1..(user - 1) : index[u] \in Nat
    BY <2>2, ElementOfSeq
  <2> QED
    BY <2>1, <2>3
<1>7. \A u \in 1..user : index2[u] < n + 1
  BY <1>1, <1>2, <1>6
<1>8. ASSUME NEW i \in 1..n
      PROVE  OwnersIn(index2, i) = OwnersIn(index, i)
  <2>1. n # i - 1
    BY <1>1
  <2>2. \A u : u \in 1..user <=> u = user \/ u \in 1..(user - 1)
    BY <1>1
  <2> QED
    BY <1>2, <2>1, <2>2 DEF OwnersIn
<1>9. user \in OwnersIn(index2, n + 1)
  BY <1>1, <1>2 DEF OwnersIn
<1>10. ASSUME NEW i \in 1..(n + 1)
       PROVE  more[i] \in (IF OwnersIn(index2, i) = {} THEN {Zero} ELSE OwnersIn(index2, i))
  <2>1. CASE i = n + 1
    BY <1>5, <1>9, <2>1
  <2>2. CASE i # n + 1
    <3>1. i \in 1..n
      BY <1>1, <2>2
    <3> QED
      BY <1>5, <1>8, <3>1 DEF InPlace, n
  <2> QED
    BY <2>1, <2>2
<1>11. InPlace(index2, more)
  BY <1>2, <1>4, <1>7, <1>10 DEF InPlace
<1> QED
  BY <1>11 DEF index2, more, last, user, n

\* Nobody is where the zeros are.
LEMMA ZerosAdded ==
  ASSUME NEW index \in Seq(Nat), NEW leaves \in Seq(StateLeaves), InPlace(index, leaves), NEW k \in Nat
  PROVE  InPlace(index, leaves \o ZeroLeaves(k))
<1> DEFINE n == Len(leaves)
           zeros == ZeroLeaves(k)
           more == leaves \o zeros
<1>1. n \in Nat /\ Zero \in StateLeaves /\ DOMAIN index = 1..Len(index)
  BY DEF StateLeaves
<1>2. zeros \in Seq(StateLeaves) /\ Len(zeros) = k /\ \A i \in 1..k : zeros[i] = Zero
  BY <1>1, ZerosTyped
<1> HIDE DEF n, zeros
<1>3. /\ Len(more) = n + k
      /\ \A i \in 1..(n + k) : more[i] = IF i <= n THEN leaves[i] ELSE zeros[i - n]
  <2>1. /\ Len(more) = n + Len(zeros)
        /\ \A i \in 1..(n + Len(zeros)) : more[i] = IF i <= n THEN leaves[i] ELSE zeros[i - n]
    BY <1>2, Concatenated DEF n
  <2> HIDE DEF more
  <2> QED
    BY <1>2, <2>1
<1> HIDE DEF more
<1>4. \A u \in DOMAIN index : index[u] \in Nat /\ index[u] < n
  BY <1>1, ElementOfSeq DEF InPlace, n
<1>5. \A u \in DOMAIN index : index[u] < n + k
  BY <1>1, <1>4
<1>6. ASSUME NEW i \in 1..(n + k)
      PROVE  more[i] \in (IF OwnersIn(index, i) = {} THEN {Zero} ELSE OwnersIn(index, i))
  <2>1. CASE i <= n
    <3>1. i \in 1..n
      BY <1>1, <2>1
    <3> QED
      BY <1>3, <2>1, <3>1 DEF InPlace, n
  <2>2. CASE ~ (i <= n)
    <3>1. i - n \in 1..k /\ n <= i - 1 /\ i - 1 \in Nat
      BY <1>1, <2>2
    <3>2. \A u \in DOMAIN index : index[u] # i - 1
      BY <1>1, <1>4, <3>1
    <3>3. OwnersIn(index, i) = {}
      BY <3>2 DEF OwnersIn
    <3> QED
      BY <1>2, <1>3, <2>2, <3>1, <3>3
  <2> QED
    BY <2>1, <2>2
<1>7. InPlace(index, more)
  BY <1>3, <1>5, <1>6 DEF InPlace
<1> QED
  BY <1>7 DEF more, zeros

\* The sign-ups fit in the state tree, and that in the queue.
LEMMA SubRootsOfSignUpsFit ==
  ASSUME StateQueueInv
  PROVE  FillStarted(stateAq).currentSubtreeIndex <= hashLength ^ MAX_DEPTH
<1> DEFINE c == FillStarted(stateAq).currentSubtreeIndex
           small == hashLength ^ stateTreeDepth
           large == hashLength ^ MAX_DEPTH
<1>1. stateTreeDepth \in 0..(MAX_DEPTH + 1) /\ MAX_DEPTH \in stateTreeDepth..(MAX_DEPTH + 1) /\ 1 \in Nat
  BY MaciConstants, AccQueueConstants DEF Levels
<1>2. Size(1, stateTreeDepth) <= Size(1, MAX_DEPTH)
  BY <1>1, SizeGrows
<1>3. small \in Nat /\ large \in Nat
  BY <1>1, PowerFacts, AccQueueConstants
<1>4. Size(1, stateTreeDepth) = 1 * small /\ Size(1, MAX_DEPTH) = 1 * large
  BY DEF Size
<1>5. c <= small
  <2>1. c \in Nat /\ numSignUps \in Nat
    BY SubRootsAreBounded DEF StateQueueInv
  <2> QED
    BY <1>3, <2>1 DEF StateQueueInv
<1>6. small <= large
  <2> HIDE DEF small, large
  <2> QED
    BY <1>2, <1>3, <1>4
<1>7. c \in Nat
  BY SubRootsAreBounded DEF StateQueueInv
<1> QED
  BY <1>3, <1>5, <1>6, <1>7

\* One sign-up more to replay.
LEMMA ReplayedTyped ==
  ASSUME NEW n \in Nat, n >= 1
  PROVE  /\ Replayed(n) \in Seq(StateLeaves) /\ Len(Replayed(n)) = n
         /\ Replayed(n) \o <<n>> = Replayed(n + 1)
<1> DEFINE X == StateLeaves
           zero == <<Zero>>
           ids == UpTo(n - 1)
           last == <<n>>
           all == zero \o ids
<1>1. zero \in Seq(X) /\ Len(zero) = 1 /\ last \in Seq(X)
  BY DEF StateLeaves
<1>2. ids \in Seq(X) /\ Len(ids) = n - 1 /\ ids \o last = UpTo(n)
  <2>1. n - 1 \in Nat /\ (n - 1) + 1 = n /\ Nat \subseteq X
    BY DEF StateLeaves
  <2> QED
    BY <2>1, UpToGrows
<1>3. Replayed(n) = all /\ Replayed(n + 1) = zero \o UpTo(n)
  <2>1. (n + 1) - 1 = n
    OBVIOUS
  <2> QED
    BY <2>1 DEF Replayed
<1>4. zero \o (ids \o last) = (zero \o ids) \o last
  <2>1. \A x, y, z \in Seq(X) : x \o (y \o z) = (x \o y) \o z
    BY ConcatIsAssociative DEF Associative
  <2> HIDE DEF ids, zero, last
  <2> QED
    BY <1>1, <1>2, <2>1
<1>5. all \in Seq(X) /\ Len(all) = n
  <2> HIDE DEF ids, zero, X
  <2>1. all \in Seq(X) /\ Len(all) = Len(zero) + Len(ids)
    BY <1>1, <1>2, Concatenated
  <2> HIDE DEF all
  <2> QED
    BY <1>1, <1>2, <2>1
<1> QED
  BY <1>2, <1>3, <1>4, <1>5

LEMMA StateInitially == Init => StateInv
<1> SUFFICES ASSUME Init PROVE StateInv
  OBVIOUS
<1> DEFINE X == StateLeaves
           none == NewAccQueue
<1>1. Stored(X, none) /\ Leaves(none) = << >> /\ Unmixed(X, none) /\ Zero \in X
  BY NewStored, NewUnmixed DEF StateLeaves
<1>2. /\ stateAq = enqueue(none, Zero) /\ numSignUps = 1 /\ ~subtreesMerged /\ polls = << >>
      /\ stateIndexOf = << >> /\ ~lateSignUp /\ blanks = "none"
  BY DEF Init
<1>3. Enqueued(X, none, stateAq, Zero)
  BY <1>1, <1>2, EnqueueStored
<1>4. /\ Stored(X, stateAq) /\ Leaves(stateAq) = << >> \o <<Zero>> /\ Grown(none, stateAq)
      /\ Mergeable(stateAq) /\ ~stateAq.subTreesMerged
  BY <1>1, <1>3 DEF Enqueued
<1>5. Leaves(stateAq) = <<Zero>> /\ Len(<<Zero>>) = 1 /\ <<Zero>> \in Seq(X) /\ <<Zero>>[1] = Zero
  BY <1>1, <1>4, ConcatEmptySeq
<1>6. Unmixed(X, stateAq)
  BY <1>1, <1>4, UnmixedKept
<1>7. stateAq.numLeaves = 1
  BY <1>4, <1>5 DEF Stored
<1>8. FillStarted(stateAq).currentSubtreeIndex <= 1
  <2>1. FillStarted(none).currentSubtreeIndex = 0
    <3>1. none.currentSubtreeIndex = 0 /\ none.leafQueue = NewQueue
      BY DEF NewAccQueue
    <3>2. ~Started(none)
      BY <1>1, <3>1, SubRootsAreBounded, NewQueueEmpty
    <3> QED
      BY <1>1, <3>1, <3>2, SubRootsAreBounded
  <2>2. FillStarted(stateAq).currentSubtreeIndex <= FillStarted(none).currentSubtreeIndex + 1
    BY <1>1, <1>2, EnqueueSubtrees
  <2> QED
    BY <2>1, <2>2
<1>9. 1 <= hashLength ^ stateTreeDepth
  BY PowerFacts, MaciConstants, AccQueueConstants DEF Levels
<1>10. StateQueueInv
  BY <1>2, <1>4, <1>6, <1>8, <1>9 DEF StateQueueInv
<1>11. UsersInPlace
  <2>1. DOMAIN stateIndexOf = {} /\ stateIndexOf \in Seq(Nat) /\ numSignUps = Len(stateIndexOf) + 1
    BY <1>2
  <2>2. \A i : OwnersIn(stateIndexOf, i) = {}
    BY <2>1 DEF OwnersIn
  <2>3. InPlace(stateIndexOf, <<Zero>>)
    BY <1>5, <2>1, <2>2 DEF InPlace
  <2> QED
    BY <1>5, <2>1, <2>3 DEF UsersInPlace
<1>12. \A p \in PollIds : ~Merged(p)
  BY <1>2 DEF Merged
<1>13. ReplayInv
  <2> DEFINE one == Replayed(1)
  <2>1. one \in Seq(X) /\ Len(one) = 1
    <3>1. \A m \in Nat : m >= 1 => Replayed(m) \in Seq(X) /\ Len(Replayed(m)) = m
      BY ReplayedTyped
    <3>2. 1 \in Nat /\ 1 >= 1
      OBVIOUS
    <3> HIDE DEF X
    <3> QED
      BY <3>1, <3>2, Zenon
  <2>2. one = <<Zero>>
    <3>1. one = <<Zero>> \o UpTo(1 - 1) /\ UpTo(1 - 1) = << >>
      BY DEF Replayed, UpTo
    <3> HIDE DEF one
    <3>2. one = <<Zero>> \o << >>
      BY <3>1
    <3> QED
      BY <1>5, <3>2, ConcatEmptySeq
  <2>3. Replayed(1) \o ZeroLeaves(0) = Replayed(1)
    <3>1. ZeroLeaves(0) = << >>
      BY <1>1, ZerosTyped, EmptySeq
    <3> QED
      BY <2>1, <3>1, ConcatEmptySeq
  <2>4. 1 - 1 = 0
    OBVIOUS
  <2>5. Leaves(stateAq) = Replayed(numSignUps) \o ZeroLeaves(stateAq.numLeaves - numSignUps)
    BY <1>2, <1>5, <1>7, <2>2, <2>3, <2>4
  <2> QED
    BY <1>2, <1>7, <2>5 DEF ReplayInv
<1> QED
  BY <1>10, <1>11, <1>12, <1>13 DEF StateInv, SnapshotsCount, SnapshotAtStateIndices, RootIsReplayable

\* What a new user's leaf does to the queue and the positions.
LEMMA SignUpStep ==
  ASSUME StateInv, signUp
  PROVE  StateInv'
<1> DEFINE X == StateLeaves
           leaf == Len(stateIndexOf) + 1
           old == Leaves(stateAq)
           new == Leaves(stateAq')
           n == Len(old)
<1>1. /\ ~subtreesMerged /\ numSignUps < hashLength ^ stateTreeDepth /\ numSignUps' = numSignUps + 1
      /\ stateAq' = enqueue(stateAq, leaf) /\ stateIndexOf' = Append(stateIndexOf, stateAq.numLeaves)
      /\ lateSignUp' = (lateSignUp \/ stateAq.nextSubRootIndex > 0 \/ stateAq.treeMerged)
      /\ subtreesMerged' = subtreesMerged /\ polls' = polls /\ blanks' = blanks
  BY DEF signUp, SignUpBlocked
<1>2. /\ Stored(X, stateAq) /\ numSignUps \in Nat /\ stateIndexOf \in Seq(Nat)
      /\ numSignUps = leaf /\ Len(stateIndexOf) \in Nat
  BY DEF StateInv, StateQueueInv, UsersInPlace
<1>3. leaf \in X /\ leaf \in Nat
  BY <1>2 DEF StateLeaves
<1> HIDE DEF leaf
<1>4. Enqueued(X, stateAq, stateAq', leaf)
  BY <1>1, <1>2, <1>3, EnqueueStored
<1>5. /\ Stored(X, stateAq') /\ new = old \o <<leaf>> /\ Grown(stateAq, stateAq')
      /\ Mergeable(stateAq') /\ ~stateAq'.subTreesMerged
  BY <1>4 DEF Enqueued
<1>6. /\ old \in Seq(X) /\ stateAq.numLeaves = n /\ stateAq'.numLeaves = Len(new) /\ n \in Nat
      /\ new \in Seq(X)
  <2>1. old \in Seq(X) /\ new \in Seq(X)
    BY <1>2, <1>5, LeavesCounted
  <2>2. stateAq.numLeaves = Len(old) /\ stateAq'.numLeaves = Len(new)
    BY <1>2, <1>5 DEF Stored
  <2> HIDE DEF old, new
  <2> QED
    BY <2>1, <2>2
<1>7. Len(new) = n + 1
  <2> DEFINE s == old
             t == <<leaf>>
  <2>1. t \in Seq(X) /\ Len(t) = 1 /\ s \in Seq(X) /\ n = Len(s)
    BY <1>3, <1>6
  <2> HIDE DEF s, t, n
  <2>2. Len(s \o t) = Len(s) + Len(t)
    BY <2>1, Concatenated
  <2>3. new = s \o t
    BY <1>5 DEF s, t
  <2> HIDE DEF new
  <2> QED
    BY <2>1, <2>2, <2>3
<1>8. StateQueueInv'
  <2>1. FillStarted(stateAq').currentSubtreeIndex <= FillStarted(stateAq).currentSubtreeIndex + 1
    BY <1>1, <1>2, <1>3, EnqueueSubtrees
  <2>2. FillStarted(stateAq').currentSubtreeIndex <= numSignUps'
    <3>1. FillStarted(stateAq').currentSubtreeIndex \in Nat /\ FillStarted(stateAq).currentSubtreeIndex \in Nat
      BY <1>2, <1>5, SubRootsAreBounded
    <3> QED
      BY <1>1, <1>2, <2>1, <3>1 DEF StateInv, StateQueueInv
  <2>3. numSignUps' <= hashLength ^ stateTreeDepth /\ numSignUps' \in Nat
    <3>1. hashLength ^ stateTreeDepth \in Nat
      BY PowerFacts, MaciConstants, AccQueueConstants DEF Levels
    <3> QED
      BY <1>1, <1>2, <3>1
  <2>4. blanks' # "none" => stateAq'.currentSubtreeIndex > 1
    <3>1. stateAq'.currentSubtreeIndex \in Nat /\ stateAq.currentSubtreeIndex \in Nat
      BY <1>2, <1>5, SubRootsAreBounded
    <3> QED
      BY <1>1, <1>5, <3>1 DEF StateInv, StateQueueInv, Grown
  <2>5. blanks' = "none" => Unmixed(X, stateAq')
    BY <1>1, <1>2, <1>5, UnmixedKept DEF StateInv, StateQueueInv
  <2> QED
    BY <1>1, <1>5, <2>2, <2>3, <2>4, <2>5 DEF StateInv, StateQueueInv
<1>9. /\ stateIndexOf' \in Seq(Nat) /\ Len(stateIndexOf') = Len(stateIndexOf) + 1
      /\ Users = 1..Len(stateIndexOf) /\ Users' = 1..(Len(stateIndexOf) + 1)
      /\ \A u \in Users : stateIndexOf'[u] = stateIndexOf[u]
  <2>1. n \in Nat /\ stateIndexOf' = Append(stateIndexOf, n)
    BY <1>1, <1>6
  <2> HIDE DEF n
  <2> QED
    BY <1>2, <2>1 DEF Users
<1>10. UsersInPlace'
  <2>1. stateIndexOf' = Append(stateIndexOf, Len(old)) /\ new = old \o <<Len(stateIndexOf) + 1>>
    BY <1>1, <1>5, <1>6 DEF leaf
  <2>2. stateIndexOf \in Seq(Nat) /\ InPlace(stateIndexOf, old)
    BY DEF StateInv, UsersInPlace
  <2>3. old \in Seq(StateLeaves)
    BY <1>6
  <2> HIDE DEF old, new
  <2>4. InPlace(stateIndexOf', new)
    BY <2>1, <2>2, <2>3, UserAdded
  <2>5. numSignUps' = Len(stateIndexOf') + 1
    BY <1>1, <1>2, <1>9 DEF leaf
  <2> QED
    BY <1>9, <2>4, <2>5 DEF UsersInPlace, new
<1>11. \A p : Merged(p)' <=> Merged(p)
  BY <1>1 DEF Merged
<1>12. SnapshotsCount'
  <2> SUFFICES ASSUME NEW p \in PollIds, Merged(p)' PROVE polls'[p].numSignups \in 1..numSignUps'
    BY DEF SnapshotsCount
  <2>1. polls'[p].numSignups \in 1..numSignUps
    BY <1>1, <1>11 DEF StateInv, SnapshotsCount
  <2> QED
    BY <1>1, <1>2, <2>1
<1>13. SnapshotAtStateIndices'
  <2> SUFFICES ASSUME blanks' # "overtaken", NEW p \in PollIds, Merged(p)', NEW i \in 1..(hashLength ^ stateTreeDepth)
               PROVE  LET at == {u \in Users' : u < polls'[p].numSignups /\ stateIndexOf'[u] = i - 1}
                      IN  polls'[p].mergedStateRoot[i] \in (IF at = {} THEN {Zero} ELSE at)
    BY DEF SnapshotAtStateIndices
  <2>1. polls'[p].numSignups \in 1..numSignUps /\ polls' = polls /\ Merged(p) /\ blanks # "overtaken"
    BY <1>1, <1>11 DEF StateInv, SnapshotsCount
  <2>2. {u \in Users' : u < polls'[p].numSignups /\ stateIndexOf'[u] = i - 1} =
          {u \in Users : u < polls[p].numSignups /\ stateIndexOf[u] = i - 1}
    <3>1. \A u \in Users' : u < polls[p].numSignups => u \in Users
      BY <1>2, <1>9, <2>1 DEF leaf
    <3>2. \A u \in Users : u \in Users'
      BY <1>2, <1>9
    <3> QED
      BY <1>9, <2>1, <3>1, <3>2
  <2> QED
    BY <2>1, <2>2 DEF StateInv, SnapshotAtStateIndices
<1>14. ReplayInv'
  <2> SUFFICES ASSUME ~lateSignUp'
               PROVE  /\ numSignUps' = stateAq'.numLeaves
                      /\ Leaves(stateAq') = Replayed(numSignUps') \o ZeroLeaves(0)
                      /\ blanks' = "none"
    <3>1. numSignUps' \in Nat
      BY <1>1, <1>2
    <3>2. numSignUps' = stateAq'.numLeaves => stateAq'.numLeaves - numSignUps' = 0 /\ numSignUps' <= stateAq'.numLeaves
      BY <3>1
    <3> QED
      BY <3>2 DEF ReplayInv
  <2>1. ~lateSignUp /\ ~ (stateAq.nextSubRootIndex > 0) /\ ~stateAq.treeMerged
    BY <1>1, Zenon
  <2>2. stateAq.nextSubRootIndex = 0 /\ stateAq.currentSubtreeIndex \in Nat
    BY <1>2, <2>1 DEF Stored, AccQueues
  <2>3. /\ n = numSignUps /\ blanks # "overtaken" /\ (blanks = "queued" => ~Mergeable(stateAq))
        /\ old = Replayed(numSignUps) \o ZeroLeaves(n - numSignUps)
    BY <1>1, <1>6, <2>1, <2>2 DEF StateInv, ReplayInv
  <2>4. blanks = "none"
    <3>1. stateAq.currentSubtreeIndex > 1 => Mergeable(stateAq)
      BY <2>2 DEF Mergeable
    <3> QED
      BY <2>3, <3>1 DEF StateInv, StateQueueInv
  <2>5. numSignUps >= 1 /\ numSignUps \in Nat
    BY <1>2 DEF leaf
  <2>6. /\ Replayed(numSignUps) \in Seq(X)
        /\ Replayed(numSignUps) \o <<numSignUps>> = Replayed(numSignUps + 1)
        /\ Replayed(numSignUps + 1) \in Seq(X)
    <3>1. numSignUps + 1 \in Nat /\ numSignUps + 1 >= 1
      BY <2>5
    <3> QED
      BY <2>5, <3>1, ReplayedTyped
  <2>7. ZeroLeaves(0) = << >> /\ n - numSignUps = 0
    <3>1. Zero \in X
      BY DEF StateLeaves
    <3>2. ZeroLeaves(0) = << >>
      BY <3>1, ZerosTyped, EmptySeq
    <3> QED
      BY <2>3, <2>5, <3>2
  <2>8. old = Replayed(numSignUps)
    BY <2>3, <2>6, <2>7, ConcatEmptySeq
  <2>9. new = Replayed(numSignUps + 1)
    BY <1>2, <1>5, <2>6, <2>8
  <2>10. new \o ZeroLeaves(0) = new
    BY <1>6, <2>7, ConcatEmptySeq
  <2> QED
    BY <1>1, <1>6, <1>7, <2>3, <2>4, <2>9, <2>10
<1>15. RootIsReplayable'
  BY <1>1, <1>11 DEF StateInv, RootIsReplayable, updatePollRoot
<1> QED
  BY <1>8, <1>10, <1>12, <1>13, <1>14, <1>15 DEF StateInv
\* A new poll has no snapshot, and changes nothing else.
LEMMA DeployStep ==
  ASSUME StateInv, Shapes, deployPoll
  PROVE  StateInv'
<1>1. /\ polls' = Append(polls, NewPoll)
      /\ stateAq' = stateAq /\ numSignUps' = numSignUps /\ subtreesMerged' = subtreesMerged
      /\ stateIndexOf' = stateIndexOf /\ lateSignUp' = lateSignUp /\ blanks' = blanks
  BY DEF deployPoll
<1>2. /\ Len(polls) \in Nat /\ DOMAIN polls = 1..Len(polls) /\ DOMAIN polls' = 1..(Len(polls) + 1)
      /\ polls'[Len(polls) + 1] = NewPoll /\ \A p \in DOMAIN polls : polls'[p] = polls[p]
  <2>1. polls \in Seq(Range(polls) \cup {NewPoll})
    BY DEF Shapes
  <2> QED
    BY <1>1, <2>1
<1>3. ~NewPoll.stateAqMerged
  BY DEF NewPoll
<1>4. \A p : Merged(p)' => Merged(p) /\ polls'[p] = polls[p]
  <2>1. \A p \in 1..(Len(polls) + 1) : p = Len(polls) + 1 \/ p \in 1..Len(polls)
    BY <1>2
  <2> QED
    BY <1>2, <1>3, <2>1 DEF Merged
<1>5. StateQueueInv' /\ UsersInPlace' /\ ReplayInv'
  BY <1>1 DEF StateInv, StateQueueInv, UsersInPlace, ReplayInv
<1>6. SnapshotsCount' /\ RootIsReplayable'
  BY <1>1, <1>4 DEF StateInv, SnapshotsCount, RootIsReplayable
<1>7. SnapshotAtStateIndices'
  BY <1>1, <1>4 DEF StateInv, SnapshotAtStateIndices, Users
<1> QED
  BY <1>5, <1>6, <1>7 DEF StateInv

\* Zeros are added at the end of the leaves, and the root is over all of them
\* unless blank subroots are in the way.
LEMMA MergeSubRootsStep ==
  ASSUME StateInv, NEW p \in PollIds, MergeSubRootsBy(p)
  PROVE  StateInv'
<1> DEFINE X == StateLeaves
           old == Leaves(stateAq)
           new == Leaves(stateAq')
           n == numSignUps
<1>1. PICK lim \in SrQueueLimits : mergeMaciStateAqSubRoots(p, lim)
  BY DEF MergeSubRootsBy
<1>2. /\ CanMergeSubRoots(stateAq) /\ stateAq' = mergeSubRoots(stateAq, lim)
      /\ subtreesMerged' = (stateAq'.subTreesMerged \/ subtreesMerged)
      /\ blanks' =
           IF blanks # "none" /\ stateAq'.nextSubRootIndex > stateAq.nextSubRootIndex
           THEN "overtaken"
           ELSE IF blanks = "none" /\ BlanksQueued(stateAq') THEN "queued" ELSE blanks
      /\ numSignUps' = numSignUps /\ polls' = polls /\ stateIndexOf' = stateIndexOf
      /\ lateSignUp' = lateSignUp
  BY <1>1 DEF mergeMaciStateAqSubRoots, BlockedAfter, QueuesBlanks, BlanksQueued
<1>3. /\ Stored(X, stateAq) /\ Zero \in X /\ Mergeable(stateAq) /\ ~stateAq.subTreesMerged
      /\ FillStarted(stateAq).currentSubtreeIndex <= hashLength ^ MAX_DEPTH /\ lim \in Nat
  BY <1>2, MaciConstants, SubRootsOfSignUpsFit
     DEF StateInv, StateQueueInv, CanMergeSubRoots, StateLeaves
<1>4. SubRootsMerged(X, stateAq, stateAq')
  BY <1>2, <1>3, MergeSubRootsMerges
<1>5. /\ Rounded(X, stateAq, stateAq')
      /\ stateAq'.currentSubtreeIndex = FillStarted(stateAq).currentSubtreeIndex
      /\ stateAq'.subTreesMerged \/ stateAq'.nextSubRootIndex > stateAq.nextSubRootIndex
      /\ stateAq'.currentSubtreeIndex = 1 \/ stateAq'.nextSubRootIndex > stateAq.nextSubRootIndex
      /\ ~stateAq'.subTreesMerged => Mergeable(stateAq')
      /\ (stateAq'.subTreesMerged /\ stateAq'.currentSubtreeIndex > 1) => ~Mergeable(stateAq')
      /\ (Unmixed(X, stateAq) /\ stateAq'.subTreesMerged) => Rooted(stateAq')
      /\ (Unmixed(X, stateAq) /\ ~BlanksQueued(stateAq')) => Unmixed(X, stateAq')
  BY <1>4 DEF SubRootsMerged
<1>6. /\ Stored(X, stateAq') /\ StartedLeaves(stateAq'.leafQueue) = << >>
      /\ \E k \in Nat : new = old \o ZeroLeaves(k)
  BY <1>5 DEF Rounded
<1>7. /\ stateAq.currentSubtreeIndex \in Nat /\ stateAq'.currentSubtreeIndex \in Nat
      /\ stateAq'.currentSubtreeIndex >= stateAq.currentSubtreeIndex
      /\ FillStarted(stateAq').currentSubtreeIndex = stateAq'.currentSubtreeIndex
  BY <1>3, <1>5, <1>6, SubRootsAreBounded
<1>8. blanks \in {"none", "queued", "overtaken"} /\ blanks' \in {"none", "queued", "overtaken"}
  BY <1>2 DEF StateInv, StateQueueInv
<1>9. blanks # "none" =>
        stateAq'.currentSubtreeIndex > 1 /\ stateAq'.nextSubRootIndex > stateAq.nextSubRootIndex
  BY <1>5, <1>7 DEF StateInv, StateQueueInv
<1>10. blanks' # "overtaken" => blanks = "none"
  BY <1>2, <1>9
<1>11. blanks = "none" => Unmixed(X, stateAq)
  BY DEF StateInv, StateQueueInv
<1>12. StateQueueInv'
  <2>1. FillStarted(stateAq').currentSubtreeIndex <= n
    BY <1>5, <1>7 DEF StateInv, StateQueueInv
  <2>2. blanks' # "none" => stateAq'.currentSubtreeIndex > 1
    BY <1>2, <1>9 DEF BlanksQueued
  <2>3. blanks' = "none" => Unmixed(X, stateAq')
    BY <1>2, <1>5, <1>10, <1>11
  <2>4. (blanks' # "overtaken" /\ stateAq'.subTreesMerged) => Rooted(stateAq')
    BY <1>5, <1>10, <1>11
  <2>5. CanMergeSubRoots(stateAq') => Mergeable(stateAq')
    BY <1>5 DEF CanMergeSubRoots
  <2>6. n \in Nat /\ n <= hashLength ^ stateTreeDepth
    BY DEF StateInv, StateQueueInv
  <2> QED
    BY <1>2, <1>6, <1>8, <2>1, <2>2, <2>3, <2>4, <2>5, <2>6 DEF StateQueueInv
<1>13. old \in Seq(X) /\ new \in Seq(X) /\ stateAq.numLeaves = Len(old) /\ stateAq'.numLeaves = Len(new)
  <2>1. old \in Seq(X) /\ new \in Seq(X)
    BY <1>3, <1>6, LeavesCounted
  <2> HIDE DEF old, new
  <2> QED
    BY <1>3, <1>6, <2>1 DEF Stored, old, new
<1>14. PICK k \in Nat : new = old \o ZeroLeaves(k)
  BY <1>6
<1> HIDE DEF old, new
<1>15. UsersInPlace'
  <2>1. stateIndexOf \in Seq(Nat) /\ n = Len(stateIndexOf) + 1 /\ InPlace(stateIndexOf, old)
    BY DEF StateInv, UsersInPlace, old
  <2>2. InPlace(stateIndexOf, new)
    BY <1>13, <1>14, <2>1, ZerosAdded
  <2> QED
    BY <1>2, <2>1, <2>2 DEF UsersInPlace, new
<1>16. SnapshotsCount' /\ RootIsReplayable'
  BY <1>2 DEF StateInv, SnapshotsCount, RootIsReplayable, Merged
<1>17. SnapshotAtStateIndices'
  <2>1. \A r : Merged(r)' <=> Merged(r)
    BY <1>2 DEF Merged
  <2>2. blanks' # "overtaken" => blanks # "overtaken"
    BY <1>10
  <2> QED
    BY <1>2, <2>1, <2>2 DEF StateInv, SnapshotAtStateIndices, Users
<1>18. ReplayInv'
  <2> SUFFICES ASSUME ~lateSignUp' PROVE ReplayInv'
    BY DEF ReplayInv
  <2>1. /\ n <= stateAq.numLeaves /\ old = Replayed(n) \o ZeroLeaves(stateAq.numLeaves - n)
        /\ blanks # "overtaken" /\ (blanks = "queued" => ~Mergeable(stateAq))
    BY <1>2 DEF StateInv, ReplayInv, old
  <2>2. blanks = "none"
    BY <1>3, <1>8, <2>1
  <2>3. blanks' # "overtaken" /\ (blanks' = "queued" => ~Mergeable(stateAq'))
    BY <1>2, <1>5, <2>2 DEF BlanksQueued
  <2>4. n \in Nat /\ n >= 1 /\ stateAq.numLeaves \in Nat /\ stateAq.numLeaves - n \in Nat
    <3>1. n \in Nat /\ stateIndexOf \in Seq(Nat) /\ n = Len(stateIndexOf) + 1
      BY DEF StateInv, StateQueueInv, UsersInPlace
    <3>2. Len(stateIndexOf) \in Nat /\ stateAq.numLeaves \in Nat
      BY <1>13, <3>1
    <3> QED
      BY <2>1, <3>1, <3>2
  <2>5. Replayed(n) \in Seq(X)
    BY <2>4, ReplayedTyped
  <2>6. new = Replayed(n) \o ZeroLeaves((stateAq.numLeaves - n) + k)
    BY <1>3, <1>14, <2>1, <2>4, <2>5, ZerosAfter
  <2>7. stateAq'.numLeaves = stateAq.numLeaves + k
    <3> DEFINE zeros == ZeroLeaves(k)
               all == old \o zeros
    <3>1. zeros \in Seq(X) /\ Len(zeros) = k
      BY <1>3, ZerosTyped
    <3> HIDE DEF zeros
    <3>2. Len(all) = Len(old) + Len(zeros)
      BY <1>13, <3>1, Concatenated
    <3>3. new = all
      BY <1>14 DEF zeros
    <3> HIDE DEF all
    <3> QED
      BY <1>13, <3>1, <3>2, <3>3
  <2>8. /\ n <= stateAq'.numLeaves
        /\ (stateAq.numLeaves - n) + k = stateAq'.numLeaves - n
    BY <2>1, <2>4, <2>7
  <2>9. new = Replayed(n) \o ZeroLeaves(stateAq'.numLeaves - n)
    BY <2>6, <2>8
  <2>10. ~ (stateAq'.nextSubRootIndex = 0 /\ ~subtreesMerged')
    <3>1. stateAq.nextSubRootIndex \in Nat
      BY <1>3 DEF Stored, AccQueues
    <3>2. stateAq'.subTreesMerged => subtreesMerged'
      BY <1>2, Zenon
    <3>3. stateAq'.nextSubRootIndex > stateAq.nextSubRootIndex => stateAq'.nextSubRootIndex # 0
      BY <3>1
    <3> QED
      BY <1>5, <3>2, <3>3
  <2> QED
    BY <1>2, <2>3, <2>8, <2>9, <2>10 DEF ReplayInv, new
<1> QED
  BY <1>12, <1>15, <1>16, <1>17, <1>18 DEF StateInv
\* The snapshot is of all the leaves at this moment.
LEMMA MergeStep ==
  ASSUME StateInv, NEW p \in PollIds, MergeBy(p)
  PROVE  StateInv'
<1> DEFINE X == StateLeaves
           H == hashLength ^ stateTreeDepth
           old == Leaves(stateAq)
           root == MergedRoot(stateAq, stateTreeDepth)
           n == numSignUps
<1>1. /\ p \in DOMAIN polls /\ ~polls[p].stateAqMerged /\ CanMerge(stateAq, stateTreeDepth)
      /\ stateAq' = merge(stateAq, stateTreeDepth)
      /\ polls' = [polls EXCEPT ![p] = Snapshot(root)]
      /\ numSignUps' = numSignUps /\ stateIndexOf' = stateIndexOf
      /\ lateSignUp' = lateSignUp /\ blanks' = blanks
  BY DEF MergeBy, mergeMaciStateAq
<1>2. Stored(X, stateAq) /\ Zero \in X /\ stateTreeDepth \in Levels /\ n \in Nat
  BY MaciConstants DEF StateInv, StateQueueInv, StateLeaves
<1>3. /\ Stored(X, stateAq') /\ Leaves(stateAq') = old /\ stateAq'.treeMerged
      /\ Unmixed(X, stateAq) => Unmixed(X, stateAq')
      /\ Rooted(stateAq) => Rooted(stateAq')
      /\ Mergeable(stateAq) <=> Mergeable(stateAq')
      /\ (CanMerge(stateAq, stateTreeDepth) /\ Rooted(stateAq)) => root = old \o ZeroLeaves(H - Len(old))
  BY <1>1, <1>2, MergeStored
<1>4. /\ stateAq'.subTreesMerged = stateAq.subTreesMerged /\ stateAq'.numLeaves = stateAq.numLeaves
      /\ stateAq'.currentSubtreeIndex = stateAq.currentSubtreeIndex
  <2>1. stateAq \in AccQueues(X)
    BY <1>2 DEF Stored
  <2> QED
    BY <1>1, <2>1 DEF merge, AccQueues
<1>5. stateAq.subTreesMerged /\ H >= stateAq.numLeaves
  BY <1>1 DEF CanMerge
<1>6. old \in Seq(X) /\ stateAq.numLeaves = Len(old) /\ Len(old) \in Nat
  <2>1. old \in Seq(X) /\ stateAq.numLeaves = Len(old)
    BY <1>2, LeavesCounted DEF Stored
  <2> HIDE DEF old
  <2> QED
    BY <2>1
<1>7. H \in Nat /\ H - Len(old) \in Nat
  <2>1. H \in Nat
    BY <1>2, PowerFacts, AccQueueConstants DEF Levels
  <2> HIDE DEF H, old
  <2> QED
    BY <1>5, <1>6, <2>1
<1>8. stateIndexOf \in Seq(Nat) /\ n = Len(stateIndexOf) + 1 /\ InPlace(stateIndexOf, old)
  BY DEF StateInv, UsersInPlace
<1>9. blanks # "overtaken" => root = old \o ZeroLeaves(H - Len(old))
  BY <1>1, <1>3, <1>5 DEF StateInv, StateQueueInv
<1>10. /\ DOMAIN polls' = DOMAIN polls /\ polls'[p] = Snapshot(root)
       /\ \A r \in DOMAIN polls : r # p => polls'[r] = polls[r]
  BY <1>1
<1>11. \A r : Merged(r)' /\ r # p => Merged(r) /\ polls'[r] = polls[r]
  BY <1>10 DEF Merged
<1>12. polls'[p].mergedStateRoot = root /\ polls'[p].numSignups = n
  BY <1>10 DEF Snapshot
<1> HIDE DEF H, old, root
<1>13. StateQueueInv'
  <2>1. FillStarted(stateAq').currentSubtreeIndex = FillStarted(stateAq).currentSubtreeIndex
    <3>1. Started(stateAq') <=> Started(stateAq)
      BY <1>4 DEF Started
    <3> QED
      BY <1>2, <1>3, <1>4, <3>1, SubRootsAreBounded
  <2>2. ~CanMergeSubRoots(stateAq')
    BY <1>4, <1>5 DEF CanMergeSubRoots
  <2> QED
    BY <1>1, <1>3, <1>4, <2>1, <2>2 DEF StateInv, StateQueueInv
<1>14. UsersInPlace'
  BY <1>1, <1>3, <1>8 DEF UsersInPlace, old
<1>15. SnapshotsCount'
  <2> SUFFICES ASSUME NEW r \in PollIds, Merged(r)' PROVE polls'[r].numSignups \in 1..n
    BY <1>1 DEF SnapshotsCount
  <2>1. n \in 1..n
    BY <1>8
  <2> QED
    BY <1>11, <1>12, <2>1 DEF StateInv, SnapshotsCount
<1>16. SnapshotAtStateIndices'
  <2> DEFINE SnapshotAt(r, i) ==
               LET at == {u \in Users' : u < polls'[r].numSignups /\ stateIndexOf'[u] = i - 1}
               IN  polls'[r].mergedStateRoot[i] \in (IF at = {} THEN {Zero} ELSE at)
  <2> SUFFICES ASSUME blanks' # "overtaken", NEW r \in PollIds, Merged(r)', NEW i \in 1..H
               PROVE  SnapshotAt(r, i)
    BY DEF SnapshotAtStateIndices, H
  <2>1. CASE r # p
    <3>1. Merged(r) /\ polls'[r] = polls[r] /\ Users' = Users
      BY <1>1, <1>11, <2>1 DEF Users
    <3> QED
      BY <1>1, <3>1 DEF StateInv, SnapshotAtStateIndices, H
  <2>2. CASE r = p
    <3> DEFINE m == H - Len(old)
               zeros == ZeroLeaves(m)
               all == old \o zeros
    <3>1. zeros \in Seq(X) /\ Len(zeros) = m
      BY <1>2, <1>7, ZerosTyped
    <3>2. InPlace(stateIndexOf, all)
      BY <1>6, <1>7, <1>8, ZerosAdded
    <3>3. root = all
      BY <1>1, <1>9
    <3> HIDE DEF zeros
    <3>4. Len(all) = Len(old) + Len(zeros)
      BY <1>6, <3>1, Concatenated
    <3> HIDE DEF all
    <3>5. Len(all) = H
      BY <1>6, <1>7, <3>1, <3>4
    <3>6. {u \in Users' : u < polls'[p].numSignups /\ stateIndexOf'[u] = i - 1} = OwnersIn(stateIndexOf, i)
      <4>1. DOMAIN stateIndexOf = 1..Len(stateIndexOf) /\ Len(stateIndexOf) \in Nat
        BY <1>8
      <4>2. \A u \in DOMAIN stateIndexOf : u < n
        BY <1>8, <4>1
      <4> QED
        BY <1>1, <1>12, <4>2 DEF Users, OwnersIn
    <3>7. root[i] \in (IF OwnersIn(stateIndexOf, i) = {} THEN {Zero} ELSE OwnersIn(stateIndexOf, i))
      BY <3>2, <3>3, <3>5 DEF InPlace
    <3> QED
      BY <1>12, <2>2, <3>6, <3>7
  <2> QED
    BY <2>1, <2>2
<1>17. ReplayInv'
  BY <1>1, <1>3, <1>4 DEF StateInv, ReplayInv, old
<1>18. RootIsReplayable'
  <2> SUFFICES ASSUME ~lateSignUp', NEW r \in PollIds, Merged(r)'
               PROVE  polls'[r].mergedStateRoot = updatePollRoot(polls'[r].numSignups)
    BY DEF RootIsReplayable
  <2>1. CASE r # p
    BY <1>1, <1>11, <2>1 DEF StateInv, RootIsReplayable
  <2>2. CASE r = p
    <3>1. /\ n <= Len(old) /\ old = Replayed(n) \o ZeroLeaves(Len(old) - n)
          /\ blanks # "overtaken"
      BY <1>1, <1>6 DEF StateInv, ReplayInv, old
    <3>2. n >= 1 /\ Len(old) - n \in Nat
      BY <1>2, <1>6, <1>8, <3>1
    <3>3. Replayed(n) \in Seq(X)
      BY <1>2, <3>2, ReplayedTyped
    <3>4. (Replayed(n) \o ZeroLeaves(Len(old) - n)) \o ZeroLeaves(H - Len(old))
            = Replayed(n) \o ZeroLeaves((Len(old) - n) + (H - Len(old)))
      BY <1>2, <1>7, <3>2, <3>3, ZerosAfter
    <3>5. (Len(old) - n) + (H - Len(old)) = H - n
      BY <1>2, <1>6, <1>7
    <3>6. root = Replayed(n) \o ZeroLeaves(H - n)
      BY <1>9, <3>1, <3>4, <3>5
    <3>7. updatePollRoot(n) = Replayed(n) \o ZeroLeaves(H - n)
      BY DEF updatePollRoot, Replayed, UpTo, H
    <3> QED
      BY <1>12, <2>2, <3>6, <3>7
  <2> QED
    BY <2>1, <2>2
<1> QED
  BY <1>13, <1>14, <1>15, <1>16, <1>17, <1>18 DEF StateInv

LEMMA StateStep == StateInv /\ Shapes /\ [MergerNext]_mergerVars => StateInv'
<1> SUFFICES ASSUME StateInv, Shapes, [MergerNext]_mergerVars PROVE StateInv'
  OBVIOUS
<1>1. CASE UNCHANGED vars
  <2>1. /\ stateAq' = stateAq /\ numSignUps' = numSignUps /\ subtreesMerged' = subtreesMerged
        /\ polls' = polls /\ stateIndexOf' = stateIndexOf /\ lateSignUp' = lateSignUp /\ blanks' = blanks
    BY <1>1 DEF vars
  <2>2. StateQueueInv' /\ UsersInPlace' /\ ReplayInv'
    BY <2>1 DEF StateInv, StateQueueInv, UsersInPlace, ReplayInv
  <2>3. SnapshotsCount' /\ RootIsReplayable' /\ SnapshotAtStateIndices'
    BY <2>1 DEF StateInv, SnapshotsCount, RootIsReplayable, SnapshotAtStateIndices, Users, Merged
  <2> QED
    BY <2>2, <2>3 DEF StateInv
<1>2. CASE Next
  BY <1>2, SignUpStep, DeployStep, MergeSubRootsStep, MergeStep DEF Next
<1> QED
  BY <1>1, <1>2, MergerSteps

LEMMA StateAlways == MergerSpec => [](StateInv /\ Shapes)
<1>1. MergerInit => StateInv /\ Shapes
  BY StateInitially, ShapesInitially DEF MergerInit
<1>2. (StateInv /\ Shapes) /\ [MergerNext]_mergerVars => (StateInv /\ Shapes)'
  BY StateStep, ShapesStep
<1> QED
  BY <1>1, <1>2, PTL DEF MergerSpec

\* However sign-ups, polls and merges interleave, the state root a poll
\* records opens at each voter's stateIndex to that voter's leaf, and to
\* nobody who signed up later, as long as no merge of MACI's state queue
\* resumes after its blank subroots.
THEOREM SnapshotIsOfVoters == MergerSpec => []SnapshotAtStateIndices
<1>1. StateInv => SnapshotAtStateIndices
  BY DEF StateInv
<1> QED
  BY <1>1, StateAlways, PTL

\* Without a sign-up after the first merge has begun, every poll's state root
\* is the one genMaciState computes from the SignUp events.
THEOREM RootReplayed == MergerSpec => []RootIsReplayable
<1>1. StateInv => RootIsReplayable
  BY DEF StateInv
<1> QED
  BY <1>1, StateAlways, PTL
=============================================================================
