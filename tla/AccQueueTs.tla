----------------------------- MODULE AccQueueTs -----------------------------
(***************************************************************************)
(* The TypeScript AccQueue (crypto/ts/AccQueue.ts) given the same calls as *)
(* the contract.  Its counters and loops are the contract's, so its        *)
(* methods are the contract's functions with two differences: the main     *)
(* roots are never cleared, and the constructor makes ONE Map object the   *)
(* level of both queues, so that what is written into the level of one     *)
(* queue is read from the other.                                           *)
(*                                                                         *)
(* The record is the contract's, without treeMerged, and with the field    *)
(* `shared`: the levels whose Map is still common to both queues.          *)
(***************************************************************************)
EXTENDS AccQueue

\* What the swapped powers are, for the provers.
ASSUME PowersOfMainDepths == \A d \in MainDepths : d ^ hashLength \in Nat

VARIABLES
  ts,       (* the object's fields                                         *)
  mixed     (* history: a leaf was written into the leaf queue after       *)
            (*   subroots had been queued                                  *)

tsVars == <<aq, issued, direct, padded, resumed, ts, mixed>>

NewTsQueue ==
  [numLeaves |-> 0, currentSubtreeIndex |-> 0, nextSubRootIndex |-> 0,
   leafQueue |-> NewQueue, subRootQueue |-> NewQueue,
   subRoots |-> Empty, mainRoots |-> [l \in Levels |-> Empty],
   smallSRTroot |-> Empty, subTreesMerged |-> FALSE, shared |-> Levels]

(***************************************************************************)
(* After a write into one queue the other one shows it at shared levels.   *)
(***************************************************************************)
ShowInSubRoots(q, levels) ==
  [q EXCEPT !.subRootQueue.levels =
     [l \in Levels |-> IF l \in q.shared THEN levels[l] ELSE @[l]]]

ShowInLeaves(q) ==
  [q EXCEPT !.leafQueue.levels =
     [l \in Levels |-> IF l \in q.shared THEN q.subRootQueue.levels[l] ELSE @[l]]]

enqueueTs(q, leaf) ==
  LET added == [enqueue(q, leaf) EXCEPT !.mainRoots = q.mainRoots]
  IN  ShowInSubRoots(added, added.leafQueue.levels)

\* fillOp: with five leaves per node the free slots of a started level are
\* set to zeros before the level is hashed.
FillLevelTs(q, level) ==
  LET n == q.indices[level]
      zeroed == [q EXCEPT !.levels[level] =
                   [s \in Slots |-> IF s < n THEN @[s] ELSE getZero(level)]]
  IN  FillLevel(IF hashLength # 2 /\ n # 0 THEN zeroed ELSE q, level)

FillQueueTs(q) ==
  LET filled[l \in 0..subDepth] ==
        IF l = 0 THEN q ELSE FillLevelTs(filled[l - 1], l - 1)
  IN  filled[subDepth]

\* fill: the subtree's levels are blanked, in place in a binary queue and by
\* new Map objects otherwise, which leaves the old ones to the subroots.
fillTs(q) ==
  LET leaves == FillQueueTs(q.leafQueue)
      subRoot == leaves.levels[subDepth][0]
      blanked == [l \in Levels |-> IF l <= subDepth THEN [s \in Slots |-> Empty]
                                   ELSE leaves.levels[l]]
      abandoned == [leaves.levels EXCEPT
                      ![subDepth] = [s \in Slots |-> IF s = 0 THEN subRoot
                                                     ELSE getZero(subDepth)]]
      stored == [AddSubRoot(q, subRoot) EXCEPT
                   !.leafQueue = [levels |-> blanked, indices |-> leaves.indices],
                   !.numLeaves = NumLeavesAfterFill(q),
                   !.smallSRTroot = Empty,
                   !.subTreesMerged = FALSE]
  IN  IF ~Started(q) THEN fill(q)
      ELSE IF hashLength = 2 THEN ShowInSubRoots(stored, blanked)
      ELSE [ShowInSubRoots(stored, abandoned) EXCEPT !.shared = @ \ (0..subDepth)]

\* Mutant: the started subtree is left out of the merge.
LeaveStartedTs(q) == q

FillStartedTs(q) == IF Started(q) THEN fillTs(q) ELSE q

mergeSubRootsTs(q, numSrQueueOps) ==
  LET full == FillStartedTs(q)
  IN  IF full.currentSubtreeIndex = 1
      THEN [full EXCEPT !.smallSRTroot = full.subRoots[1], !.subTreesMerged = TRUE]
      ELSE ShowInLeaves(MergeManySubRoots(full, numSrQueueOps))

calcSRTdepth(q) ==
  Min({d \in subDepth..(MAX_DEPTH + 1) :
         \/ d = MAX_DEPTH + 1
         \/ hashLength ^ d >= Len(q.subRoots) * subTreeCapacity})

CanMergeTs(q, depth) ==
  q.subTreesMerged /\ depth <= MAX_DEPTH /\ depth >= calcSRTdepth(q)

mergeTs(q, depth) == [q EXCEPT !.mainRoots[depth] = MergedRoot(q, depth)]

(***************************************************************************)
(* mergeDirect: the root of an IncrementalQuinTree over the subroots, in   *)
(* one call.  The depth is checked before the last subtree is filled, and  *)
(* by depth ** hashLength, the powers swapped.                             *)
(***************************************************************************)
\* Mutant: the next row's capacity is compared.
FullEnoughStrict(q, depth) == depth ^ hashLength > q.numLeaves

FullEnough(q, depth) == depth ^ hashLength >= q.numLeaves

CanMergeDirect(q, depth) ==
  /\ q.numLeaves > 0
  /\ depth >= calcSRTdepth(q)
  /\ IF depth = subDepth THEN q.numLeaves = subTreeCapacity
     ELSE /\ FullEnough(q, depth)
          /\ Len(FillStartedTs(q).subRoots) <= hashLength ^ (depth - subDepth)

mergeDirect(q, depth) ==
  IF depth = subDepth
  THEN [q EXCEPT !.mainRoots[depth] = q.subRoots[1], !.subTreesMerged = TRUE]
  ELSE LET full == FillStartedTs(q)
       IN  [full EXCEPT !.mainRoots[depth] =
              FlattenSeq(full.subRoots)
                \o ZeroLeaves(hashLength ^ depth - Len(FlattenSeq(full.subRoots)))]

\* copy: every Map is made anew.
copyTs(q) == [q EXCEPT !.shared = {}]

-----------------------------------------------------------------------------
(***************************************************************************)
(* Both queues get every call; at any time the TypeScript queue may be     *)
(* replaced by its copy.                                                   *)
(***************************************************************************)
InitTs == Init /\ ts = NewTsQueue /\ mixed = FALSE

EnqueueBoth ==
  /\ Enqueue
  /\ ts' = enqueueTs(ts, NextLeaf)
  /\ mixed' = (mixed \/ (ts.shared # {} /\ ts.nextSubRootIndex > 0))

FillBoth == Fill /\ ts' = fillTs(ts) /\ UNCHANGED mixed

InsertSubTreeBoth ==
  /\ InsertSubTree
  /\ ts' = insertSubTree(ts, [i \in 1..subTreeCapacity |-> NextLeaf])
  /\ UNCHANGED mixed

MergeSubRootsBoth(numSrQueueOps) ==
  /\ MergeSubRoots(numSrQueueOps)
  /\ ts' = mergeSubRootsTs(ts, numSrQueueOps)
  /\ UNCHANGED mixed

MergeBoth(depth) ==
  /\ Merge(depth)
  /\ CanMergeTs(ts, depth)
  /\ ts' = mergeTs(ts, depth)
  /\ UNCHANGED mixed

Copy ==
  /\ ts.shared # {}
  /\ ts' = copyTs(ts)
  /\ UNCHANGED <<vars, mixed>>

NextTs ==
  \/ EnqueueBoth
  \/ FillBoth
  \/ InsertSubTreeBoth
  \/ \E n \in OpLimits : MergeSubRootsBoth(n)
  \/ \E d \in MainDepths : MergeBoth(d)
  \/ Copy

SpecTs == InitTs /\ [][NextTs]_tsVars

-----------------------------------------------------------------------------
\* Although the subroots are queued into the Maps of the leaf queue, no
\* subtree's root is ever spoilt: whenever subroots are queued the leaf queue
\* holds no leaf, whatever was enqueued, inserted or merged before.  And as
\* long as no leaf is enqueued behind queued subroots, the TypeScript queue
\* has the contract's roots; a copy has them even then.  (Once a merge has
\* resumed behind blanks, the root can be that of a level no subroot reached:
\* a slot never written, which the two queues need not share.)
TsQueueConforms ==
  /\ ts.subRoots = aq.subRoots /\ ts.numLeaves = aq.numLeaves
  /\ ~mixed /\ ~resumed =>
       /\ ts.smallSRTroot = aq.smallSRTroot
       /\ \A d \in Levels : aq.mainRoots[d] # Empty => ts.mainRoots[d] = aq.mainRoots[d]

\* Where mergeDirect's swapped powers, d ** hashLength, are no obstacle.
DirectDepth(d) == d = subDepth \/ d ^ hashLength >= hashLength ^ d

\* The two classes accept the same calls of merge(), although one compares
\* the depth with the leaves counted and the other with the subroots stored;
\* and mergeDirect() takes the same leaves to the same root in one call, which
\* the tests of contracts/ rely on, wherever the two-step merge is accepted,
\* at every depth whose swapped powers do not refuse a full tree.
TsMergesAgree ==
  \A d \in MainDepths :
    /\ CanMerge(aq, d) <=> CanMergeTs(ts, d)
    /\ ~resumed /\ CanMerge(aq, d) /\ DirectDepth(d) =>
         CanMergeDirect(ts, d) /\ mergeDirect(ts, d).mainRoots[d] = MergedRoot(aq, d)
=============================================================================
