---------------------------- MODULE AccQueueOps ----------------------------
(***************************************************************************)
(* The functions of the AccQueue contract (contracts/trees/AccQueue.sol,   *)
(* with the hashLevel and _fill of AccQueueBinary and AccQueueQuinary) as  *)
(* operators on a record that holds the contract's storage.  MACI owns one *)
(* such record for the state leaves and each Poll one for its messages.    *)
(*                                                                         *)
(* A hash is modelled by the sequence of leaves it commits to: hashing     *)
(* nodes concatenates them, which is injective because the nodes of one    *)
(* level commit to equally many leaves.  The storage value 0 (a slot never *)
(* written, or deleted) is the empty sequence.                             *)
(***************************************************************************)
EXTENDS Integers, Sequences, FiniteSetsExt, SequencesExt

CONSTANTS
  hashLength,   (* children of a node: 2 (binary) or 5 (quinary)           *)
  subDepth,     (* depth of a subtree                                      *)
  MAX_DEPTH,    (* greatest depth of the main tree (32 in the contract)    *)
  Zero          (* the blank leaf, the value getZero(0) returns            *)

ASSUME AccQueueConstants ==
  /\ hashLength \in Nat /\ hashLength >= 2
  /\ subDepth \in Nat /\ subDepth >= 1
  /\ MAX_DEPTH \in Nat /\ subDepth <= MAX_DEPTH

\* What exponentiation means on the depths of a tree, for the provers.
ASSUME PowersOfHashLength ==
  /\ hashLength ^ 0 = 1
  /\ \A l \in 0..MAX_DEPTH : hashLength ^ (l + 1) = hashLength * hashLength ^ l

subTreeCapacity == hashLength ^ subDepth
Levels == 0..MAX_DEPTH
Slots == 0..(hashLength - 2)
Empty == << >>

ZeroLeaves(n) == [i \in 1..n |-> Zero]
getZero(level) == ZeroLeaves(hashLength ^ level)

\* A Queue: the nodes waiting at each level and how many of them there are.
NewQueue == [levels |-> [l \in Levels |-> [n \in Slots |-> Empty]],
             indices |-> [l \in Levels |-> 0]]

NewAccQueue ==
  [numLeaves |-> 0, currentSubtreeIndex |-> 0, nextSubRootIndex |-> 0,
   leafQueue |-> NewQueue, subRootQueue |-> NewQueue,
   subRoots |-> Empty, mainRoots |-> [l \in Levels |-> Empty],
   smallSRTroot |-> Empty, subTreesMerged |-> FALSE, treeMerged |-> FALSE]

(***************************************************************************)
(* Queueing a node: a level whose slots are all taken is hashed with the   *)
(* node into a node of the next level, up to the first level with a free   *)
(* slot.  StopLevel is that level and Climb[l] the node that reaches l.    *)
(***************************************************************************)
HashLevel(q, level, node) ==
  FlattenSeq([i \in 1..q.indices[level] |-> q.levels[level][i - 1]]) \o node

StopLevel(q, level) ==
  Min({l \in level..(MAX_DEPTH + 1) :
         l = MAX_DEPTH + 1 \/ q.indices[l] # hashLength - 1})

Climb(q, node, level) ==
  LET up[l \in level..StopLevel(q, level)] ==
        IF l = level THEN node ELSE HashLevel(q, l - 1, up[l - 1])
  IN  up

\* _enqueue: the hashed levels are deleted, and the index of the level that
\* holds the subtree's root is never advanced.
EnqueueAt(q, node, level) ==
  LET stop == StopLevel(q, level)
      up == Climb(q, node, level)
  IN  [levels |->
         [l \in Levels |->
            IF l \in level..(stop - 1) THEN [n \in Slots |-> Empty]
            ELSE IF l = stop THEN [q.levels[l] EXCEPT ![q.indices[l]] = up[l]]
            ELSE q.levels[l]],
       indices |->
         [l \in Levels |->
            IF l \in level..(stop - 1) THEN 0
            ELSE IF l = stop /\ l # subDepth THEN q.indices[l] + 1
            ELSE q.indices[l]]]

\* queueSubRoot: as _enqueue, but hashed levels keep their old nodes and a
\* node that would climb above maxDepth is dropped.
QueueSubRoot(q, node, maxDepth) ==
  LET stop == StopLevel(q, 0)
      up == Climb(q, node, 0)
  IN  [levels |->
         [l \in Levels |->
            IF l = stop /\ l <= maxDepth
            THEN [q.levels[l] EXCEPT ![q.indices[l]] = up[l]]
            ELSE q.levels[l]],
       indices |->
         [l \in Levels |->
            IF l > maxDepth THEN q.indices[l]
            ELSE IF l < stop THEN 0
            ELSE IF l = stop THEN q.indices[l] + 1
            ELSE q.indices[l]]]

\* _fill: each started level is completed with zeros and its hash queued one
\* level up, from the leaves to the root of the subtree.
FillLevel(q, level) ==
  LET n == q.indices[level]
      node == HashLevel(q, level, Empty)
                \o ZeroLeaves((hashLength - n) * hashLength ^ level)
      filled == IF n = 0 THEN q ELSE EnqueueAt(q, node, level + 1)
  IN  [filled EXCEPT !.indices[level] = 0]

FillQueue(q) ==
  LET fill[l \in 0..subDepth] == IF l = 0 THEN q ELSE FillLevel(fill[l - 1], l - 1)
  IN  fill[subDepth]

(***************************************************************************)
(* The owner's functions.  Each is the storage after the call; Can... is   *)
(* the negation of the conditions under which the call reverts.            *)
(***************************************************************************)
\* Mutant: the main roots survive a new leaf, as in the TypeScript AccQueue.
InvalidateSmallRoot(aq) ==
  [aq EXCEPT !.smallSRTroot = Empty, !.subTreesMerged = FALSE]

\* A new leaf makes the merged roots obsolete.
InvalidateRoots(aq) ==
  [aq EXCEPT !.mainRoots = [l \in Levels |-> Empty],
             !.smallSRTroot = Empty,
             !.subTreesMerged = FALSE]

AddSubRoot(aq, subRoot) ==
  [aq EXCEPT !.subRoots = Append(aq.subRoots, subRoot),
             !.currentSubtreeIndex = aq.currentSubtreeIndex + 1]

enqueue(aq, leaf) ==
  LET q == EnqueueAt(aq.leafQueue, <<leaf>>, 0)
      added == [InvalidateRoots(aq) EXCEPT !.numLeaves = aq.numLeaves + 1]
  IN  IF (aq.numLeaves + 1) % subTreeCapacity = 0
      THEN [AddSubRoot(added, q.levels[subDepth][0]) EXCEPT
              !.leafQueue = [levels |-> [q.levels EXCEPT ![subDepth][0] = Empty],
                             indices |-> [l \in Levels |-> 0]]]
      ELSE [added EXCEPT !.leafQueue = q]

\* Mutant: the positions the zeros take are not counted.
NumLeavesUnchanged(aq) == aq.numLeaves

NumLeavesAfterFill(aq) == (aq.currentSubtreeIndex + 1) * subTreeCapacity

Started(aq) == aq.numLeaves % subTreeCapacity # 0

\* fill: an untouched subtree becomes a subtree of zeros, and then the main
\* roots are left in place; a started one is completed with zeros.
fill(aq) ==
  LET q == FillQueue(aq.leafQueue)
      filled == IF Started(aq)
                THEN [AddSubRoot(aq, q.levels[subDepth][0]) EXCEPT
                        !.leafQueue = [levels |-> NewQueue.levels, indices |-> q.indices],
                        !.mainRoots = [l \in Levels |-> Empty]]
                ELSE AddSubRoot(aq, getZero(subDepth))
  IN  [filled EXCEPT !.numLeaves = NumLeavesAfterFill(aq),
                     !.smallSRTroot = Empty,
                     !.subTreesMerged = FALSE]

\* Mutant: the leaves of a started subtree are forgotten.
insertSubTreeRounding(aq, subRoot) ==
  [AddSubRoot(aq, subRoot) EXCEPT !.numLeaves = NumLeavesAfterFill(aq),
                                  !.smallSRTroot = Empty,
                                  !.subTreesMerged = FALSE]

insertSubTree(aq, subRoot) ==
  [AddSubRoot(aq, subRoot) EXCEPT !.numLeaves = aq.numLeaves + subTreeCapacity,
                                  !.smallSRTroot = Empty,
                                  !.subTreesMerged = FALSE]

calcMinHeight(subtrees) ==
  Min({d \in 1..(MAX_DEPTH + 1) : d = MAX_DEPTH + 1 \/ hashLength ^ d >= subtrees})

CanMergeSubRoots(aq) == ~aq.subTreesMerged /\ aq.numLeaves # 0

\* Mutant: the limit is compared after the counter is advanced.
OneSubRootFewer(aq, numSrQueueOps) ==
  LET left == aq.currentSubtreeIndex - aq.nextSubRootIndex
  IN  IF numSrQueueOps = 0 \/ numSrQueueOps > left THEN left ELSE numSrQueueOps - 1

\* The loop over the subroots stops early, without a root, when the limit
\* numSrQueueOps (0: no limit) leaves subroots unqueued.
SubRootsToQueue(aq, numSrQueueOps) ==
  LET left == aq.currentSubtreeIndex - aq.nextSubRootIndex
  IN  IF numSrQueueOps = 0 \/ numSrQueueOps > left THEN left ELSE numSrQueueOps

QueueAll(q, nodes, depth) ==
  LET after[i \in 0..Len(nodes)] ==
        IF i = 0 THEN q ELSE QueueSubRoot(after[i - 1], nodes[i], depth)
  IN  after[Len(nodes)]

MergeManySubRoots(aq, numSrQueueOps) ==
  LET depth == calcMinHeight(aq.currentSubtreeIndex)
      next == aq.nextSubRootIndex + SubRootsToQueue(aq, numSrQueueOps)
      nodes == SubSeq(aq.subRoots, aq.nextSubRootIndex + 1, next)
      blanks == [i \in 1..(hashLength ^ depth - aq.currentSubtreeIndex) |->
                   getZero(subDepth)]
  IN  IF next < aq.currentSubtreeIndex
      THEN [aq EXCEPT !.subRootQueue = QueueAll(aq.subRootQueue, nodes, depth),
                      !.nextSubRootIndex = next]
      ELSE LET q == QueueAll(aq.subRootQueue, nodes \o blanks, depth)
           IN  [aq EXCEPT !.subRootQueue = q,
                          !.nextSubRootIndex = next,
                          !.smallSRTroot = q.levels[depth][0],
                          !.subTreesMerged = TRUE]

\* Mutant: a started subtree is left out of the merge.
LeaveStarted(aq) == aq

FillStarted(aq) == IF Started(aq) THEN fill(aq) ELSE aq

mergeSubRoots(aq, numSrQueueOps) ==
  LET full == FillStarted(aq)
  IN  IF full.currentSubtreeIndex = 1
      THEN [full EXCEPT !.smallSRTroot = full.subRoots[1], !.subTreesMerged = TRUE]
      ELSE MergeManySubRoots(full, numSrQueueOps)

CanMerge(aq, depth) ==
  /\ depth # 0
  /\ aq.subTreesMerged
  /\ depth <= MAX_DEPTH
  /\ depth >= subDepth /\ hashLength ^ depth >= aq.numLeaves

\* merge: the root of the subroots' tree, extended with zeros to the depth.
MergedRoot(aq, depth) ==
  aq.smallSRTroot \o ZeroLeaves(hashLength ^ depth - Len(aq.smallSRTroot))

merge(aq, depth) ==
  [aq EXCEPT !.mainRoots[depth] = MergedRoot(aq, depth), !.treeMerged = TRUE]

CanGetMainRoot(aq, depth) == hashLength ^ depth >= aq.numLeaves
getMainRoot(aq, depth) == aq.mainRoots[depth]
=============================================================================
