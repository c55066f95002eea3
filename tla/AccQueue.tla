------------------------------ MODULE AccQueue ------------------------------
(***************************************************************************)
(* The AccQueue contract as a state machine: its owner (MACI for the state *)
(* leaves, a Poll for its messages) queues leaves, merges the subtrees'    *)
(* roots, possibly over several transactions, and computes the main root.  *)
(*                                                                         *)
(* The n-th leaf ever given to the queue is modelled by the number n, so   *)
(* that a root names the leaves it commits to and their order.             *)
(***************************************************************************)
EXTENDS AccQueueOps

CONSTANTS
  MaxLeaves,    (* bound: no new leaf once numLeaves reaches it            *)
  MaxDirect,    (* bound: no fill or insertSubTree once numLeaves reaches  *)
  OpLimits,     (* the numSrQueueOps arguments tried (0: no limit)         *)
  MainDepths    (* the depths the owner merges at                          *)

\* The owner's leaves fit in the queue: calcMinHeight has a depth to return.
ASSUME AccQueueBounds ==
  /\ MaxLeaves \in Nat /\ MaxLeaves < hashLength ^ MAX_DEPTH
  /\ MaxDirect \in Nat /\ MaxDirect + subTreeCapacity <= hashLength ^ MAX_DEPTH
  /\ OpLimits \subseteq Nat /\ MainDepths \subseteq Levels

VARIABLES
  aq,       (* the contract's storage                                      *)
  issued,   (* history: issued[n] is the index enqueue returned for leaf n,*)
            (*   -1 when the leaf came with insertSubTree                  *)
  direct,   (* history: fill or insertSubTree has been called by the owner *)
  padded,   (* history: a merge has queued blank subroots                  *)
  resumed   (* history: a merge has queued subroots after blank ones       *)

vars == <<aq, issued, direct, padded, resumed>>

NextLeaf == Len(issued) + 1

Init ==
  /\ aq = NewAccQueue
  /\ issued = << >>
  /\ direct = FALSE /\ padded = FALSE /\ resumed = FALSE

Enqueue ==
  /\ aq.numLeaves < MaxLeaves
  /\ aq' = enqueue(aq, NextLeaf)
  /\ issued' = Append(issued, aq.numLeaves)
  /\ UNCHANGED <<direct, padded, resumed>>

Fill ==
  /\ aq.numLeaves < MaxDirect
  /\ aq' = fill(aq)
  /\ direct' = TRUE
  /\ UNCHANGED <<issued, padded, resumed>>

InsertSubTree ==
  /\ aq.numLeaves < MaxDirect
  /\ aq' = insertSubTree(aq, [i \in 1..subTreeCapacity |-> NextLeaf])
  /\ issued' = Append(issued, -1)
  /\ direct' = TRUE
  /\ UNCHANGED <<padded, resumed>>

MergeSubRoots(numSrQueueOps) ==
  /\ CanMergeSubRoots(aq)
  /\ aq' = mergeSubRoots(aq, numSrQueueOps)
  /\ padded' = (padded \/ /\ aq'.subTreesMerged
                          /\ aq'.currentSubtreeIndex > 1
                          /\ aq'.currentSubtreeIndex #
                               hashLength ^ calcMinHeight(aq'.currentSubtreeIndex))
  /\ resumed' = (resumed \/ (padded /\ aq'.nextSubRootIndex > aq.nextSubRootIndex))
  /\ UNCHANGED <<issued, direct>>

Merge(depth) ==
  /\ CanMerge(aq, depth)
  /\ aq' = merge(aq, depth)
  /\ UNCHANGED <<issued, direct, padded, resumed>>

Next ==
  \/ Enqueue
  \/ Fill
  \/ InsertSubTree
  \/ \E n \in OpLimits : MergeSubRoots(n)
  \/ \E d \in MainDepths : Merge(d)

Spec == Init /\ [][Next]_vars

-----------------------------------------------------------------------------
\* What the queue holds, by position: the finished subtrees and, from the
\* highest started level down, the leaves of the current one.
Pending(q) ==
  FlattenSeq([i \in 1..subDepth |-> HashLevel(q, subDepth - i, Empty)])

Content == FlattenSeq(aq.subRoots) \o Pending(aq.leafQueue)

PaddedTo(leaves, n) == leaves \o ZeroLeaves(n - Len(leaves))

\* merge() returns the root of all the leaves in the order they were queued,
\* however the subroots' merge was split into transactions and whatever was
\* queued between them, as long as no merge resumes after blank subroots.
MergeCommitsToAllLeaves ==
  [][\A d \in MainDepths :
       (Merge(d) /\ ~resumed) => aq'.mainRoots[d] = PaddedTo(Content, hashLength ^ d)]_vars

\* A main root that getMainRoot can serve is the root of the leaves queued
\* now: what MACI and Poll call never leaves an obsolete root behind.
MainRootIsFresh ==
  ~direct /\ ~resumed =>
    \A d \in Levels : aq.mainRoots[d] # Empty =>
      aq.mainRoots[d] = PaddedTo(Content, hashLength ^ d)

\* The index enqueue returned for a leaf stays that leaf's position, across
\* later leaves, completed subtrees and the blanks a merge fills in.
IndexIsPosition ==
  ~direct => \A n \in DOMAIN issued : Content[issued[n] + 1] = n

\* numLeaves is the number of positions taken, also when insertSubTree is
\* called with a subtree started: what merge() compares with the depth.  The
\* other counters are in step with the subtrees stored and every index with
\* the slots of its level, so that nothing stored is ever written over.
CountsEveryPosition ==
  /\ aq.numLeaves = Len(Content)
  /\ aq.currentSubtreeIndex = Len(aq.subRoots)
  /\ aq.nextSubRootIndex \in 0..aq.currentSubtreeIndex
  /\ \A l \in Levels :
       /\ aq.leafQueue.indices[l] \in 0..(hashLength - 1)
       /\ aq.subRootQueue.indices[l] \in 0..(hashLength - 1)

\* Merging under a limit of operations makes progress with every call, so an
\* owner that repeats the call, as TreeMerger does, ends with a root however
\* few operations each transaction is allowed.
LimitedMergeProgresses ==
  [][\A n \in OpLimits : MergeSubRoots(n) =>
       aq'.subTreesMerged \/ aq'.nextSubRootIndex > aq.nextSubRootIndex]_vars

\* getMainRoot "returns the merged Merkle root of all the leaves at a desired
\* depth" (AccQueue.sol), stated of the calls that MACI and Poll make.
MainRootOfAllLeaves ==
  ~direct => \A d \in Levels : aq.mainRoots[d] # Empty =>
               aq.mainRoots[d] = PaddedTo(Content, hashLength ^ d)
=============================================================================
