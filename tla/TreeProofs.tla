----------------------------- MODULE TreeProofs -----------------------------
(***************************************************************************)
(* The queue for every number of leaves and children, every depth and      *)
(* every order of the owner's calls: each leaf stays where enqueue said it *)
(* is, and a root serves all the leaves queued until it was computed. Then *)
(* the TypeScript queue beside it: the same subtrees, and the same roots.  *)
(* Then the tree of quinTree.ts: its root is that of the leaves written,   *)
(* and its proofs verify.                                                  *)
(***************************************************************************)
EXTENDS AccQueueTs, QuinTree, AccQueueOpsProofs

\* What a node commits to, leaf by leaf.
Nodes == Nat \cup {Zero}

\* calcMinHeight has a depth to return, also after the merge has filled up
\* the started subtree.
SubRootsFit == FillStarted(aq).currentSubtreeIndex <= hashLength ^ MAX_DEPTH

IssuedAreInPlace ==
  ~direct => \A n \in DOMAIN issued :
    issued[n] \in 0..(Len(Leaves(aq)) - 1) /\ Leaves(aq)[issued[n] + 1] = n

RootsAreFresh ==
  (~direct /\ ~resumed) =>
    \A d \in Levels : aq.mainRoots[d] # Empty =>
      aq.mainRoots[d] = PaddedTo(Leaves(aq), hashLength ^ d)

\* The main root is right because the root over the subroots is, and that is
\* because nothing but the subroots, in their order, waits in their queue: as
\* long as no merge has put blanks behind them.
QueueInv ==
  /\ Stored(Nodes, aq)
  /\ issued \in Seq(Int)
  /\ direct \in BOOLEAN /\ padded \in BOOLEAN /\ resumed \in BOOLEAN
  /\ SubRootsFit
  /\ CanMergeSubRoots(aq) => Mergeable(aq)
  /\ padded => aq.currentSubtreeIndex > 1
  /\ ~padded => Unmixed(Nodes, aq)
  /\ (aq.subTreesMerged /\ ~resumed) => Rooted(aq)
  /\ RootsAreFresh
  /\ IssuedAreInPlace

LEMMA ContentIsLeaves == Content = Leaves(aq)
BY DEF Content, Pending, Leaves, StartedLeaves

LEMMA QueueInitially == Init => QueueInv
<1> SUFFICES ASSUME Init PROVE QueueInv
  OBVIOUS
<1>1. Stored(Nodes, NewAccQueue) /\ Leaves(NewAccQueue) = << >> /\ Unmixed(Nodes, NewAccQueue)
  BY NewStored, NewUnmixed
<1>2. aq = NewAccQueue /\ issued = << >> /\ ~direct /\ ~padded /\ ~resumed
  BY DEF Init
<1>3. /\ aq.numLeaves = 0 /\ aq.currentSubtreeIndex = 0 /\ ~aq.subTreesMerged
      /\ aq.mainRoots = [l \in Levels |-> Empty] /\ aq.leafQueue = NewQueue
  BY <1>2 DEF NewAccQueue
<1>4. SubRootsFit
  <2>1. ~Started(aq)
    BY <1>1, <1>2, <1>3, SubRootsAreBounded, NewQueueEmpty
  <2>2. FillStarted(aq).currentSubtreeIndex = 0
    BY <1>1, <1>2, <1>3, <2>1, SubRootsAreBounded
  <2>3. hashLength ^ MAX_DEPTH \in Nat
    BY PowerFacts, AccQueueConstants
  <2> QED
    BY <2>2, <2>3 DEF SubRootsFit
<1>5. issued \in Seq(Int) /\ DOMAIN issued = {}
  BY <1>2
<1>6. RootsAreFresh /\ IssuedAreInPlace
  BY <1>3, <1>5 DEF RootsAreFresh, IssuedAreInPlace
<1>7. direct \in BOOLEAN /\ padded \in BOOLEAN /\ resumed \in BOOLEAN
  BY DEF Init
<1>8. ~CanMergeSubRoots(aq)
  BY <1>3 DEF CanMergeSubRoots
<1> QED
  BY <1>1, <1>2, <1>3, <1>4, <1>5, <1>6, <1>7, <1>8, Zenon DEF QueueInv

LEMMA EnqueueInv ==
  ASSUME QueueInv, Enqueue
  PROVE  QueueInv'
<1> DEFINE leaf == NextLeaf
<1>1. /\ aq.numLeaves < MaxLeaves /\ aq' = enqueue(aq, leaf) /\ issued' = Append(issued, aq.numLeaves)
      /\ direct' = direct /\ padded' = padded /\ resumed' = resumed
  BY DEF Enqueue
<1>2. Stored(Nodes, aq) /\ issued \in Seq(Int) /\ aq.numLeaves \in Nat
  BY SubRootsAreBounded DEF QueueInv
<1>3. leaf \in Nodes /\ leaf = Len(issued) + 1
  BY <1>2 DEF NextLeaf, Nodes
<1> HIDE DEF leaf
<1>4. Enqueued(Nodes, aq, aq', leaf)
  BY <1>1, <1>2, <1>3, EnqueueStored
<1>5. /\ Stored(Nodes, aq') /\ Leaves(aq') = Leaves(aq) \o <<leaf>> /\ Grown(aq, aq')
      /\ Mergeable(aq') /\ ~aq'.subTreesMerged /\ aq'.mainRoots = [l \in Levels |-> Empty]
  BY <1>4 DEF Enqueued
<1>6. /\ aq.numLeaves = Len(Leaves(aq)) /\ Leaves(aq) \in Seq(Nodes)
      /\ aq'.numLeaves = Len(Leaves(aq')) /\ Len(<<leaf>>) = 1 /\ <<leaf>> \in Seq(Nodes)
  BY <1>2, <1>3, <1>5, LeavesCounted DEF Stored
<1>7. /\ Len(Leaves(aq')) = Len(Leaves(aq)) + 1
      /\ \A i \in 1..Len(Leaves(aq)) : Leaves(aq')[i] = Leaves(aq)[i]
      /\ Leaves(aq')[Len(Leaves(aq)) + 1] = leaf
  <2> DEFINE s == Leaves(aq)
             t == <<leaf>>
  <2>1. s \in Seq(Nodes) /\ t \in Seq(Nodes) /\ Len(t) = 1 /\ t[1] = leaf /\ Len(s) \in Nat
    BY <1>2, <1>6
  <2> HIDE DEF s, t
  <2>2. /\ Len(s \o t) = Len(s) + Len(t)
        /\ \A i \in 1..(Len(s) + Len(t)) : (s \o t)[i] = IF i <= Len(s) THEN s[i] ELSE t[i - Len(s)]
    BY <2>1, ConcatProperties
  <2>3. Len(s \o t) = Len(s) + 1 /\ \A i \in 1..Len(s) : (s \o t)[i] = s[i]
    BY <2>1, <2>2
  <2>4. (s \o t)[Len(s) + 1] = leaf
    BY <2>1, <2>2
  <2> QED
    BY <1>5, <2>3, <2>4 DEF s, t
<1>8. SubRootsFit'
  <2> DEFINE H == hashLength ^ MAX_DEPTH
  <2>1. H \in Nat /\ MaxLeaves \in Nat /\ MaxLeaves < H
    BY PowerFacts, AccQueueConstants, AccQueueBounds
  <2>2. aq'.numLeaves <= MaxLeaves
    BY <1>1, <1>2, <1>6, <1>7, <2>1
  <2> HIDE DEF H
  <2>3. FillStarted(aq').currentSubtreeIndex <= H
    BY <1>5, <2>1, <2>2, SubRootsAreBounded
  <2> QED
    BY <2>3 DEF SubRootsFit, H
<1>9. ~padded' => Unmixed(Nodes, aq')
  BY <1>1, <1>2, <1>5, UnmixedKept DEF QueueInv
<1>10. padded' => aq'.currentSubtreeIndex > 1
  <2>1. aq'.currentSubtreeIndex >= aq.currentSubtreeIndex
    BY <1>5 DEF Grown
  <2>2. aq'.currentSubtreeIndex \in Nat /\ aq.currentSubtreeIndex \in Nat
    BY <1>2, <1>5, SubRootsAreBounded
  <2> QED
    BY <1>1, <2>1, <2>2 DEF QueueInv
<1>11. issued' \in Seq(Int)
  BY <1>1, <1>2
<1>12. RootsAreFresh'
  BY <1>5 DEF RootsAreFresh
<1>13. IssuedAreInPlace'
  <2> SUFFICES ASSUME ~direct', NEW n \in DOMAIN issued'
               PROVE  issued'[n] \in 0..(Len(Leaves(aq')) - 1) /\ Leaves(aq')[issued'[n] + 1] = n
    BY DEF IssuedAreInPlace
  <2>1. n \in 1..(Len(issued) + 1) /\ Len(issued) \in Nat /\ DOMAIN issued = 1..Len(issued)
    BY <1>1, <1>2
  <2>2. CASE n = Len(issued) + 1
    <3>1. issued'[n] = Len(Leaves(aq))
      BY <1>1, <1>2, <1>6, <2>2
    <3> QED
      BY <1>2, <1>3, <1>6, <1>7, <2>2, <3>1
  <2>3. CASE n # Len(issued) + 1
    <3>1. n \in DOMAIN issued /\ issued'[n] = issued[n]
      BY <1>1, <1>2, <2>1, <2>3
    <3>2. issued[n] \in 0..(Len(Leaves(aq)) - 1) /\ Leaves(aq)[issued[n] + 1] = n
      BY <1>1, <3>1 DEF QueueInv, IssuedAreInPlace
    <3>3. issued[n] + 1 \in 1..Len(Leaves(aq)) /\ Len(Leaves(aq)) \in Nat
      BY <1>6, <3>2
    <3> QED
      BY <1>7, <3>1, <3>2, <3>3
  <2> QED
    BY <2>2, <2>3
<1> QED
  BY <1>1, <1>5, <1>8, <1>9, <1>10, <1>11, <1>12, <1>13 DEF QueueInv, CanMergeSubRoots

LEMMA FillInv ==
  ASSUME QueueInv, Fill
  PROVE  QueueInv'
<1>1. /\ aq.numLeaves < MaxDirect /\ aq' = fill(aq) /\ direct'
      /\ issued' = issued /\ padded' = padded /\ resumed' = resumed
  BY DEF Fill
<1>2. Stored(Nodes, aq) /\ Zero \in Nodes
  BY DEF QueueInv, Nodes
<1>3. FilledUp(Nodes, aq, aq')
  BY <1>1, <1>2, FillStored
<1>4. /\ Stored(Nodes, aq') /\ StartedLeaves(aq'.leafQueue) = << >> /\ Grown(aq, aq')
      /\ Mergeable(aq') /\ ~aq'.subTreesMerged
      /\ aq'.currentSubtreeIndex = aq.currentSubtreeIndex + 1
  BY <1>3 DEF FilledUp
<1>5. SubRootsFit'
  <2> DEFINE H == hashLength ^ MAX_DEPTH
  <2>1. H \in Nat /\ MaxDirect \in Nat /\ MaxDirect <= H
    BY PowerFacts, AccQueueConstants, AccQueueBounds, Capacity
  <2> HIDE DEF H
  <2>2. aq.currentSubtreeIndex \in Nat /\ aq.numLeaves \in Nat /\ aq.currentSubtreeIndex <= aq.numLeaves
    BY <1>2, SubRootsAreBounded
  <2>3. FillStarted(aq').currentSubtreeIndex = aq.currentSubtreeIndex + 1
    BY <1>4, SubRootsAreBounded
  <2>4. FillStarted(aq').currentSubtreeIndex <= H
    BY <1>1, <2>1, <2>2, <2>3
  <2> QED
    BY <2>4 DEF SubRootsFit, H
<1>6. ~padded' => Unmixed(Nodes, aq')
  BY <1>1, <1>2, <1>4, UnmixedKept DEF QueueInv
<1>7. padded' => aq'.currentSubtreeIndex > 1
  <2>1. aq.currentSubtreeIndex \in Nat
    BY <1>2, SubRootsAreBounded
  <2> QED
    BY <1>1, <1>4, <2>1 DEF QueueInv
<1>8. RootsAreFresh' /\ IssuedAreInPlace'
  BY <1>1 DEF RootsAreFresh, IssuedAreInPlace
<1>9. issued' \in Seq(Int) /\ direct' \in BOOLEAN /\ padded' \in BOOLEAN /\ resumed' \in BOOLEAN
  BY <1>1, Zenon DEF QueueInv, Fill
<1> QED
  BY <1>4, <1>5, <1>6, <1>7, <1>8, <1>9 DEF QueueInv, CanMergeSubRoots

LEMMA InsertSubTreeInv ==
  ASSUME QueueInv, InsertSubTree
  PROVE  QueueInv'
<1> DEFINE subRoot == [i \in 1..subTreeCapacity |-> NextLeaf]
<1>1. /\ aq.numLeaves < MaxDirect /\ aq' = insertSubTree(aq, subRoot) /\ direct' = TRUE
      /\ issued' = Append(issued, -1) /\ padded' = padded /\ resumed' = resumed
  BY DEF InsertSubTree
<1>2. Stored(Nodes, aq) /\ issued \in Seq(Int)
  BY DEF QueueInv
<1>3. subRoot \in Seq(Nodes) /\ Len(subRoot) = subTreeCapacity
  <2>1. NextLeaf \in Nodes
    BY <1>2 DEF NextLeaf, Nodes
  <2>2. subRoot \in [1..subTreeCapacity -> Nodes]
    BY <2>1
  <2> HIDE DEF subRoot
  <2> QED
    BY <2>2, Capacity, SeqDef
<1> HIDE DEF subRoot
<1>4. /\ Stored(Nodes, aq') /\ Grown(aq, aq') /\ Mergeable(aq') /\ ~aq'.subTreesMerged
      /\ aq'.numLeaves = aq.numLeaves + subTreeCapacity
  BY <1>1, <1>2, <1>3, InsertStored
<1>5. SubRootsFit'
  <2> DEFINE H == hashLength ^ MAX_DEPTH
  <2>1. H \in Nat /\ MaxDirect \in Nat /\ subTreeCapacity \in Nat /\ MaxDirect + subTreeCapacity <= H
    BY PowerFacts, AccQueueConstants, AccQueueBounds, Capacity
  <2> HIDE DEF H
  <2>2. aq.numLeaves \in Nat
    BY <1>2, SubRootsAreBounded
  <2>3. aq'.numLeaves + 1 <= H
    BY <1>1, <1>4, <2>1, <2>2
  <2>4. FillStarted(aq').currentSubtreeIndex <= H
    BY <1>4, <2>1, <2>3, SubRootsAreBounded
  <2> QED
    BY <2>4 DEF SubRootsFit, H
<1>6. ~padded' => Unmixed(Nodes, aq')
  BY <1>1, <1>2, <1>4, UnmixedKept DEF QueueInv
<1>7. padded' => aq'.currentSubtreeIndex > 1
  <2>1. aq'.currentSubtreeIndex >= aq.currentSubtreeIndex
    BY <1>4 DEF Grown
  <2>2. aq'.currentSubtreeIndex \in Nat /\ aq.currentSubtreeIndex \in Nat
    BY <1>2, <1>4, SubRootsAreBounded
  <2> QED
    BY <1>1, <2>1, <2>2 DEF QueueInv
<1>8. RootsAreFresh' /\ IssuedAreInPlace'
  BY <1>1 DEF RootsAreFresh, IssuedAreInPlace
<1>9. issued' \in Seq(Int)
  BY <1>1, <1>2
<1> QED
  BY <1>1, <1>4, <1>5, <1>6, <1>7, <1>8, <1>9 DEF QueueInv, CanMergeSubRoots
LEMMA MergeSubRootsInv ==
  ASSUME QueueInv, NEW lim \in OpLimits, MergeSubRoots(lim)
  PROVE  /\ QueueInv'
         /\ aq'.subTreesMerged \/ aq'.nextSubRootIndex > aq.nextSubRootIndex
<1>1. /\ CanMergeSubRoots(aq) /\ aq' = mergeSubRoots(aq, lim)
      /\ padded' = (padded \/ BlanksQueued(aq'))
      /\ resumed' = (resumed \/ (padded /\ aq'.nextSubRootIndex > aq.nextSubRootIndex))
      /\ issued' = issued /\ direct' = direct
  BY DEF MergeSubRoots, BlanksQueued
<1>2. /\ Stored(Nodes, aq) /\ Zero \in Nodes /\ Mergeable(aq) /\ ~aq.subTreesMerged
      /\ FillStarted(aq).currentSubtreeIndex <= hashLength ^ MAX_DEPTH /\ lim \in Nat
  BY <1>1, AccQueueBounds DEF QueueInv, Nodes, CanMergeSubRoots, SubRootsFit
<1>3. SubRootsMerged(Nodes, aq, aq')
  BY <1>1, <1>2, MergeSubRootsMerges
<1>4. /\ Rounded(Nodes, aq, aq')
      /\ aq'.currentSubtreeIndex = FillStarted(aq).currentSubtreeIndex
      /\ aq'.subTreesMerged \/ aq'.nextSubRootIndex > aq.nextSubRootIndex
      /\ aq'.currentSubtreeIndex = 1 \/ aq'.nextSubRootIndex > aq.nextSubRootIndex
      /\ ~aq'.subTreesMerged => Mergeable(aq')
      /\ (Unmixed(Nodes, aq) /\ aq'.subTreesMerged) => Rooted(aq')
      /\ (Unmixed(Nodes, aq) /\ ~BlanksQueued(aq')) => Unmixed(Nodes, aq')
  BY <1>3 DEF SubRootsMerged
<1>5. /\ Stored(Nodes, aq') /\ StartedLeaves(aq'.leafQueue) = << >>
      /\ \E k \in Nat : Leaves(aq') = Leaves(aq) \o ZeroLeaves(k)
      /\ ~Started(aq) => Leaves(aq') = Leaves(aq)
      /\ aq'.mainRoots = IF Started(aq) THEN [l \in Levels |-> Empty] ELSE aq.mainRoots
  BY <1>4 DEF Rounded
<1>6. SubRootsFit'
  BY <1>2, <1>4, <1>5, SubRootsAreBounded DEF SubRootsFit
<1>7. aq'.currentSubtreeIndex \in Nat /\ aq.currentSubtreeIndex \in Nat
      /\ aq'.currentSubtreeIndex >= aq.currentSubtreeIndex
  BY <1>2, <1>4, <1>5, SubRootsAreBounded
<1>8. padded' => aq'.currentSubtreeIndex > 1
  <2>1. padded => aq'.currentSubtreeIndex > 1
    BY <1>7 DEF QueueInv
  <2>2. BlanksQueued(aq') => aq'.currentSubtreeIndex > 1
    BY DEF BlanksQueued
  <2> QED
    BY <1>1, <2>1, <2>2, Zenon
<1>9. ~padded' => Unmixed(Nodes, aq')
  BY <1>1, <1>4, Zenon DEF QueueInv
<1>10. ~resumed' => ~padded
  <2>1. padded => aq'.nextSubRootIndex > aq.nextSubRootIndex
    BY <1>4, <1>7 DEF QueueInv
  <2> QED
    BY <1>1, <2>1, Zenon
<1>11. (aq'.subTreesMerged /\ ~resumed') => Rooted(aq')
  BY <1>4, <1>10, Zenon DEF QueueInv
<1>12. ~resumed' => ~resumed
  BY <1>1, Zenon
<1>13. RootsAreFresh'
  <2>1. CASE Started(aq)
    BY <1>5, <2>1 DEF RootsAreFresh
  <2>2. CASE ~Started(aq)
    BY <1>1, <1>5, <1>12, <2>2, Zenon DEF QueueInv, RootsAreFresh, PaddedTo
  <2> QED
    BY <2>1, <2>2
<1>14. IssuedAreInPlace'
  <2> SUFFICES ASSUME ~direct', NEW n \in DOMAIN issued'
               PROVE  issued'[n] \in 0..(Len(Leaves(aq')) - 1) /\ Leaves(aq')[issued'[n] + 1] = n
    BY DEF IssuedAreInPlace
  <2> DEFINE s == Leaves(aq)
             i == issued[n] + 1
  <2>1. PICK k \in Nat : Leaves(aq') = s \o ZeroLeaves(k)
    BY <1>5
  <2> DEFINE t == ZeroLeaves(k)
  <2>2. s \in Seq(Nodes) /\ t \in Seq(Nodes) /\ Len(s) \in Nat /\ Len(t) \in Nat
    BY <1>2, LeavesCounted, ZerosTyped
  <2>3. issued'[n] = issued[n] /\ issued[n] \in 0..(Len(s) - 1) /\ s[i] = n
    BY <1>1 DEF QueueInv, IssuedAreInPlace
  <2> HIDE DEF s, t
  <2>4. /\ Len(s \o t) = Len(s) + Len(t)
        /\ \A j \in 1..(Len(s) + Len(t)) : (s \o t)[j] = IF j <= Len(s) THEN s[j] ELSE t[j - Len(s)]
    BY <2>2, ConcatProperties
  <2>5. i \in 1..(Len(s) + Len(t)) /\ i <= Len(s)
    BY <2>2, <2>3
  <2>6. (s \o t)[i] = n
    BY <2>3, <2>4, <2>5
  <2>7. issued[n] \in 0..(Len(s \o t) - 1)
    BY <2>2, <2>3, <2>4
  <2> QED
    BY <2>1, <2>3, <2>6, <2>7 DEF t
<1>15. issued' \in Seq(Int) /\ direct' \in BOOLEAN /\ padded' \in BOOLEAN /\ resumed' \in BOOLEAN
  BY <1>1, Zenon DEF QueueInv
<1>16. CanMergeSubRoots(aq') => Mergeable(aq')
  BY <1>4 DEF CanMergeSubRoots
<1>17. QueueInv'
  BY <1>5, <1>6, <1>8, <1>9, <1>11, <1>13, <1>14, <1>15, <1>16, Zenon DEF QueueInv
<1> QED
  BY <1>4, <1>17

LEMMA MergeInv ==
  ASSUME QueueInv, NEW d \in MainDepths, Merge(d)
  PROVE  /\ QueueInv'
         /\ ~resumed => aq'.mainRoots[d] = PaddedTo(Leaves(aq), hashLength ^ d)
<1>1. /\ CanMerge(aq, d) /\ aq' = merge(aq, d) /\ d \in Levels
      /\ issued' = issued /\ direct' = direct /\ padded' = padded /\ resumed' = resumed
  BY AccQueueBounds DEF Merge
<1>2. Stored(Nodes, aq) /\ Zero \in Nodes
  BY DEF QueueInv, Nodes
<1>3. /\ Stored(Nodes, aq') /\ Leaves(aq') = Leaves(aq)
      /\ \A l \in Levels : aq'.mainRoots[l] = IF l = d THEN MergedRoot(aq, d) ELSE aq.mainRoots[l]
      /\ Unmixed(Nodes, aq) => Unmixed(Nodes, aq')
      /\ Rooted(aq) => Rooted(aq')
      /\ Mergeable(aq) <=> Mergeable(aq')
      /\ (CanMerge(aq, d) /\ Rooted(aq)) =>
           MergedRoot(aq, d) = Leaves(aq) \o ZeroLeaves(hashLength ^ d - Len(Leaves(aq)))
  BY <1>1, <1>2, MergeStored
<1>4. /\ aq'.subTreesMerged = aq.subTreesMerged /\ aq'.numLeaves = aq.numLeaves
      /\ aq'.currentSubtreeIndex = aq.currentSubtreeIndex
  <2>1. aq \in AccQueues(Nodes)
    BY <1>2 DEF Stored
  <2> QED
    BY <1>1, <2>1 DEF merge, AccQueues
<1>5. SubRootsFit'
  <2>1. Started(aq') <=> Started(aq)
    BY <1>4 DEF Started
  <2>2. FillStarted(aq').currentSubtreeIndex = FillStarted(aq).currentSubtreeIndex
    BY <1>2, <1>3, <1>4, <2>1, SubRootsAreBounded
  <2> QED
    BY <2>2 DEF QueueInv, SubRootsFit
<1>6. ~resumed => aq'.mainRoots[d] = PaddedTo(Leaves(aq), hashLength ^ d)
  <2>1. ~resumed => Rooted(aq)
    BY <1>1 DEF QueueInv, CanMerge
  <2> QED
    BY <1>1, <1>3, <2>1 DEF PaddedTo
<1>7. RootsAreFresh'
  <2> SUFFICES ASSUME ~direct', ~resumed', NEW l \in Levels, aq'.mainRoots[l] # Empty
               PROVE  aq'.mainRoots[l] = PaddedTo(Leaves(aq'), hashLength ^ l)
    BY DEF RootsAreFresh
  <2>1. ~direct /\ ~resumed
    BY <1>1
  <2>2. CASE l = d
    BY <1>3, <1>6, <2>1, <2>2
  <2>3. CASE l # d
    <3>1. aq'.mainRoots[l] = aq.mainRoots[l]
      BY <1>3, <2>3
    <3>2. aq.mainRoots[l] = PaddedTo(Leaves(aq), hashLength ^ l)
      BY <2>1, <3>1 DEF QueueInv, RootsAreFresh
    <3> QED
      BY <1>3, <3>1, <3>2
  <2> QED
    BY <2>2, <2>3
<1>8. IssuedAreInPlace'
  BY <1>1, <1>3 DEF QueueInv, IssuedAreInPlace
<1>9. CanMergeSubRoots(aq') => Mergeable(aq')
  BY <1>3, <1>4 DEF QueueInv, CanMergeSubRoots
<1>10. padded' => aq'.currentSubtreeIndex > 1
  BY <1>1, <1>4 DEF QueueInv
<1>11. issued' \in Seq(Int) /\ direct' \in BOOLEAN /\ padded' \in BOOLEAN /\ resumed' \in BOOLEAN
  BY <1>1, Zenon DEF QueueInv
<1>12. (~padded' => Unmixed(Nodes, aq')) /\ ((aq'.subTreesMerged /\ ~resumed') => Rooted(aq'))
  BY <1>1, <1>3, <1>4 DEF QueueInv
<1>13. QueueInv'
  BY <1>3, <1>5, <1>7, <1>8, <1>9, <1>10, <1>11, <1>12, Zenon DEF QueueInv
<1> QED
  BY <1>6, <1>13

LEMMA QueueStep ==
  ASSUME QueueInv, [Next]_vars
  PROVE  QueueInv'
<1>1. CASE UNCHANGED vars
  <2>1. aq' = aq /\ issued' = issued /\ direct' = direct /\ padded' = padded /\ resumed' = resumed
    BY <1>1 DEF vars
  <2> QED
    BY <2>1 DEF QueueInv, SubRootsFit, RootsAreFresh, IssuedAreInPlace
<1>2. CASE Enqueue
  BY <1>2, EnqueueInv
<1>3. CASE Fill
  BY <1>3, FillInv
<1>4. CASE InsertSubTree
  BY <1>4, InsertSubTreeInv
<1>5. CASE \E n \in OpLimits : MergeSubRoots(n)
  BY <1>5, MergeSubRootsInv
<1>6. CASE \E d \in MainDepths : Merge(d)
  BY <1>6, MergeInv
<1> QED
  BY <1>1, <1>2, <1>3, <1>4, <1>5, <1>6 DEF Next

\* The invariant of every run of the queue.
THEOREM QueueInvariant == Spec => []QueueInv
<1>1. QueueInv /\ [Next]_vars => QueueInv'
  BY QueueStep
<1> QED
  BY <1>1, QueueInitially, PTL DEF Spec

\* However the owner orders enqueue, fill, insertSubTree and the merges: the
\* counters of AccQueue.sol agree with the leaves, subtrees and slots stored.
THEOREM EveryPositionCounted == Spec => []CountsEveryPosition
<1>1. QueueInv => CountsEveryPosition
  <2> SUFFICES ASSUME QueueInv PROVE CountsEveryPosition
    OBVIOUS
  <2>1. Stored(Nodes, aq)
    BY DEF QueueInv
  <2>2. /\ aq.numLeaves = Len(Content) /\ aq.currentSubtreeIndex = Len(aq.subRoots)
        /\ aq.nextSubRootIndex <= aq.currentSubtreeIndex
    BY <2>1, ContentIsLeaves DEF Stored
  <2>3. /\ aq.leafQueue.indices \in [Levels -> 0..(hashLength - 1)]
        /\ aq.subRootQueue.indices \in [Levels -> 0..(hashLength - 1)]
        /\ aq.nextSubRootIndex \in Nat /\ aq.currentSubtreeIndex \in Nat
    BY <2>1 DEF Stored, AccQueues, Queues
  <2> QED
    BY <2>2, <2>3 DEF CountsEveryPosition
<1> QED
  BY <1>1, QueueInvariant, PTL

\* The index that enqueue returned, in MACI a voter's stateIndex, names the
\* leaf for ever.
THEOREM IndicesArePositions == Spec => []IndexIsPosition
<1>1. QueueInv => IndexIsPosition
  BY ContentIsLeaves DEF QueueInv, IndexIsPosition, IssuedAreInPlace
<1> QED
  BY <1>1, QueueInvariant, PTL

\* A root that getMainRoot serves commits to the leaves of this moment, in
\* MACI and in Poll, which never call fill or insertSubTree themselves.
THEOREM ServedRootsAreFresh == Spec => []MainRootIsFresh
<1>1. QueueInv => MainRootIsFresh
  BY ContentIsLeaves DEF QueueInv, MainRootIsFresh, RootsAreFresh
<1> QED
  BY <1>1, QueueInvariant, PTL

\* merge() computes the root of all the leaves, over however many calls of
\* mergeSubRoots their subroots were queued.
THEOREM MergeIsOfAllLeaves == Spec => MergeCommitsToAllLeaves
<1>1. QueueInv /\ [Next]_vars =>
        [\A d \in MainDepths :
           (Merge(d) /\ ~resumed) => aq'.mainRoots[d] = PaddedTo(Content, hashLength ^ d)]_vars
  BY MergeInv, ContentIsLeaves
<1> QED
  BY <1>1, QueueInvariant, PTL DEF Spec, MergeCommitsToAllLeaves

\* Every accepted call of mergeSubRoots either ends with the root or leaves
\* fewer subroots to queue: no limit makes TreeMerger's loop spin.
THEOREM LimitedMergesProgress == Spec => LimitedMergeProgresses
<1>1. QueueInv /\ [Next]_vars =>
        [\A n \in OpLimits : MergeSubRoots(n) =>
           aq'.subTreesMerged \/ aq'.nextSubRootIndex > aq.nextSubRootIndex]_vars
  BY MergeSubRootsInv
<1> QED
  BY <1>1, QueueInvariant, PTL DEF Spec, LimitedMergeProgresses

-----------------------------------------------------------------------------
\* The leaves that wait at a level are in the slots below its index.
LEMMA RowsOfUsedSlots ==
  ASSUME NEW X, NEW q \in Queues(X), NEW z \in Queues(X), z.indices = q.indices,
         \A l \in Levels : \A i \in Slots : i < q.indices[l] => z.levels[l][i] = q.levels[l][i]
  PROVE  \A lo \in Levels : AgreeFrom(q, z, lo)
<1> SUFFICES ASSUME NEW lo \in Levels PROVE AgreeFrom(q, z, lo)
  OBVIOUS
<1>1. ASSUME NEW l \in lo..MAX_DEPTH PROVE Row(z, l) = Row(q, l)
  <2>1. l \in Levels /\ q.indices[l] \in 0..(hashLength - 1)
    BY AccQueueConstants DEF Levels, Queues
  <2>2. \A i \in 1..q.indices[l] : i - 1 \in Slots /\ i - 1 < q.indices[l]
    BY <2>1, AccQueueConstants DEF Slots
  <2>3. [i \in 1..q.indices[l] |-> z.levels[l][i - 1]] = [i \in 1..q.indices[l] |-> q.levels[l][i - 1]]
    BY <2>1, <2>2
  <2> QED
    BY <2>3 DEF Row, HashLevel
<1> QED
  BY <1>1, RowsAgree

\* Zeros in the free slots of a level change nothing of what it holds.
LEMMA ZeroedLevel ==
  ASSUME NEW X, Zero \in X, NEW q, SubtreeQueue(X, q), NEW level \in 0..(subDepth - 1),
         NEW s, Filled(q, level, s),
         NEW z, z = [q EXCEPT !.levels[level] =
                       [i \in Slots |-> IF i < q.indices[level] THEN @[i] ELSE getZero(level)]]
  PROVE  SubtreeQueue(X, z) /\ Filled(z, level, s)
<1>1. /\ level \in Levels /\ subDepth \in Levels /\ subDepth # level /\ level \in 0..(MAX_DEPTH + 1)
      /\ subDepth \in level..(MAX_DEPTH + 1)
      /\ \A l \in subDepth..MAX_DEPTH : l \in Levels
  BY AccQueueConstants DEF Levels
<1>2. q \in Queues(X) /\ Sized(q, 1) /\ \A l \in subDepth..MAX_DEPTH : q.indices[l] = 0
  BY DEF SubtreeQueue
<1>3. getZero(level) \in Seq(X)
  BY <1>1, PowerFacts, ZerosTyped DEF getZero
<1>4. /\ z \in Queues(X) /\ z.indices = q.indices
      /\ \A l \in Levels : l # level => z.levels[l] = q.levels[l]
      /\ \A i \in Slots : z.levels[level][i] = IF i < q.indices[level] THEN q.levels[level][i] ELSE getZero(level)
  BY <1>1, <1>2, <1>3 DEF Queues
<1>5. \A l \in Levels : \A i \in Slots : i < q.indices[l] => z.levels[l][i] = q.levels[l][i]
  BY <1>4
<1>6. AgreeFrom(q, z, level)
  BY <1>1, <1>2, <1>4, <1>5, RowsOfUsedSlots
<1>7. SubtreeQueue(X, z)
  BY <1>2, <1>4, <1>5 DEF SubtreeQueue, Sized
<1>8. PICK k \in Nat : Holds(q, level, s \o ZeroLeaves(k)) \/ Completed(q, s \o ZeroLeaves(k))
  BY DEF Filled
<1>9. Holds(q, level, s \o ZeroLeaves(k)) => Holds(z, level, s \o ZeroLeaves(k))
  BY <1>1, <1>4, <1>6 DEF Holds, AgreeFrom
<1>10. Completed(q, s \o ZeroLeaves(k)) => Completed(z, s \o ZeroLeaves(k))
  BY <1>1, <1>4 DEF Completed
<1> QED
  BY <1>7, <1>8, <1>9, <1>10 DEF Filled

\* fillOp of any level.
LEMMA FillLevelTsStep ==
  ASSUME NEW X, Zero \in X, NEW q, SubtreeQueue(X, q), NEW level \in 0..(subDepth - 1),
         NEW s \in Seq(X), Filled(q, level, s)
  PROVE  SubtreeQueue(X, FillLevelTs(q, level)) /\ Filled(FillLevelTs(q, level), level + 1, s)
<1> DEFINE zeroed == [q EXCEPT !.levels[level] =
                        [i \in Slots |-> IF i < q.indices[level] THEN @[i] ELSE getZero(level)]]
<1>1. SubtreeQueue(X, zeroed) /\ Filled(zeroed, level, s)
  BY ZeroedLevel
<1>2. FillLevelTs(q, level) = FillLevel(zeroed, level) \/ FillLevelTs(q, level) = FillLevel(q, level)
  BY DEF FillLevelTs
<1> HIDE DEF zeroed
<1>3. SubtreeQueue(X, FillLevel(zeroed, level)) /\ Filled(FillLevel(zeroed, level), level + 1, s)
  BY <1>1, FillLevelStep
<1>4. SubtreeQueue(X, FillLevel(q, level)) /\ Filled(FillLevel(q, level), level + 1, s)
  BY FillLevelStep
<1> QED
  BY <1>2, <1>3, <1>4

\* fill's loop, from the lowest level up.
LEMMA FillQueueTsFills ==
  ASSUME NEW X, Zero \in X, NEW q, SubtreeQueue(X, q)
  PROVE  SubtreeQueue(X, FillQueueTs(q)) /\ Filled(FillQueueTs(q), subDepth, StartedLeaves(q))
<1> DEFINE s == StartedLeaves(q)
           V == {x \in Queues(X) : SubtreeQueue(X, x)}
           g == [i \in 0..subDepth |-> [x \in V |->
                   IF i # 0 /\ Filled(x, i - 1, s) THEN FillLevelTs(x, i - 1) ELSE x]]
           Def(f) == f = [l \in 0..subDepth |-> IF l = 0 THEN q ELSE FillLevelTs(f[l - 1], l - 1)]
           Ok(f, l) == f[l] \in V /\ Filled(f[l], l, s)
<1>1. /\ 0 \in Nat /\ subDepth \in Nat /\ 0 \in 0..subDepth /\ subDepth \in 0..subDepth
      /\ \A l \in 0..(subDepth - 1) :
           l + 1 \in 0..subDepth /\ l + 1 # 0 /\ (l + 1) - 1 = l /\ l \in 0..subDepth
      /\ \A l \in 0..subDepth : l # 0 => l - 1 \in 0..(subDepth - 1)
  BY AccQueueConstants
<1>2. q \in Queues(X) /\ q \in V
  BY DEF SubtreeQueue
<1>3. s \in Seq(X) /\ s = Rows(q, 0)[subDepth]
  BY <1>2, StartedLeavesAreRows
<1> HIDE DEF s
<1>4. Filled(q, 0, s)
  <2>1. s \o ZeroLeaves(0) = s
    <3>1. ZeroLeaves(0) = << >>
      BY ZerosTyped, EmptySeq
    <3> QED
      BY <1>3, <3>1, ConcatEmptySeq
  <2>2. Holds(q, 0, s \o ZeroLeaves(0))
    BY <1>3, <2>1 DEF Holds
  <2> QED
    BY <1>1, <2>2 DEF Filled
<1>5. ASSUME NEW x \in V, NEW l \in 0..(subDepth - 1), Filled(x, l, s)
      PROVE  FillLevelTs(x, l) \in V /\ Filled(FillLevelTs(x, l), l + 1, s)
  <2>1. SubtreeQueue(X, FillLevelTs(x, l)) /\ Filled(FillLevelTs(x, l), l + 1, s)
    BY <1>3, <1>5, FillLevelTsStep
  <2> QED
    BY <2>1 DEF SubtreeQueue
<1> HIDE DEF V
<1>6. g \in [0..subDepth -> [V -> V]]
  BY <1>1, <1>5
<1>7. PICK f \in [0..subDepth -> V] :
        \A l \in 0..subDepth : f[l] = IF l = 0 THEN q ELSE g[l][f[l - 1]]
  <2> HIDE DEF g
  <2>1. HasRecursion(V, q, 0, subDepth, g)
    BY <1>1, <1>2, <1>6, RangeRecursion
  <2> QED
    BY <2>1 DEF HasRecursion
<1> DEFINE S == {l \in 0..subDepth : Ok(f, l)}
<1>8. 0 \in S
  BY <1>1, <1>2, <1>4, <1>7
<1>9. ASSUME NEW l \in 0..(subDepth - 1), Ok(f, l)
      PROVE  f[l + 1] = FillLevelTs(f[l], l) /\ Ok(f, l + 1)
  <2>1. f[l + 1] = g[l + 1][f[l]]
    BY <1>1, <1>7
  <2>2. f[l + 1] = FillLevelTs(f[l], l)
    BY <1>1, <1>9, <2>1
  <2> QED
    BY <1>5, <1>9, <2>2
<1>10. \A l \in 0..(subDepth - 1) : l \in S => l + 1 \in S
  BY <1>1, <1>9
<1>11. 0..subDepth \subseteq S
  <2> HIDE DEF S
  <2> QED
    BY <1>1, <1>8, <1>10, RangeInduction
<1>12. Def(f)
  <2>1. ASSUME NEW l \in 0..subDepth
        PROVE  f[l] = IF l = 0 THEN q ELSE FillLevelTs(f[l - 1], l - 1)
    <3>1. CASE l = 0
      BY <1>7, <3>1
    <3>2. CASE l # 0
      <4>1. l - 1 \in 0..(subDepth - 1) /\ (l - 1) + 1 = l
        BY <1>1, <3>2
      <4>2. Ok(f, l - 1)
        BY <1>1, <1>11, <4>1
      <4> QED
        BY <1>9, <3>2, <4>1, <4>2
    <3> QED
      BY <3>1, <3>2
  <2> QED
    BY <2>1
<1> DEFINE filled[l \in 0..subDepth] == IF l = 0 THEN q ELSE FillLevelTs(filled[l - 1], l - 1)
<1>13. Def(filled)
  <2>1. \E h : Def(h)
    BY <1>12
  <2> HIDE DEF S, g
  <2> QED
    BY <2>1
<1>14. FillQueueTs(q) = filled[subDepth]
  BY DEF FillQueueTs
<1> HIDE DEF S, g, filled
<1>15. \A l \in 0..subDepth : filled[l] = IF l = 0 THEN q ELSE FillLevelTs(filled[l - 1], l - 1)
  BY <1>13
<1> HIDE DEF Def
<1> DEFINE T == {l \in 0..subDepth : Ok(filled, l)}
<1>16. 0 \in T
  BY <1>1, <1>2, <1>4, <1>15
<1>17. ASSUME NEW l \in 0..(subDepth - 1), l \in T PROVE l + 1 \in T
  <2>1. filled[l + 1] = FillLevelTs(filled[l], l) /\ l + 1 \in 0..subDepth
    BY <1>1, <1>15
  <2>2. Ok(filled, l)
    BY <1>17
  <2>3. Ok(filled, l + 1)
    BY <1>5, <2>1, <2>2
  <2> QED
    BY <2>1, <2>3
<1>18. 0..subDepth \subseteq T
  <2> HIDE DEF T
  <2> QED
    BY <1>1, <1>16, <1>17, RangeInduction
<1>19. Ok(filled, subDepth)
  BY <1>1, <1>18
<1> QED
  BY <1>14, <1>19 DEF V, s

-----------------------------------------------------------------------------
\* fillOp stores, in the slot of the root, the leaves that waited and zeros.
LEMMA FilledSubtreeTs ==
  ASSUME NEW X, Zero \in X, NEW q, SubtreeQueue(X, q), StartedLeaves(q) # << >>,
         NEW q2, q2 = FillQueueTs(q)
  PROVE  /\ q2 \in Queues(X) /\ \A l \in Levels : q2.indices[l] = 0
         /\ q2.levels[subDepth][0] \in Seq(X) /\ Len(q2.levels[subDepth][0]) = subTreeCapacity
         /\ \E k \in Nat : q2.levels[subDepth][0] = StartedLeaves(q) \o ZeroLeaves(k)
<1> DEFINE s == StartedLeaves(q)
<1>1. SubtreeQueue(X, q2) /\ Filled(q2, subDepth, s)
  BY FillQueueTsFills
<1>2. PICK k \in Nat : Holds(q2, subDepth, s \o ZeroLeaves(k)) \/ Completed(q2, s \o ZeroLeaves(k))
  BY <1>1 DEF Filled
<1>3. s \in Seq(X) /\ s # << >> /\ ZeroLeaves(k) \in Seq(X)
  BY StartedLeavesAreRows, ZerosTyped DEF SubtreeQueue
<1>4. q2 \in Queues(X) /\ subDepth \in 0..(MAX_DEPTH + 1)
  BY <1>1, AccQueueConstants DEF SubtreeQueue
<1> HIDE DEF s
<1>5. ~ Holds(q2, subDepth, s \o ZeroLeaves(k))
  <2>1. Rows(q2, subDepth)[subDepth] = << >>
    BY <1>4, RowsDef DEF Empty
  <2>2. s \o ZeroLeaves(k) # << >>
    BY <1>3, ConcatProperties
  <2> QED
    BY <2>1, <2>2 DEF Holds
<1>6. Completed(q2, s \o ZeroLeaves(k)) /\ s \o ZeroLeaves(k) \in Seq(X)
  BY <1>2, <1>3, <1>5, ConcatProperties
<1> QED
  BY <1>4, <1>6, Capacity DEF Completed, s

\* A subtree's root is its leaves and as many zeros as are missing.
LEMMA SameZeros ==
  ASSUME NEW X, Zero \in X, NEW s \in Seq(X), NEW k \in Nat, NEW j \in Nat,
         Len(s \o ZeroLeaves(k)) = Len(s \o ZeroLeaves(j))
  PROVE  s \o ZeroLeaves(k) = s \o ZeroLeaves(j)
<1>1. /\ ZeroLeaves(k) \in Seq(X) /\ Len(ZeroLeaves(k)) = k
      /\ ZeroLeaves(j) \in Seq(X) /\ Len(ZeroLeaves(j)) = j
  BY ZerosTyped
<1>2. Len(s \o ZeroLeaves(k)) = Len(s) + k /\ Len(s \o ZeroLeaves(j)) = Len(s) + j /\ Len(s) \in Nat
  BY <1>1, ConcatProperties, LenProperties
<1> DEFINE a == Len(s \o ZeroLeaves(k))
           b == Len(s \o ZeroLeaves(j))
<1>3. a = Len(s) + k /\ b = Len(s) + j /\ Len(s) \in Nat /\ a = b
  BY <1>2
<1> HIDE DEF a, b
<1>4. k = j
  BY <1>3
<1> QED
  BY <1>4

-----------------------------------------------------------------------------
\* The type of the TypeScript queue's record.
TsQueues(X) ==
  [numLeaves : Nat, currentSubtreeIndex : Nat, nextSubRootIndex : Nat,
   leafQueue : Queues(X), subRootQueue : Queues(X),
   subRoots : Seq(Seq(X)), mainRoots : [Levels -> Seq(X)],
   smallSRTroot : Seq(X), subTreesMerged : BOOLEAN, shared : SUBSET Levels]

\* What a call writes into the leaf queue shows in no other part of the queue
\* of the subroots than the slots of the shared levels.
SubRootsShown(q, q2) ==
  /\ q2.subRootQueue.indices = q.subRootQueue.indices
  /\ q.shared = {} => q2.subRootQueue = q.subRootQueue

\* A write of the leaf queue's Maps keeps the type and the other fields.
LEMMA ShownInSubRoots ==
  ASSUME NEW X, NEW q \in TsQueues(X), NEW levels \in [Levels -> [Slots -> Seq(X)]],
         NEW q2, q2 = ShowInSubRoots(q, levels)
  PROVE  /\ q2 \in TsQueues(X) /\ SubRootsShown(q, q2)
         /\ q2.numLeaves = q.numLeaves /\ q2.currentSubtreeIndex = q.currentSubtreeIndex
         /\ q2.nextSubRootIndex = q.nextSubRootIndex /\ q2.leafQueue = q.leafQueue
         /\ q2.subRoots = q.subRoots /\ q2.mainRoots = q.mainRoots
         /\ q2.smallSRTroot = q.smallSRTroot /\ q2.subTreesMerged = q.subTreesMerged
         /\ q2.shared = q.shared
<1> DEFINE sub == [q.subRootQueue EXCEPT !.levels =
                     [l \in Levels |-> IF l \in q.shared THEN levels[l] ELSE @[l]]]
<1>1. q.subRootQueue \in [levels : [Levels -> [Slots -> Seq(X)]], indices : [Levels -> 0..(hashLength - 1)]]
  BY DEF TsQueues, Queues
<1>2. /\ sub \in Queues(X) /\ sub.indices = q.subRootQueue.indices
      /\ q.shared = {} => sub = q.subRootQueue
  BY <1>1 DEF Queues
<1>3. q2 = [q EXCEPT !.subRootQueue = sub]
  BY <1>1 DEF ShowInSubRoots, TsQueues
<1> HIDE DEF sub
<1> QED
  BY <1>2, <1>3 DEF TsQueues, SubRootsShown

\* So does a write of the Maps by the queue of the subroots.
LEMMA ShownInLeaves ==
  ASSUME NEW X, NEW q \in TsQueues(X), NEW q2, q2 = ShowInLeaves(q)
  PROVE  /\ q2 \in TsQueues(X) /\ q2.leafQueue.indices = q.leafQueue.indices
         /\ q2.numLeaves = q.numLeaves /\ q2.currentSubtreeIndex = q.currentSubtreeIndex
         /\ q2.nextSubRootIndex = q.nextSubRootIndex /\ q2.subRootQueue = q.subRootQueue
         /\ q2.subRoots = q.subRoots /\ q2.mainRoots = q.mainRoots
         /\ q2.smallSRTroot = q.smallSRTroot /\ q2.subTreesMerged = q.subTreesMerged
         /\ q2.shared = q.shared
<1> DEFINE leaves == [q.leafQueue EXCEPT !.levels =
                        [l \in Levels |-> IF l \in q.shared THEN q.subRootQueue.levels[l] ELSE @[l]]]
<1>1. /\ q.leafQueue \in [levels : [Levels -> [Slots -> Seq(X)]], indices : [Levels -> 0..(hashLength - 1)]]
      /\ q.subRootQueue.levels \in [Levels -> [Slots -> Seq(X)]]
  BY DEF TsQueues, Queues
<1>2. leaves \in Queues(X) /\ leaves.indices = q.leafQueue.indices
  BY <1>1 DEF Queues
<1>3. q2 = [q EXCEPT !.leafQueue = leaves]
  BY <1>1 DEF ShowInLeaves, TsQueues
<1> HIDE DEF leaves
<1> QED
  BY <1>2, <1>3 DEF TsQueues

-----------------------------------------------------------------------------
\* The leaves and the subtrees are the contract's, level by level and one by
\* one, whatever the slots without a node hold.
Conforms(X, q, aq0) ==
  /\ q \in TsQueues(X)
  /\ SubtreeQueue(X, q.leafQueue)
  /\ StartedLeaves(q.leafQueue) = StartedLeaves(aq0.leafQueue)
  /\ StartedLeaves(q.leafQueue) = << >> => \A l \in Levels : q.leafQueue.indices[l] = 0
  /\ q.subRoots = aq0.subRoots
  /\ q.numLeaves = aq0.numLeaves
  /\ q.currentSubtreeIndex = aq0.currentSubtreeIndex
  /\ q.nextSubRootIndex = aq0.nextSubRootIndex
  /\ q.subTreesMerged = aq0.subTreesMerged

\* What the two enqueue methods do to a record that has the contract's fields.
EnqueuedFields(q, q2, leaf) ==
  LET e == EnqueueAt(q.leafQueue, <<leaf>>, 0)
      done == (q.numLeaves + 1) % subTreeCapacity = 0
  IN  /\ q2.numLeaves = q.numLeaves + 1
      /\ q2.nextSubRootIndex = q.nextSubRootIndex
      /\ q2.smallSRTroot = Empty /\ q2.subTreesMerged = FALSE
      /\ IF done
         THEN /\ q2.subRoots = Append(q.subRoots, e.levels[subDepth][0])
              /\ q2.currentSubtreeIndex = q.currentSubtreeIndex + 1
              /\ q2.leafQueue = [levels |-> [e.levels EXCEPT ![subDepth][0] = Empty],
                                 indices |-> [l \in Levels |-> 0]]
         ELSE /\ q2.subRoots = q.subRoots
              /\ q2.currentSubtreeIndex = q.currentSubtreeIndex
              /\ q2.leafQueue = e

\* The contract's enqueue does.
LEMMA EnqueueFields ==
  ASSUME NEW X, NEW q \in AccQueues(X), NEW leaf, EnqueueAt(q.leafQueue, <<leaf>>, 0) \in Queues(X)
  PROVE  EnqueuedFields(q, enqueue(q, leaf), leaf) /\ enqueue(q, leaf) \in AccQueues(X)
<1> DEFINE e == EnqueueAt(q.leafQueue, <<leaf>>, 0)
           none == [l \in Levels |-> Empty]
           num == q.numLeaves + 1
           inv == [q EXCEPT !.mainRoots = none, !.smallSRTroot = Empty, !.subTreesMerged = FALSE]
           added == [inv EXCEPT !.numLeaves = num]
           top == e.levels[subDepth][0]
           subRoots == Append(q.subRoots, top)
           cur == q.currentSubtreeIndex + 1
           stored == [added EXCEPT !.subRoots = subRoots, !.currentSubtreeIndex = cur]
           cleared == [levels |-> [e.levels EXCEPT ![subDepth][0] = Empty],
                       indices |-> [l \in Levels |-> 0]]
           done == num % subTreeCapacity = 0
           q2 == enqueue(q, leaf)
<1>1. q2 = IF done THEN [stored EXCEPT !.leafQueue = cleared] ELSE [added EXCEPT !.leafQueue = e]
  <2>1. [InvalidateRoots(q) EXCEPT !.numLeaves = q.numLeaves + 1] = added
    BY DEF InvalidateRoots
  <2>2. AddSubRoot(added, top) = stored
    <3>1. added.subRoots = q.subRoots /\ added.currentSubtreeIndex = q.currentSubtreeIndex
      BY DEF AccQueues
    <3> QED
      BY <3>1 DEF AddSubRoot
  <2> QED
    BY <2>1, <2>2 DEF enqueue
<1>2. /\ none \in [Levels -> Seq(X)] /\ Empty \in Seq(X) /\ num \in Nat /\ cur \in Nat
      /\ q.numLeaves + 1 = num
  BY EmptySeq DEF Empty, AccQueues
<1>3. /\ e \in Queues(X) /\ cleared \in Queues(X) /\ top \in Seq(X)
  <2>1. e \in Queues(X)
    OBVIOUS
  <2> HIDE DEF e
  <2>2. /\ e \in [levels : [Levels -> [Slots -> Seq(X)]], indices : [Levels -> 0..(hashLength - 1)]]
        /\ 0 \in 0..(hashLength - 1) /\ subDepth \in Levels /\ 0 \in Slots
    BY <2>1, AccQueueConstants, SMTT(20) DEF Queues, Levels, Slots
  <2> QED
    BY <1>2, <2>1, <2>2 DEF Queues
<1>4. subRoots \in Seq(Seq(X))
  BY <1>3, AppendProperties DEF AccQueues
<1> HIDE DEF none, num, cur, e, cleared, top, subRoots, q2, done
<1>5. /\ inv \in AccQueues(X) /\ inv.nextSubRootIndex = q.nextSubRootIndex
      /\ inv.smallSRTroot = Empty /\ inv.subTreesMerged = FALSE
      /\ inv.subRoots = q.subRoots /\ inv.currentSubtreeIndex = q.currentSubtreeIndex
  BY <1>2 DEF AccQueues
<1> HIDE DEF inv
<1>6. /\ added \in AccQueues(X) /\ added.numLeaves = num /\ added.nextSubRootIndex = q.nextSubRootIndex
      /\ added.smallSRTroot = Empty /\ added.subTreesMerged = FALSE
      /\ added.subRoots = q.subRoots /\ added.currentSubtreeIndex = q.currentSubtreeIndex
  BY <1>2, <1>5 DEF AccQueues
<1> HIDE DEF added
<1>7. /\ stored \in AccQueues(X) /\ stored.numLeaves = num /\ stored.nextSubRootIndex = q.nextSubRootIndex
      /\ stored.smallSRTroot = Empty /\ stored.subTreesMerged = FALSE
      /\ stored.subRoots = subRoots /\ stored.currentSubtreeIndex = cur
  BY <1>2, <1>4, <1>6 DEF AccQueues
<1> HIDE DEF stored
<1>8. CASE done
  <2>1. q2 = [stored EXCEPT !.leafQueue = cleared]
    BY <1>1, <1>8
  <2>2. /\ q2 \in AccQueues(X) /\ q2.numLeaves = num /\ q2.nextSubRootIndex = q.nextSubRootIndex
        /\ q2.smallSRTroot = Empty /\ q2.subTreesMerged = FALSE
        /\ q2.subRoots = subRoots /\ q2.currentSubtreeIndex = cur /\ q2.leafQueue = cleared
    BY <1>3, <1>7, <2>1 DEF AccQueues
  <2> QED
    BY <1>8, <2>2 DEF EnqueuedFields, done, num, subRoots, cur, cleared, top, e, q2
<1>9. CASE ~done
  <2>1. q2 = [added EXCEPT !.leafQueue = e]
    BY <1>1, <1>9
  <2>2. /\ q2 \in AccQueues(X) /\ q2.numLeaves = num /\ q2.nextSubRootIndex = q.nextSubRootIndex
        /\ q2.smallSRTroot = Empty /\ q2.subTreesMerged = FALSE
        /\ q2.subRoots = q.subRoots /\ q2.currentSubtreeIndex = q.currentSubtreeIndex /\ q2.leafQueue = e
    BY <1>3, <1>6, <2>1 DEF AccQueues
  <2> QED
    BY <1>9, <2>2 DEF EnqueuedFields, done, num, e, q2
<1> QED
  BY <1>8, <1>9

\* And the TypeScript enqueue does.
LEMMA EnqueueTsFields ==
  ASSUME NEW X, NEW q \in TsQueues(X), NEW leaf, EnqueueAt(q.leafQueue, <<leaf>>, 0) \in Queues(X)
  PROVE  EnqueuedFields(q, enqueue(q, leaf), leaf) /\ enqueue(q, leaf) \in TsQueues(X)
         /\ enqueue(q, leaf).subRootQueue = q.subRootQueue /\ enqueue(q, leaf).shared = q.shared
<1> DEFINE e == EnqueueAt(q.leafQueue, <<leaf>>, 0)
           none == [l \in Levels |-> Empty]
           num == q.numLeaves + 1
           inv == [q EXCEPT !.mainRoots = none, !.smallSRTroot = Empty, !.subTreesMerged = FALSE]
           added == [inv EXCEPT !.numLeaves = num]
           top == e.levels[subDepth][0]
           subRoots == Append(q.subRoots, top)
           cur == q.currentSubtreeIndex + 1
           stored == [added EXCEPT !.subRoots = subRoots, !.currentSubtreeIndex = cur]
           cleared == [levels |-> [e.levels EXCEPT ![subDepth][0] = Empty],
                       indices |-> [l \in Levels |-> 0]]
           done == num % subTreeCapacity = 0
           q2 == enqueue(q, leaf)
<1>1. q2 = IF done THEN [stored EXCEPT !.leafQueue = cleared] ELSE [added EXCEPT !.leafQueue = e]
  <2>1. [InvalidateRoots(q) EXCEPT !.numLeaves = q.numLeaves + 1] = added
    BY DEF InvalidateRoots
  <2>2. AddSubRoot(added, top) = stored
    <3>1. added.subRoots = q.subRoots /\ added.currentSubtreeIndex = q.currentSubtreeIndex
      BY DEF TsQueues
    <3> QED
      BY <3>1 DEF AddSubRoot
  <2> QED
    BY <2>1, <2>2 DEF enqueue
<1>2. /\ none \in [Levels -> Seq(X)] /\ Empty \in Seq(X) /\ num \in Nat /\ cur \in Nat
      /\ q.numLeaves + 1 = num
  BY EmptySeq DEF Empty, TsQueues
<1>3. /\ e \in Queues(X) /\ cleared \in Queues(X) /\ top \in Seq(X)
  <2>1. e \in Queues(X)
    OBVIOUS
  <2> HIDE DEF e
  <2>2. /\ e \in [levels : [Levels -> [Slots -> Seq(X)]], indices : [Levels -> 0..(hashLength - 1)]]
        /\ 0 \in 0..(hashLength - 1) /\ subDepth \in Levels /\ 0 \in Slots
    BY <2>1, AccQueueConstants, SMTT(20) DEF Queues, Levels, Slots
  <2> QED
    BY <1>2, <2>1, <2>2 DEF Queues
<1>4. subRoots \in Seq(Seq(X))
  BY <1>3, AppendProperties DEF TsQueues
<1> HIDE DEF none, num, cur, e, cleared, top, subRoots, q2, done
<1>5. /\ inv \in TsQueues(X) /\ inv.nextSubRootIndex = q.nextSubRootIndex
      /\ inv.smallSRTroot = Empty /\ inv.subTreesMerged = FALSE
      /\ inv.subRoots = q.subRoots /\ inv.currentSubtreeIndex = q.currentSubtreeIndex
         /\ inv.subRootQueue = q.subRootQueue /\ inv.shared = q.shared
  BY <1>2 DEF TsQueues
<1> HIDE DEF inv
<1>6. /\ added \in TsQueues(X) /\ added.numLeaves = num /\ added.nextSubRootIndex = q.nextSubRootIndex
      /\ added.smallSRTroot = Empty /\ added.subTreesMerged = FALSE
      /\ added.subRoots = q.subRoots /\ added.currentSubtreeIndex = q.currentSubtreeIndex
         /\ added.subRootQueue = q.subRootQueue /\ added.shared = q.shared
  BY <1>2, <1>5 DEF TsQueues
<1> HIDE DEF added
<1>7. /\ stored \in TsQueues(X) /\ stored.numLeaves = num /\ stored.nextSubRootIndex = q.nextSubRootIndex
      /\ stored.smallSRTroot = Empty /\ stored.subTreesMerged = FALSE
      /\ stored.subRoots = subRoots /\ stored.currentSubtreeIndex = cur
         /\ stored.subRootQueue = q.subRootQueue /\ stored.shared = q.shared
  BY <1>2, <1>4, <1>6 DEF TsQueues
<1> HIDE DEF stored
<1>8. CASE done
  <2>1. q2 = [stored EXCEPT !.leafQueue = cleared]
    BY <1>1, <1>8
  <2>2. /\ q2 \in TsQueues(X) /\ q2.numLeaves = num /\ q2.nextSubRootIndex = q.nextSubRootIndex
        /\ q2.smallSRTroot = Empty /\ q2.subTreesMerged = FALSE
        /\ q2.subRoots = subRoots /\ q2.currentSubtreeIndex = cur /\ q2.leafQueue = cleared
         /\ q2.subRootQueue = q.subRootQueue /\ q2.shared = q.shared
    BY <1>3, <1>7, <2>1 DEF TsQueues
  <2> QED
    BY <1>8, <2>2 DEF EnqueuedFields, done, num, subRoots, cur, cleared, top, e, q2
<1>9. CASE ~done
  <2>1. q2 = [added EXCEPT !.leafQueue = e]
    BY <1>1, <1>9
  <2>2. /\ q2 \in TsQueues(X) /\ q2.numLeaves = num /\ q2.nextSubRootIndex = q.nextSubRootIndex
        /\ q2.smallSRTroot = Empty /\ q2.subTreesMerged = FALSE
        /\ q2.subRoots = q.subRoots /\ q2.currentSubtreeIndex = q.currentSubtreeIndex /\ q2.leafQueue = e
         /\ q2.subRootQueue = q.subRootQueue /\ q2.shared = q.shared
    BY <1>3, <1>6, <2>1 DEF TsQueues
  <2> QED
    BY <1>9, <2>2 DEF EnqueuedFields, done, num, e, q2
<1> QED
  BY <1>8, <1>9

-----------------------------------------------------------------------------
\* The contract's storage with the queues of the TypeScript object.
WithQueues(a, q) == [a EXCEPT !.leafQueue = q.leafQueue, !.subRootQueue = q.subRootQueue]

\* It is a storage of the contract, with the contract's leaves.
LEMMA StoredWithQueues ==
  ASSUME NEW X, NEW a, Stored(X, a), NEW q, Conforms(X, q, a), NEW p, p = WithQueues(a, q)
  PROVE  /\ Stored(X, p) /\ Leaves(p) = Leaves(a)
         /\ p.leafQueue = q.leafQueue /\ p.subRootQueue = q.subRootQueue
         /\ p.numLeaves = a.numLeaves /\ p.subRoots = a.subRoots
         /\ p.currentSubtreeIndex = a.currentSubtreeIndex
         /\ p.nextSubRootIndex = a.nextSubRootIndex
         /\ p.subTreesMerged = a.subTreesMerged /\ p.smallSRTroot = a.smallSRTroot
<1>1. a \in AccQueues(X) /\ q.leafQueue \in Queues(X) /\ q.subRootQueue \in Queues(X)
  BY DEF Stored, Conforms, TsQueues
<1>2. /\ p \in AccQueues(X)
      /\ p.leafQueue = q.leafQueue /\ p.subRootQueue = q.subRootQueue
      /\ p.numLeaves = a.numLeaves /\ p.subRoots = a.subRoots
      /\ p.currentSubtreeIndex = a.currentSubtreeIndex
      /\ p.nextSubRootIndex = a.nextSubRootIndex
      /\ p.subTreesMerged = a.subTreesMerged /\ p.smallSRTroot = a.smallSRTroot
  BY <1>1 DEF WithQueues, AccQueues
<1>3. Leaves(p) = Leaves(a)
  BY <1>2 DEF Conforms, Leaves
<1> QED
  BY <1>2, <1>3 DEF Stored, Conforms

\* The enqueue methods keep the two records alike.
LEMMA EnqueueConforms ==
  ASSUME NEW X, NEW a, Stored(X, a), NEW q, Conforms(X, q, a), NEW leaf \in X,
         NEW a2, a2 = enqueue(a, leaf), NEW q2, q2 = enqueueTs(q, leaf)
  PROVE  /\ Conforms(X, q2, a2) /\ SubRootsShown(q, q2) /\ q2.shared = q.shared
         /\ q2.smallSRTroot = Empty /\ a2.smallSRTroot = Empty
<1> DEFINE p == WithQueues(a, q)
           ea == EnqueueAt(a.leafQueue, <<leaf>>, 0)
           eq == EnqueueAt(q.leafQueue, <<leaf>>, 0)
           rest == StartedLeaves(a.leafQueue)
           done == (a.numLeaves + 1) % subTreeCapacity = 0
           one == enqueue(q, leaf)
           added == [one EXCEPT !.mainRoots = q.mainRoots]
<1>1. /\ Stored(X, p) /\ p.leafQueue = q.leafQueue /\ p.numLeaves = a.numLeaves
      /\ q \in TsQueues(X) /\ a \in AccQueues(X) /\ q.numLeaves = a.numLeaves
      /\ q.subRoots = a.subRoots /\ q.currentSubtreeIndex = a.currentSubtreeIndex
      /\ q.nextSubRootIndex = a.nextSubRootIndex
      /\ StartedLeaves(q.leafQueue) = rest
  BY StoredWithQueues DEF Conforms, Stored
<1>2. /\ SubtreeQueue(X, ea)
      /\ IF done THEN ea.levels[subDepth][0] = rest \o <<leaf>>
                 ELSE StartedLeaves(ea) = rest \o <<leaf>>
  BY EnqueueLeaf, ZenonT(30)
<1>3. /\ SubtreeQueue(X, eq)
      /\ IF done THEN eq.levels[subDepth][0] = rest \o <<leaf>>
                 ELSE StartedLeaves(eq) = rest \o <<leaf>>
  <2>1. Stored(X, p) /\ eq = EnqueueAt(p.leafQueue, <<leaf>>, 0)
    BY <1>1
  <2> HIDE DEF p, eq, ea, one, added, rest, done
  <2>2. /\ SubtreeQueue(X, eq)
        /\ IF (p.numLeaves + 1) % subTreeCapacity = 0
           THEN eq.levels[subDepth][0] = StartedLeaves(p.leafQueue) \o <<leaf>>
           ELSE StartedLeaves(eq) = StartedLeaves(p.leafQueue) \o <<leaf>>
    BY <2>1, EnqueueLeaf
  <2> QED
    BY <1>1, <2>2 DEF done
<1>4. EnqueuedFields(a, a2, leaf) /\ a2 \in AccQueues(X)
  BY <1>1, <1>2, EnqueueFields DEF SubtreeQueue
<1>5. /\ EnqueuedFields(q, one, leaf) /\ one \in TsQueues(X)
      /\ one.subRootQueue = q.subRootQueue /\ one.shared = q.shared
  BY <1>1, <1>3, EnqueueTsFields DEF SubtreeQueue
<1>6. q2 = ShowInSubRoots(added, added.leafQueue.levels)
  BY DEF enqueueTs
<1>7. \A s \in Seq(X) : s \o <<leaf>> # << >>
  <2>1. ASSUME NEW s \in Seq(X) PROVE s \o <<leaf>> # << >>
    <3>1. <<leaf>> \in Seq(X) /\ Len(<<leaf>>) = 1 /\ Len(s) \in Nat
      BY LenProperties
    <3>2. Len(s \o <<leaf>>) = Len(s) + 1
      BY <3>1, ConcatProperties
    <3> QED
      BY <3>1, <3>2
  <2> QED
    BY <2>1
<1>8. rest \in Seq(X) /\ rest \o <<leaf>> # << >>
  BY <1>7, StartedLeavesLength DEF Stored
<1> HIDE DEF one
<1>9. /\ EnqueuedFields(q, added, leaf) /\ added \in TsQueues(X)
      /\ added.subRootQueue = q.subRootQueue /\ added.shared = q.shared
  <2>1. /\ added \in TsQueues(X) /\ added.numLeaves = one.numLeaves
        /\ added.nextSubRootIndex = one.nextSubRootIndex
        /\ added.smallSRTroot = one.smallSRTroot /\ added.subTreesMerged = one.subTreesMerged
        /\ added.subRoots = one.subRoots /\ added.leafQueue = one.leafQueue
        /\ added.currentSubtreeIndex = one.currentSubtreeIndex
        /\ added.subRootQueue = one.subRootQueue /\ added.shared = one.shared
    BY <1>1, <1>5 DEF TsQueues
  <2> QED
    BY <1>5, <2>1 DEF EnqueuedFields
<1> HIDE DEF added, p, ea, eq, rest, done
<1>10. /\ q2 \in TsQueues(X) /\ SubRootsShown(added, q2)
       /\ q2.numLeaves = added.numLeaves /\ q2.currentSubtreeIndex = added.currentSubtreeIndex
       /\ q2.nextSubRootIndex = added.nextSubRootIndex /\ q2.leafQueue = added.leafQueue
       /\ q2.subRoots = added.subRoots /\ q2.smallSRTroot = added.smallSRTroot
       /\ q2.subTreesMerged = added.subTreesMerged /\ q2.shared = added.shared
  <2> DEFINE levels == added.leafQueue.levels
  <2>1. levels \in [Levels -> [Slots -> Seq(X)]] /\ q2 = ShowInSubRoots(added, levels)
    BY <1>6, <1>9 DEF TsQueues, Queues
  <2> HIDE DEF levels
  <2> QED
    BY <1>9, <2>1, ShownInSubRoots
<1>11. CASE done
  <2>1. /\ a2.subRoots = Append(a.subRoots, ea.levels[subDepth][0])
        /\ added.subRoots = Append(q.subRoots, eq.levels[subDepth][0])
        /\ a2.currentSubtreeIndex = a.currentSubtreeIndex + 1
        /\ added.currentSubtreeIndex = q.currentSubtreeIndex + 1
        /\ a2.leafQueue.indices = [l \in Levels |-> 0]
        /\ added.leafQueue.indices = [l \in Levels |-> 0]
    BY <1>1, <1>4, <1>9, <1>11 DEF EnqueuedFields, ea, eq, done
  <2>2. a2.subRoots = added.subRoots
    BY <1>1, <1>2, <1>3, <1>11, <2>1
  <2>3. /\ SubtreeQueue(X, a2.leafQueue) /\ StartedLeaves(a2.leafQueue) = << >>
        /\ SubtreeQueue(X, q2.leafQueue) /\ StartedLeaves(q2.leafQueue) = << >>
    <3>1. a2.leafQueue \in Queues(X) /\ q2.leafQueue \in Queues(X)
      BY <1>4, <1>10 DEF AccQueues, TsQueues
    <3>2. \A l \in Levels : a2.leafQueue.indices[l] = 0 /\ q2.leafQueue.indices[l] = 0
      BY <1>10, <2>1
    <3> QED
      BY <3>1, <3>2, EmptyQueue
  <2>4. \A l \in Levels : q2.leafQueue.indices[l] = 0
    BY <1>10, <2>1
  <2> QED
    BY <1>1, <1>4, <1>9, <1>10, <2>1, <2>2, <2>3, <2>4, ZenonT(30) DEF Conforms, EnqueuedFields, SubRootsShown
<1>12. CASE ~done
  <2>1. /\ a2.subRoots = a.subRoots /\ added.subRoots = q.subRoots
        /\ a2.currentSubtreeIndex = a.currentSubtreeIndex
        /\ added.currentSubtreeIndex = q.currentSubtreeIndex
        /\ a2.leafQueue = ea /\ added.leafQueue = eq
    BY <1>1, <1>4, <1>9, <1>12 DEF EnqueuedFields, ea, eq, done
  <2>2. StartedLeaves(a2.leafQueue) = rest \o <<leaf>> /\ StartedLeaves(q2.leafQueue) = rest \o <<leaf>>
    BY <1>2, <1>3, <1>10, <1>12, <2>1
  <2> QED
    BY <1>1, <1>3, <1>4, <1>8, <1>9, <1>10, <2>1, <2>2 DEF Conforms, EnqueuedFields, SubRootsShown
<1> QED
  BY <1>11, <1>12

-----------------------------------------------------------------------------
\* What fill and insertSubTree, of both classes, do to the fields: a subtree
\* is stored and the root over the subroots is none any more.
SubtreeStored(a, a2, subRoot, numLeaves) ==
  /\ a2.numLeaves = numLeaves
  /\ a2.subRoots = Append(a.subRoots, subRoot)
  /\ a2.currentSubtreeIndex = a.currentSubtreeIndex + 1
  /\ a2.nextSubRootIndex = a.nextSubRootIndex
  /\ a2.smallSRTroot = Empty
  /\ a2.subTreesMerged = FALSE

\* The record after a subtree is stored, with the queue and the roots it has then.
WithSubtree(a, subRoot, numLeaves, leafQueue, roots) ==
  [AddSubRoot(a, subRoot) EXCEPT !.leafQueue = leafQueue, !.mainRoots = roots,
                                 !.numLeaves = numLeaves, !.smallSRTroot = Empty,
                                 !.subTreesMerged = FALSE]

\* Storing a subtree in the contract's record.
LEMMA SubtreeFields ==
  ASSUME NEW X, NEW q \in AccQueues(X), NEW subRoot \in Seq(X), NEW num \in Nat,
         NEW leafQueue \in Queues(X), NEW roots \in [Levels -> Seq(X)],
         NEW q2, q2 = WithSubtree(q, subRoot, num, leafQueue, roots)
  PROVE  /\ SubtreeStored(q, q2, subRoot, num) /\ q2 \in AccQueues(X)
         /\ q2.leafQueue = leafQueue /\ q2.mainRoots = roots
         /\ q2.subRootQueue = q.subRootQueue
<1> DEFINE subRoots == Append(q.subRoots, subRoot)
           cur == q.currentSubtreeIndex + 1
           added == [q EXCEPT !.subRoots = subRoots, !.currentSubtreeIndex = cur]
<1>1. subRoots \in Seq(Seq(X)) /\ cur \in Nat /\ Empty \in Seq(X)
  BY AppendProperties, EmptySeq DEF AccQueues, Empty
<1>2. q2 = [added EXCEPT !.leafQueue = leafQueue, !.mainRoots = roots, !.numLeaves = num,
                         !.smallSRTroot = Empty, !.subTreesMerged = FALSE]
  BY DEF WithSubtree, AddSubRoot
<1> HIDE DEF subRoots, cur
<1>3. /\ added \in AccQueues(X) /\ added.subRoots = subRoots /\ added.currentSubtreeIndex = cur
      /\ added.nextSubRootIndex = q.nextSubRootIndex /\ added.subRootQueue = q.subRootQueue
  BY <1>1 DEF AccQueues
<1> HIDE DEF added
<1>4. /\ q2 \in AccQueues(X) /\ q2.numLeaves = num /\ q2.subRoots = added.subRoots
      /\ q2.currentSubtreeIndex = added.currentSubtreeIndex
      /\ q2.nextSubRootIndex = added.nextSubRootIndex /\ q2.smallSRTroot = Empty
      /\ q2.subTreesMerged = FALSE /\ q2.leafQueue = leafQueue /\ q2.mainRoots = roots
      /\ q2.subRootQueue = added.subRootQueue
  BY <1>1, <1>2, <1>3 DEF AccQueues
<1> QED
  BY <1>3, <1>4 DEF SubtreeStored, subRoots, cur

\* Storing a subtree in the TypeScript record.
LEMMA SubtreeTsFields ==
  ASSUME NEW X, NEW q \in TsQueues(X), NEW subRoot \in Seq(X), NEW num \in Nat,
         NEW leafQueue \in Queues(X), NEW roots \in [Levels -> Seq(X)],
         NEW q2, q2 = WithSubtree(q, subRoot, num, leafQueue, roots)
  PROVE  /\ SubtreeStored(q, q2, subRoot, num) /\ q2 \in TsQueues(X)
         /\ q2.leafQueue = leafQueue /\ q2.mainRoots = roots
         /\ q2.subRootQueue = q.subRootQueue /\ q2.shared = q.shared
<1> DEFINE subRoots == Append(q.subRoots, subRoot)
           cur == q.currentSubtreeIndex + 1
           added == [q EXCEPT !.subRoots = subRoots, !.currentSubtreeIndex = cur]
<1>1. subRoots \in Seq(Seq(X)) /\ cur \in Nat /\ Empty \in Seq(X)
  BY AppendProperties, EmptySeq DEF TsQueues, Empty
<1>2. q2 = [added EXCEPT !.leafQueue = leafQueue, !.mainRoots = roots, !.numLeaves = num,
                         !.smallSRTroot = Empty, !.subTreesMerged = FALSE]
  BY DEF WithSubtree, AddSubRoot
<1> HIDE DEF subRoots, cur
<1>3. /\ added \in TsQueues(X) /\ added.subRoots = subRoots /\ added.currentSubtreeIndex = cur
      /\ added.nextSubRootIndex = q.nextSubRootIndex /\ added.subRootQueue = q.subRootQueue
      /\ added.shared = q.shared
  BY <1>1 DEF TsQueues
<1> HIDE DEF added
<1>4. /\ q2 \in TsQueues(X) /\ q2.numLeaves = num /\ q2.subRoots = added.subRoots
      /\ q2.currentSubtreeIndex = added.currentSubtreeIndex
      /\ q2.nextSubRootIndex = added.nextSubRootIndex /\ q2.smallSRTroot = Empty
      /\ q2.subTreesMerged = FALSE /\ q2.leafQueue = leafQueue /\ q2.mainRoots = roots
      /\ q2.subRootQueue = added.subRootQueue /\ q2.shared = added.shared
  BY <1>1, <1>2, <1>3 DEF TsQueues
<1> QED
  BY <1>3, <1>4 DEF SubtreeStored, subRoots, cur

\* insertSubTree keeps the two records alike.
LEMMA InsertConforms ==
  ASSUME NEW X, NEW a, Stored(X, a), NEW q, Conforms(X, q, a),
         NEW subRoot \in Seq(X), Len(subRoot) = subTreeCapacity,
         NEW a2, a2 = insertSubTree(a, subRoot), NEW q2, q2 = insertSubTree(q, subRoot)
  PROVE  /\ Conforms(X, q2, a2) /\ q2.subRootQueue = q.subRootQueue /\ q2.shared = q.shared
         /\ q2.smallSRTroot = Empty /\ a2.smallSRTroot = Empty
         /\ q2.mainRoots = q.mainRoots /\ a2.mainRoots = a.mainRoots
         /\ a2.leafQueue = a.leafQueue
<1> DEFINE num == a.numLeaves + subTreeCapacity
<1>1. /\ a \in AccQueues(X) /\ q \in TsQueues(X) /\ num \in Nat /\ q.numLeaves = a.numLeaves
      /\ a.leafQueue \in Queues(X) /\ q.leafQueue \in Queues(X)
      /\ a.mainRoots \in [Levels -> Seq(X)] /\ q.mainRoots \in [Levels -> Seq(X)]
  BY Capacity DEF Stored, Conforms, AccQueues, TsQueues
<1> HIDE DEF num
<1>2. a2 = WithSubtree(a, subRoot, num, a.leafQueue, a.mainRoots)
  BY <1>1 DEF insertSubTree, AddSubRoot, AccQueues, WithSubtree, num
<1>3. q2 = WithSubtree(q, subRoot, num, q.leafQueue, q.mainRoots)
  BY <1>1 DEF insertSubTree, AddSubRoot, TsQueues, WithSubtree, num
<1>4. /\ SubtreeStored(a, a2, subRoot, num) /\ a2.leafQueue = a.leafQueue /\ a2.mainRoots = a.mainRoots
  BY <1>1, <1>2, SubtreeFields
<1>5. /\ SubtreeStored(q, q2, subRoot, num) /\ q2 \in TsQueues(X) /\ q2.leafQueue = q.leafQueue
      /\ q2.mainRoots = q.mainRoots /\ q2.subRootQueue = q.subRootQueue /\ q2.shared = q.shared
  BY <1>1, <1>3, SubtreeTsFields
<1> QED
  BY <1>4, <1>5 DEF Conforms, SubtreeStored

-----------------------------------------------------------------------------
\* The subtree that fill stores.
FilledRoot(a) ==
  IF Started(a) THEN FillQueue(a.leafQueue).levels[subDepth][0] ELSE getZero(subDepth)

\* fill of the contract stores that subtree.
LEMMA FillFields ==
  ASSUME NEW X, Zero \in X, NEW a, Stored(X, a), NEW a2, a2 = fill(a)
  PROVE  /\ SubtreeStored(a, a2, FilledRoot(a), NumLeavesAfterFill(a))
         /\ FilledRoot(a) \in Seq(X) /\ Len(FilledRoot(a)) = subTreeCapacity
         /\ NumLeavesAfterFill(a) \in Nat
         /\ Started(a) => \E k \in Nat : FilledRoot(a) = StartedLeaves(a.leafQueue) \o ZeroLeaves(k)
         /\ a2.mainRoots = IF Started(a) THEN [l \in Levels |-> Empty] ELSE a.mainRoots
<1> DEFINE num == NumLeavesAfterFill(a)
           none == [l \in Levels |-> Empty]
           q == FillQueue(a.leafQueue)
           filled == [levels |-> NewQueue.levels, indices |-> q.indices]
           top == FilledRoot(a)
<1>1. /\ a \in AccQueues(X) /\ a.leafQueue \in Queues(X) /\ num \in Nat /\ Empty \in Seq(X)
      /\ a.mainRoots \in [Levels -> Seq(X)] /\ none \in [Levels -> Seq(X)]
  BY Capacity, EmptySeq DEF Stored, AccQueues, NumLeavesAfterFill, Empty
<1>2. CASE Started(a)
  <2>1. /\ q \in Queues(X) /\ top \in Seq(X) /\ Len(top) = subTreeCapacity
        /\ top = q.levels[subDepth][0]
        /\ \E k \in Nat : top = StartedLeaves(a.leafQueue) \o ZeroLeaves(k)
    BY <1>2, FilledSubtree DEF FilledRoot
  <2>2. filled \in Queues(X)
    BY <2>1, NewQueueEmpty DEF Queues
  <2> HIDE DEF top
  <2>3. a2 = WithSubtree(a, top, num, filled, none)
    BY <1>2, <2>1 DEF fill, AddSubRoot, WithSubtree
  <2> HIDE DEF num, none, filled
  <2>4. SubtreeStored(a, a2, top, num) /\ a2.mainRoots = none
    BY <1>1, <2>1, <2>2, <2>3, SubtreeFields
  <2> QED
    BY <1>1, <1>2, <2>1, <2>4 DEF num, none, top
<1>3. CASE ~Started(a)
  <2>1. top \in Seq(X) /\ Len(top) = subTreeCapacity /\ top = getZero(subDepth)
    BY <1>3, Capacity, ZerosTyped DEF FilledRoot, getZero, subTreeCapacity
  <2> HIDE DEF top
  <2>3. a2 = WithSubtree(a, top, num, a.leafQueue, a.mainRoots)
    BY <1>1, <1>3, <2>1 DEF fill, AddSubRoot, WithSubtree, AccQueues
  <2> HIDE DEF num
  <2>4. SubtreeStored(a, a2, top, num) /\ a2.mainRoots = a.mainRoots
    BY <1>1, <2>1, <2>3, SubtreeFields
  <2> QED
    BY <1>1, <1>3, <2>1, <2>4 DEF num, top
<1> QED
  BY <1>2, <1>3

\* fill keeps the two records alike, and of the Maps writes the shared ones only.
LEMMA FillConforms ==
  ASSUME NEW X, Zero \in X, NEW a, Stored(X, a), NEW q, Conforms(X, q, a),
         NEW a2, a2 = fill(a), NEW q2, q2 = fillTs(q)
  PROVE  /\ Conforms(X, q2, a2)
         /\ Started(a) => SubRootsShown(q, q2)
         /\ ~Started(a) => q2.subRootQueue = q.subRootQueue
         /\ q2.shared \subseteq q.shared
         /\ q2.smallSRTroot = Empty /\ a2.smallSRTroot = Empty
         /\ q2.mainRoots = q.mainRoots
         /\ a2.mainRoots = IF Started(a) THEN [l \in Levels |-> Empty] ELSE a.mainRoots
<1> DEFINE num == NumLeavesAfterFill(a)
           top == FilledRoot(a)
<1>1. /\ a \in AccQueues(X) /\ q \in TsQueues(X) /\ q.leafQueue \in Queues(X)
      /\ q.mainRoots \in [Levels -> Seq(X)] /\ q.subRootQueue \in Queues(X)
      /\ SubtreeQueue(X, q.leafQueue) /\ NumLeavesAfterFill(q) = num
      /\ (Started(q) <=> Started(a)) /\ q.shared \subseteq Levels
      /\ StartedLeaves(q.leafQueue) = StartedLeaves(a.leafQueue)
      /\ \A l \in Levels : StartedLeaves(q.leafQueue) = << >> => q.leafQueue.indices[l] = 0
  BY DEF Stored, Conforms, TsQueues, Started, NumLeavesAfterFill
<1>2. /\ SubtreeStored(a, a2, top, num) /\ top \in Seq(X) /\ Len(top) = subTreeCapacity /\ num \in Nat
      /\ Started(a) => \E k \in Nat : top = StartedLeaves(a.leafQueue) \o ZeroLeaves(k)
      /\ a2.mainRoots = IF Started(a) THEN [l \in Levels |-> Empty] ELSE a.mainRoots
  BY FillFields
<1>3. StartedLeaves(a2.leafQueue) = << >>
  BY FillStored DEF FilledUp
<1>4. Started(a) <=> StartedLeaves(a.leafQueue) # << >>
  <2>1. SubtreeQueue(X, a.leafQueue)
    BY DEF Stored
  <2>2. /\ StartedLeaves(a.leafQueue) \in Seq(X)
        /\ Started(a) <=> Len(StartedLeaves(a.leafQueue)) # 0
    BY <2>1, LeavesCounted, StartedLeavesLength DEF Started
  <2> HIDE DEF top
  <2> QED
    BY <2>2, EmptySeq
<1> HIDE DEF num, top
<1>5. CASE ~Started(a)
  <2>1. top = getZero(subDepth)
    BY <1>5 DEF top, FilledRoot
  <2>2. q2 = WithSubtree(q, top, num, q.leafQueue, q.mainRoots)
    BY <1>1, <1>5, <2>1 DEF fillTs, fill, AddSubRoot, WithSubtree, TsQueues
  <2>3. /\ SubtreeStored(q, q2, top, num) /\ q2 \in TsQueues(X)
        /\ q2.leafQueue = q.leafQueue /\ q2.mainRoots = q.mainRoots
        /\ q2.subRootQueue = q.subRootQueue /\ q2.shared = q.shared
    BY <1>1, <1>2, <2>2, SubtreeTsFields
  <2>4. StartedLeaves(q2.leafQueue) = << >> /\ SubtreeQueue(X, q2.leafQueue)
    BY <1>1, <1>4, <1>5, <2>3
  <2> QED
    BY <1>1, <1>2, <1>3, <1>5, <2>3, <2>4 DEF Conforms, SubtreeStored
<1>6. CASE Started(a)
  <2> DEFINE leaves == FillQueueTs(q.leafQueue)
             subRoot == leaves.levels[subDepth][0]
             blanked == [l \in Levels |-> IF l <= subDepth THEN [s \in Slots |-> Empty]
                                          ELSE leaves.levels[l]]
             abandoned == [leaves.levels EXCEPT
                             ![subDepth] = [s \in Slots |-> IF s = 0 THEN subRoot ELSE getZero(subDepth)]]
             blank == [levels |-> blanked, indices |-> leaves.indices]
             stored == WithSubtree(q, subRoot, num, blank, q.mainRoots)
             shown == ShowInSubRoots(stored, abandoned)
  <2>1. /\ leaves \in Queues(X) /\ \A l \in Levels : leaves.indices[l] = 0
        /\ subRoot \in Seq(X) /\ Len(subRoot) = subTreeCapacity
        /\ \E k \in Nat : subRoot = StartedLeaves(a.leafQueue) \o ZeroLeaves(k)
    <3> DEFINE lq == q.leafQueue
    <3>1. /\ SubtreeQueue(X, lq) /\ StartedLeaves(lq) # << >>
          /\ StartedLeaves(lq) = StartedLeaves(a.leafQueue) /\ leaves = FillQueueTs(lq)
      BY <1>1, <1>4, <1>6
    <3> HIDE DEF leaves, lq
    <3>2. /\ leaves \in Queues(X) /\ \A l \in Levels : leaves.indices[l] = 0
          /\ leaves.levels[subDepth][0] \in Seq(X) /\ Len(leaves.levels[subDepth][0]) = subTreeCapacity
          /\ \E k \in Nat : leaves.levels[subDepth][0] = StartedLeaves(lq) \o ZeroLeaves(k)
      BY <3>1, FilledSubtreeTs, ZenonT(30)
    <3> QED
      BY <3>1, <3>2
  <2>2. subRoot = top
    <3>1. PICK k \in Nat : subRoot = StartedLeaves(a.leafQueue) \o ZeroLeaves(k)
      BY <2>1
    <3>2. PICK j \in Nat : top = StartedLeaves(a.leafQueue) \o ZeroLeaves(j)
      BY <1>2, <1>6
    <3>3. StartedLeaves(a.leafQueue) \in Seq(X)
      BY StartedLeavesLength DEF Stored
    <3> QED
      BY <1>2, <2>1, <3>1, <3>2, <3>3, SameZeros, SMTT(20)
  <2>3. q2 = IF hashLength = 2 THEN ShowInSubRoots(stored, blanked)
             ELSE [shown EXCEPT !.shared = @ \ (0..subDepth)]
    <3>1. [AddSubRoot(q, subRoot) EXCEPT
             !.leafQueue = blank, !.numLeaves = NumLeavesAfterFill(q),
             !.smallSRTroot = Empty, !.subTreesMerged = FALSE] = stored
      <4> HIDE DEF leaves, subRoot, blank
      <4> QED
        BY <1>1 DEF AddSubRoot, WithSubtree, TsQueues
    <3> QED
      BY <1>1, <1>6, <3>1 DEF fillTs
  <2>4. /\ blanked \in [Levels -> [Slots -> Seq(X)]] /\ abandoned \in [Levels -> [Slots -> Seq(X)]]
        /\ blank \in Queues(X) /\ blank.indices = leaves.indices
    <3>1. /\ Empty \in Seq(X) /\ getZero(subDepth) \in Seq(X)
      BY EmptySeq, Capacity, ZerosTyped DEF Empty, getZero, subTreeCapacity
    <3> HIDE DEF leaves
    <3>2. leaves.levels \in [Levels -> [Slots -> Seq(X)]] /\ leaves.indices \in [Levels -> 0..(hashLength - 1)]
      BY <2>1 DEF Queues
    <3> HIDE DEF subRoot
    <3>3. [s \in Slots |-> IF s = 0 THEN subRoot ELSE getZero(subDepth)] \in [Slots -> Seq(X)]
      BY <2>1, <3>1
    <3> QED
      BY <3>1, <3>2, <3>3 DEF Queues
  <2> HIDE DEF leaves, subRoot, blanked, abandoned, blank
  <2>5. /\ SubtreeStored(q, stored, top, num) /\ stored \in TsQueues(X)
        /\ stored.leafQueue = blank /\ stored.mainRoots = q.mainRoots
        /\ stored.subRootQueue = q.subRootQueue /\ stored.shared = q.shared
    BY <1>1, <1>2, <2>2, <2>4, SubtreeTsFields
  <2> HIDE DEF stored
  <2>6. ASSUME NEW levels \in [Levels -> [Slots -> Seq(X)]], NEW r, r = ShowInSubRoots(stored, levels)
        PROVE  /\ SubtreeStored(q, r, top, num) /\ r \in TsQueues(X) /\ r.leafQueue = blank
               /\ r.mainRoots = q.mainRoots /\ SubRootsShown(q, r) /\ r.shared = q.shared
    <3>1. /\ r \in TsQueues(X) /\ SubRootsShown(stored, r)
          /\ r.numLeaves = stored.numLeaves /\ r.currentSubtreeIndex = stored.currentSubtreeIndex
          /\ r.nextSubRootIndex = stored.nextSubRootIndex /\ r.leafQueue = stored.leafQueue
          /\ r.subRoots = stored.subRoots /\ r.mainRoots = stored.mainRoots
          /\ r.smallSRTroot = stored.smallSRTroot /\ r.subTreesMerged = stored.subTreesMerged
          /\ r.shared = stored.shared
      BY <2>5, <2>6, ShownInSubRoots
    <3> QED
      BY <2>5, <3>1 DEF SubtreeStored, SubRootsShown
  <2>7. /\ SubtreeStored(q, q2, top, num) /\ q2 \in TsQueues(X) /\ q2.leafQueue = blank
        /\ q2.mainRoots = q.mainRoots /\ SubRootsShown(q, q2) /\ q2.shared \subseteq q.shared
    <3>1. CASE hashLength = 2
      BY <2>3, <2>4, <2>6, <3>1
    <3>2. CASE hashLength # 2
      <4>1. /\ SubtreeStored(q, shown, top, num) /\ shown \in TsQueues(X) /\ shown.leafQueue = blank
            /\ shown.mainRoots = q.mainRoots /\ SubRootsShown(q, shown) /\ shown.shared = q.shared
        BY <2>4, <2>6
      <4>2. q2 = [shown EXCEPT !.shared = @ \ (0..subDepth)]
        BY <2>3, <3>2
      <4> HIDE DEF shown
      <4>3. /\ q2 \in TsQueues(X) /\ q2.shared = shown.shared \ (0..subDepth)
            /\ q2.numLeaves = shown.numLeaves /\ q2.currentSubtreeIndex = shown.currentSubtreeIndex
            /\ q2.nextSubRootIndex = shown.nextSubRootIndex /\ q2.leafQueue = shown.leafQueue
            /\ q2.subRoots = shown.subRoots /\ q2.mainRoots = shown.mainRoots
            /\ q2.smallSRTroot = shown.smallSRTroot /\ q2.subTreesMerged = shown.subTreesMerged
            /\ q2.subRootQueue = shown.subRootQueue
        BY <4>1, <4>2 DEF TsQueues
      <4> QED
        BY <4>1, <4>3 DEF SubtreeStored, SubRootsShown
    <3> QED
      BY <3>1, <3>2
  <2>8. /\ \A l \in Levels : q2.leafQueue.indices[l] = 0
        /\ SubtreeQueue(X, q2.leafQueue) /\ StartedLeaves(q2.leafQueue) = << >>
    <3>1. \A l \in Levels : q2.leafQueue.indices[l] = 0
      BY <2>1, <2>4, <2>7
    <3>2. q2.leafQueue \in Queues(X)
      BY <2>4, <2>7
    <3> QED
      BY <3>1, <3>2, EmptyQueue
  <2> QED
    BY <1>1, <1>2, <1>3, <1>6, <2>7, <2>8 DEF Conforms, SubtreeStored
<1> QED
  BY <1>5, <1>6

-----------------------------------------------------------------------------
\* The queue of the subroots holds the subroots queued and nothing else.
TsUnmixed(X, q, a) == Unmixed(X, WithQueues(a, q))

\* Two records whose subroots are alike merge alike.
LEMMA SameMerge ==
  ASSUME NEW X, NEW p \in AccQueues(X), NEW q \in TsQueues(X), NEW lim \in Nat,
         q.subRoots = p.subRoots, q.subRootQueue = p.subRootQueue,
         q.currentSubtreeIndex = p.currentSubtreeIndex, q.nextSubRootIndex = p.nextSubRootIndex,
         q.subTreesMerged = p.subTreesMerged,
         NEW m, m = MergeManySubRoots(p, lim), m \in AccQueues(X),
         NEW r, r = MergeManySubRoots(q, lim)
  PROVE  /\ r \in TsQueues(X) /\ r.subRootQueue = m.subRootQueue
         /\ m.nextSubRootIndex = p.nextSubRootIndex + SubRootsToQueue(p, lim)
         /\ r.nextSubRootIndex = m.nextSubRootIndex /\ r.subTreesMerged = m.subTreesMerged
         /\ r.smallSRTroot = m.smallSRTroot
            \/ (m.nextSubRootIndex < p.currentSubtreeIndex
                  /\ r.smallSRTroot = q.smallSRTroot /\ m.smallSRTroot = p.smallSRTroot)
         /\ r.numLeaves = q.numLeaves /\ r.currentSubtreeIndex = q.currentSubtreeIndex
         /\ r.subRoots = q.subRoots /\ r.mainRoots = q.mainRoots /\ r.leafQueue = q.leafQueue
         /\ r.shared = q.shared
<1> DEFINE height == calcMinHeight(p.currentSubtreeIndex)
           next == p.nextSubRootIndex + SubRootsToQueue(p, lim)
           moved == SubSeq(p.subRoots, p.nextSubRootIndex + 1, next)
           blanks == [i \in 1..(hashLength ^ height - p.currentSubtreeIndex) |-> getZero(subDepth)]
           some == QueueAll(p.subRootQueue, moved, height)
           all == QueueAll(p.subRootQueue, moved \o blanks, height)
           top == all.levels[height][0]
           Merged(x) == IF next < p.currentSubtreeIndex
                        THEN [x EXCEPT !.subRootQueue = some, !.nextSubRootIndex = next]
                        ELSE [x EXCEPT !.subRootQueue = all, !.nextSubRootIndex = next,
                                       !.smallSRTroot = top, !.subTreesMerged = TRUE]
<1>1. m = Merged(p)
  BY DEF MergeManySubRoots
<1>2. r = Merged(q)
  <2>1. SubRootsToQueue(q, lim) = SubRootsToQueue(p, lim)
    BY DEF SubRootsToQueue
  <2> QED
    BY <2>1 DEF MergeManySubRoots
<1> HIDE DEF some, all, top, next
<1>3. CASE next < p.currentSubtreeIndex
  <2>1. /\ m = [p EXCEPT !.subRootQueue = some, !.nextSubRootIndex = next]
        /\ r = [q EXCEPT !.subRootQueue = some, !.nextSubRootIndex = next]
    BY <1>1, <1>2, <1>3
  <2>2. /\ m.subRootQueue = some /\ m.nextSubRootIndex = next /\ some \in Queues(X) /\ next \in Nat
        /\ m.subTreesMerged = p.subTreesMerged /\ m.smallSRTroot = p.smallSRTroot
    BY <2>1 DEF AccQueues
  <2> QED
    BY <1>3, <2>1, <2>2 DEF TsQueues, next
<1>4. CASE ~(next < p.currentSubtreeIndex)
  <2>1. /\ m = [p EXCEPT !.subRootQueue = all, !.nextSubRootIndex = next,
                         !.smallSRTroot = top, !.subTreesMerged = TRUE]
        /\ r = [q EXCEPT !.subRootQueue = all, !.nextSubRootIndex = next,
                         !.smallSRTroot = top, !.subTreesMerged = TRUE]
    BY <1>1, <1>2, <1>4
  <2>2. /\ m.subRootQueue = all /\ m.nextSubRootIndex = next /\ all \in Queues(X) /\ next \in Nat
        /\ m.subTreesMerged = TRUE /\ m.smallSRTroot = top /\ top \in Seq(X)
    BY <2>1 DEF AccQueues
  <2>3. m.nextSubRootIndex = p.nextSubRootIndex + SubRootsToQueue(p, lim)
    BY <2>2 DEF next
  <2>4. /\ r \in TsQueues(X) /\ r.subRootQueue = all /\ r.nextSubRootIndex = next
        /\ r.subTreesMerged = TRUE /\ r.smallSRTroot = top
        /\ r.numLeaves = q.numLeaves /\ r.currentSubtreeIndex = q.currentSubtreeIndex
        /\ r.subRoots = q.subRoots /\ r.mainRoots = q.mainRoots /\ r.leafQueue = q.leafQueue
        /\ r.shared = q.shared
    BY <2>1, <2>2, ZenonT(30) DEF TsQueues
  <2> QED
    BY <2>2, <2>3, <2>4
<1> QED
  BY <1>3, <1>4

\* mergeSubRoots of two subtrees or more keeps the two records alike.
LEMMA MergeManyConforms ==
  ASSUME NEW X, Zero \in X, NEW a, Stored(X, a), NEW q, Conforms(X, q, a),
         StartedLeaves(a.leafQueue) = << >>,
         a.currentSubtreeIndex # 1, a.currentSubtreeIndex <= hashLength ^ MAX_DEPTH,
         a.nextSubRootIndex < a.currentSubtreeIndex, ~a.subTreesMerged, NEW lim \in Nat,
         NEW a2, a2 = MergeManySubRoots(a, lim),
         NEW q2, q2 = ShowInLeaves(MergeManySubRoots(q, lim))
  PROVE  /\ Conforms(X, q2, a2) /\ q2.shared = q.shared /\ q2.mainRoots = q.mainRoots
         /\ TsUnmixed(X, q, a) /\ ~BlanksQueued(a2) => TsUnmixed(X, q2, a2)
         /\ TsUnmixed(X, q, a) /\ Unmixed(X, a) /\ a2.subTreesMerged =>
              q2.smallSRTroot = a2.smallSRTroot
         /\ q.smallSRTroot = a.smallSRTroot /\ ~a2.subTreesMerged =>
              q2.smallSRTroot = a2.smallSRTroot
<1> DEFINE p == WithQueues(a, q)
           m == MergeManySubRoots(p, lim)
           r == MergeManySubRoots(q, lim)
<1>1. /\ Stored(X, p) /\ p.leafQueue = q.leafQueue /\ p.subRootQueue = q.subRootQueue
      /\ p.subRoots = a.subRoots /\ p.currentSubtreeIndex = a.currentSubtreeIndex
      /\ p.nextSubRootIndex = a.nextSubRootIndex
      /\ p.subTreesMerged = a.subTreesMerged /\ p.smallSRTroot = a.smallSRTroot
  BY StoredWithQueues
<1>2. /\ q \in TsQueues(X) /\ q.subRoots = a.subRoots
      /\ q.currentSubtreeIndex = a.currentSubtreeIndex /\ q.nextSubRootIndex = a.nextSubRootIndex
      /\ q.numLeaves = a.numLeaves /\ q.subTreesMerged = a.subTreesMerged
      /\ StartedLeaves(q.leafQueue) = << >> /\ \A l \in Levels : q.leafQueue.indices[l] = 0
  BY DEF Conforms
<1> HIDE DEF p
<1>3. MoreQueued(X, a, a2)
  BY MergeManyQueues
<1>4. MoreQueued(X, p, m)
  BY <1>1, <1>2, MergeManyQueues
<1>5. p \in AccQueues(X) /\ m \in AccQueues(X) /\ a \in AccQueues(X)
  BY <1>1, <1>4 DEF MoreQueued, Stored
<1> HIDE DEF m, r
<1>6. /\ r \in TsQueues(X) /\ r.subRootQueue = m.subRootQueue
      /\ m.nextSubRootIndex = p.nextSubRootIndex + SubRootsToQueue(p, lim)
      /\ r.nextSubRootIndex = m.nextSubRootIndex /\ r.subTreesMerged = m.subTreesMerged
      /\ r.smallSRTroot = m.smallSRTroot
         \/ (m.nextSubRootIndex < p.currentSubtreeIndex
               /\ r.smallSRTroot = q.smallSRTroot /\ m.smallSRTroot = p.smallSRTroot)
      /\ r.numLeaves = q.numLeaves /\ r.currentSubtreeIndex = q.currentSubtreeIndex
      /\ r.subRoots = q.subRoots /\ r.mainRoots = q.mainRoots /\ r.leafQueue = q.leafQueue
      /\ r.shared = q.shared
  <2>1. m = MergeManySubRoots(p, lim) /\ r = MergeManySubRoots(q, lim)
    BY DEF m, r
  <2>2. /\ p \in AccQueues(X) /\ q \in TsQueues(X) /\ lim \in Nat
        /\ q.subRoots = p.subRoots /\ q.subRootQueue = p.subRootQueue
        /\ q.currentSubtreeIndex = p.currentSubtreeIndex
        /\ q.nextSubRootIndex = p.nextSubRootIndex
        /\ q.subTreesMerged = p.subTreesMerged /\ m \in AccQueues(X)
    BY <1>1, <1>2, <1>5
  <2> QED
    BY <2>1, <2>2, SameMerge
<1>7. /\ q2 \in TsQueues(X) /\ q2.leafQueue.indices = r.leafQueue.indices
      /\ q2.numLeaves = r.numLeaves /\ q2.currentSubtreeIndex = r.currentSubtreeIndex
      /\ q2.nextSubRootIndex = r.nextSubRootIndex /\ q2.subRootQueue = r.subRootQueue
      /\ q2.subRoots = r.subRoots /\ q2.mainRoots = r.mainRoots
      /\ q2.smallSRTroot = r.smallSRTroot /\ q2.subTreesMerged = r.subTreesMerged
      /\ q2.shared = r.shared
  <2>1. q2 = ShowInLeaves(r)
    BY DEF r
  <2> QED
    BY <1>6, <2>1, ShownInLeaves
<1>8. /\ a2.leafQueue = a.leafQueue /\ a2.subRoots = a.subRoots
      /\ a2.currentSubtreeIndex = a.currentSubtreeIndex /\ a2.numLeaves = a.numLeaves
      /\ (a2.subTreesMerged <=> a2.nextSubRootIndex = a.currentSubtreeIndex)
      /\ a2 \in AccQueues(X) /\ Stored(X, a2)
      /\ Unmixed(X, a) /\ a2.subTreesMerged => Rooted(a2)
      /\ m.leafQueue = q.leafQueue /\ m.subRoots = a.subRoots
      /\ m.currentSubtreeIndex = a.currentSubtreeIndex
      /\ (m.subTreesMerged <=> m.nextSubRootIndex = a.currentSubtreeIndex)
      /\ TsUnmixed(X, q, a) /\ m.subTreesMerged => Rooted(m)
      /\ TsUnmixed(X, q, a) /\ ~BlanksQueued(m) => Unmixed(X, m)
  BY <1>1, <1>3, <1>4 DEF MoreQueued, TsUnmixed, p, Stored
<1>9. a2.nextSubRootIndex = m.nextSubRootIndex
  <2>1. a2.nextSubRootIndex = a.nextSubRootIndex + SubRootsToQueue(a, lim)
    <3>1. /\ "nextSubRootIndex" \in DOMAIN a /\ a2 = MergeManySubRoots(a, lim)
      BY <1>5 DEF AccQueues
    <3> QED
      BY <1>5, <3>1 DEF MergeManySubRoots, AccQueues
  <2>2. SubRootsToQueue(a, lim) = SubRootsToQueue(p, lim)
    BY <1>1 DEF SubRootsToQueue
  <2> QED
    BY <1>1, <1>6, <2>1, <2>2
<1>10. a2.subTreesMerged = m.subTreesMerged
  BY <1>5, <1>8, <1>9 DEF AccQueues
<1>11. SubtreeQueue(X, q2.leafQueue) /\ StartedLeaves(q2.leafQueue) = << >> /\ \A l \in Levels : q2.leafQueue.indices[l] = 0
  <2>1. q2.leafQueue \in Queues(X) /\ \A l \in Levels : q2.leafQueue.indices[l] = 0
    BY <1>2, <1>6, <1>7 DEF TsQueues
  <2> QED
    BY <2>1, EmptyQueue
<1>12. Conforms(X, q2, a2)
  BY <1>2, <1>6, <1>7, <1>8, <1>9, <1>10, <1>11 DEF Conforms
<1>13. ASSUME TsUnmixed(X, q, a), ~BlanksQueued(a2) PROVE TsUnmixed(X, q2, a2)
  <2>1. Unmixed(X, m)
    BY <1>8, <1>10, <1>13 DEF BlanksQueued
  <2> DEFINE p2 == WithQueues(a2, q2)
  <2>2. p2.subRoots = m.subRoots /\ p2.nextSubRootIndex = m.nextSubRootIndex /\ p2.subRootQueue = m.subRootQueue
    <3>1. p2.subRoots = a2.subRoots /\ p2.nextSubRootIndex = a2.nextSubRootIndex /\ p2.subRootQueue = q2.subRootQueue
      BY <1>8, <1>12, StoredWithQueues
    <3> QED
      BY <1>6, <1>7, <1>8, <1>9, <3>1
  <2> QED
    BY <2>1, <2>2 DEF Unmixed, QueuedLeaves, TsUnmixed
<1>14. ASSUME TsUnmixed(X, q, a), Unmixed(X, a), a2.subTreesMerged PROVE q2.smallSRTroot = a2.smallSRTroot
  <2>1. Rooted(a2) /\ Rooted(m)
    BY <1>8, <1>10, <1>14
  <2>2. Leaves(m) = Leaves(a2)
    BY <1>2, <1>8 DEF Leaves
  <2>3. m.smallSRTroot = a2.smallSRTroot
    BY <1>8, <2>1, <2>2 DEF Rooted
  <2>4. ~(m.nextSubRootIndex < p.currentSubtreeIndex)
    BY <1>1, <1>5, <1>8, <1>10, <1>14 DEF AccQueues
  <2> QED
    BY <1>6, <1>7, <2>3, <2>4
<1>15. ASSUME q.smallSRTroot = a.smallSRTroot, ~a2.subTreesMerged PROVE q2.smallSRTroot = a2.smallSRTroot
  <2>1. a2.smallSRTroot = a.smallSRTroot /\ m.smallSRTroot = p.smallSRTroot
    <3>1. a2.subTreesMerged = FALSE /\ m.subTreesMerged = FALSE
      BY <1>5, <1>8, <1>10, <1>15 DEF AccQueues
    <3>2. a2.smallSRTroot = a.smallSRTroot
      BY <1>5, <3>1 DEF MergeManySubRoots, AccQueues
    <3>3. m.smallSRTroot = p.smallSRTroot
      BY <1>5, <3>1 DEF MergeManySubRoots, AccQueues, m
    <3> QED
      BY <3>2, <3>3
  <2> QED
    BY <1>1, <1>6, <1>7, <1>15, <2>1
<1> QED
  BY <1>6, <1>7, <1>12, <1>13, <1>14, <1>15

-----------------------------------------------------------------------------
\* What a call writes beside the subroots changes the queue of the subroots
\* only while it is empty, and then in slots that hold no node.
LEMMA ShownUnmixed ==
  ASSUME NEW X, NEW a, Stored(X, a), NEW a2, Stored(X, a2), Grown(a, a2),
         NEW q, Conforms(X, q, a), NEW q2, Conforms(X, q2, a2),
         q2.subRootQueue.indices = q.subRootQueue.indices,
         q2.subRootQueue = q.subRootQueue \/ a.nextSubRootIndex = 0,
         TsUnmixed(X, q, a)
  PROVE  TsUnmixed(X, q2, a2)
<1> DEFINE p == WithQueues(a, q)
           p2 == WithQueues(a2, q2)
<1>1. /\ Stored(X, p) /\ p.subRootQueue = q.subRootQueue /\ p.subRoots = a.subRoots
      /\ p.currentSubtreeIndex = a.currentSubtreeIndex /\ p.nextSubRootIndex = a.nextSubRootIndex
  BY StoredWithQueues
<1>2. /\ Stored(X, p2) /\ p2.subRootQueue = q2.subRootQueue /\ p2.subRoots = a2.subRoots
      /\ p2.currentSubtreeIndex = a2.currentSubtreeIndex /\ p2.nextSubRootIndex = a2.nextSubRootIndex
  BY StoredWithQueues
<1>3. p.treeMerged = a.treeMerged /\ p2.treeMerged = a2.treeMerged
  BY DEF WithQueues
<1>4. Unmixed(X, p) /\ q2.subRootQueue \in Queues(X)
  BY DEF TsUnmixed, Conforms, TsQueues
<1> HIDE DEF p, p2
<1>5. CASE q2.subRootQueue = q.subRootQueue
  <2>1. Grown(p, p2)
    BY <1>1, <1>2, <1>3, <1>5 DEF Grown
  <2>2. Unmixed(X, p2)
    BY <1>1, <1>2, <1>4, <2>1, UnmixedKept
  <2> QED
    BY <2>2 DEF TsUnmixed, p2
<1>6. CASE a.nextSubRootIndex = 0
  <2> DEFINE z == q2.subRootQueue
  <2>1. ASSUME NEW r, r.nextSubRootIndex = 0, r.subRoots \in Seq(Seq(X)) PROVE QueuedLeaves(r) = << >>
    <3>1. SubSeq(r.subRoots, 1, 0) = << >>
      BY <2>1, SubSeqEmpty
    <3> QED
      BY <2>1, <3>1, FlattenEmpty DEF QueuedLeaves
  <2>2. p.subRoots \in Seq(Seq(X)) /\ p2.subRoots \in Seq(Seq(X))
    BY <1>1, <1>2 DEF Stored, AccQueues
  <2>3. p.nextSubRootIndex = 0 /\ p2.nextSubRootIndex = 0
    BY <1>1, <1>2, <1>6 DEF Grown
  <2>4. QueuedLeaves(p) = << >> /\ QueuedLeaves(p2) = << >>
    BY <2>1, <2>2, <2>3
  <2>5. SubRoots(X, q.subRootQueue, << >>)
    BY <1>1, <1>4, <2>4 DEF Unmixed
  <2>6. 0 \in Levels /\ Len(<< >>) < Size(subTreeCapacity, 0)
    BY Capacity, SizeFacts, AccQueueConstants DEF Levels
  <2>7. \A l \in 0..MAX_DEPTH : q.subRootQueue.indices[l] = 0
    BY <2>5, <2>6, NothingAbove
  <2>8. z \in Queues(X) /\ \A l \in Levels : z.indices[l] = 0
    BY <1>4, <2>7 DEF Levels
  <2> HIDE DEF z
  <2>9. Sized(z, subTreeCapacity)
    BY <2>8, AccQueueConstants DEF Sized, Slots
  <2>10. MAX_DEPTH + 1 \in 0..(MAX_DEPTH + 1) /\ \A l \in 0..((MAX_DEPTH + 1) - 1) : l \in Levels
    BY AccQueueConstants DEF Levels
  <2>11. Rows(z, 0)[MAX_DEPTH + 1] = << >>
    BY <2>6, <2>8, <2>10, EmptyRows
  <2> QED
    BY <1>2, <2>4, <2>8, <2>9, <2>11 DEF SubRoots, Unmixed, TsUnmixed, p2, z
<1> QED
  BY <1>5, <1>6

-----------------------------------------------------------------------------
\* No leaf waits in the leaf queue, or no subroot in the Maps it shares: the
\* states in which a subtree can be filled up without spoiling a subroot.
Apart(q, a) == q.shared = {} \/ a.nextSubRootIndex = 0 \/ ~Started(a)

\* fill then leaves the subroots queued alone.
LEMMA FillKeepsUnmixed ==
  ASSUME NEW X, Zero \in X, NEW a, Stored(X, a), NEW q, Conforms(X, q, a),
         Apart(q, a), TsUnmixed(X, q, a),
         NEW a2, a2 = fill(a), NEW q2, q2 = fillTs(q)
  PROVE  TsUnmixed(X, q2, a2)
<1>1. /\ Conforms(X, q2, a2)
      /\ Started(a) => SubRootsShown(q, q2)
      /\ ~Started(a) => q2.subRootQueue = q.subRootQueue
  BY FillConforms
<1>2. Stored(X, a2) /\ Grown(a, a2)
  BY FillStored DEF FilledUp
<1>3. /\ q2.subRootQueue.indices = q.subRootQueue.indices
      /\ q2.subRootQueue = q.subRootQueue \/ a.nextSubRootIndex = 0
  BY <1>1 DEF SubRootsShown, Apart
<1> QED
  BY <1>1, <1>2, <1>3, ShownUnmixed

\* What mergeSubRoots of both classes does first.
LEMMA FillStartedConforms ==
  ASSUME NEW X, Zero \in X, NEW a, Stored(X, a), NEW q, Conforms(X, q, a),
         NEW a2, a2 = FillStarted(a), NEW q2, q2 = FillStartedTs(q)
  PROVE  /\ Conforms(X, q2, a2) /\ q2.shared \subseteq q.shared /\ q2.mainRoots = q.mainRoots
         /\ Apart(q, a) /\ TsUnmixed(X, q, a) => TsUnmixed(X, q2, a2)
         /\ q.smallSRTroot = a.smallSRTroot => q2.smallSRTroot = a2.smallSRTroot
<1>1. Started(q) <=> Started(a)
  BY DEF Conforms, Started
<1>2. CASE Started(a)
  <2>1. a2 = fill(a) /\ q2 = fillTs(q)
    BY <1>1, <1>2 DEF FillStarted, FillStartedTs
  <2>2. /\ Conforms(X, q2, a2) /\ q2.shared \subseteq q.shared
        /\ q2.smallSRTroot = Empty /\ a2.smallSRTroot = Empty /\ q2.mainRoots = q.mainRoots
    BY <2>1, FillConforms
  <2>3. Apart(q, a) /\ TsUnmixed(X, q, a) => TsUnmixed(X, q2, a2)
    BY <2>1, FillKeepsUnmixed
  <2> QED
    BY <2>2, <2>3
<1>3. CASE ~Started(a)
  <2>1. a2 = a /\ q2 = q
    BY <1>1, <1>3 DEF FillStarted, FillStartedTs
  <2> QED
    BY <2>1
<1> QED
  BY <1>2, <1>3

\* mergeSubRoots of one subtree, which is its own root.
RootOfOne(q) == [q EXCEPT !.smallSRTroot = q.subRoots[1], !.subTreesMerged = TRUE]

\* It queues nothing and keeps the two records alike.
LEMMA MergeOneConforms ==
  ASSUME NEW X, NEW a, Stored(X, a), NEW q, Conforms(X, q, a), a.currentSubtreeIndex = 1,
         NEW a2, a2 = RootOfOne(a), NEW q2, q2 = RootOfOne(q)
  PROVE  /\ Conforms(X, q2, a2) /\ q2.shared = q.shared /\ q2.mainRoots = q.mainRoots
         /\ TsUnmixed(X, q, a) => TsUnmixed(X, q2, a2)
         /\ q2.smallSRTroot = a2.smallSRTroot
<1> DEFINE top == a.subRoots[1]
<1>1. /\ a \in AccQueues(X) /\ q \in TsQueues(X) /\ q.subRoots = a.subRoots
      /\ a.subRoots \in Seq(Seq(X)) /\ Len(a.subRoots) = 1
  BY DEF Stored, Conforms, AccQueues
<1>2. top \in Seq(X)
  <2> DEFINE s == a.subRoots
             Y == Seq(X)
  <2>1. s \in Seq(Y) /\ 1 \in 1..Len(s)
    BY <1>1
  <2> HIDE DEF s, Y
  <2>2. s[1] \in Y
    BY <2>1, ElementOfSeq, Zenon
  <2> QED
    BY <2>2 DEF s, Y
<1>3. q.subRoots[1] = top
  BY <1>1
<1> HIDE DEF top
<1>4. /\ a2 = [a EXCEPT !.smallSRTroot = top, !.subTreesMerged = TRUE]
      /\ q2 = [q EXCEPT !.smallSRTroot = top, !.subTreesMerged = TRUE]
  BY <1>3 DEF top, RootOfOne
<1>5. /\ a2 \in AccQueues(X) /\ a2.leafQueue = a.leafQueue /\ a2.subRoots = a.subRoots
      /\ a2.subRootQueue = a.subRootQueue /\ a2.numLeaves = a.numLeaves
      /\ a2.currentSubtreeIndex = a.currentSubtreeIndex /\ a2.nextSubRootIndex = a.nextSubRootIndex
      /\ a2.smallSRTroot = top /\ a2.subTreesMerged = TRUE
  BY <1>1, <1>2, <1>4 DEF AccQueues
<1>6. /\ q2 \in TsQueues(X) /\ q2.leafQueue = q.leafQueue /\ q2.subRoots = q.subRoots
      /\ q2.subRootQueue = q.subRootQueue /\ q2.numLeaves = q.numLeaves
      /\ q2.currentSubtreeIndex = q.currentSubtreeIndex /\ q2.nextSubRootIndex = q.nextSubRootIndex
      /\ q2.smallSRTroot = top /\ q2.subTreesMerged = TRUE
      /\ q2.shared = q.shared /\ q2.mainRoots = q.mainRoots
  BY <1>1, <1>2, <1>4 DEF TsQueues
<1>7. Conforms(X, q2, a2)
  BY <1>5, <1>6 DEF Conforms
<1>8. ASSUME TsUnmixed(X, q, a) PROVE TsUnmixed(X, q2, a2)
  <2> DEFINE p == WithQueues(a, q)
             p2 == WithQueues(a2, q2)
  <2>1. /\ p.subRootQueue = q.subRootQueue /\ p.subRoots = a.subRoots
        /\ p.nextSubRootIndex = a.nextSubRootIndex
    BY <1>1 DEF WithQueues, AccQueues
  <2>2. /\ p2.subRootQueue = q2.subRootQueue /\ p2.subRoots = a2.subRoots
        /\ p2.nextSubRootIndex = a2.nextSubRootIndex
    BY <1>5 DEF WithQueues, AccQueues
  <2> HIDE DEF p, p2
  <2>3. p2.subRootQueue = p.subRootQueue /\ QueuedLeaves(p2) = QueuedLeaves(p)
    BY <1>5, <1>6, <2>1, <2>2 DEF QueuedLeaves
  <2> QED
    BY <1>8, <2>3 DEF TsUnmixed, Unmixed, p, p2
<1> QED
  BY <1>5, <1>6, <1>7, <1>8

\* A call of mergeSubRoots: the same subroots are queued, and as long as
\* nothing else is in the queue the root over them is the same.
LEMMA MergeSubRootsConforms ==
  ASSUME NEW X, Zero \in X, NEW a, Stored(X, a), Mergeable(a), ~a.subTreesMerged,
         FillStarted(a).currentSubtreeIndex <= hashLength ^ MAX_DEPTH, NEW lim \in Nat,
         NEW q, Conforms(X, q, a),
         NEW a2, a2 = mergeSubRoots(a, lim), NEW q2, q2 = mergeSubRootsTs(q, lim)
  PROVE  /\ Conforms(X, q2, a2) /\ q2.shared \subseteq q.shared /\ q2.mainRoots = q.mainRoots
         /\ Apart(q, a) /\ TsUnmixed(X, q, a) /\ ~BlanksQueued(a2) => TsUnmixed(X, q2, a2)
         /\ (Apart(q, a) /\ TsUnmixed(X, q, a) /\ Unmixed(X, a) /\ q.smallSRTroot = a.smallSRTroot) =>
              q2.smallSRTroot = a2.smallSRTroot
<1> DEFINE f == FillStarted(a)
           g == FillStartedTs(q)
<1>1. /\ Conforms(X, g, f) /\ g.shared \subseteq q.shared /\ g.mainRoots = q.mainRoots
      /\ Apart(q, a) /\ TsUnmixed(X, q, a) => TsUnmixed(X, g, f)
      /\ q.smallSRTroot = a.smallSRTroot => g.smallSRTroot = f.smallSRTroot
  BY FillStartedConforms
<1>2. /\ Rounded(X, a, f) /\ ~f.subTreesMerged /\ f.nextSubRootIndex < f.currentSubtreeIndex
      /\ Unmixed(X, a) => Unmixed(X, f)
  BY FillStartedRounds
<1>3. /\ Stored(X, f) /\ StartedLeaves(f.leafQueue) = << >>
      /\ f.currentSubtreeIndex <= hashLength ^ MAX_DEPTH
      /\ g.currentSubtreeIndex = f.currentSubtreeIndex
  BY <1>1, <1>2 DEF Rounded, Conforms
<1>4. /\ a2 = IF f.currentSubtreeIndex = 1 THEN RootOfOne(f) ELSE MergeManySubRoots(f, lim)
      /\ q2 = IF g.currentSubtreeIndex = 1 THEN RootOfOne(g)
              ELSE ShowInLeaves(MergeManySubRoots(g, lim))
  BY DEF mergeSubRoots, mergeSubRootsTs, RootOfOne
<1> HIDE DEF f, g
<1>5. CASE f.currentSubtreeIndex = 1
  <2>1. a2 = RootOfOne(f) /\ q2 = RootOfOne(g)
    BY <1>3, <1>4, <1>5
  <2>2. /\ Conforms(X, q2, a2) /\ q2.shared = g.shared /\ q2.mainRoots = g.mainRoots
        /\ TsUnmixed(X, g, f) => TsUnmixed(X, q2, a2)
        /\ q2.smallSRTroot = a2.smallSRTroot
    <3>1. Stored(X, f) /\ Conforms(X, g, f) /\ f.currentSubtreeIndex = 1
      BY <1>1, <1>3, <1>5
    <3> QED
      BY <2>1, <3>1, MergeOneConforms
  <2> QED
    BY <1>1, <2>2
<1>6. CASE f.currentSubtreeIndex # 1
  <2>1. a2 = MergeManySubRoots(f, lim) /\ q2 = ShowInLeaves(MergeManySubRoots(g, lim))
    BY <1>3, <1>4, <1>6
  <2>2. /\ Conforms(X, q2, a2) /\ q2.shared = g.shared /\ q2.mainRoots = g.mainRoots
        /\ TsUnmixed(X, g, f) /\ ~BlanksQueued(a2) => TsUnmixed(X, q2, a2)
        /\ TsUnmixed(X, g, f) /\ Unmixed(X, f) /\ a2.subTreesMerged => q2.smallSRTroot = a2.smallSRTroot
        /\ g.smallSRTroot = f.smallSRTroot /\ ~a2.subTreesMerged => q2.smallSRTroot = a2.smallSRTroot
    BY <1>1, <1>2, <1>3, <1>6, <2>1, MergeManyConforms
  <2> QED
    BY <1>1, <1>2, <2>2
<1> QED
  BY <1>5, <1>6

-----------------------------------------------------------------------------
\* Every root the contract has, the TypeScript queue has.
SameRoots(q, a) ==
  /\ q.smallSRTroot = a.smallSRTroot
  /\ \A d \in Levels : a.mainRoots[d] # Empty => q.mainRoots[d] = a.mainRoots[d]

\* All the leaves are in whole subtrees, and their root has a depth.
MergedUp(a) ==
  /\ StartedLeaves(a.leafQueue) = << >>
  /\ a.currentSubtreeIndex >= 1 /\ a.currentSubtreeIndex <= hashLength ^ MAX_DEPTH

\* The roots are the contract's because the queue of the subroots is: what
\* the leaves write into the shared Maps comes before any subroot is queued,
\* or else the state is mixed.
TsQueueInv ==
  /\ QueueInv
  /\ Conforms(Nodes, ts, aq)
  /\ mixed \in BOOLEAN
  /\ ~padded /\ ~mixed => TsUnmixed(Nodes, ts, aq)
  /\ ~mixed /\ ~resumed => SameRoots(ts, aq)
  /\ ~mixed => Apart(ts, aq)
  /\ aq.subTreesMerged => MergedUp(aq)

\* enqueue: the leaf shows in the queue of the subroots only if that is empty, or
\* the state is mixed.
LEMMA EnqueueBothInv ==
  ASSUME TsQueueInv, EnqueueBoth
  PROVE  TsQueueInv'
<1> DEFINE leaf == NextLeaf
<1>1. /\ Enqueue /\ aq' = enqueue(aq, leaf) /\ padded' = padded /\ resumed' = resumed
      /\ ts' = enqueueTs(ts, leaf)
      /\ mixed' = (mixed \/ (ts.shared # {} /\ ts.nextSubRootIndex > 0))
  BY DEF EnqueueBoth, Enqueue
<1>2. /\ QueueInv /\ Stored(Nodes, aq) /\ issued \in Seq(Int) /\ Conforms(Nodes, ts, aq)
      /\ aq.nextSubRootIndex \in Nat /\ ts.nextSubRootIndex = aq.nextSubRootIndex
  BY DEF TsQueueInv, QueueInv, Stored, AccQueues, Conforms
<1>3. leaf \in Nodes
  BY <1>2 DEF NextLeaf, Nodes
<1> HIDE DEF leaf
<1>4. QueueInv'
  BY <1>1, <1>2, EnqueueInv
<1>5. /\ Conforms(Nodes, ts', aq') /\ SubRootsShown(ts, ts') /\ ts'.shared = ts.shared
      /\ ts'.smallSRTroot = Empty /\ aq'.smallSRTroot = Empty
  BY <1>1, <1>2, <1>3, EnqueueConforms
<1>6. Enqueued(Nodes, aq, aq', leaf)
  BY <1>1, <1>2, <1>3, EnqueueStored
<1>7. /\ Stored(Nodes, aq') /\ Grown(aq, aq') /\ ~aq'.subTreesMerged
      /\ aq'.mainRoots = [l \in Levels |-> Empty] /\ aq'.nextSubRootIndex = aq.nextSubRootIndex
  BY <1>6 DEF Enqueued, Grown
<1>8. mixed' \in BOOLEAN
  BY <1>1, Zenon DEF TsQueueInv
<1>9. ~mixed' => ~mixed /\ (ts.shared = {} \/ aq.nextSubRootIndex = 0)
  <2>1. ~mixed' => ~mixed /\ ~(ts.shared # {} /\ ts.nextSubRootIndex > 0)
    BY <1>1, Zenon
  <2> QED
    BY <1>2, <2>1
<1>10. ~padded' /\ ~mixed' => TsUnmixed(Nodes, ts', aq')
  <2>1. CASE ~padded /\ ~mixed'
    <3>1. TsUnmixed(Nodes, ts, aq)
      BY <1>9, <2>1 DEF TsQueueInv
    <3>2. /\ ts'.subRootQueue.indices = ts.subRootQueue.indices
          /\ ts'.subRootQueue = ts.subRootQueue \/ aq.nextSubRootIndex = 0
      BY <1>5, <1>9, <2>1 DEF SubRootsShown
    <3> QED
      BY <1>2, <1>5, <1>7, <3>1, <3>2, ShownUnmixed
  <2> QED
    BY <1>1, <2>1
<1>11. SameRoots(ts', aq')
  BY <1>5, <1>7 DEF SameRoots
<1>12. ~mixed' => Apart(ts', aq')
  BY <1>5, <1>7, <1>9 DEF Apart
<1> QED
  BY <1>4, <1>5, <1>7, <1>8, <1>10, <1>11, <1>12, Zenon DEF TsQueueInv

\* fill, likewise.
LEMMA FillBothInv ==
  ASSUME TsQueueInv, FillBoth
  PROVE  TsQueueInv'
<1>1. /\ Fill /\ aq' = fill(aq) /\ padded' = padded /\ resumed' = resumed
      /\ ts' = fillTs(ts) /\ mixed' = mixed
  BY DEF FillBoth, Fill
<1>2. QueueInv /\ Stored(Nodes, aq) /\ Zero \in Nodes /\ Conforms(Nodes, ts, aq)
  BY DEF TsQueueInv, QueueInv, Nodes
<1>3. QueueInv'
  BY <1>1, <1>2, FillInv
<1>4. /\ Conforms(Nodes, ts', aq')
      /\ ts'.smallSRTroot = Empty /\ aq'.smallSRTroot = Empty
      /\ ts'.mainRoots = ts.mainRoots
      /\ aq'.mainRoots = IF Started(aq) THEN [l \in Levels |-> Empty] ELSE aq.mainRoots
  BY <1>1, <1>2, FillConforms
<1>5. FilledUp(Nodes, aq, aq')
  BY <1>1, <1>2, FillStored
<1>6. /\ Stored(Nodes, aq') /\ ~aq'.subTreesMerged /\ StartedLeaves(aq'.leafQueue) = << >>
  BY <1>5 DEF FilledUp
<1>7. ~Started(aq')
  BY <1>6, SubRootsAreBounded
<1>8. ~padded' /\ ~mixed' => TsUnmixed(Nodes, ts', aq')
  <2>1. ASSUME ~padded, ~mixed PROVE TsUnmixed(Nodes, ts', aq')
    <3>1. Apart(ts, aq) /\ TsUnmixed(Nodes, ts, aq)
      BY <2>1 DEF TsQueueInv
    <3> QED
      BY <1>1, <1>2, <3>1, FillKeepsUnmixed
  <2> QED
    BY <1>1, <2>1
<1>9. ~mixed' /\ ~resumed' => SameRoots(ts', aq')
  <2>1. ASSUME ~mixed, ~resumed PROVE SameRoots(ts', aq')
    <3>1. SameRoots(ts, aq)
      BY <2>1 DEF TsQueueInv
    <3> QED
      BY <1>4, <3>1 DEF SameRoots
  <2> QED
    BY <1>1, <2>1
<1>10. Apart(ts', aq')
  BY <1>7 DEF Apart
<1>11. mixed' \in BOOLEAN
  BY <1>1 DEF TsQueueInv
<1> QED
  BY <1>3, <1>4, <1>6, <1>8, <1>9, <1>10, <1>11, Zenon DEF TsQueueInv

\* insertSubTree touches no Map.
LEMMA InsertSubTreeBothInv ==
  ASSUME TsQueueInv, InsertSubTreeBoth
  PROVE  TsQueueInv'
<1> DEFINE subRoot == [i \in 1..subTreeCapacity |-> NextLeaf]
<1>1. /\ InsertSubTree /\ aq' = insertSubTree(aq, subRoot) /\ padded' = padded /\ resumed' = resumed
      /\ ts' = insertSubTree(ts, subRoot) /\ mixed' = mixed
  BY DEF InsertSubTreeBoth, InsertSubTree
<1>2. QueueInv /\ Stored(Nodes, aq) /\ issued \in Seq(Int) /\ Conforms(Nodes, ts, aq)
  BY DEF TsQueueInv, QueueInv
<1>3. subRoot \in Seq(Nodes) /\ Len(subRoot) = subTreeCapacity
  <2>1. NextLeaf \in Nodes
    BY <1>2 DEF NextLeaf, Nodes
  <2>2. subRoot \in [1..subTreeCapacity -> Nodes]
    BY <2>1
  <2> HIDE DEF subRoot
  <2> QED
    BY <2>2, Capacity, SeqDef
<1> HIDE DEF subRoot
<1>4. QueueInv'
  BY <1>1, <1>2, InsertSubTreeInv
<1>5. /\ Conforms(Nodes, ts', aq') /\ ts'.subRootQueue = ts.subRootQueue /\ ts'.shared = ts.shared
      /\ ts'.smallSRTroot = Empty /\ aq'.smallSRTroot = Empty
      /\ ts'.mainRoots = ts.mainRoots /\ aq'.mainRoots = aq.mainRoots
      /\ aq'.leafQueue = aq.leafQueue
  BY <1>1, <1>2, <1>3, InsertConforms
<1>6. Stored(Nodes, aq') /\ Grown(aq, aq') /\ ~aq'.subTreesMerged
  BY <1>1, <1>2, <1>3, InsertStored
<1>7. Started(aq') <=> Started(aq)
  BY <1>2, <1>5, <1>6, SubRootsAreBounded
<1>8. ~padded' /\ ~mixed' => TsUnmixed(Nodes, ts', aq')
  <2>1. ASSUME ~padded, ~mixed PROVE TsUnmixed(Nodes, ts', aq')
    <3>1. TsUnmixed(Nodes, ts, aq)
      BY <2>1 DEF TsQueueInv
    <3> QED
      BY <1>2, <1>5, <1>6, <3>1, ShownUnmixed
  <2> QED
    BY <1>1, <2>1
<1>9. ~mixed' /\ ~resumed' => SameRoots(ts', aq')
  <2>1. ASSUME ~mixed, ~resumed PROVE SameRoots(ts', aq')
    <3>1. SameRoots(ts, aq)
      BY <2>1 DEF TsQueueInv
    <3> QED
      BY <1>5, <3>1 DEF SameRoots
  <2> QED
    BY <1>1, <2>1
<1>10. ~mixed' => Apart(ts', aq')
  <2>1. ASSUME ~mixed PROVE Apart(ts', aq')
    <3>1. Apart(ts, aq)
      BY <2>1 DEF TsQueueInv
    <3> QED
      BY <1>5, <1>6, <1>7, <3>1 DEF Apart, Grown
  <2> QED
    BY <1>1, <2>1
<1>11. mixed' \in BOOLEAN
  BY <1>1 DEF TsQueueInv
<1> QED
  BY <1>4, <1>5, <1>6, <1>8, <1>9, <1>10, <1>11, Zenon DEF TsQueueInv

\* mergeSubRoots fills up the started subtree before it queues a subroot.
LEMMA MergeSubRootsBothInv ==
  ASSUME TsQueueInv, NEW lim \in OpLimits, MergeSubRootsBoth(lim)
  PROVE  TsQueueInv'
<1>1. /\ MergeSubRoots(lim) /\ CanMergeSubRoots(aq) /\ aq' = mergeSubRoots(aq, lim)
      /\ padded' = (padded \/ BlanksQueued(aq'))
      /\ resumed' = (resumed \/ (padded /\ aq'.nextSubRootIndex > aq.nextSubRootIndex))
      /\ ts' = mergeSubRootsTs(ts, lim) /\ mixed' = mixed
  BY DEF MergeSubRootsBoth, MergeSubRoots, BlanksQueued
<1>2. /\ QueueInv /\ Stored(Nodes, aq) /\ Zero \in Nodes /\ Mergeable(aq) /\ ~aq.subTreesMerged
      /\ FillStarted(aq).currentSubtreeIndex <= hashLength ^ MAX_DEPTH /\ lim \in Nat
      /\ Conforms(Nodes, ts, aq)
      /\ ~padded => Unmixed(Nodes, aq)
      /\ padded => aq.currentSubtreeIndex > 1
  <2>1. /\ QueueInv /\ Conforms(Nodes, ts, aq)
    BY DEF TsQueueInv
  <2>2. /\ Stored(Nodes, aq) /\ Mergeable(aq) /\ ~aq.subTreesMerged
        /\ FillStarted(aq).currentSubtreeIndex <= hashLength ^ MAX_DEPTH
        /\ ~padded => Unmixed(Nodes, aq)
        /\ padded => aq.currentSubtreeIndex > 1
    BY <1>1, <2>1 DEF QueueInv, CanMergeSubRoots, SubRootsFit
  <2> QED
    BY <2>1, <2>2, AccQueueBounds DEF Nodes
<1>3. QueueInv'
  BY <1>1, <1>2, MergeSubRootsInv
<1>4. SubRootsMerged(Nodes, aq, aq')
  BY <1>1, <1>2, MergeSubRootsMerges
<1>5. /\ Rounded(Nodes, aq, aq')
      /\ aq'.currentSubtreeIndex = FillStarted(aq).currentSubtreeIndex
      /\ aq'.currentSubtreeIndex = 1 \/ aq'.nextSubRootIndex > aq.nextSubRootIndex
  BY <1>4 DEF SubRootsMerged
<1>6. /\ Stored(Nodes, aq') /\ StartedLeaves(aq'.leafQueue) = << >>
      /\ aq'.mainRoots = IF Started(aq) THEN [l \in Levels |-> Empty] ELSE aq.mainRoots
  BY <1>5 DEF Rounded
<1>7. MergedUp(aq')
  <2>1. aq.nextSubRootIndex < FillStarted(aq).currentSubtreeIndex
    BY <1>2, FillStartedRounds
  <2>2. aq.nextSubRootIndex \in Nat /\ aq'.currentSubtreeIndex \in Nat
    BY <1>2, <1>6 DEF Stored, AccQueues
  <2> QED
    BY <1>2, <1>5, <1>6, <2>1, <2>2 DEF MergedUp
<1>8. ~Started(aq')
  BY <1>6, SubRootsAreBounded
<1>9. ~resumed' => ~padded /\ ~resumed
  <2>1. padded => aq'.nextSubRootIndex > aq.nextSubRootIndex
    <3>1. aq'.currentSubtreeIndex \in Nat /\ aq.currentSubtreeIndex \in Nat
          /\ aq'.currentSubtreeIndex >= aq.currentSubtreeIndex
      BY <1>2, <1>5, <1>6, SubRootsAreBounded
    <3> QED
      BY <1>2, <1>5, <3>1
  <2> QED
    BY <1>1, <2>1, Zenon
<1>10. /\ Conforms(Nodes, ts', aq') /\ ts'.mainRoots = ts.mainRoots
       /\ Apart(ts, aq) /\ TsUnmixed(Nodes, ts, aq) /\ ~BlanksQueued(aq') => TsUnmixed(Nodes, ts', aq')
       /\ (Apart(ts, aq) /\ TsUnmixed(Nodes, ts, aq) /\ Unmixed(Nodes, aq)
             /\ ts.smallSRTroot = aq.smallSRTroot) =>
            ts'.smallSRTroot = aq'.smallSRTroot
  BY <1>1, <1>2, MergeSubRootsConforms
<1>11. ~padded' /\ ~mixed' => TsUnmixed(Nodes, ts', aq')
  <2>1. ASSUME ~padded, ~mixed, ~BlanksQueued(aq') PROVE TsUnmixed(Nodes, ts', aq')
    BY <1>10, <2>1 DEF TsQueueInv
  <2> QED
    BY <1>1, <2>1, Zenon
<1>12. ~mixed' /\ ~resumed' => SameRoots(ts', aq')
  <2>1. ASSUME ~mixed, ~padded, ~resumed PROVE SameRoots(ts', aq')
    <3>1. Apart(ts, aq) /\ TsUnmixed(Nodes, ts, aq) /\ SameRoots(ts, aq) /\ Unmixed(Nodes, aq)
      BY <1>2, <2>1 DEF TsQueueInv
    <3>2. ts'.smallSRTroot = aq'.smallSRTroot
      BY <1>10, <3>1 DEF SameRoots
    <3> QED
      BY <1>6, <1>10, <3>1, <3>2 DEF SameRoots
  <2> QED
    BY <1>1, <1>9, <2>1, Zenon
<1>13. Apart(ts', aq')
  BY <1>8 DEF Apart
<1>14. mixed' \in BOOLEAN
  BY <1>1 DEF TsQueueInv
<1> QED
  BY <1>3, <1>7, <1>10, <1>11, <1>12, <1>13, <1>14, Zenon DEF TsQueueInv

-----------------------------------------------------------------------------
\* merge goes on in the queue of the subroots, which is complete, to the depth.
LEMMA MergeBothInv ==
  ASSUME TsQueueInv, NEW d \in MainDepths, MergeBoth(d)
  PROVE  TsQueueInv'
<1>1. /\ Merge(d) /\ aq' = merge(aq, d) /\ padded' = padded /\ resumed' = resumed
      /\ ts' = mergeTs(ts, d) /\ mixed' = mixed /\ d \in Levels
  BY AccQueueBounds DEF MergeBoth, Merge
<1>2. /\ QueueInv /\ Stored(Nodes, aq) /\ Zero \in Nodes /\ Conforms(Nodes, ts, aq)
      /\ aq \in AccQueues(Nodes) /\ ts \in TsQueues(Nodes)
  BY DEF TsQueueInv, QueueInv, Nodes, Stored, Conforms
<1>3. QueueInv'
  BY <1>1, <1>2, MergeInv
<1>4. /\ Stored(Nodes, aq')
      /\ \A l \in Levels : aq'.mainRoots[l] = IF l = d THEN MergedRoot(aq, d) ELSE aq.mainRoots[l]
  BY <1>1, <1>2, MergeStored
<1>5. /\ aq'.leafQueue = aq.leafQueue /\ aq'.subRootQueue = aq.subRootQueue
      /\ aq'.subRoots = aq.subRoots /\ aq'.numLeaves = aq.numLeaves
      /\ aq'.currentSubtreeIndex = aq.currentSubtreeIndex
      /\ aq'.nextSubRootIndex = aq.nextSubRootIndex
      /\ aq'.subTreesMerged = aq.subTreesMerged /\ aq'.smallSRTroot = aq.smallSRTroot
  BY <1>1, <1>2 DEF merge, AccQueues
<1>6. MergedRoot(ts, d) \in Seq(Nodes)
  <2> DEFINE m == hashLength ^ d - Len(ts.smallSRTroot)
  <2>1. ts.smallSRTroot \in Seq(Nodes) /\ MergedRoot(ts, d) = ts.smallSRTroot \o ZeroLeaves(m)
    BY <1>2 DEF TsQueues, MergedRoot
  <2> HIDE DEF m
  <2>2. ZeroLeaves(m) \in Seq(Nodes)
    <3>1. m \in Int
      <4>1. d \in 0..(MAX_DEPTH + 1)
        BY <1>1, AccQueueConstants DEF Levels
      <4>2. hashLength ^ d \in Nat /\ Len(ts.smallSRTroot) \in Nat
        BY <2>1, <4>1, PowerFacts, LenProperties
      <4> QED
        BY <4>2 DEF m
    <3>2. CASE m \in Nat
      BY <1>2, <3>2, ZerosTyped
    <3>3. CASE m \notin Nat
      <4>1. 1..m = 1..0
        BY <3>1, <3>3
      <4>2. ZeroLeaves(m) = ZeroLeaves(0)
        BY <4>1 DEF ZeroLeaves
      <4> QED
        BY <1>2, <4>2, ZerosTyped
    <3> QED
      BY <3>2, <3>3
  <2> QED
    BY <2>1, <2>2, ConcatProperties
<1>7. /\ ts' \in TsQueues(Nodes) /\ ts'.leafQueue = ts.leafQueue /\ ts'.subRootQueue = ts.subRootQueue
      /\ ts'.subRoots = ts.subRoots /\ ts'.numLeaves = ts.numLeaves
      /\ ts'.currentSubtreeIndex = ts.currentSubtreeIndex
      /\ ts'.nextSubRootIndex = ts.nextSubRootIndex
      /\ ts'.subTreesMerged = ts.subTreesMerged /\ ts'.smallSRTroot = ts.smallSRTroot
      /\ ts'.shared = ts.shared
      /\ \A l \in Levels : ts'.mainRoots[l] = IF l = d THEN MergedRoot(ts, d) ELSE ts.mainRoots[l]
  <2> DEFINE top == MergedRoot(ts, d)
             roots == [ts.mainRoots EXCEPT ![d] = top]
  <2>1. ts.mainRoots \in [Levels -> Seq(Nodes)] /\ top \in Seq(Nodes) /\ d \in Levels
    BY <1>1, <1>2, <1>6 DEF TsQueues
  <2>2. ts' = [ts EXCEPT !.mainRoots = roots]
    BY <1>1 DEF mergeTs
  <2> HIDE DEF top
  <2>3. /\ roots \in [Levels -> Seq(Nodes)]
        /\ \A l \in Levels : roots[l] = IF l = d THEN top ELSE ts.mainRoots[l]
    BY <2>1
  <2> HIDE DEF roots
  <2>4. /\ ts' \in TsQueues(Nodes) /\ ts'.leafQueue = ts.leafQueue /\ ts'.subRootQueue = ts.subRootQueue
        /\ ts'.subRoots = ts.subRoots /\ ts'.numLeaves = ts.numLeaves
        /\ ts'.currentSubtreeIndex = ts.currentSubtreeIndex
        /\ ts'.nextSubRootIndex = ts.nextSubRootIndex
        /\ ts'.subTreesMerged = ts.subTreesMerged /\ ts'.smallSRTroot = ts.smallSRTroot
        /\ ts'.shared = ts.shared /\ ts'.mainRoots = roots
    BY <1>2, <2>2, <2>3 DEF TsQueues
  <2> QED
    BY <2>3, <2>4 DEF top
<1>8. Conforms(Nodes, ts', aq')
  BY <1>2, <1>5, <1>7 DEF Conforms
<1>9. ~padded' /\ ~mixed' => TsUnmixed(Nodes, ts', aq')
  <2>1. ASSUME ~padded, ~mixed PROVE TsUnmixed(Nodes, ts', aq')
    <3>1. TsUnmixed(Nodes, ts, aq)
      BY <2>1 DEF TsQueueInv
    <3> DEFINE p == WithQueues(aq, ts)
               p2 == WithQueues(aq', ts')
    <3>2. /\ p.subRootQueue = ts.subRootQueue /\ p.subRoots = aq.subRoots
          /\ p.nextSubRootIndex = aq.nextSubRootIndex
      BY <1>2, StoredWithQueues
    <3>3. /\ p2.subRootQueue = ts'.subRootQueue /\ p2.subRoots = aq'.subRoots
          /\ p2.nextSubRootIndex = aq'.nextSubRootIndex
      BY <1>4, <1>8, StoredWithQueues
    <3> HIDE DEF p, p2
    <3>4. p2.subRootQueue = p.subRootQueue /\ QueuedLeaves(p2) = QueuedLeaves(p)
      BY <1>5, <1>7, <3>2, <3>3 DEF QueuedLeaves
    <3> QED
      BY <3>1, <3>4 DEF TsUnmixed, Unmixed, p, p2
  <2> QED
    BY <1>1, <2>1
<1>10. ~mixed' /\ ~resumed' => SameRoots(ts', aq')
  <2>1. ASSUME ~mixed, ~resumed PROVE SameRoots(ts', aq')
    <3>1. SameRoots(ts, aq)
      BY <2>1 DEF TsQueueInv
    <3>2. MergedRoot(ts, d) = MergedRoot(aq, d)
      BY <3>1 DEF SameRoots, MergedRoot
    <3> QED
      BY <1>4, <1>5, <1>7, <3>1, <3>2 DEF SameRoots
  <2> QED
    BY <1>1, <2>1
<1>11. ~mixed' => Apart(ts', aq')
  BY <1>1, <1>5, <1>7 DEF TsQueueInv, Apart, Started
<1>12. aq'.subTreesMerged => MergedUp(aq')
  BY <1>5 DEF TsQueueInv, MergedUp
<1>13. mixed' \in BOOLEAN
  BY <1>1 DEF TsQueueInv
<1> QED
  BY <1>3, <1>8, <1>9, <1>10, <1>11, <1>12, <1>13, Zenon DEF TsQueueInv

\* copy() gives the two queues Maps of their own.
LEMMA CopyInv ==
  ASSUME TsQueueInv, Copy
  PROVE  TsQueueInv'
<1>1. /\ ts' = [ts EXCEPT !.shared = {}] /\ mixed' = mixed /\ aq' = aq /\ issued' = issued
      /\ direct' = direct /\ padded' = padded /\ resumed' = resumed
  BY DEF Copy, copyTs, vars
<1>2. /\ QueueInv /\ Conforms(Nodes, ts, aq) /\ ts \in TsQueues(Nodes) /\ Stored(Nodes, aq)
  BY DEF TsQueueInv, QueueInv, Conforms
<1>3. QueueInv'
  BY <1>1, <1>2, QueueStep DEF vars
<1>4. /\ ts' \in TsQueues(Nodes) /\ ts'.leafQueue = ts.leafQueue /\ ts'.subRootQueue = ts.subRootQueue
      /\ ts'.subRoots = ts.subRoots /\ ts'.numLeaves = ts.numLeaves
      /\ ts'.currentSubtreeIndex = ts.currentSubtreeIndex
      /\ ts'.nextSubRootIndex = ts.nextSubRootIndex
      /\ ts'.subTreesMerged = ts.subTreesMerged /\ ts'.smallSRTroot = ts.smallSRTroot
      /\ ts'.shared = {} /\ ts'.mainRoots = ts.mainRoots
  BY <1>1, <1>2 DEF TsQueues
<1>5. Conforms(Nodes, ts', aq)
  BY <1>2, <1>4 DEF Conforms
<1>6. WithQueues(aq, ts') = WithQueues(aq, ts)
  BY <1>4 DEF WithQueues
<1>7. ~padded /\ ~mixed => TsUnmixed(Nodes, ts', aq)
  BY <1>6 DEF TsQueueInv, TsUnmixed
<1>8. /\ ~mixed /\ ~resumed => SameRoots(ts', aq)
      /\ Apart(ts', aq)
  BY <1>4 DEF TsQueueInv, SameRoots, Apart
<1> QED
  BY <1>1, <1>3, <1>5, <1>7, <1>8 DEF TsQueueInv

\* Both queues start empty.
LEMMA TsQueueInitially == InitTs => TsQueueInv
<1> SUFFICES ASSUME InitTs PROVE TsQueueInv
  OBVIOUS
<1>1. Init /\ ts = NewTsQueue /\ ~mixed /\ mixed \in BOOLEAN /\ aq = NewAccQueue
  BY DEF InitTs, Init
<1>2. QueueInv /\ Stored(Nodes, aq) /\ Unmixed(Nodes, aq)
  BY <1>1, QueueInitially, NewStored, NewUnmixed
<1>3. /\ NewQueue \in Queues(Nodes) /\ SubtreeQueue(Nodes, NewQueue)
      /\ \A l \in Levels : NewQueue.indices[l] = 0
  BY NewQueueEmpty DEF NewQueue
<1>4. /\ aq.numLeaves = 0 /\ aq.currentSubtreeIndex = 0 /\ aq.nextSubRootIndex = 0
      /\ aq.leafQueue = NewQueue /\ aq.subRootQueue = NewQueue /\ aq.subRoots = << >>
      /\ aq.mainRoots = [l \in Levels |-> Empty] /\ aq.smallSRTroot = Empty
      /\ aq.subTreesMerged = FALSE
  BY <1>1 DEF NewAccQueue, Empty
<1>5. /\ ts.numLeaves = 0 /\ ts.currentSubtreeIndex = 0 /\ ts.nextSubRootIndex = 0
      /\ ts.leafQueue = NewQueue /\ ts.subRootQueue = NewQueue /\ ts.subRoots = << >>
      /\ ts.mainRoots = [l \in Levels |-> Empty] /\ ts.smallSRTroot = Empty
      /\ ts.subTreesMerged = FALSE /\ ts \in TsQueues(Nodes)
  <2>2. Empty \in Seq(Nodes) /\ << >> \in Seq(Seq(Nodes)) /\ 0 \in Nat
    BY EmptySeq DEF Empty
  <2> QED
    BY <1>1, <1>3, <2>2 DEF TsQueues, NewTsQueue, Empty
<1>6. Conforms(Nodes, ts, aq)
  BY <1>3, <1>4, <1>5 DEF Conforms
<1>7. TsUnmixed(Nodes, ts, aq)
  <2>1. WithQueues(aq, ts) = aq
    <3>1. aq \in AccQueues(Nodes)
      BY <1>2 DEF Stored
    <3> QED
      BY <1>4, <1>5, <3>1 DEF WithQueues, AccQueues
  <2> QED
    BY <1>2, <2>1 DEF TsUnmixed
<1>8. SameRoots(ts, aq) /\ Apart(ts, aq)
  BY <1>4, <1>5 DEF SameRoots, Apart
<1> QED
  BY <1>1, <1>2, <1>4, <1>6, <1>7, <1>8 DEF TsQueueInv

\* The invariant of the two queues side by side.
THEOREM TsQueueInvariant == SpecTs => []TsQueueInv
<1>1. TsQueueInv /\ [NextTs]_tsVars => TsQueueInv'
  <2> SUFFICES ASSUME TsQueueInv, [NextTs]_tsVars PROVE TsQueueInv'
    OBVIOUS
  <2>1. CASE UNCHANGED tsVars
    <3>1. /\ aq' = aq /\ issued' = issued /\ direct' = direct /\ padded' = padded /\ resumed' = resumed
          /\ ts' = ts /\ mixed' = mixed
      BY <2>1 DEF tsVars
    <3>2. QueueInv'
      BY <3>1, QueueStep DEF TsQueueInv, vars
    <3> QED
      BY <3>1, <3>2 DEF TsQueueInv
  <2>2. CASE EnqueueBoth
    BY <2>2, EnqueueBothInv
  <2>3. CASE FillBoth
    BY <2>3, FillBothInv
  <2>4. CASE InsertSubTreeBoth
    BY <2>4, InsertSubTreeBothInv
  <2>5. CASE \E n \in OpLimits : MergeSubRootsBoth(n)
    BY <2>5, MergeSubRootsBothInv
  <2>6. CASE \E d \in MainDepths : MergeBoth(d)
    BY <2>6, MergeBothInv
  <2>7. CASE Copy
    BY <2>7, CopyInv
  <2> QED
    BY <2>1, <2>2, <2>3, <2>4, <2>5, <2>6, <2>7 DEF NextTs
<1> QED
  BY <1>1, TsQueueInitially, PTL DEF SpecTs

\* The Maps common to both queues of the TypeScript AccQueue spoil no
\* subtree's root, and the main roots are the contract's.
THEOREM TsQueueMirrors == SpecTs => []TsQueueConforms
<1>1. TsQueueInv => TsQueueConforms
  BY DEF TsQueueInv, TsQueueConforms, Conforms, SameRoots
<1> QED
  BY <1>1, TsQueueInvariant, PTL

-----------------------------------------------------------------------------
\* A power of hashLength in the depth.
LEMMA PowersGrow ==
  ASSUME NEW d \in Levels, NEW e \in Levels, d <= e
  PROVE  hashLength ^ d \in Nat /\ hashLength ^ e \in Nat /\ hashLength ^ d <= hashLength ^ e
<1>1. d \in 0..(MAX_DEPTH + 1) /\ e \in 0..(MAX_DEPTH + 1) /\ e \in d..(MAX_DEPTH + 1)
  BY AccQueueConstants DEF Levels
<1>2. hashLength ^ d \in Nat /\ hashLength ^ e \in Nat
  BY <1>1, PowerFacts
<1>3. Size(1, d) <= Size(1, e)
  BY <1>1, SizeGrows
<1> DEFINE x == hashLength ^ d
           y == hashLength ^ e
<1>4. Size(1, d) = 1 * x /\ Size(1, e) = 1 * y /\ x \in Nat /\ y \in Nat
  BY <1>2 DEF Size
<1> HIDE DEF x, y
<1>5. x <= y
  BY <1>3, <1>4
<1> QED
  BY <1>2, <1>5 DEF x, y

\* The depths from calcSRTdepth up are those with room for the subroots.
LEMMA SRTdepthIsLeast ==
  ASSUME NEW q, Len(q.subRoots) \in Nat, NEW d \in Levels
  PROVE  d >= calcSRTdepth(q) <=>
           d >= subDepth /\ hashLength ^ d >= Len(q.subRoots) * subTreeCapacity
<1> DEFINE n == Len(q.subRoots) * subTreeCapacity
           S == {e \in subDepth..(MAX_DEPTH + 1) : e = MAX_DEPTH + 1 \/ hashLength ^ e >= n}
           m == calcSRTdepth(q)
<1>1. n \in Nat /\ d \in Nat /\ d <= MAX_DEPTH /\ subDepth \in Nat /\ MAX_DEPTH \in Nat
  BY Capacity, AccQueueConstants DEF Levels
<1>2. S \in SUBSET Nat /\ MAX_DEPTH + 1 \in S
  BY AccQueueConstants
<1>3. m = Min(S)
  BY DEF calcSRTdepth
<1>4. \A e \in S : e \in subDepth..(MAX_DEPTH + 1) /\ (e = MAX_DEPTH + 1 \/ hashLength ^ e >= n)
  OBVIOUS
<1>5. d >= subDepth /\ hashLength ^ d >= n => d \in S
  BY <1>1
<1> HIDE DEF S, m, n
<1>6. m \in S /\ \A e \in S : m <= e
  BY <1>2, <1>3, MinOfNaturals
<1>7. ASSUME d >= m PROVE d >= subDepth /\ hashLength ^ d >= n
  <2>1. m \in subDepth..MAX_DEPTH /\ hashLength ^ m >= n
    BY <1>1, <1>4, <1>6, <1>7
  <2>2. m \in Levels /\ m <= d
    BY <1>1, <1>7, <2>1 DEF Levels
  <2>3. hashLength ^ m \in Nat /\ hashLength ^ d \in Nat /\ hashLength ^ m <= hashLength ^ d
    BY <2>2, PowersGrow
  <2> QED
    BY <1>1, <2>1, <2>2, <2>3
<1> QED
  BY <1>5, <1>6, <1>7 DEF m, n

\* A queue of one subtree holds that subtree.
LEMMA FlattenOne ==
  ASSUME NEW X, NEW s \in Seq(Seq(X)), Len(s) = 1
  PROVE  s[1] \in Seq(X) /\ FlattenSeq(s) = s[1]
<1> DEFINE Y == Seq(X)
<1>1. s \in Seq(Y) /\ 1 \in 1..Len(s)
  OBVIOUS
<1> HIDE DEF Y
<1>2. s[1] \in Y
  BY <1>1, ElementOfSeq, Zenon
<1>3. << >> \in Seq(Y) /\ Append(<< >>, s[1]) = <<s[1]>> /\ <<s[1]>> \in Seq(Y)
      /\ Len(<<s[1]>>) = 1 /\ <<s[1]>>[1] = s[1]
  BY <1>2, EmptySeq
<1>4. s = <<s[1]>>
  BY <1>1, <1>3, SeqEqual
<1>5. FlattenSeq(Append(<< >>, s[1])) = FlattenSeq(<< >>) \o s[1]
  BY <1>2, <1>3, FlattenAppend DEF Y
<1>6. << >> \o s[1] = s[1]
  BY <1>2, ConcatEmptySeq DEF Y
<1> QED
  BY <1>2, <1>3, <1>4, <1>5, <1>6, FlattenEmpty DEF Y

\* What both classes have once the subroots are merged.
LEMMA MergedQueue ==
  ASSUME TsQueueInv, aq.subTreesMerged
  PROVE  /\ ts.subRoots = aq.subRoots /\ ts.subRoots \in Seq(Seq(Nodes)) /\ ts.subTreesMerged
         /\ Len(ts.subRoots) = aq.currentSubtreeIndex /\ aq.currentSubtreeIndex \in Nat
         /\ aq.currentSubtreeIndex >= 1
         /\ aq.numLeaves = Len(ts.subRoots) * subTreeCapacity /\ ts.numLeaves = aq.numLeaves
         /\ ~Started(ts)
         /\ Leaves(aq) = FlattenSeq(aq.subRoots) /\ Len(Leaves(aq)) = aq.numLeaves
<1>1. /\ Stored(Nodes, aq) /\ Conforms(Nodes, ts, aq) /\ MergedUp(aq)
  BY DEF TsQueueInv, QueueInv
<1>2. /\ aq.subRoots \in Seq(Seq(Nodes)) /\ aq.currentSubtreeIndex = Len(aq.subRoots)
      /\ aq.currentSubtreeIndex \in Nat /\ aq.numLeaves = Len(Leaves(aq)) /\ aq.numLeaves \in Nat
      /\ StartedLeaves(aq.leafQueue) = << >> /\ aq.currentSubtreeIndex >= 1
  BY <1>1 DEF Stored, AccQueues, MergedUp
<1>3. /\ ts.subRoots = aq.subRoots /\ ts.numLeaves = aq.numLeaves
      /\ ts.subTreesMerged = aq.subTreesMerged
  BY <1>1 DEF Conforms
<1>4. /\ FlattenSeq(aq.subRoots) \in Seq(Nodes)
      /\ aq.numLeaves = aq.currentSubtreeIndex * subTreeCapacity + Len(StartedLeaves(aq.leafQueue))
  BY <1>1, LeavesCounted
<1>5. ~Started(aq)
  BY <1>1, <1>2, SubRootsAreBounded
<1>6. Leaves(aq) = FlattenSeq(aq.subRoots)
  BY <1>2, <1>4, ConcatEmptySeq DEF Leaves
<1>7. aq.numLeaves = aq.currentSubtreeIndex * subTreeCapacity
  <2> DEFINE x == aq.currentSubtreeIndex * subTreeCapacity
  <2>1. x \in Nat /\ aq.numLeaves = x + 0
    BY <1>2, <1>4, Capacity
  <2> HIDE DEF x
  <2>2. aq.numLeaves = x
    BY <2>1
  <2> QED
    BY <2>2 DEF x
<1> QED
  BY <1>2, <1>3, <1>5, <1>6, <1>7 DEF Started

\* merge() takes the same depths.
LEMMA SameDepths ==
  ASSUME TsQueueInv, NEW d \in Levels
  PROVE  CanMerge(aq, d) <=> CanMergeTs(ts, d)
<1>1. ts.subTreesMerged = aq.subTreesMerged /\ d <= MAX_DEPTH
  BY AccQueueConstants DEF TsQueueInv, Conforms, Levels
<1>2. CASE ~aq.subTreesMerged
  BY <1>1, <1>2 DEF CanMerge, CanMergeTs
<1>3. CASE aq.subTreesMerged
  <2>1. /\ Len(ts.subRoots) \in Nat /\ aq.numLeaves = Len(ts.subRoots) * subTreeCapacity
    BY <1>3, MergedQueue
  <2>2. d >= calcSRTdepth(ts) <=>
           d >= subDepth /\ hashLength ^ d >= Len(ts.subRoots) * subTreeCapacity
    BY <2>1, SRTdepthIsLeast
  <2>3. d >= subDepth => d # 0
    BY AccQueueConstants DEF Levels
  <2> QED
    BY <1>1, <1>3, <2>1, <2>2, <2>3 DEF CanMerge, CanMergeTs
<1> QED
  BY <1>2, <1>3

\* mergeDirect() takes the merged leaves to the root that merge() computes.
LEMMA DirectMerge ==
  ASSUME TsQueueInv, NEW d \in MainDepths, ~resumed, CanMerge(aq, d), DirectDepth(d)
  PROVE  CanMergeDirect(ts, d) /\ mergeDirect(ts, d).mainRoots[d] = MergedRoot(aq, d)
<1> DEFINE k == Len(ts.subRoots)
           c == subTreeCapacity
           h == hashLength ^ d
           flat == FlattenSeq(ts.subRoots)
<1>1. /\ aq.subTreesMerged /\ d \in Levels /\ d >= subDepth /\ h >= aq.numLeaves
      /\ d >= calcSRTdepth(ts)
  <2>1. d \in Levels
    BY AccQueueBounds
  <2>2. CanMergeTs(ts, d)
    BY <2>1, SameDepths
  <2> QED
    BY <2>1, <2>2 DEF CanMerge, CanMergeTs
<1>2. /\ ts.subRoots = aq.subRoots /\ ts.subRoots \in Seq(Seq(Nodes))
      /\ k \in Nat /\ k >= 1 /\ aq.numLeaves = k * c /\ ts.numLeaves = aq.numLeaves
      /\ ~Started(ts) /\ Leaves(aq) = flat /\ Len(flat) = aq.numLeaves
  BY <1>1, MergedQueue
<1>3. MergedRoot(aq, d) = flat \o ZeroLeaves(h - Len(flat))
  <2>1. Rooted(aq) /\ Stored(Nodes, aq) /\ Zero \in Nodes
    BY <1>1 DEF TsQueueInv, QueueInv, Nodes
  <2>2. MergedRoot(aq, d) = Leaves(aq) \o ZeroLeaves(hashLength ^ d - Len(Leaves(aq)))
    BY <1>1, <2>1, MergeStored
  <2> QED
    BY <1>2, <2>2
<1>4. /\ c \in Nat /\ c >= 1 /\ h \in Nat /\ subDepth \in Nat /\ d \in Nat /\ d <= MAX_DEPTH
  BY <1>1, Capacity, PowersGrow, AccQueueConstants DEF Levels
<1>5. /\ FillStartedTs(ts) = ts
      /\ ts.mainRoots \in [Levels -> Seq(Nodes)] /\ "mainRoots" \in DOMAIN ts /\ ts \in TsQueues(Nodes)
  BY <1>2 DEF FillStartedTs, TsQueueInv, Conforms, TsQueues
<1>6. flat \in Seq(Nodes)
  BY <1>2, FlattenTyped
<1> HIDE DEF k, c, h, flat
<1>7. ts.numLeaves > 0 /\ ts.numLeaves \in Nat
  <2>1. k * c >= 1 /\ k * c \in Nat
    BY <1>2, <1>4
  <2> QED
    BY <1>2, <2>1
<1>8. CASE d = subDepth
  <2>1. h = c
    BY <1>8 DEF h, c, subTreeCapacity
  <2>2. k = 1
    <3>1. k >= 2 => k * c >= 2 * c
      BY <1>2, <1>4
    <3>2. k * c \in Nat
      BY <1>2, <1>4
    <3> QED
      BY <1>1, <1>2, <1>4, <2>1, <3>1, <3>2
  <2>3. ts.numLeaves = c /\ h - Len(flat) = 0
    BY <1>2, <1>4, <2>1, <2>2
  <2>4. flat = ts.subRoots[1]
    BY <1>2, <2>2, FlattenOne DEF flat, k
  <2>5. MergedRoot(aq, d) = ts.subRoots[1]
    <3>1. ZeroLeaves(0) = << >>
      <4>1. Zero \in Nodes
        BY DEF Nodes
      <4> QED
        BY <4>1, ZerosTyped, EmptySeq
    <3>2. flat \o << >> = flat
      BY <1>6, ConcatEmptySeq
    <3> QED
      BY <1>3, <2>3, <2>4, <3>1, <3>2
  <2>6. CanMergeDirect(ts, d)
    BY <1>1, <1>7, <1>8, <2>3 DEF CanMergeDirect, c
  <2>7. mergeDirect(ts, d).mainRoots[d] = ts.subRoots[1]
    <3> DEFINE top == ts.subRoots[1]
    <3>1. mergeDirect(ts, d) = [ts EXCEPT !.mainRoots[d] = top, !.subTreesMerged = TRUE]
      BY <1>8 DEF mergeDirect
    <3> HIDE DEF top
    <3>2. mergeDirect(ts, d).mainRoots = [ts.mainRoots EXCEPT ![d] = top]
      BY <1>5, <3>1 DEF TsQueues
    <3> QED
      BY <1>1, <1>5, <3>2 DEF top
  <2> QED
    BY <2>5, <2>6, <2>7
<1>9. CASE d # subDepth
  <2>1. FullEnough(ts, d)
    <3>1. d ^ hashLength >= h /\ d ^ hashLength \in Nat
      BY <1>9, PowersOfMainDepths DEF DirectDepth, h
    <3> QED
      BY <1>1, <1>2, <1>4, <1>7, <3>1 DEF FullEnough
  <2>2. k <= hashLength ^ (d - subDepth)
    <3> DEFINE e == d - subDepth
               v == hashLength ^ e
    <3>1. e \in 0..(MAX_DEPTH - subDepth) /\ subDepth + e = d /\ e \in 0..(MAX_DEPTH + 1)
      BY <1>1, <1>4, AccQueueConstants
    <3>2. h = Size(c, e) /\ v \in Nat
      BY <3>1, PowersAdd, PowerFacts DEF h, c
    <3>3. Size(c, e) = c * v
      BY DEF Size
    <3> HIDE DEF v
    <3>4. c * v >= k * c
      BY <1>1, <1>2, <3>2, <3>3
    <3>5. v < k => c * v < k * c
      BY <1>2, <1>4, <3>2
    <3>6. c * v \in Nat /\ k * c \in Nat
      BY <1>2, <1>4, <3>2
    <3>7. k <= v
      BY <1>2, <3>2, <3>4, <3>5, <3>6
    <3> QED
      BY <3>7 DEF v
  <2>3. CanMergeDirect(ts, d)
    BY <1>1, <1>5, <1>7, <1>9, <2>1, <2>2 DEF CanMergeDirect, k
  <2>4. mergeDirect(ts, d).mainRoots[d] = flat \o ZeroLeaves(h - Len(flat))
    <3> DEFINE top == flat \o ZeroLeaves(h - Len(flat))
    <3>1. mergeDirect(ts, d) = [ts EXCEPT !.mainRoots[d] = top]
      BY <1>5, <1>9 DEF mergeDirect, flat, h
    <3> HIDE DEF top
    <3>2. mergeDirect(ts, d).mainRoots = [ts.mainRoots EXCEPT ![d] = top]
      BY <1>5, <3>1 DEF TsQueues
    <3> QED
      BY <1>1, <1>5, <3>2 DEF top
  <2> QED
    BY <1>3, <2>3, <2>4
<1> QED
  BY <1>8, <1>9

\* The two classes accept the same merges, in two steps and in one.
THEOREM MergesAgree == SpecTs => []TsMergesAgree
<1>1. TsQueueInv => TsMergesAgree
  BY SameDepths, DirectMerge, AccQueueBounds DEF TsMergesAgree
<1> QED
  BY <1>1, TsQueueInvariant, PTL

-----------------------------------------------------------------------------
(***************************************************************************)
(* IncrementalQuinTree.  The k-th node of level l has the index NodeAt(l,  *)
(* k), Width(l) leaves under it, and holds Part(c, l, k) of the leaves c   *)
(* of the tree; what the index arithmetic of quinTree.ts comes to is said  *)
(* in these terms first, and then kept by an update, level after level     *)
(* from the leaf up, and followed by a proof on the same way.              *)
(***************************************************************************)
\* The leaves under a node of a level.
Width(level) == arity ^ level

\* There are positively many, and arity times as many as a level below.
LEMMA WidthFacts ==
  /\ Width(0) = 1 /\ Width(1) = arity
  /\ \A l \in 0..(depth + 1) : Width(l) \in Nat /\ Width(l) >= 1
  /\ \A l \in 0..depth : Width(l + 1) = arity * Width(l)
<1> DEFINE S == {l \in 0..(depth + 1) : Width(l) \in Nat /\ Width(l) >= 1}
<1>1. Width(0) = 1 /\ \A l \in 0..depth : Width(l + 1) = arity * Width(l)
  BY PowersOfArity DEF Width
<1>2. arity \in Nat /\ arity >= 2 /\ depth \in Nat /\ depth >= 1
  BY QuinTreeConstants
<1> HIDE DEF Width
<1>3. 0 \in S
  BY <1>1, <1>2
<1>4. ASSUME NEW l \in 0..((depth + 1) - 1), l \in S PROVE l + 1 \in S
  <2>1. l \in 0..depth /\ l + 1 \in 0..(depth + 1)
    BY <1>2
  <2>2. arity * Width(l) \in Nat /\ arity * Width(l) >= 1
    BY <1>2, <1>4
  <2> QED
    BY <1>1, <2>1, <2>2
<1> HIDE DEF S
<1>5. 0..(depth + 1) \subseteq S
  BY <1>2, <1>3, <1>4, RangeInduction
<1>6. Width(1) = arity
  <2>1. Width(0 + 1) = arity * 1
    BY <1>1, <1>2
  <2> QED
    BY <1>2, <2>1
<1> QED
  BY <1>1, <1>5, <1>6 DEF S

\* The more the higher the level.
LEMMA WidthGrows ==
  ASSUME NEW l \in 0..(depth + 1), NEW m \in (l + 1)..(depth + 1)
  PROVE  Width(l) < Width(m)
<1> DEFINE S == {k \in (l + 1)..(depth + 1) : Width(l) < Width(k)}
<1>1. arity \in Nat /\ arity >= 2 /\ depth \in Nat /\ l \in Nat /\ l + 1 \in Nat /\ depth + 1 \in Nat
  BY QuinTreeConstants
<1>2. ASSUME NEW k \in l..depth PROVE Width(k) < Width(k + 1)
  <2>1. k \in 0..depth /\ k \in 0..(depth + 1)
    BY <1>1
  <2>2. Width(k) \in Nat /\ Width(k) >= 1 /\ Width(k + 1) = arity * Width(k)
    BY <2>1, WidthFacts
  <2> QED
    BY <1>1, <2>2
<1>3. l + 1 \in S
  BY <1>1, <1>2
<1>4. ASSUME NEW k \in (l + 1)..((depth + 1) - 1), k \in S PROVE k + 1 \in S
  <2>1. k \in l..depth /\ k + 1 \in (l + 1)..(depth + 1) /\ k \in 0..(depth + 1) /\ k + 1 \in 0..(depth + 1)
    BY <1>1
  <2>2. Width(l) \in Nat /\ Width(k) \in Nat /\ Width(k + 1) \in Nat
    BY <2>1, WidthFacts
  <2> QED
    BY <1>2, <1>4, <2>1, <2>2
<1> HIDE DEF S
<1>5. (l + 1)..(depth + 1) \subseteq S
  BY <1>1, <1>3, <1>4, RangeInduction
<1> QED
  BY <1>5 DEF S

\* The nodes of a level have all the leaves under them.
LEMMA WidthTimesNodes ==
  \A l \in 0..depth : Width(l) * Width(depth - l) = capacity
<1> DEFINE S == {l \in 0..depth : Width(l) * Width(depth - l) = capacity}
<1>1. arity \in Nat /\ arity >= 2 /\ depth \in Nat
  BY QuinTreeConstants
<1>2. 0 \in S
  <2>1. Width(0) = 1 /\ Width(depth) \in Nat /\ depth - 0 = depth
    BY <1>1, WidthFacts
  <2>2. capacity = Width(depth)
    BY DEF capacity, Width
  <2>3. 1 * Width(depth) = Width(depth)
    BY <2>1
  <2> QED
    BY <1>1, <2>1, <2>2, <2>3
<1>3. ASSUME NEW l \in 0..(depth - 1), l \in S PROVE l + 1 \in S
  <2> DEFINE v == Width(l)
             w == Width(depth - (l + 1))
  <2>1. /\ l + 1 \in 0..depth /\ l \in 0..depth /\ depth - (l + 1) \in 0..depth
        /\ (depth - (l + 1)) + 1 = depth - l
        /\ l \in 0..(depth + 1) /\ depth - (l + 1) \in 0..(depth + 1)
    BY <1>1
  <2>2. v \in Nat /\ w \in Nat /\ Width(l + 1) = arity * v /\ Width(depth - l) = arity * w
    <3>1. Width(l + 1) = arity * v /\ v \in Nat /\ w \in Nat
      BY <2>1, WidthFacts
    <3>2. Width((depth - (l + 1)) + 1) = arity * w
      BY <2>1, WidthFacts
    <3> QED
      BY <2>1, <3>1, <3>2
  <2>3. v * Width(depth - l) = capacity
    BY <1>3
  <2> HIDE DEF v, w
  <2>4. (arity * v) * w = v * (arity * w)
    BY <1>1, <2>2
  <2> QED
    BY <2>1, <2>2, <2>3, <2>4 DEF w
<1> HIDE DEF S
<1>4. 0..depth \subseteq S
  BY <1>1, <1>2, <1>3, RangeInduction
<1> QED
  BY <1>4 DEF S

-----------------------------------------------------------------------------
\* The recursion in LevelStart defines a function.
LEMMA LevelStartDef ==
  /\ \A l \in 0..depth : LevelStart[l] \in Nat
  /\ LevelStart[0] = 0
  /\ \A l \in 0..(depth - 1) : LevelStart[l + 1] = LevelStart[l] + Width(depth - l)
<1> DEFINE g == [i \in 0..depth |-> [x \in Nat |-> IF i = 0 THEN x ELSE x + Width(depth - (i - 1))]]
           Def(f) == f = [level \in 0..depth |->
                            IF level = 0 THEN 0 ELSE f[level - 1] + arity ^ (depth - (level - 1))]
           S == {l \in 0..depth : LevelStart[l] \in Nat}
<1>1. /\ depth \in Nat /\ 0 \in Nat
      /\ \A i \in 0..depth : i # 0 => Width(depth - (i - 1)) \in Nat /\ i - 1 \in 0..depth
      /\ \A i \in 0..(depth - 1) : i + 1 \in 0..depth /\ i + 1 # 0 /\ (i + 1) - 1 = i /\ i \in 0..depth
  BY QuinTreeConstants, WidthFacts
<1>2. g \in [0..depth -> [Nat -> Nat]]
  BY <1>1
<1>3. PICK f \in [0..depth -> Nat] : \A i \in 0..depth : f[i] = IF i = 0 THEN 0 ELSE g[i][f[i - 1]]
  <2> HIDE DEF g
  <2>1. HasRecursion(Nat, 0, 0, depth, g)
    BY <1>1, <1>2, RangeRecursion
  <2> QED
    BY <2>1 DEF HasRecursion
<1>4. Def(f)
  <2>1. ASSUME NEW i \in 0..depth PROVE f[i] = IF i = 0 THEN 0 ELSE f[i - 1] + Width(depth - (i - 1))
    BY <1>1, <1>3
  <2> QED
    BY <2>1 DEF Width
<1>5. Def(LevelStart)
  BY <1>4 DEF LevelStart
<1>6. \A i \in 0..depth :
        LevelStart[i] = IF i = 0 THEN 0 ELSE LevelStart[i - 1] + Width(depth - (i - 1))
  BY <1>5 DEF Width
<1> HIDE DEF Def, g
<1>7. LevelStart[0] = 0 /\ \A l \in 0..(depth - 1) : LevelStart[l + 1] = LevelStart[l] + Width(depth - l)
  BY <1>1, <1>6
<1>8. 0 \in S
  BY <1>1, <1>7
<1>9. ASSUME NEW l \in 0..(depth - 1), l \in S PROVE l + 1 \in S
  <2>1. Width(depth - l) \in Nat
    BY <1>1
  <2> QED
    BY <1>1, <1>7, <1>9, <2>1, SMTT(20)
<1> HIDE DEF S
<1>10. 0..depth \subseteq S
  BY <1>1, <1>8, <1>9, RangeInduction
<1> QED
  BY <1>7, <1>10 DEF S

\* The levels follow one another without a gap.
LEMMA LevelsApart ==
  ASSUME NEW l \in 0..depth, NEW m \in (l + 1)..depth
  PROVE  LevelStart[l] + Width(depth - l) <= LevelStart[m]
<1> DEFINE S == {k \in (l + 1)..depth : LevelStart[l] + Width(depth - l) <= LevelStart[k]}
<1>1. depth \in Nat /\ l \in Nat /\ l + 1 \in Nat /\ l \in 0..(depth - 1)
  BY QuinTreeConstants
<1>2. ASSUME NEW k \in 0..(depth - 1)
      PROVE  /\ LevelStart[k] \in Nat /\ LevelStart[k + 1] \in Nat /\ Width(depth - k) \in Nat
             /\ LevelStart[k + 1] = LevelStart[k] + Width(depth - k)
  <2>1. k \in 0..depth /\ k + 1 \in 0..depth /\ depth - k \in 0..(depth + 1)
    BY <1>1
  <2> QED
    BY <2>1, LevelStartDef, WidthFacts
<1>3. l + 1 \in S
  BY <1>1, <1>2
<1>4. ASSUME NEW k \in (l + 1)..(depth - 1), k \in S PROVE k + 1 \in S
  <2>1. k \in 0..(depth - 1) /\ k + 1 \in (l + 1)..depth
    BY <1>1
  <2>2. LevelStart[k] <= LevelStart[k + 1]
    BY <1>2, <2>1
  <2> QED
    BY <1>1, <1>2, <1>4, <2>1, <2>2
<1> HIDE DEF S
<1>5. (l + 1)..depth \subseteq S
  BY <1>1, <1>3, <1>4, RangeInduction
<1> QED
  BY <1>5 DEF S

\* A level begins arity times as far from the first as the next one from the second.
LEMMA NextLevelStart ==
  \A l \in 0..(depth - 1) : LevelStart[l] = (LevelStart[l + 1] - capacity) * arity
<1> DEFINE S == {l \in 0..(depth - 1) : LevelStart[l] = (LevelStart[l + 1] - capacity) * arity}
<1>1. depth \in Nat /\ depth >= 1 /\ arity \in Nat /\ 0 \in 0..(depth - 1) /\ 0 \in Nat /\ depth - 1 \in Nat
  BY QuinTreeConstants
<1>2. capacity = Width(depth) /\ capacity \in Nat
  BY <1>1, WidthFacts DEF capacity, Width
<1>3. 0 \in S
  <2>1. LevelStart[0 + 1] = LevelStart[0] + Width(depth - 0) /\ LevelStart[0] = 0
    BY <1>1, LevelStartDef
  <2>2. LevelStart[1] = capacity
    BY <1>1, <1>2, <2>1
  <2> QED
    BY <1>1, <1>2, <2>1, <2>2
<1>4. ASSUME NEW l \in 0..((depth - 1) - 1), l \in S PROVE l + 1 \in S
  <2> DEFINE x == LevelStart[l]
             y == LevelStart[l + 1]
             z == LevelStart[(l + 1) + 1]
             v == Width(depth - l)
             w == Width(depth - (l + 1))
  <2>1. l \in 0..(depth - 1) /\ l + 1 \in 0..(depth - 1) /\ depth - (l + 1) \in 0..depth
        /\ (depth - (l + 1)) + 1 = depth - l /\ l \in 0..depth /\ l + 1 \in 0..depth /\ (l + 1) + 1 \in 0..depth
        /\ depth - l \in 0..(depth + 1) /\ depth - (l + 1) \in 0..(depth + 1)
    BY <1>1
  <2>2. y = x + v /\ z = y + w /\ x \in Nat /\ y \in Nat /\ z \in Nat
    BY <2>1, LevelStartDef
  <2>3. v \in Nat /\ w \in Nat /\ v = arity * w
    <3>1. Width((depth - (l + 1)) + 1) = arity * Width(depth - (l + 1))
      BY <2>1, WidthFacts
    <3> QED
      BY <2>1, <3>1, WidthFacts
  <2>4. x = (y - capacity) * arity
    BY <1>4
  <2> HIDE DEF x, y, z, v, w
  <2>5. (z - capacity) * arity = (y - capacity) * arity + w * arity
    BY <1>1, <1>2, <2>2, <2>3
  <2>6. y = (z - capacity) * arity
    BY <1>1, <1>2, <2>2, <2>3, <2>4, <2>5
  <2> QED
    BY <2>1, <2>6 DEF y, z
<1> HIDE DEF S
<1>5. 0..(depth - 1) \subseteq S
  BY <1>1, <1>3, <1>4, RangeInduction
<1> QED
  BY <1>5 DEF S

\* The recursion in PowerSum defines a function.
LEMMA PowerSumDef ==
  /\ \A l \in 0..depth : PowerSum[l] \in Nat
  /\ PowerSum[0] = 1
  /\ \A l \in 0..(depth - 1) : PowerSum[l + 1] = PowerSum[l] + Width(l + 1)
<1> DEFINE g == [i \in 0..depth |-> [x \in Nat |-> IF i = 0 THEN x ELSE x + Width(i)]]
           Def(f) == f = [level \in 0..depth |-> IF level = 0 THEN 1 ELSE f[level - 1] + arity ^ level]
           S == {l \in 0..depth : PowerSum[l] \in Nat}
<1>1. /\ depth \in Nat /\ 0 \in Nat /\ 1 \in Nat
      /\ \A i \in 0..depth : Width(i) \in Nat /\ (i # 0 => i - 1 \in 0..depth)
      /\ \A i \in 0..(depth - 1) : i + 1 \in 0..depth /\ i + 1 # 0 /\ (i + 1) - 1 = i /\ i \in 0..depth
  BY QuinTreeConstants, WidthFacts
<1>2. g \in [0..depth -> [Nat -> Nat]]
  BY <1>1
<1>3. PICK f \in [0..depth -> Nat] : \A i \in 0..depth : f[i] = IF i = 0 THEN 1 ELSE g[i][f[i - 1]]
  <2> HIDE DEF g
  <2>1. HasRecursion(Nat, 1, 0, depth, g)
    BY <1>1, <1>2, RangeRecursion
  <2> QED
    BY <2>1 DEF HasRecursion
<1>4. Def(f)
  <2>1. ASSUME NEW i \in 0..depth PROVE f[i] = IF i = 0 THEN 1 ELSE f[i - 1] + Width(i)
    BY <1>1, <1>3
  <2> QED
    BY <2>1 DEF Width
<1>5. Def(PowerSum)
  BY <1>4 DEF PowerSum
<1>6. \A i \in 0..depth : PowerSum[i] = IF i = 0 THEN 1 ELSE PowerSum[i - 1] + Width(i)
  BY <1>5 DEF Width
<1> HIDE DEF Def, g
<1>7. PowerSum[0] = 1 /\ \A l \in 0..(depth - 1) : PowerSum[l + 1] = PowerSum[l] + Width(l + 1)
  BY <1>1, <1>6, SMTT(20)
<1>8. 0 \in S
  BY <1>1, <1>7
<1>9. ASSUME NEW l \in 0..(depth - 1), l \in S PROVE l + 1 \in S
  BY <1>1, <1>7, <1>9, SMTT(20)
<1> HIDE DEF S
<1>10. 0..depth \subseteq S
  BY <1>1, <1>8, <1>9, RangeInduction
<1> QED
  BY <1>7, <1>10 DEF S

\* The sum of the powers of arity, as a quotient.
LEMMA PowerSumClosed ==
  \A l \in 0..depth : (arity - 1) * PowerSum[l] = Width(l + 1) - 1
<1> DEFINE S == {l \in 0..depth : (arity - 1) * PowerSum[l] = Width(l + 1) - 1}
<1>1. depth \in Nat /\ arity \in Nat /\ arity >= 2 /\ 0 \in 0..depth
  BY QuinTreeConstants
<1>2. 0 \in S
  <2>1. Width(0 + 1) = arity
    BY WidthFacts
  <2> QED
    BY <1>1, <2>1, PowerSumDef
<1>3. ASSUME NEW l \in 0..(depth - 1), l \in S PROVE l + 1 \in S
  <2> DEFINE p == PowerSum[l]
             w == Width(l + 1)
  <2>1. l \in 0..depth /\ l + 1 \in 0..depth /\ l + 1 \in 0..(depth + 1)
    BY <1>1
  <2>2. p \in Nat /\ w \in Nat /\ PowerSum[l + 1] = p + w /\ Width((l + 1) + 1) = arity * w
    BY <2>1, PowerSumDef, WidthFacts
  <2>3. (arity - 1) * p = w - 1
    BY <1>3
  <2> HIDE DEF p, w
  <2>4. (arity - 1) * (p + w) = (arity - 1) * p + (arity - 1) * w /\ (arity - 1) * w = arity * w - w
    BY <1>1, <2>2
  <2>5. (arity - 1) * (p + w) = arity * w - 1
    BY <1>1, <2>2, <2>3, <2>4
  <2> QED
    BY <2>1, <2>2, <2>5
<1> HIDE DEF S
<1>4. 0..depth \subseteq S
  BY <1>1, <1>2, <1>3, RangeInduction
<1> QED
  BY <1>4 DEF S

\* What lies between two multiples of a divisor.
LEMMA QuotientIs ==
  ASSUME NEW n \in Nat, NEW d \in Nat \ {0}, NEW q \in Nat, NEW r \in 0..(d - 1), n = q * d + r
  PROVE  n \div d = q /\ n % d = r
OBVIOUS

\* And what a quotient is.
LEMMA QuotientOf ==
  ASSUME NEW n \in Nat, NEW d \in Nat \ {0}
  PROVE  /\ n \div d \in Nat /\ n % d \in 0..(d - 1)
         /\ n = (n \div d) * d + (n % d)
OBVIOUS

\* The root is the only node after the levels below it.
LEMMA RootNode ==
  /\ numNodes = PowerSum[depth]
  /\ numNodes = LevelStart[depth] + 1
<1>1. depth \in 0..depth /\ depth \in Nat /\ arity \in Nat /\ arity - 1 \in Nat \ {0} /\ arity - 1 \in Nat
      /\ depth - 1 \in 0..(depth - 1) /\ (depth - 1) + 1 = depth /\ 0 \in 0..(arity - 2)
  BY QuinTreeConstants
<1> DEFINE p == PowerSum[depth]
<1>2. p \in Nat /\ (arity - 1) * p = Width(depth + 1) - 1
  BY <1>1, PowerSumDef, PowerSumClosed
<1> HIDE DEF p
<1>3. numNodes = (p * (arity - 1) + 0) \div (arity - 1)
  <2>1. p * (arity - 1) + 0 = (arity - 1) * p
    BY <1>1, <1>2
  <2> QED
    BY <1>2, <2>1 DEF numNodes, Width
<1>4. p * (arity - 1) + 0 \in Nat
  BY <1>1, <1>2
<1>5. numNodes = p
  <2> DEFINE n == p * (arity - 1) + 0
  <2>1. n \in Nat /\ n = p * (arity - 1) + 0 /\ 0 \in 0..((arity - 1) - 1)
    BY <1>1, <1>4
  <2> HIDE DEF n
  <2>2. n \div (arity - 1) = p
    BY <1>1, <1>2, <2>1, QuotientIs
  <2> QED
    BY <1>3, <2>2 DEF n
<1>6. PowerSum[depth] = LevelStart[depth] + 1
  <2> DEFINE S == {l \in 0..depth : PowerSum[depth] = LevelStart[l] + PowerSum[depth - l]}
  <2>0. 0 \in Nat /\ depth - 0 = depth /\ 0 \in 0..depth
    BY <1>1
  <2>1. 0 \in S
    <3>1. LevelStart[0] = 0 /\ PowerSum[depth] \in Nat
      BY <1>1, LevelStartDef, PowerSumDef
    <3> QED
      BY <2>0, <3>1
  <2>2. ASSUME NEW l \in 0..(depth - 1), l \in S PROVE l + 1 \in S
    <3>1. l \in 0..depth /\ l + 1 \in 0..depth /\ depth - (l + 1) \in 0..(depth - 1)
          /\ depth - (l + 1) \in 0..depth /\ depth - l \in 0..depth /\ depth - l \in 0..(depth + 1)
          /\ (depth - (l + 1)) + 1 = depth - l
      BY <1>1
    <3>2. LevelStart[l + 1] = LevelStart[l] + Width(depth - l)
      BY LevelStartDef
    <3>3. PowerSum[(depth - (l + 1)) + 1] = PowerSum[depth - (l + 1)] + Width((depth - (l + 1)) + 1)
      BY <3>1, PowerSumDef
    <3>4. PowerSum[depth - l] = PowerSum[depth - (l + 1)] + Width(depth - l)
      BY <3>1, <3>3
    <3>5. /\ LevelStart[l] \in Nat /\ PowerSum[depth - (l + 1)] \in Nat /\ Width(depth - l) \in Nat
      BY <3>1, LevelStartDef, PowerSumDef, WidthFacts
    <3>6. PowerSum[depth] = LevelStart[l] + PowerSum[depth - l]
      BY <2>2
    <3> QED
      BY <3>1, <3>2, <3>4, <3>5, <3>6
  <2> HIDE DEF S
  <2>3. 0..depth \subseteq S
    BY <1>1, <2>0, <2>1, <2>2, RangeInduction
  <2>4. PowerSum[depth] = LevelStart[depth] + PowerSum[depth - depth]
    BY <1>1, <2>3 DEF S
  <2>5. PowerSum[depth - depth] = 1
    <3>1. depth - depth = 0
      BY <1>1
    <3> QED
      BY <3>1, PowerSumDef
  <2> QED
    BY <2>4, <2>5
<1> QED
  BY <1>5, <1>6 DEF p

\* The k-th node of a level, counted from 0.
NodeAt(l, k) == LevelStart[l] + k

\* The numbers of the nodes of a level.
Across(l) == 0..(Width(depth - l) - 1)

LEMMA NodeFacts ==
  ASSUME NEW l \in 0..depth, NEW k \in Across(l)
  PROVE  /\ NodeAt(l, k) \in NodeIndices /\ NodeAt(l, k) \in Nat
         /\ LevelOf(NodeAt(l, k)) = l
         /\ l # 0 => NodeAt(l, k) >= capacity
<1> DEFINE w == Width(depth - l)
           n == NodeAt(l, k)
           T == {m \in 0..depth : LevelStart[m] <= n}
<1>1. depth \in Nat /\ depth >= 1 /\ depth - l \in 0..(depth + 1) /\ depth \in 0..depth /\ 1 \in 0..depth
  BY QuinTreeConstants
<1>2. w \in Nat /\ k \in Nat /\ k < w /\ LevelStart[l] \in Nat /\ LevelStart[depth] \in Nat
      /\ \A m \in 0..depth : LevelStart[m] \in Nat
  BY <1>1, WidthFacts, LevelStartDef DEF Across
<1>3. \A m \in (l + 1)..depth : LevelStart[l] + w <= LevelStart[m]
  BY LevelsApart
<1>4. n = LevelStart[l] + k
  BY DEF NodeAt
<1>5. LevelStart[depth] + 1 = numNodes
  BY RootNode
<1> HIDE DEF w, n
<1>6. n \in Nat /\ n <= LevelStart[depth]
  <2>1. CASE l = depth
    <3>1. depth - depth = 0
      BY <1>1
    <3>2. w = 1
      BY <2>1, <3>1, WidthFacts DEF w
    <3> QED
      BY <1>2, <1>4, <2>1, <3>2
  <2>2. CASE l # depth
    <3>1. depth \in (l + 1)..depth
      BY <1>1, <2>2
    <3>2. LevelStart[l] + w <= LevelStart[depth]
      BY <1>3, <3>1
    <3> QED
      BY <1>2, <1>4, <3>2
  <2> QED
    BY <2>1, <2>2
<1>7. n \in NodeIndices
  BY <1>2, <1>5, <1>6 DEF NodeIndices
<1>8. l \in T /\ \A m \in T : m <= l
  <2>1. l \in T
    BY <1>2, <1>4
  <2>2. ASSUME NEW m \in T PROVE m <= l
    <3>1. m \in 0..depth /\ LevelStart[m] <= n
      OBVIOUS
    <3>2. m \in (l + 1)..depth => LevelStart[l] + w <= LevelStart[m]
      BY <1>3
    <3>3. m \notin (l + 1)..depth
      BY <1>2, <1>4, <3>1, <3>2
    <3> QED
      BY <1>1, <3>1, <3>3
  <2> QED
    BY <2>1, <2>2
<1>9. Max(T) = l
  <2>1. T \subseteq Nat
    OBVIOUS
  <2> HIDE DEF T
  <2>2. Max(T) \in T /\ \A m \in T : Max(T) >= m
    BY <1>8, <2>1 DEF Max
  <2> DEFINE x == Max(T)
  <2>3. x \in Nat /\ l \in Nat /\ x >= l /\ x <= l
    BY <1>1, <1>8, <2>1, <2>2
  <2> HIDE DEF x
  <2> QED
    BY <2>3 DEF x
<1>10. LevelOf(n) = l
  BY <1>9 DEF LevelOf
<1>11. l # 0 => n >= capacity
  <2> SUFFICES ASSUME l # 0 PROVE n >= capacity
    OBVIOUS
  <2>1. LevelStart[1] = capacity /\ capacity \in Nat
    <3>1. 0 \in 0..(depth - 1) /\ depth - 0 = depth /\ 0 + 1 = 1
      BY <1>1
    <3>2. LevelStart[0 + 1] = LevelStart[0] + Width(depth - 0) /\ LevelStart[0] = 0
      BY <3>1, LevelStartDef
    <3>3. Width(depth) \in Nat
      BY <1>1, WidthFacts
    <3> QED
      BY <3>1, <3>2, <3>3 DEF capacity, Width
  <2>2. LevelStart[1] <= LevelStart[l]
    <3>1. CASE l = 1
      BY <1>2, <3>1
    <3>2. CASE l # 1
      <4>1. l \in (1 + 1)..depth /\ depth - 1 \in 0..(depth + 1)
        BY <1>1, <3>2
      <4>2. LevelStart[1] + Width(depth - 1) <= LevelStart[l]
        BY <1>1, <4>1, LevelsApart
      <4> QED
        BY <1>1, <1>2, <4>1, <4>2, WidthFacts
    <3> QED
      BY <3>1, <3>2
  <2> QED
    BY <1>2, <1>4, <2>1, <2>2
<1> QED
  BY <1>6, <1>7, <1>10, <1>11 DEF n

\* Of a node the children are those at its place on the level below.
LEMMA ChildNodes ==
  ASSUME NEW l \in 0..(depth - 1), NEW k \in Across(l + 1)
  PROVE  /\ calcChildIndices(NodeAt(l + 1, k)) = [i \in Children |-> NodeAt(l, k * arity + i)]
         /\ \A i \in Children : k * arity + i \in Across(l)
<1> DEFINE n == NodeAt(l + 1, k)
           T == {m \in 1..depth : n < PowerSum[m]}
<1>1. /\ depth \in Nat /\ depth >= 1 /\ arity \in Nat /\ arity >= 2 /\ l + 1 \in 0..depth /\ l + 1 # 0
      /\ l \in 0..depth /\ depth \in 1..depth /\ depth \in 0..(depth + 1)
      /\ depth - (l + 1) \in 0..depth /\ (depth - (l + 1)) + 1 = depth - l
  BY QuinTreeConstants
<1>2. n \in Nat /\ n < numNodes /\ n >= capacity /\ k \in Nat
  <2>1. n \in NodeIndices /\ n \in Nat /\ n >= capacity
    BY <1>1, NodeFacts
  <2> QED
    BY <2>1, RootNode, <1>1, LevelStartDef DEF NodeIndices, Across
<1>3. n = LevelStart[l + 1] + k /\ LevelStart[l + 1] \in Nat
  BY <1>1, LevelStartDef DEF NodeAt
<1>4. capacity = Width(depth) /\ capacity \in Nat /\ capacity = arity ^ depth
  BY <1>1, WidthFacts DEF capacity, Width
<1>5. LevelStart[l] = (LevelStart[l + 1] - capacity) * arity
  BY NextLevelStart
<1> HIDE DEF n
<1>6. depth \in T
  BY <1>1, <1>2, RootNode
<1>7. ASSUME NEW m \in T PROVE m = depth
  <2>1. SUFFICES ASSUME m # depth PROVE FALSE
    OBVIOUS
  <2> DEFINE p == PowerSum[m]
             w == Width(m + 1)
  <2>2. m \in 0..depth /\ m + 1 \in 0..(depth + 1) /\ m + 1 <= depth /\ n < p
    BY <1>1, <2>1
  <2>3. p \in Nat /\ w \in Nat /\ (arity - 1) * p = w - 1
    BY <2>2, PowerSumDef, PowerSumClosed, WidthFacts
  <2>4. w <= capacity
    <3>0. m + 1 \in 0..(depth + 1) /\ Width(m + 1) \in Nat
      BY <2>2, <2>3
    <3>1. CASE m + 1 = depth
      <4>1. Width(m + 1) = Width(depth)
        BY <3>1
      <4> QED
        BY <1>4, <3>0, <4>1
    <3>2. CASE m + 1 # depth
      <4>1. depth \in ((m + 1) + 1)..(depth + 1)
        BY <1>1, <2>2, <3>2
      <4>2. Width(m + 1) < Width(depth)
        BY <3>0, <4>1, WidthGrows
      <4> QED
        BY <1>4, <3>0, <4>2
    <3> QED
      BY <3>1, <3>2
  <2> HIDE DEF p, w
  <2>5. p <= (arity - 1) * p
    BY <1>1, <2>3
  <2> QED
    BY <1>1, <1>2, <1>4, <2>2, <2>3, <2>4, <2>5
<1>8. Min(T) = depth
  <2>1. T = {depth}
    BY <1>6, <1>7
  <2> QED
    BY <1>1, <2>1 DEF Min
<1>9. calcChildIndices(n) = [i \in Children |-> (n - capacity) * arity + i]
  BY <1>4, <1>8 DEF calcChildIndices
<1>10. \A i \in Children : (n - capacity) * arity + i = NodeAt(l, k * arity + i)
  <2> DEFINE x == LevelStart[l + 1]
             y == LevelStart[l]
  <2>0. x \in Nat /\ n = x + k /\ y = (x - capacity) * arity /\ y \in Nat
    BY <1>1, <1>3, <1>5, LevelStartDef
  <2> HIDE DEF x, y
  <2>1. (n - capacity) * arity = (x - capacity) * arity + k * arity
    BY <1>1, <1>2, <1>4, <2>0
  <2>2. (n - capacity) * arity = y + k * arity /\ k * arity \in Nat
    BY <1>1, <1>2, <2>0, <2>1
  <2>3. \A i \in Children : (n - capacity) * arity + i = y + (k * arity + i)
    BY <1>1, <2>0, <2>2 DEF Children
  <2> QED
    BY <2>3 DEF NodeAt, y
<1>11. \A i \in Children : k * arity + i \in Across(l)
  <2> DEFINE w == Width(depth - (l + 1))
  <2>1. w \in Nat /\ k < w /\ k \in Nat
    BY <1>1, <1>2, WidthFacts DEF Across
  <2>2. Width(depth - l) = arity * w
    <3>1. Width((depth - (l + 1)) + 1) = arity * Width(depth - (l + 1))
      BY <1>1, WidthFacts
    <3> QED
      BY <1>1, <3>1
  <2> HIDE DEF w
  <2>3. (k + 1) * arity <= w * arity /\ (k + 1) * arity = k * arity + arity /\ w * arity = arity * w
        /\ k * arity \in Nat /\ arity * w \in Nat
    BY <1>1, <2>1
  <2>4. \A i \in 0..(arity - 1) : k * arity + i \in 0..(arity * w - 1)
    BY <1>1, <2>3
  <2> QED
    BY <2>2, <2>4 DEF Across, Children
<1> QED
  BY <1>9, <1>10, <1>11 DEF n

\* The way from a leaf to the root: at each level the node that the leaf's
\* index leads to.
LEMMA PathFacts ==
  ASSUME NEW n \in LeafIndices
  PROVE  /\ n \in Nat /\ n \div Width(0) = n /\ n \div Width(depth) = 0
         /\ \A l \in 0..depth : n \div Width(l) \in Across(l)
         /\ \A l \in 0..(depth - 1) : n \div Width(l + 1) = (n \div Width(l)) \div arity
<1>1. /\ depth \in Nat /\ depth >= 1 /\ arity \in Nat /\ arity >= 2 /\ arity \in Nat \ {0}
      /\ 0 \in 0..depth /\ depth \in 0..depth /\ depth - depth = 0
  BY QuinTreeConstants
<1>2. capacity \in Nat /\ n \in Nat /\ n < capacity
  <2>1. capacity \in Nat
    BY <1>1, WidthFacts DEF capacity, Width
  <2> QED
    BY <2>1 DEF LeafIndices
<1>3. ASSUME NEW l \in 0..depth
      PROVE  /\ Width(l) \in Nat \ {0} /\ n \div Width(l) \in Nat
             /\ n \div Width(l) \in Across(l)
  <2> DEFINE w == Width(l)
             v == Width(depth - l)
             q == n \div w
  <2>1. l \in 0..(depth + 1) /\ depth - l \in 0..(depth + 1)
    BY <1>1
  <2>2. w \in Nat \ {0} /\ v \in Nat /\ w * v = capacity
    BY <2>1, WidthFacts, WidthTimesNodes
  <2> HIDE DEF w, v
  <2>3. q \in Nat /\ n % w \in 0..(w - 1) /\ n = q * w + (n % w)
    BY <1>2, <2>2, QuotientOf
  <2> HIDE DEF q
  <2>4. q * w <= n /\ n < w * v
    BY <1>2, <2>2, <2>3
  <2>5. q < v
    <3>1. SUFFICES ASSUME v <= q PROVE FALSE
      BY <2>2, <2>3
    <3>2. v * w <= q * w /\ v * w = w * v /\ v * w \in Nat /\ q * w \in Nat
      BY <2>2, <2>3, <3>1
    <3> QED
      BY <1>2, <2>4, <3>2
  <2> QED
    BY <2>2, <2>3, <2>5 DEF w, v, q, Across
<1>4. n \div Width(0) = n
  BY <1>2, WidthFacts
<1>5. n \div Width(depth) = 0
  <2>1. Across(depth) = {0}
    BY <1>1, WidthFacts DEF Across
  <2> QED
    BY <1>1, <1>3, <2>1
<1>6. ASSUME NEW l \in 0..(depth - 1)
      PROVE  n \div Width(l + 1) = (n \div Width(l)) \div arity
  <2> DEFINE w == Width(l)
             q == n \div w
             r == n % w
             p == q \div arity
             t == q % arity
             u == t * w + r
  <2>1. l \in 0..depth
    BY <1>1
  <2>2. w \in Nat \ {0} /\ q \in Nat /\ Width(l + 1) = arity * w
    BY <1>3, <2>1, WidthFacts
  <2> HIDE DEF w
  <2>3. r \in 0..(w - 1) /\ n = q * w + r
    BY <1>2, <2>2, QuotientOf
  <2> HIDE DEF q, r
  <2>4. p \in Nat /\ t \in 0..(arity - 1) /\ q = p * arity + t
    BY <1>1, <2>2, QuotientOf
  <2> HIDE DEF p, t
  <2>5. (p * arity + t) * w = p * (arity * w) + t * w
    BY <1>1, <2>2, <2>4
  <2>6. (t + 1) * w <= arity * w /\ (t + 1) * w = t * w + w /\ t * w \in Nat /\ arity * w \in Nat
    BY <1>1, <2>2, <2>4
  <2>7. n = p * (arity * w) + u /\ u \in 0..(arity * w - 1) /\ arity * w \in Nat \ {0}
    <3> DEFINE a == t * w
               b == arity * w
               c == p * b
               d == q * w
    <3>1. a \in Nat /\ b \in Nat /\ a + w <= b /\ d = c + a /\ n = d + r
      BY <2>3, <2>4, <2>5, <2>6
    <3>2. c \in Nat /\ d \in Nat
      BY <2>2, <2>4, <3>1
    <3> HIDE DEF a, b, c, d
    <3>3. n = c + (a + r) /\ a + r \in 0..(b - 1) /\ b \in Nat \ {0}
      BY <2>2, <2>3, <3>1, <3>2
    <3> QED
      BY <3>3 DEF a, b, c
  <2> HIDE DEF u
  <2>8. n \div (arity * w) = p
    <3> DEFINE b == arity * w
    <3>1. b \in Nat \ {0} /\ n = p * b + u /\ u \in 0..(b - 1)
      BY <2>7
    <3> HIDE DEF b
    <3> QED
      BY <1>2, <2>4, <3>1, QuotientIs DEF b
  <2> QED
    BY <2>2, <2>8 DEF p, q, w
<1> QED
  BY <1>2, <1>3, <1>4, <1>5, <1>6

\* What a sequence holds after one place up to another.
Run(c, a, b) == SubSeq(c, a + 1, b)

\* Two runs of a sequence, one after the other.
LEMMA RunsJoin ==
  ASSUME NEW X, NEW c \in Seq(X), NEW a \in Nat, NEW x \in Nat, NEW y \in Nat,
         a <= x, x <= y, y <= Len(c)
  PROVE  Run(c, a, x) \o Run(c, x, y) = Run(c, a, y)
<1>1. Len(c) \in Nat
  BY LenProperties
<1> QED
  BY <1>1, ConcatAdjacentSubSeq DEF Run

\* Runs of a sequence that follow one another, each from one place to the next.
RunOn(X, c, n, at, s) ==
  /\ c \in Seq(X) /\ n \in Nat \ {0} /\ at \in [0..n -> 0..Len(c)]
  /\ s \in Seq(Seq(X)) /\ Len(s) = n
  /\ \A j \in 1..n : at[0] <= at[j - 1] /\ at[j - 1] <= at[j]
  /\ \A j \in 1..n : s[j] = Run(c, at[j - 1], at[j])

\* The run up to one place and the next one.
LEMMA NextRun ==
  ASSUME NEW X, NEW c \in Seq(X), NEW n \in Nat \ {0}, NEW at \in [0..n -> 0..Len(c)],
         NEW j \in 1..(n - 1), at[0] <= at[j], at[j] <= at[j + 1]
  PROVE  Run(c, at[0], at[j]) \o Run(c, at[j], at[j + 1]) = Run(c, at[0], at[j + 1])
<1>1. 0 \in 0..n /\ j \in 0..n /\ j + 1 \in 0..n
  OBVIOUS
<1> DEFINE a == at[0]
           x == at[j]
           y == at[j + 1]
<1>2. a \in Nat /\ x \in Nat /\ y \in Nat /\ a <= x /\ x <= y /\ y <= Len(c)
  BY <1>1, LenProperties
<1> HIDE DEF a, x, y
<1>3. Run(c, a, x) \o Run(c, x, y) = Run(c, a, y)
  BY <1>2, RunsJoin
<1> QED
  BY <1>3 DEF a, x, y

\* Together they are one run.
LEMMA FlattenRuns ==
  ASSUME NEW X, NEW c, NEW n, NEW at, NEW s, RunOn(X, c, n, at, s)
  PROVE  FlattenSeq(s) = Run(c, at[0], at[n])
<1> DEFINE S == {j \in 1..n : Flat(s)[j] = Run(c, at[0], at[j])}
<1>0. /\ c \in Seq(X) /\ n \in Nat \ {0} /\ at \in [0..n -> 0..Len(c)]
      /\ s \in Seq(Seq(X)) /\ Len(s) = n
  BY DEF RunOn
<1>1. s # << >> /\ Len(s) # 0 /\ 1 \in Nat /\ n \in Nat /\ 1 \in 1..n /\ n \in 1..n /\ 1 - 1 = 0
  BY <1>0, EmptySeq
<1>2. /\ Flat(s)[1] = s[1] /\ FlattenSeq(s) = Flat(s)[n]
      /\ \A j \in 2..n : Flat(s)[j] = Flat(s)[j - 1] \o s[j]
  BY <1>0, <1>1, FlatDef, FlattenIsFlat
<1>3. /\ \A j \in 1..n : at[0] <= at[j - 1] /\ at[j - 1] <= at[j]
      /\ \A j \in 1..n : s[j] = Run(c, at[j - 1], at[j])
  BY DEF RunOn
<1>4. 1 \in S
  BY <1>1, <1>2, <1>3
<1>5. ASSUME NEW j \in 1..(n - 1), j \in S PROVE j + 1 \in S
  <2>1. j + 1 \in 1..n /\ j + 1 \in 2..n /\ (j + 1) - 1 = j
    BY <1>1
  <2>2. Flat(s)[j + 1] = Flat(s)[j] \o s[j + 1]
    BY <1>2, <2>1
  <2>3. s[j + 1] = Run(c, at[j], at[j + 1]) /\ Flat(s)[j] = Run(c, at[0], at[j])
    BY <1>3, <1>5, <2>1
  <2>4. at[0] <= at[j] /\ at[j] <= at[j + 1]
    BY <1>3, <2>1
  <2> HIDE DEF S
  <2>5. Run(c, at[0], at[j]) \o Run(c, at[j], at[j + 1]) = Run(c, at[0], at[j + 1])
    BY <1>0, <2>4, NextRun
  <2> QED
    BY <2>1, <2>2, <2>3, <2>5 DEF S
<1> HIDE DEF S
<1>6. 1..n \subseteq S
  BY <1>1, <1>4, <1>5, RangeInduction
<1> QED
  BY <1>1, <1>2, <1>6 DEF S

-----------------------------------------------------------------------------
\* The leaves under the k-th node of a level.
Part(c, l, k) == Run(c, k * Width(l), (k + 1) * Width(l))

\* The leaves of a whole tree.
Contents(X) == {c \in Seq(X) : Len(c) = capacity}

LEMMA PartFacts ==
  ASSUME NEW X, NEW c \in Contents(X), NEW l \in 0..depth, NEW k \in Across(l)
  PROVE  /\ Part(c, l, k) \in Seq(X) /\ Len(Part(c, l, k)) = Width(l)
         /\ \A i \in 1..Width(l) : Part(c, l, k)[i] = c[k * Width(l) + i]
         /\ k * Width(l) \in Nat /\ k * Width(l) + Width(l) <= capacity
<1> DEFINE w == Width(l)
           v == Width(depth - l)
           a == k * w
<1>1. depth \in Nat /\ l \in 0..(depth + 1) /\ depth - l \in 0..(depth + 1)
  BY QuinTreeConstants
<1>2. w \in Nat /\ w >= 1 /\ v \in Nat /\ w * v = capacity /\ k \in Nat /\ k + 1 <= v
  BY <1>1, WidthFacts, WidthTimesNodes DEF Across
<1> HIDE DEF w, v
<1>3. (k + 1) * w = a + w /\ a \in Nat /\ a + w <= capacity /\ capacity \in Nat
  <2>1. (k + 1) * w <= v * w /\ v * w = w * v /\ (k + 1) * w = k * w + w /\ k * w \in Nat /\ v * w \in Nat
    BY <1>2
  <2> QED
    BY <1>2, <2>1
<1> HIDE DEF a
<1>4. \A i \in (a + 1)..(a + w) : c[i] \in X
  <2>1. \A i \in 1..capacity : c[i] \in X
    BY ElementOfSeq DEF Contents
  <2> QED
    BY <1>2, <1>3, <2>1
<1> DEFINE p == SubSeq(c, a + 1, a + w)
<1>5. /\ p \in Seq(X) /\ Len(p) = w
      /\ \A i \in 1..w : p[i] = c[a + i]
  <2>1. a + 1 \in Int /\ a + w \in Int /\ a + 1 <= a + w /\ ((a + w) - (a + 1)) + 1 = w
    BY <1>2, <1>3
  <2>2. /\ p \in Seq(X) /\ Len(p) = ((a + w) - (a + 1)) + 1
        /\ \A i \in 1..(((a + w) - (a + 1)) + 1) : p[i] = c[((a + 1) + i) - 1]
    BY <1>4, <2>1, SubSeqProperties
  <2>3. \A i \in 1..w : ((a + 1) + i) - 1 = a + i
    BY <1>2, <1>3
  <2> HIDE DEF p
  <2> QED
    BY <2>1, <2>2, <2>3
<1>6. p = Part(c, l, k)
  BY <1>3 DEF Part, Run, w, a
<1> HIDE DEF p
<1> QED
  BY <1>3, <1>5, <1>6 DEF w, a

\* The parts of a node's children make up its own.
LEMMA PartsJoin ==
  ASSUME NEW X, NEW c \in Contents(X), NEW l \in 0..(depth - 1), NEW k \in Across(l + 1),
         NEW s \in Seq(Seq(X)), Len(s) = arity,
         \A j \in 1..arity : s[j] = Part(c, l, k * arity + (j - 1))
  PROVE  FlattenSeq(s) = Part(c, l + 1, k)
<1> DEFINE w == Width(l)
           v == Width(l + 1)
           a == k * v
<1>1. /\ depth \in Nat /\ arity \in Nat \ {0} /\ arity \in Nat /\ l \in 0..depth /\ l + 1 \in 0..depth
      /\ l \in 0..(depth + 1)
  BY QuinTreeConstants
<1>2. w \in Nat /\ v = arity * w /\ k \in Nat
  BY <1>1, WidthFacts DEF Across
<1>3. a \in Nat /\ a + v <= capacity
  BY <1>1, PartFacts
<1>4. Part(c, l + 1, k) = Run(c, a, (k + 1) * v)
  BY DEF Part
<1>5. \A j \in 1..arity :
        s[j] = Run(c, (k * arity + (j - 1)) * w, ((k * arity + (j - 1)) + 1) * w)
  BY DEF Part
<1> HIDE DEF w, v
<1>6. a = (k * arity) * w
  BY <1>1, <1>2
<1>7. ASSUME NEW j \in 1..arity
      PROVE  s[j] = Run(c, a + (j - 1) * w, a + j * w)
  <2> DEFINE b == k * arity
  <2>1. b \in Nat /\ a = b * w /\ j \in Nat /\ j - 1 \in Nat
    BY <1>1, <1>2, <1>6
  <2> HIDE DEF b, a
  <2>2. (b + (j - 1)) * w = b * w + (j - 1) * w /\ ((b + (j - 1)) + 1) * w = b * w + j * w
    BY <1>2, <2>1
  <2>3. s[j] = Run(c, (b + (j - 1)) * w, ((b + (j - 1)) + 1) * w)
    BY <1>5 DEF b
  <2> QED
    BY <2>1, <2>2, <2>3
<1>8. (k + 1) * v = a + arity * w /\ a + arity * w <= Len(c)
  <2>1. (k + 1) * v = k * v + v
    BY <1>1, <1>2
  <2>2. Len(c) = capacity
    BY DEF Contents
  <2> QED
    BY <1>2, <1>3, <2>1, <2>2
<1>9. FlattenSeq(s) = Run(c, a, a + arity * w)
  <2> DEFINE at == [j \in 0..arity |-> a + j * w]
  <2> HIDE DEF a
  <2>1. c \in Seq(X) /\ Len(c) \in Nat
    BY <1>1, <1>3 DEF Contents
  <2>2. ASSUME NEW j \in 0..arity PROVE a + j * w \in 0..Len(c)
    <3> DEFINE x == j * w
               y == arity * w
    <3>1. x \in Nat /\ y \in Nat /\ x <= y
      BY <1>1, <1>2
    <3>2. a + y <= Len(c)
      BY <1>8
    <3> HIDE DEF x, y
    <3>3. a + x \in 0..Len(c)
      BY <1>3, <2>1, <3>1, <3>2
    <3> QED
      BY <3>3 DEF x
  <2>3. at \in [0..arity -> 0..Len(c)]
    BY <2>2
  <2>4. \A j \in 1..arity : /\ j - 1 \in 0..arity /\ j \in 0..arity /\ 0 \in 0..arity
                           /\ 0 * w = 0 /\ 0 <= (j - 1) * w /\ (j - 1) * w <= j * w
                           /\ (j - 1) * w \in Nat /\ j * w \in Nat
    BY <1>1, <1>2
  <2>5. at[0] = a /\ at[arity] = a + arity * w
    BY <1>1, <1>2, <1>3
  <2>6. \A j \in 1..arity : at[j - 1] = a + (j - 1) * w /\ at[j] = a + j * w
    BY <2>4
  <2>7. ASSUME NEW j \in 1..arity PROVE at[0] <= at[j - 1] /\ at[j - 1] <= at[j]
    <3> DEFINE x == (j - 1) * w
               y == j * w
    <3>1. x \in Nat /\ y \in Nat /\ x <= y /\ at[j - 1] = a + x /\ at[j] = a + y /\ at[0] = a
      BY <2>4, <2>5, <2>6
    <3> HIDE DEF x, y, at
    <3> QED
      BY <1>3, <3>1
  <2>8. \A j \in 1..arity : s[j] = Run(c, at[j - 1], at[j])
    BY <1>7, <2>6
  <2> HIDE DEF at
  <2>9. FlattenSeq(s) = Run(c, at[0], at[arity])
    <3>1. arity \in Nat \ {0} /\ Len(s) = arity
      BY <1>1
    <3>2. RunOn(X, c, arity, at, s)
      BY <2>1, <2>3, <2>7, <2>8, <3>1 DEF RunOn
    <3> QED
      BY <3>2, FlattenRuns
  <2> QED
    BY <2>5, <2>9
<1> QED
  BY <1>4, <1>8, <1>9

\* All leaves are under the root.
LEMMA WholePart ==
  ASSUME NEW X, NEW c \in Contents(X)
  PROVE  Part(c, depth, 0) = c
<1>1. Width(depth) = capacity /\ capacity \in Nat
  BY QuinTreeConstants, WidthFacts DEF capacity, Width
<1>2. 0 * capacity + 1 = 1 /\ (0 + 1) * capacity = capacity
  BY <1>1
<1>3. c \in Seq(X) /\ Len(c) = capacity
  BY DEF Contents
<1> QED
  BY <1>1, <1>2, <1>3, SubSeqFull DEF Part, Run

\* The leaves with another value in the place of one.
WithLeaf(c, n, x) == [c EXCEPT ![n + 1] = x]

\* A write of one leaf shows in the parts that hold it and in no other.
LEMMA OtherParts ==
  ASSUME NEW X, NEW c \in Contents(X), NEW n \in LeafIndices, NEW x \in X,
         NEW l \in 0..depth, NEW k \in Across(l), k # n \div Width(l)
  PROVE  WithLeaf(c, n, x) \in Contents(X) /\ Part(WithLeaf(c, n, x), l, k) = Part(c, l, k)
<1> DEFINE c2 == WithLeaf(c, n, x)
           w == Width(l)
           a == k * w
<1>1. /\ c \in [1..capacity -> X] /\ capacity \in Nat
  <2>1. c \in Seq(X) /\ Len(c) = capacity
    BY DEF Contents
  <2> QED
    BY <2>1, LenProperties, ElementOfSeq
<1>0. c2 = [c EXCEPT ![n + 1] = x]
  BY DEF WithLeaf
<1> HIDE DEF c2
<1>2. c2 \in [1..capacity -> X]
  BY <1>0, <1>1
<1>3. c2 \in Contents(X)
  BY <1>1, <1>2 DEF Contents
<1>4. /\ Part(c, l, k) \in Seq(X) /\ Len(Part(c, l, k)) = w
      /\ \A i \in 1..w : Part(c, l, k)[i] = c[a + i]
      /\ a \in Nat /\ a + w <= capacity
  BY PartFacts
<1>5. /\ Part(c2, l, k) \in Seq(X) /\ Len(Part(c2, l, k)) = w
      /\ \A i \in 1..w : Part(c2, l, k)[i] = c2[a + i]
  BY <1>3, PartFacts
<1>6. w \in Nat \ {0} /\ n \in Nat /\ k \in Nat
  BY QuinTreeConstants, WidthFacts, PathFacts DEF Across
<1> HIDE DEF w, a
<1>7. ASSUME NEW i \in 1..w PROVE a + i # n + 1
  <2>1. SUFFICES ASSUME a + i = n + 1 PROVE FALSE
    OBVIOUS
  <2>2. n = a + (i - 1) /\ i - 1 \in 0..(w - 1)
    BY <1>4, <1>6, <2>1
  <2>3. n = k * w + (i - 1) /\ i - 1 \in 0..(w - 1)
    BY <2>2 DEF a
  <2>4. n \div w = k
    BY <1>6, <2>3, QuotientIs
  <2> QED
    BY <2>4 DEF w
<1>8. \A i \in 1..w : c2[a + i] = c[a + i]
  <2>1. \A i \in 1..w : a + i \in 1..capacity
    BY <1>1, <1>4, <1>6
  <2> QED
    BY <1>0, <1>1, <1>7, <2>1
<1>9. Part(c2, l, k) = Part(c, l, k)
  <2> DEFINE p == Part(c, l, k)
             q == Part(c2, l, k)
  <2>1. p \in Seq(X) /\ q \in Seq(X) /\ Len(p) = w /\ Len(q) = w /\ \A i \in 1..w : p[i] = q[i]
    BY <1>4, <1>5, <1>8
  <2> HIDE DEF p, q
  <2>2. p = q
    BY <2>1, SeqEqual
  <2> QED
    BY <2>2 DEF p, q
<1> QED
  BY <1>3, <1>9 DEF c2

\* The objects that hold nodes over leaves of X.
NodeMaps(X) == [NodeIndices -> Seq(X)]

\* The zeros of a level, and what getNode returns.
LEMMA NodeTyped ==
  ASSUME NEW X, zeroValue \in X, NEW nds \in NodeMaps(X), NEW l \in 0..depth, NEW k \in Across(l)
  PROVE  /\ zeros(l) \in Seq(X) /\ Len(zeros(l)) = Width(l)
         /\ \A i \in 1..Width(l) : zeros(l)[i] = zeroValue
         /\ getNode(nds, NodeAt(l, k)) =
              IF nds[NodeAt(l, k)] # NoNode THEN nds[NodeAt(l, k)] ELSE zeros(l)
         /\ getNode(nds, NodeAt(l, k)) \in Seq(X)
<1> DEFINE w == Width(l)
<1>1. w \in Nat
  BY QuinTreeConstants, WidthFacts
<1>2. zeros(l) = [i \in 1..w |-> zeroValue]
  BY DEF zeros, Width
<1> HIDE DEF w
<1>3. zeros(l) \in Seq(X) /\ Len(zeros(l)) = w
  BY <1>1, <1>2
<1>4. NodeAt(l, k) \in NodeIndices /\ LevelOf(NodeAt(l, k)) = l
  BY NodeFacts
<1>5. nds[NodeAt(l, k)] \in Seq(X)
  BY <1>4 DEF NodeMaps
<1> QED
  BY <1>2, <1>3, <1>4, <1>5 DEF getNode, w

\* Where the nodes of a level hold the leaves under them, so do their hashes.
LEMMA HashedChildren ==
  ASSUME NEW X, NEW c \in Contents(X), NEW nds, NEW l \in 0..(depth - 1), NEW k \in Across(l + 1),
         \A i \in Across(l) : getNode(nds, NodeAt(l, i)) = Part(c, l, i)
  PROVE  HashChildren(nds, NodeAt(l + 1, k)) = Part(c, l + 1, k)
<1> DEFINE n == NodeAt(l + 1, k)
           s == [j \in 1..arity |-> getNode(nds, calcChildIndices(n)[j - 1])]
<1>1. arity \in Nat /\ l \in 0..depth
  BY QuinTreeConstants
<1>2. \A j \in 1..arity : j - 1 \in Children
  BY <1>1 DEF Children
<1>3. ASSUME NEW j \in 1..arity
      PROVE  s[j] = Part(c, l, k * arity + (j - 1)) /\ s[j] \in Seq(X)
  <2> DEFINE m == k * arity + (j - 1)
  <2>1. calcChildIndices(n)[j - 1] = NodeAt(l, m) /\ m \in Across(l)
    BY <1>2, ChildNodes
  <2>2. s[j] = getNode(nds, NodeAt(l, m))
    BY <2>1
  <2>3. getNode(nds, NodeAt(l, m)) = Part(c, l, m)
    BY <2>1
  <2>4. Part(c, l, m) \in Seq(X)
    BY <1>1, <2>1, PartFacts
  <2> QED
    BY <2>2, <2>3, <2>4
<1>4. HashChildren(nds, n) = FlattenSeq(s)
  BY DEF HashChildren
<1>5. s \in Seq(Seq(X)) /\ Len(s) = arity
  <2>1. s = [j \in 1..arity |-> s[j]]
    OBVIOUS
  <2> HIDE DEF s
  <2>2. s \in [1..arity -> Seq(X)]
    BY <1>3, <2>1
  <2> QED
    BY <1>1, <2>2
<1> HIDE DEF s
<1> QED
  BY <1>3, <1>4, <1>5, PartsJoin DEF n

\* A hash of nodes is one.
LEMMA HashTyped ==
  ASSUME NEW X, zeroValue \in X, NEW nds \in NodeMaps(X), NEW l \in 0..(depth - 1), NEW k \in Across(l + 1)
  PROVE  HashChildren(nds, NodeAt(l + 1, k)) \in Seq(X)
<1> DEFINE n == NodeAt(l + 1, k)
           s == [j \in 1..arity |-> getNode(nds, calcChildIndices(n)[j - 1])]
<1>1. arity \in Nat /\ l \in 0..depth
  BY QuinTreeConstants
<1>2. \A j \in 1..arity : j - 1 \in Children
  BY <1>1 DEF Children
<1>3. ASSUME NEW j \in 1..arity PROVE s[j] \in Seq(X)
  <2> DEFINE m == k * arity + (j - 1)
  <2>1. calcChildIndices(n)[j - 1] = NodeAt(l, m) /\ m \in Across(l)
    BY <1>2, ChildNodes
  <2>2. s[j] = getNode(nds, NodeAt(l, m))
    BY <2>1
  <2>3. getNode(nds, NodeAt(l, m)) \in Seq(X)
    BY <1>1, <2>1, NodeTyped
  <2> QED
    BY <2>2, <2>3
<1>4. HashChildren(nds, n) = FlattenSeq(s)
  BY DEF HashChildren
<1>5. s \in Seq(Seq(X))
  <2>1. s = [j \in 1..arity |-> s[j]]
    OBVIOUS
  <2> HIDE DEF s
  <2>2. s \in [1..arity -> Seq(X)]
    BY <1>3, <2>1
  <2> QED
    BY <1>1, <2>2
<1> HIDE DEF s
<1> QED
  BY <1>4, <1>5, FlattenTyped DEF n

-----------------------------------------------------------------------------
\* The node of a level that a leaf is under.
Above(n, l) == NodeAt(l, n \div Width(l))

\* The nodes with the one above a leaf hashed from its children.
Rehash(nds, n, l) == [nds EXCEPT ![Above(n, l)] = HashChildren(nds, Above(n, l))]

\* The nodes after each level of an update.
Rehashed(nds, n, value) ==
  LET after[i \in 0..depth] ==
        IF i = 0 THEN [nds EXCEPT ![n] = value] ELSE Rehash(after[i - 1], n, i)
  IN  after

\* The recursion in UpdatedNodes defines a function.
LEMMA RehashedDef ==
  ASSUME NEW X, zeroValue \in X, NEW nds \in NodeMaps(X), NEW n \in LeafIndices, NEW value \in Seq(X)
  PROVE  /\ Rehashed(nds, n, value) \in [0..depth -> NodeMaps(X)]
         /\ Rehashed(nds, n, value)[0] = [nds EXCEPT ![n] = value]
         /\ \A l \in 0..(depth - 1) :
              Rehashed(nds, n, value)[l + 1] = Rehash(Rehashed(nds, n, value)[l], n, l + 1)
         /\ UpdatedNodes(nds, n, value) = Rehashed(nds, n, value)[depth]
<1> DEFINE V == NodeMaps(X)
           first == [nds EXCEPT ![n] = value]
           h(x, i) == Rehash(x, n, i)
           g == [i \in 0..depth |-> [x \in V |-> IF i = 0 THEN x ELSE h(x, i)]]
           Def(f) == f = [i \in 0..depth |-> IF i = 0 THEN first ELSE h(f[i - 1], i)]
           after == Rehashed(nds, n, value)
<1>1. /\ depth \in Nat /\ 0 \in 0..depth /\ depth \in 0..depth /\ 0 \in Nat
      /\ \A i \in 0..depth : i # 0 => i - 1 \in 0..depth /\ i - 1 \in 0..(depth - 1) /\ (i - 1) + 1 = i
      /\ \A i \in 0..(depth - 1) : i + 1 \in 0..depth /\ i + 1 # 0 /\ (i + 1) - 1 = i /\ i \in 0..depth
  BY QuinTreeConstants
<1>2. first \in V
  BY DEF NodeMaps
<1>3. ASSUME NEW i \in 0..depth, NEW x \in V, i # 0 PROVE h(x, i) \in V
  <2>1. i - 1 \in 0..(depth - 1) /\ (i - 1) + 1 = i
    BY <1>1, <1>3
  <2>2. n \div Width(i) \in Across(i)
    BY PathFacts
  <2>3. HashChildren(x, Above(n, i)) \in Seq(X)
    BY <2>1, <2>2, HashTyped DEF Above
  <2> QED
    BY <2>3 DEF NodeMaps, Rehash
<1> HIDE DEF V, first, h
<1>4. g \in [0..depth -> [V -> V]]
  BY <1>3
<1>5. PICK f \in [0..depth -> V] : \A i \in 0..depth : f[i] = IF i = 0 THEN first ELSE g[i][f[i - 1]]
  <2> HIDE DEF g
  <2>1. HasRecursion(V, first, 0, depth, g)
    BY <1>1, <1>2, <1>4, RangeRecursion
  <2> QED
    BY <2>1 DEF HasRecursion
<1>6. Def(f)
  <2>1. ASSUME NEW i \in 0..depth PROVE f[i] = IF i = 0 THEN first ELSE h(f[i - 1], i)
    BY <1>1, <1>5
  <2> QED
    BY <2>1
<1>7. Def(after)
  BY <1>6 DEF Rehashed, first, h
<1>8. /\ after = [i \in 0..depth |-> after[i]]
      /\ \A i \in 0..depth : after[i] = IF i = 0 THEN first ELSE h(after[i - 1], i)
  <2> HIDE DEF after
  <2> QED
    BY <1>7
<1>9. UpdatedNodes(nds, n, value) = after[depth]
  <2>1. \A i \in 1..depth : calcParentIndices(n)[i] = Above(n, i)
    BY DEF calcParentIndices, Above, NodeAt, Width
  <2> DEFINE parents == calcParentIndices(n)
             Def2(u) == u = [i \in 0..depth |->
                               IF i = 0 THEN [nds EXCEPT ![n] = value]
                               ELSE [u[i - 1] EXCEPT ![parents[i]] = HashChildren(u[i - 1], parents[i])]]
  <2>2. ASSUME NEW u PROVE Def(u) <=> Def2(u)
    <3>1. \A i \in 0..depth : i # 0 => i \in 1..depth
      BY <1>1
    <3>2. \A i \in 0..depth :
            (IF i = 0 THEN first ELSE h(u[i - 1], i))
              = (IF i = 0 THEN [nds EXCEPT ![n] = value]
                 ELSE [u[i - 1] EXCEPT ![parents[i]] = HashChildren(u[i - 1], parents[i])])
      BY <2>1, <3>1 DEF first, h, Rehash
    <3> HIDE DEF parents
    <3> QED
      BY <3>2
  <2>3. (CHOOSE u : Def2(u)) = (CHOOSE u : Def(u))
    <3> HIDE DEF Def, Def2
    <3> QED
      BY <2>2
  <2>4. UpdatedNodes(nds, n, value) = (CHOOSE u : Def2(u))[depth]
    BY DEF UpdatedNodes
  <2>5. after = (CHOOSE u : Def(u))
    BY DEF Rehashed, first, h
  <2> QED
    BY <2>3, <2>4, <2>5
<1> HIDE DEF Def, g, after
<1> DEFINE S == {i \in 0..depth : after[i] \in V}
<1>10. 0 \in S
  BY <1>1, <1>2, <1>8
<1>11. ASSUME NEW i \in 0..(depth - 1), i \in S PROVE i + 1 \in S
  <2>1. after[i + 1] = h(after[i], i + 1)
    BY <1>1, <1>8
  <2> QED
    BY <1>1, <1>3, <1>11, <2>1
<1> HIDE DEF S
<1>12. 0..depth \subseteq S
  BY <1>1, <1>10, <1>11, RangeInduction
<1>13. after \in [0..depth -> V]
  BY <1>8, <1>12 DEF S
<1>14. after[0] = first /\ \A i \in 0..(depth - 1) : after[i + 1] = h(after[i], i + 1)
  BY <1>1, <1>8
<1> QED
  BY <1>9, <1>13, <1>14 DEF after, V, first, h

\* The nodes are those of the tree over these leaves, on the levels up to one,
\* and above it wherever the leaf n is not below.
ShownBut(nds, c, n, m) ==
  \A l \in 0..depth : \A k \in Across(l) :
    (l <= m \/ k # n \div Width(l)) => getNode(nds, NodeAt(l, k)) = Part(c, l, k)

\* The nodes are those of the tree over these leaves.
Shown(nds, c) ==
  \A l \in 0..depth : \A k \in Across(l) : getNode(nds, NodeAt(l, k)) = Part(c, l, k)

\* A value of a leaf as update() is given it.
Writes(value, x) == value = <<x>> \/ (value = NoNode /\ x = zeroValue)

\* Two nodes are at the same place on the same level or at different indices.
LEMMA NodesApart ==
  ASSUME NEW l \in 0..depth, NEW k \in Across(l), NEW m \in 0..depth, NEW q \in Across(m),
         NodeAt(l, k) = NodeAt(m, q)
  PROVE  l = m /\ k = q
<1>1. l = m
  BY NodeFacts
<1>2. k \in Nat /\ q \in Nat /\ LevelStart[l] \in Nat
  BY LevelStartDef, QuinTreeConstants, WidthFacts DEF Across
<1> QED
  BY <1>1, <1>2 DEF NodeAt

\* A level is hashed from the one below.
LEMMA LevelRehashed ==
  ASSUME NEW X, zeroValue \in X, NEW c \in Contents(X), NEW n \in LeafIndices,
         NEW f \in NodeMaps(X), NEW m \in 0..(depth - 1), ShownBut(f, c, n, m)
  PROVE  /\ ShownBut(Rehash(f, n, m + 1), c, n, m + 1)
         /\ Rehash(f, n, m + 1)[Above(n, m + 1)] = Part(c, m + 1, n \div Width(m + 1))
<1> DEFINE g == Rehash(f, n, m + 1)
           a == Above(n, m + 1)
           q == n \div Width(m + 1)
           hash == HashChildren(f, a)
<1>1. /\ depth \in Nat /\ m \in Nat /\ m \in 0..depth /\ m + 1 \in 0..depth /\ m <= m
      /\ m + 1 \in 0..(depth + 1)
  BY QuinTreeConstants
<1>2. q \in Across(m + 1) /\ a = NodeAt(m + 1, q)
  BY <1>1, PathFacts DEF Above
<1>3. hash = Part(c, m + 1, q)
  <2>1. \A i \in Across(m) : getNode(f, NodeAt(m, i)) = Part(c, m, i)
    BY <1>1 DEF ShownBut
  <2> HIDE DEF q
  <2> QED
    BY <1>2, <2>1, HashedChildren
<1>4. hash # NoNode
  <2>1. Len(Part(c, m + 1, q)) = Width(m + 1) /\ Width(m + 1) >= 1 /\ Width(m + 1) \in Nat
    BY <1>1, <1>2, PartFacts, WidthFacts
  <2>2. Len(NoNode) = 0
    BY DEF NoNode
  <2> HIDE DEF hash, q
  <2> QED
    BY <1>3, <2>1, <2>2
<1>5. a \in NodeIndices /\ DOMAIN f = NodeIndices
  BY <1>1, <1>2, NodeFacts DEF NodeMaps
<1>0. g = [f EXCEPT ![a] = hash]
  BY DEF Rehash
<1> HIDE DEF g
<1>6. g[a] = hash
  BY <1>0, <1>5
<1>7. \A i \in NodeIndices : i # a => g[i] = f[i]
  BY <1>0, <1>5
<1> HIDE DEF hash, q, a
<1>8. ASSUME NEW l \in 0..depth, NEW k \in Across(l), l <= m + 1 \/ k # n \div Width(l)
      PROVE  getNode(g, NodeAt(l, k)) = Part(c, l, k)
  <2>1. NodeAt(l, k) \in NodeIndices
    BY NodeFacts
  <2>2. CASE NodeAt(l, k) = a
    <3>1. l = m + 1 /\ k = q
      BY <1>1, <1>2, <2>2, NodesApart
    <3>2. getNode(g, a) = hash
      BY <1>4, <1>6 DEF getNode
    <3> QED
      BY <1>3, <2>2, <3>1, <3>2
  <2>3. CASE NodeAt(l, k) # a
    <3>1. getNode(g, NodeAt(l, k)) = getNode(f, NodeAt(l, k))
      BY <1>7, <2>1, <2>3 DEF getNode
    <3>2. l <= m \/ k # n \div Width(l)
      <4>1. SUFFICES ASSUME ~ (l <= m), k = n \div Width(l) PROVE FALSE
        OBVIOUS
      <4>2. l = m + 1
        BY <1>1, <1>8, <4>1
      <4>3. k = q
        BY <4>1, <4>2 DEF q
      <4> QED
        BY <1>2, <2>3, <4>2, <4>3
    <3> QED
      BY <3>1, <3>2 DEF ShownBut
  <2> QED
    BY <2>2, <2>3
<1> QED
  BY <1>3, <1>6, <1>8 DEF ShownBut, a, q, g

\* The write of the leaf itself.
LEMMA LeafWritten ==
  ASSUME NEW X, zeroValue \in X, NEW nds \in NodeMaps(X), NEW c \in Contents(X), Shown(nds, c),
         NEW n \in LeafIndices, NEW x \in X, NEW value, Writes(value, x)
  PROVE  ShownBut([nds EXCEPT ![n] = value], WithLeaf(c, n, x), n, 0)
<1> DEFINE c2 == WithLeaf(c, n, x)
           g == [nds EXCEPT ![n] = value]
<1>1. /\ depth \in Nat /\ 0 \in 0..depth /\ n \in Nat /\ n \div Width(0) = n /\ Width(0) = 1
      /\ n \in Across(0)
  BY QuinTreeConstants, WidthFacts, PathFacts
<1>2. NodeAt(0, n) = n /\ n \in NodeIndices
  <2>1. NodeAt(0, n) = n
    BY <1>1, LevelStartDef DEF NodeAt
  <2> QED
    BY <1>1, <2>1, NodeFacts
<1>3. DOMAIN nds = NodeIndices
  BY DEF NodeMaps
<1>4. g[n] = value /\ \A i \in NodeIndices : i # n => g[i] = nds[i]
  BY <1>2, <1>3
<1>5. c2 \in Contents(X)
  <2>1. c \in Seq(X) /\ Len(c) = capacity
    BY DEF Contents
  <2>2. capacity \in Nat
    BY <2>1, LenProperties
  <2>3. c \in [1..capacity -> X]
    BY <2>1, LenProperties, ElementOfSeq
  <2>4. c2 \in [1..capacity -> X]
    BY <2>3 DEF WithLeaf
  <2> QED
    BY <2>2, <2>4 DEF Contents
<1>6. Part(c2, 0, n) = <<x>>
  <2> DEFINE p == Part(c2, 0, n)
  <2>1. p \in Seq(X) /\ Len(p) = 1 /\ p[1] = c2[n * 1 + 1]
    <3>1. /\ Part(c2, 0, n) \in Seq(X) /\ Len(Part(c2, 0, n)) = Width(0)
          /\ \A i \in 1..Width(0) : Part(c2, 0, n)[i] = c2[n * Width(0) + i]
      BY <1>1, <1>5, PartFacts
    <3>2. 1 \in 1..1
      OBVIOUS
    <3> QED
      BY <1>1, <3>1, <3>2
  <2>2. n * 1 + 1 = n + 1 /\ n + 1 \in 1..capacity
    <3>1. capacity \in Nat
      BY <1>5, LenProperties DEF Contents
    <3> QED
      BY <1>1, <3>1 DEF LeafIndices
  <2>3. DOMAIN c = 1..capacity
    BY LenProperties DEF Contents
  <2>4. c2[n + 1] = x
    BY <2>2, <2>3 DEF WithLeaf
  <2> HIDE DEF p
  <2>5. p = <<x>>
    BY <2>1, <2>2, <2>4
  <2> QED
    BY <2>5 DEF p
<1> HIDE DEF g, c2
<1>7. getNode(g, n) = <<x>>
  <2>1. CASE value = <<x>>
    BY <1>4, <2>1 DEF getNode, NoNode
  <2>2. CASE value = NoNode /\ x = zeroValue
    <3>1. getNode(g, n) = zeros(0)
      BY <1>1, <1>2, <1>4, <2>2, NodeFacts DEF getNode
    <3>2. zeros(0) = <<zeroValue>>
      BY <1>1 DEF zeros, Width
    <3> QED
      BY <2>2, <3>1, <3>2
  <2> QED
    BY <2>1, <2>2 DEF Writes
<1>8. ASSUME NEW l \in 0..depth, NEW k \in Across(l), l <= 0 \/ k # n \div Width(l)
      PROVE  getNode(g, NodeAt(l, k)) = Part(c2, l, k)
  <2>1. NodeAt(l, k) \in NodeIndices
    BY NodeFacts
  <2>2. CASE NodeAt(l, k) = n
    <3>1. l = 0 /\ k = n
      BY <1>1, <1>2, <2>2, NodesApart
    <3> QED
      BY <1>6, <1>7, <2>2, <3>1
  <2>3. CASE NodeAt(l, k) # n
    <3>1. getNode(g, NodeAt(l, k)) = getNode(nds, NodeAt(l, k))
      BY <1>4, <2>1, <2>3 DEF getNode
    <3>2. k # n \div Width(l)
      <4>1. SUFFICES ASSUME k = n \div Width(l), l = 0 PROVE FALSE
        BY <1>1, <1>8
      <4> QED
        BY <1>1, <1>2, <2>3, <4>1
    <3>3. getNode(nds, NodeAt(l, k)) = Part(c, l, k)
      BY DEF Shown
    <3>4. c2 \in Contents(X) /\ Part(c2, l, k) = Part(c, l, k)
      BY <3>2, OtherParts DEF c2
    <3> QED
      BY <3>1, <3>3, <3>4
  <2> QED
    BY <2>2, <2>3
<1> QED
  BY <1>8 DEF ShownBut, g, c2

\* update() leaves the nodes of the tree over the changed leaves.
LEMMA UpdatedShown ==
  ASSUME NEW X, zeroValue \in X, NEW nds \in NodeMaps(X), NEW c \in Contents(X), Shown(nds, c),
         NEW n \in LeafIndices, NEW x \in X, NEW value \in Seq(X), Writes(value, x)
  PROVE  /\ UpdatedNodes(nds, n, value) \in NodeMaps(X)
         /\ WithLeaf(c, n, x) \in Contents(X)
         /\ Shown(UpdatedNodes(nds, n, value), WithLeaf(c, n, x))
         /\ UpdatedNodes(nds, n, value)[numNodes - 1] = WithLeaf(c, n, x)
<1> DEFINE c2 == WithLeaf(c, n, x)
           after == Rehashed(nds, n, value)
           S == {l \in 0..depth : ShownBut(after[l], c2, n, l)}
<1>1. /\ depth \in Nat /\ depth >= 1 /\ 0 \in 0..depth /\ 0 \in Nat /\ depth \in 0..depth
      /\ depth - 1 \in 0..(depth - 1) /\ depth - 1 \in 0..depth /\ (depth - 1) + 1 = depth
      /\ \A l \in 0..(depth - 1) : l \in 0..depth /\ l + 1 \in 0..depth
  BY QuinTreeConstants
<1>2. c2 \in Contents(X)
  <2>1. c \in Seq(X) /\ Len(c) = capacity
    BY DEF Contents
  <2>2. capacity \in Nat
    BY <2>1, LenProperties
  <2>3. c \in [1..capacity -> X]
    BY <2>1, LenProperties, ElementOfSeq
  <2>4. c2 \in [1..capacity -> X]
    BY <2>3 DEF WithLeaf
  <2> QED
    BY <2>2, <2>4 DEF Contents
<1>3. /\ after \in [0..depth -> NodeMaps(X)]
      /\ after[0] = [nds EXCEPT ![n] = value]
      /\ \A l \in 0..(depth - 1) :
           after[l + 1] = Rehash(after[l], n, l + 1)
      /\ UpdatedNodes(nds, n, value) = after[depth]
  BY RehashedDef
<1>leaf. ShownBut([nds EXCEPT ![n] = value], c2, n, 0)
  BY LeafWritten
<1> HIDE DEF after, c2
<1>4. 0 \in S
  BY <1>leaf, <1>1, <1>3
<1>5. ASSUME NEW l \in 0..(depth - 1), l \in S
      PROVE  l + 1 \in S /\ after[l + 1][Above(n, l + 1)] = Part(c2, l + 1, n \div Width(l + 1))
  <2>1. after[l] \in NodeMaps(X) /\ ShownBut(after[l], c2, n, l)
    BY <1>1, <1>3, <1>5
  <2>2. after[l + 1] = Rehash(after[l], n, l + 1)
    BY <1>3
  <2>3. /\ ShownBut(after[l + 1], c2, n, l + 1)
        /\ after[l + 1][Above(n, l + 1)] = Part(c2, l + 1, n \div Width(l + 1))
    BY <1>2, <2>1, <2>2, LevelRehashed
  <2> QED
    BY <1>1, <2>3
<1> HIDE DEF S
<1>6. 0..depth \subseteq S
  BY <1>1, <1>4, <1>5, RangeInduction
<1>7. Shown(after[depth], c2)
  <2>1. ShownBut(after[depth], c2, n, depth)
    BY <1>1, <1>6 DEF S
  <2>2. \A l \in 0..depth : l <= depth
    BY <1>1
  <2> QED
    BY <2>1, <2>2 DEF Shown, ShownBut
<1>8. after[depth][numNodes - 1] = c2
  <2>1. after[depth][Above(n, depth)] = Part(c2, depth, n \div Width(depth))
    BY <1>1, <1>5, <1>6
  <2>2. n \div Width(depth) = 0
    BY PathFacts
  <2>3. Above(n, depth) = numNodes - 1
    BY <1>1, <2>2, RootNode, LevelStartDef DEF Above, NodeAt
  <2> QED
    BY <1>2, <2>1, <2>2, <2>3, WholePart
<1> QED
  BY <1>1, <1>2, <1>3, <1>7, <1>8 DEF c2

\* A new tree holds the zeros.
LEMMA NewShown ==
  ASSUME NEW X, zeroValue \in X, NEW nds,
         nds = [n \in NodeIndices |-> IF n = numNodes - 1 THEN zeros(depth) ELSE NoNode]
  PROVE  nds \in NodeMaps(X) /\ zeros(depth) \in Contents(X) /\ Shown(nds, zeros(depth))
<1> DEFINE z == zeros(depth)
<1>1. depth \in Nat /\ depth \in 0..depth
  BY QuinTreeConstants
<1>2. z \in Seq(X) /\ z = [i \in 1..capacity |-> zeroValue] /\ Len(z) = capacity
  <2>1. capacity \in Nat
    BY <1>1, WidthFacts DEF capacity, Width
  <2>2. z = [i \in 1..capacity |-> zeroValue]
    BY DEF zeros, capacity
  <2> HIDE DEF z
  <2> QED
    BY <2>1, <2>2
<1>3. z \in Contents(X)
  BY <1>2 DEF Contents
<1>4. \A i \in 1..capacity : z[i] = zeroValue
  BY <1>2
<1> HIDE DEF z
<1>5. nds \in NodeMaps(X)
  <2>1. NoNode \in Seq(X)
    BY DEF NoNode
  <2> QED
    BY <1>2, <2>1 DEF NodeMaps, z
<1>6. ASSUME NEW l \in 0..depth, NEW k \in Across(l)
      PROVE  getNode(nds, NodeAt(l, k)) = Part(z, l, k)
  <2> DEFINE w == Width(l)
             p == Part(z, l, k)
  <2>1. /\ p \in Seq(X) /\ Len(p) = w /\ \A i \in 1..w : p[i] = z[k * w + i]
        /\ k * w \in Nat /\ k * w + w <= capacity
    BY <1>3, PartFacts
  <2>2. w \in Nat /\ capacity \in Nat
    BY <1>1, WidthFacts DEF capacity, Width
  <2>3. /\ zeros(l) \in Seq(X) /\ Len(zeros(l)) = w /\ \A i \in 1..w : zeros(l)[i] = zeroValue
        /\ getNode(nds, NodeAt(l, k)) =
             IF nds[NodeAt(l, k)] # NoNode THEN nds[NodeAt(l, k)] ELSE zeros(l)
    BY <1>5, NodeTyped
  <2>4. \A i \in 1..w : p[i] = zeroValue
    <3> DEFINE a == k * w
    <3> HIDE DEF a, w, p
    <3>1. \A i \in 1..w : a + i \in 1..capacity
      BY <2>1, <2>2 DEF a
    <3>2. \A i \in 1..w : p[i] = z[a + i]
      BY <2>1 DEF a
    <3> QED
      BY <1>4, <3>1, <3>2
  <2>5. p = zeros(l)
    <3> DEFINE u == zeros(l)
    <3>1. u \in Seq(X) /\ Len(u) = w /\ \A i \in 1..w : u[i] = p[i]
      BY <2>3, <2>4
    <3> HIDE DEF u, p, w
    <3>2. u = p
      BY <2>1, <3>1, SeqEqual
    <3> QED
      BY <3>2 DEF u
  <2>6. nds[NodeAt(l, k)] # NoNode => nds[NodeAt(l, k)] = zeros(l)
    <3>1. SUFFICES ASSUME nds[NodeAt(l, k)] # NoNode PROVE nds[NodeAt(l, k)] = zeros(l)
      OBVIOUS
    <3>2. NodeAt(l, k) \in NodeIndices /\ LevelOf(NodeAt(l, k)) = l
      BY NodeFacts
    <3>3. NodeAt(l, k) = numNodes - 1
      BY <3>1, <3>2
    <3>4. numNodes - 1 = NodeAt(depth, 0) /\ 0 \in Across(depth)
      <4>1. depth - depth = 0
        BY <1>1
      <4> QED
        BY <1>1, <4>1, RootNode, LevelStartDef, WidthFacts DEF NodeAt, Across
    <3>5. l = depth
      BY <1>1, <3>3, <3>4, NodesApart
    <3> QED
      BY <3>2, <3>3, <3>5
  <2> QED
    BY <2>3, <2>5, <2>6
<1> QED
  BY <1>3, <1>5, <1>6 DEF Shown, z

\* The siblings on the way from a leaf are the children of the node above.
LEMMA Siblings ==
  ASSUME NEW n \in LeafIndices, NEW l \in 0..(depth - 1)
  PROVE  /\ \A j \in Children :
              /\ PathNode(n, l) + j = NodeAt(l, (n \div Width(l + 1)) * arity + j)
              /\ (n \div Width(l + 1)) * arity + j \in Across(l)
         /\ (n \div Width(l)) % arity \in Children
         /\ n \div Width(l) = (n \div Width(l + 1)) * arity + ((n \div Width(l)) % arity)
<1> DEFINE v == n \div Width(l)
           q == n \div Width(l + 1)
           r == v % arity
<1>1. /\ depth \in Nat /\ arity \in Nat /\ arity \in Nat \ {0} /\ l \in 0..depth /\ l + 1 \in 0..depth
      /\ depth - l \in 0..(depth + 1)
  BY QuinTreeConstants
<1>2. v \in Across(l) /\ q \in Across(l + 1) /\ q = v \div arity
  BY <1>1, PathFacts
<1>3. v \in Nat
  BY <1>1, <1>2, WidthFacts DEF Across
<1>4. LevelStart[l] \in Nat
  BY <1>1, LevelStartDef
<1> DEFINE start == LevelStart[l]
<1>5. \A j \in Children : q * arity + j \in Across(l)
  BY <1>2, ChildNodes
<1>6. PathNode(n, l) = (v - r) + start
  BY DEF PathNode, PathNodeFlat, Width
<1> HIDE DEF v
<1>7. q \in Nat /\ r \in 0..(arity - 1) /\ v = q * arity + r
  BY <1>1, <1>2, <1>3, QuotientOf
<1>8. q * arity \in Nat
  BY <1>1, <1>7
<1> HIDE DEF q, r, start
<1>9. ASSUME NEW j \in Children PROVE PathNode(n, l) + j = NodeAt(l, q * arity + j)
  <2> DEFINE b == q * arity
  <2> HIDE DEF b
  <2>1. b \in Nat /\ v = b + r /\ j \in Nat /\ start \in Nat /\ r \in Nat
    BY <1>1, <1>4, <1>7, <1>8 DEF b, Children, start
  <2>2. ((v - r) + start) + j = start + (b + j)
    BY <2>1
  <2> QED
    BY <1>6, <2>2 DEF b, NodeAt, start
<1> QED
  BY <1>5, <1>7, <1>9 DEF v, q, r, Children

\* A proof for the leaves under the node of a level above a leaf.
PathProof(p, nds, c, n, s) ==
  /\ DOMAIN p.pathElements = s..(depth - 1)
  /\ \A l \in s..(depth - 1) :
       /\ p.pathIndices[l] = (n \div Width(l)) % arity
       /\ \A j \in Children : j # p.pathIndices[l] =>
            p.pathElements[l][j] = getNode(nds, PathNode(n, l) + j)
  /\ p.leaf = Part(c, s, n \div Width(s))
  /\ p.root = c

\* verifyProof's node above a level's elements, with a node among them.
Spliced(p, l, node) ==
  FlattenSeq([j \in 1..arity |->
    IF j - 1 = p.pathIndices[l] THEN node ELSE p.pathElements[l][j - 1]])

\* The nodes that verifyProof computes.
Ascent(p) ==
  LET levels == DOMAIN p.pathElements
      up[i \in levels] ==
        LET node == IF i - 1 \in levels THEN up[i - 1] ELSE p.leaf
        IN  FlattenSeq([j \in 1..arity |->
              IF j - 1 = p.pathIndices[i] THEN node ELSE p.pathElements[i][j - 1]])
  IN  up

\* Spliced into its siblings a node gives the node above it.
LEMMA SplicedNode ==
  ASSUME NEW X, zeroValue \in X, NEW nds \in NodeMaps(X), NEW c \in Contents(X), Shown(nds, c),
         NEW n \in LeafIndices, NEW s \in 0..(depth - 1), NEW p, PathProof(p, nds, c, n, s),
         NEW l \in s..(depth - 1)
  PROVE  /\ \A node \in Seq(X) : Spliced(p, l, node) \in Seq(X)
         /\ Spliced(p, l, Part(c, l, n \div Width(l))) = Part(c, l + 1, n \div Width(l + 1))
<1> DEFINE q == n \div Width(l + 1)
           r == (n \div Width(l)) % arity
           S(node) == [j \in 1..arity |->
                         IF j - 1 = p.pathIndices[l] THEN node ELSE p.pathElements[l][j - 1]]
<1>1. /\ depth \in Nat /\ arity \in Nat /\ l \in 0..(depth - 1) /\ l \in 0..depth /\ l + 1 \in 0..depth
      /\ \A j \in 1..arity : j - 1 \in Children
  BY QuinTreeConstants DEF Children
<1>2. /\ \A j \in Children : /\ PathNode(n, l) + j = NodeAt(l, q * arity + j)
                             /\ q * arity + j \in Across(l)
      /\ r \in Children /\ n \div Width(l) = q * arity + r
  BY <1>1, Siblings
<1>3. q \in Across(l + 1)
  BY <1>1, PathFacts
<1>4. /\ p.pathIndices[l] = r
      /\ \A j \in Children : j # r => p.pathElements[l][j] = getNode(nds, PathNode(n, l) + j)
  BY DEF PathProof
<1>5. \A j \in Children : j # r => p.pathElements[l][j] = Part(c, l, q * arity + j)
  BY <1>1, <1>2, <1>4 DEF Shown
<1>6. \A j \in Children : Part(c, l, q * arity + j) \in Seq(X)
  BY <1>1, <1>2, PartFacts
<1> HIDE DEF q, r
<1>7. ASSUME NEW node \in Seq(X)
      PROVE  /\ S(node) \in Seq(Seq(X)) /\ Len(S(node)) = arity
             /\ \A j \in 1..arity : S(node)[j] = IF j - 1 = r THEN node ELSE Part(c, l, q * arity + (j - 1))
  <2>1. \A j \in 1..arity : S(node)[j] = IF j - 1 = r THEN node ELSE Part(c, l, q * arity + (j - 1))
    BY <1>1, <1>4, <1>5
  <2>2. \A j \in 1..arity : S(node)[j] \in Seq(X)
    BY <1>1, <1>6, <2>1
  <2>3. S(node) = [j \in 1..arity |-> S(node)[j]]
    OBVIOUS
  <2> DEFINE t == S(node)
  <2>4. \A j \in 1..arity : t[j] \in Seq(X)
    BY <2>2
  <2>5. t = [j \in 1..arity |-> t[j]]
    BY <2>3
  <2>6. t \in Seq(Seq(X)) /\ Len(t) = arity
    <3>1. t \in [1..arity -> Seq(X)]
      BY <2>4, <2>5
    <3> HIDE DEF t
    <3> QED
      BY <1>1, <3>1
  <2> QED
    BY <2>1, <2>6 DEF t
<1>8. \A node \in Seq(X) : Spliced(p, l, node) = FlattenSeq(S(node))
  BY DEF Spliced
<1> HIDE DEF S
<1>9. \A node \in Seq(X) : Spliced(p, l, node) \in Seq(X)
  BY <1>7, <1>8, FlattenTyped
<1> DEFINE node == Part(c, l, n \div Width(l))
           t == S(node)
<1>10. node \in Seq(X)
  BY <1>2, <1>6
<1>11. t \in Seq(Seq(X)) /\ Len(t) = arity /\ \A j \in 1..arity : t[j] = Part(c, l, q * arity + (j - 1))
  <2>1. \A j \in 1..arity : j - 1 = r => node = Part(c, l, q * arity + (j - 1))
    BY <1>2
  <2> HIDE DEF node
  <2> QED
    BY <1>7, <1>10, <2>1
<1> HIDE DEF t
<1>12. FlattenSeq(t) = Part(c, l + 1, q)
  BY <1>1, <1>3, <1>11, PartsJoin
<1> QED
  BY <1>8, <1>9, <1>10, <1>12 DEF t, q

\* The recursion in verifyProof defines a function.
LEMMA AscentDef ==
  ASSUME NEW X, zeroValue \in X, NEW nds \in NodeMaps(X), NEW c \in Contents(X), Shown(nds, c),
         NEW n \in LeafIndices, NEW s \in 0..(depth - 1), NEW p, PathProof(p, nds, c, n, s)
  PROVE  /\ Ascent(p)[s] = Spliced(p, s, p.leaf)
         /\ \A l \in s..(depth - 2) : Ascent(p)[l + 1] = Spliced(p, l + 1, Ascent(p)[l])
         /\ verifyProof(p) <=> Ascent(p)[depth - 1] = p.root
<1> DEFINE V == Seq(X)
           levels == DOMAIN p.pathElements
           first == Spliced(p, s, p.leaf)
           h(x, i) == Spliced(p, i, x)
           g == [i \in s..(depth - 1) |-> [x \in V |-> h(x, i)]]
           Def(f) == f = [i \in levels |-> h(IF i - 1 \in levels THEN f[i - 1] ELSE p.leaf, i)]
           up == Ascent(p)
<1>1. /\ depth \in Nat /\ depth >= 1 /\ s \in Nat /\ s \in 0..depth /\ depth - 1 \in Nat
      /\ s \in s..(depth - 1) /\ depth - 1 \in s..(depth - 1)
      /\ \A i \in s..(depth - 1) : i - 1 \in s..(depth - 1) <=> i # s
      /\ \A i \in s..(depth - 2) : i + 1 \in s..(depth - 1) /\ i + 1 # s /\ (i + 1) - 1 = i
  BY QuinTreeConstants
<1>2. levels = s..(depth - 1)
  BY DEF PathProof
<1>3. p.leaf \in V
  <2>1. n \div Width(s) \in Across(s)
    BY <1>1, PathFacts
  <2> QED
    BY <1>1, <2>1, PartFacts DEF PathProof
<1>4. \A i \in s..(depth - 1), x \in V : h(x, i) \in V
  BY SplicedNode
<1>5. verifyProof(p) <=> levels # {} /\ up[depth - 1] = p.root
  BY DEF verifyProof, Ascent
<1> HIDE DEF V, h, levels
<1>6. first \in V
  BY <1>1, <1>3, <1>4 DEF h
<1> HIDE DEF first
<1>7. g \in [s..(depth - 1) -> [V -> V]]
  BY <1>4
<1>8. PICK f \in [s..(depth - 1) -> V] :
        \A i \in s..(depth - 1) : f[i] = IF i = s THEN first ELSE g[i][f[i - 1]]
  <2> HIDE DEF g
  <2>1. HasRecursion(V, first, s, depth - 1, g)
    BY <1>1, <1>6, <1>7, RangeRecursion
  <2> QED
    BY <2>1 DEF HasRecursion
<1>9. Def(f)
  <2>1. ASSUME NEW i \in s..(depth - 1)
        PROVE  f[i] = h(IF i - 1 \in levels THEN f[i - 1] ELSE p.leaf, i)
    <3>1. CASE i = s
      <4>1. i - 1 \notin levels
        BY <1>1, <1>2, <3>1
      <4>2. f[i] = first
        BY <1>8, <3>1
      <4> QED
        BY <3>1, <4>1, <4>2 DEF first, h
    <3>2. CASE i # s
      <4>1. i - 1 \in levels /\ i - 1 \in s..(depth - 1)
        BY <1>1, <1>2, <3>2
      <4>2. f[i] = g[i][f[i - 1]] /\ f[i - 1] \in V
        BY <1>8, <3>2, <4>1
      <4> QED
        BY <4>1, <4>2
    <3> QED
      BY <3>1, <3>2
  <2> QED
    BY <1>2, <2>1
<1>10. Def(up)
  BY <1>9 DEF Ascent, h, Spliced, levels
<1>11. \A i \in s..(depth - 1) : up[i] = h(IF i - 1 \in levels THEN up[i - 1] ELSE p.leaf, i)
  <2> HIDE DEF up
  <2> QED
    BY <1>2, <1>10
<1> HIDE DEF up, Def, g
<1>12. up[s] = first
  BY <1>1, <1>2, <1>11 DEF first, h
<1>13. \A i \in s..(depth - 2) : up[i + 1] = h(up[i], i + 1)
  BY <1>1, <1>2, <1>11
<1>14. levels # {}
  BY <1>1, <1>2
<1> QED
  BY <1>5, <1>12, <1>13, <1>14 DEF up, first, h

\* A proof taken from the nodes of a tree verifies.
LEMMA PathVerifies ==
  ASSUME NEW X, zeroValue \in X, NEW nds \in NodeMaps(X), NEW c \in Contents(X), Shown(nds, c),
         NEW n \in LeafIndices, NEW s \in 0..(depth - 1), NEW p, PathProof(p, nds, c, n, s)
  PROVE  verifyProof(p)
<1> DEFINE S == {l \in s..(depth - 1) : Ascent(p)[l] = Part(c, l + 1, n \div Width(l + 1))}
<1>1. /\ depth \in Nat /\ depth >= 1 /\ s \in Nat /\ s \in s..(depth - 1) /\ depth - 1 \in s..(depth - 1)
      /\ (depth - 1) + 1 = depth /\ depth - 1 \in Nat
      /\ \A i \in s..((depth - 1) - 1) : i + 1 \in s..(depth - 1) /\ i \in s..(depth - 2)
  BY QuinTreeConstants
<1>2. /\ Ascent(p)[s] = Spliced(p, s, p.leaf)
      /\ \A l \in s..(depth - 2) : Ascent(p)[l + 1] = Spliced(p, l + 1, Ascent(p)[l])
      /\ verifyProof(p) <=> Ascent(p)[depth - 1] = p.root
  BY AscentDef
<1>3. \A l \in s..(depth - 1) :
        Spliced(p, l, Part(c, l, n \div Width(l))) = Part(c, l + 1, n \div Width(l + 1))
  BY SplicedNode
<1>4. p.leaf = Part(c, s, n \div Width(s)) /\ p.root = c
  BY DEF PathProof
<1>5. s \in S
  BY <1>1, <1>2, <1>3, <1>4
<1>6. ASSUME NEW l \in s..((depth - 1) - 1), l \in S PROVE l + 1 \in S
  <2>1. Ascent(p)[l + 1] = Spliced(p, l + 1, Ascent(p)[l])
    BY <1>1, <1>2
  <2> QED
    BY <1>1, <1>3, <1>6, <2>1
<1> HIDE DEF S
<1>7. s..(depth - 1) \subseteq S
  BY <1>1, <1>5, <1>6, RangeInduction
<1>8. Ascent(p)[depth - 1] = Part(c, depth, n \div Width(depth))
  BY <1>1, <1>7 DEF S
<1>9. Part(c, depth, n \div Width(depth)) = c
  BY PathFacts, WholePart
<1> QED
  BY <1>2, <1>4, <1>8, <1>9

\* The part of one leaf.
LEMMA LeafPart ==
  ASSUME NEW X, NEW c \in Contents(X), NEW n \in LeafIndices
  PROVE  /\ Part(c, 0, n) = <<c[n + 1]>> /\ Part(c, 0, n) = Run(c, n, n + 1)
         /\ 0 \in 0..depth /\ n \in Across(0) /\ NodeAt(0, n) = n /\ n \in Nat
<1>1. /\ 0 \in 0..depth /\ n \in Nat /\ n \div Width(0) = n /\ Width(0) = 1 /\ n \in Across(0)
  BY QuinTreeConstants, WidthFacts, PathFacts
<1>2. NodeAt(0, n) = n
  BY <1>1, LevelStartDef DEF NodeAt
<1> DEFINE p == Part(c, 0, n)
<1>3. /\ p \in Seq(X) /\ Len(p) = 1 /\ \A i \in 1..1 : p[i] = c[n * 1 + i]
  <2>1. /\ Part(c, 0, n) \in Seq(X) /\ Len(Part(c, 0, n)) = Width(0)
        /\ \A i \in 1..Width(0) : Part(c, 0, n)[i] = c[n * Width(0) + i]
    BY <1>1, PartFacts
  <2> QED
    BY <1>1, <2>1
<1>4. n * 1 + 1 = n + 1 /\ n * 1 = n /\ (n + 1) * 1 = n + 1 /\ 1 \in 1..1
  BY <1>1
<1>5. p = Run(c, n, n + 1)
  BY <1>1, <1>4 DEF Part
<1> HIDE DEF p
<1>6. p[1] = c[n + 1]
  BY <1>3, <1>4
<1>7. p = <<c[n + 1]>>
  BY <1>3, <1>6
<1> QED
  BY <1>1, <1>2, <1>5, <1>7 DEF p

\* genProof proves the leaf.
LEMMA LeafProofVerifies ==
  ASSUME NEW X, zeroValue \in X, NEW nds \in NodeMaps(X), NEW c \in Contents(X), Shown(nds, c),
         NEW n \in LeafIndices
  PROVE  verifyProof(genProof(nds, c, n)) /\ genProof(nds, c, n).leaf = <<c[n + 1]>>
<1> DEFINE p == genProof(nds, c, n)
<1>1. /\ depth \in Nat /\ depth >= 1 /\ 0 \in 0..(depth - 1)
      /\ n \div Width(0) = n
  BY QuinTreeConstants, PathFacts
<1>2. p.leaf = Part(c, 0, n) /\ Part(c, 0, n) = <<c[n + 1]>>
  <2>1. p.leaf = getNode(nds, n)
    BY DEF genProof
  <2> QED
    BY <2>1, LeafPart DEF Shown
<1>3. \A l \in 0..(depth - 1) : calcLeafIndices(n)[l] = (n \div Width(l)) % arity
  BY DEF calcLeafIndices, Width
<1>4. /\ p.root = c /\ DOMAIN p.pathElements = 0..(depth - 1)
      /\ \A l \in 0..(depth - 1) :
           /\ p.pathIndices[l] = calcLeafIndices(n)[l]
           /\ p.pathElements[l] = [j \in Children \ {calcLeafIndices(n)[l]} |-> getNode(nds, PathNode(n, l) + j)]
  BY DEF genProof
<1>5. PathProof(p, nds, c, n, 0)
  <2> HIDE DEF p
  <2> QED
    BY <1>1, <1>2, <1>3, <1>4 DEF PathProof
<1> HIDE DEF p
<1>6. verifyProof(p)
  BY <1>1, <1>5, PathVerifies
<1> QED
  BY <1>2, <1>6 DEF p

\* A subtree of as many leaves as a node of a level has under it.
LEMMA SubDepthOf ==
  ASSUME NEW s \in 1..(depth - 1)
  PROVE  SubDepth(Width(s)) = s
<1> DEFINE T == {t \in 0..depth : t = depth \/ Width(s) = arity ^ t}
<1>1. depth \in Nat /\ s \in 0..depth /\ s \in 0..(depth + 1) /\ s \in Nat
  BY QuinTreeConstants
<1>2. s \in T
  BY <1>1 DEF Width
<1>3. ASSUME NEW t \in T PROVE s <= t
  <2>1. SUFFICES ASSUME t < s PROVE FALSE
    BY <1>1
  <2>2. t \in 0..(depth + 1) /\ s \in (t + 1)..(depth + 1) /\ t # depth
    BY <1>1, <2>1
  <2>3. Width(t) < Width(s) /\ Width(t) \in Nat /\ Width(s) \in Nat
    BY <1>1, <2>2, WidthGrows, WidthFacts
  <2>4. Width(s) = Width(t)
    BY <2>2 DEF Width
  <2> QED
    BY <2>3, <2>4
<1>4. Min(T) = s
  <2>1. T \subseteq Nat
    OBVIOUS
  <2> HIDE DEF T
  <2> DEFINE m == Min(T)
  <2>2. m \in T /\ m <= s
    BY <1>2, <2>1, MinOfNaturals
  <2>3. s <= m /\ m \in Nat
    BY <1>3, <2>1, <2>2
  <2> HIDE DEF m
  <2>4. m = s
    BY <1>1, <2>2, <2>3
  <2> QED
    BY <2>4 DEF m
<1> QED
  BY <1>4 DEF SubDepth

\* The leaves of a subtree, read one by one.
LeavesFrom(nds, a, w) == FlattenSeq([i \in 1..w |-> getNode(nds, a + i - 1)])

LEMMA LeavesRead ==
  ASSUME NEW X, NEW nds, NEW c \in Contents(X), Shown(nds, c),
         NEW a \in Nat, NEW w \in Nat \ {0}, a + w <= capacity
  PROVE  LeavesFrom(nds, a, w) = Run(c, a, a + w)
<1> DEFINE t == [i \in 1..w |-> getNode(nds, a + i - 1)]
           at == [j \in 0..w |-> a + j]
<1>1. c \in Seq(X) /\ Len(c) = capacity /\ capacity \in Nat
  BY LenProperties DEF Contents
<1>2. ASSUME NEW i \in 1..w
      PROVE  t[i] = Run(c, a + (i - 1), a + i) /\ t[i] \in Seq(X)
  <2> DEFINE n == a + i - 1
  <2>1. n \in LeafIndices /\ n + 1 = a + i /\ n = a + (i - 1)
    BY <1>1 DEF LeafIndices
  <2>2. t[i] = getNode(nds, n)
    OBVIOUS
  <2> HIDE DEF n, t
  <2>3. getNode(nds, n) = Part(c, 0, n) /\ Part(c, 0, n) = Run(c, n, n + 1)
    BY <2>1, LeafPart DEF Shown
  <2>4. Part(c, 0, n) \in Seq(X)
    BY <2>1, LeafPart, PartFacts
  <2> QED
    BY <2>1, <2>2, <2>3, <2>4
<1>3. t \in Seq(Seq(X)) /\ Len(t) = w
  <2>1. t = [i \in 1..w |-> t[i]]
    OBVIOUS
  <2> HIDE DEF t
  <2>2. t \in [1..w -> Seq(X)]
    BY <1>2, <2>1
  <2> QED
    BY <2>2
<1>4. at \in [0..w -> 0..Len(c)]
  BY <1>1
<1>5. /\ \A j \in 1..w : at[0] <= at[j - 1] /\ at[j - 1] <= at[j] /\ at[j - 1] = a + (j - 1) /\ at[j] = a + j
      /\ at[0] = a /\ at[w] = a + w
  OBVIOUS
<1> HIDE DEF t, at
<1>6. \A j \in 1..w : t[j] = Run(c, at[j - 1], at[j])
  BY <1>2, <1>5
<1>7. FlattenSeq(t) = Run(c, at[0], at[w])
  <2>1. RunOn(X, c, w, at, t)
    BY <1>1, <1>3, <1>4, <1>5, <1>6 DEF RunOn
  <2> QED
    BY <2>1, FlattenRuns
<1> QED
  BY <1>5, <1>7 DEF t, LeavesFrom

\* genSubrootProof proves the leaves of a subtree.
LEMMA SubrootProofVerifies ==
  ASSUME NEW X, zeroValue \in X, NEW nds \in NodeMaps(X), NEW c \in Contents(X), Shown(nds, c),
         NEW s \in 1..(depth - 1), NEW k \in Across(s),
         NEW a, a = k * Width(s)
  PROVE  /\ CanGenSubrootProof(a, a + Width(s))
         /\ verifyProof(genSubrootProof(nds, c, a, a + Width(s)))
         /\ genSubrootProof(nds, c, a, a + Width(s)).leaf = SubSeq(c, a + 1, a + Width(s))
<1> DEFINE w == Width(s)
           p == genSubrootProof(nds, c, a, a + w)
<1>1. /\ depth \in Nat /\ depth >= 1 /\ arity \in Nat /\ arity >= 2 /\ arity \in Nat \ {0}
      /\ s \in 0..(depth - 1) /\ s \in 0..depth /\ s \in 0..(depth + 1) /\ s - 1 \in 0..depth
      /\ s - 1 \in 0..(depth + 1) /\ (s - 1) + 1 = s /\ depth \in (s + 1)..(depth + 1)
  BY QuinTreeConstants
<1>2. w \in Nat \ {0} /\ w < capacity /\ capacity \in Nat /\ w = arity * Width(s - 1) /\ Width(s - 1) \in Nat
  <2>1. w \in Nat /\ w >= 1 /\ Width(s - 1) \in Nat
    BY <1>1, WidthFacts
  <2>2. Width((s - 1) + 1) = arity * Width(s - 1)
    BY <1>1, WidthFacts
  <2>3. Width(s) < Width(depth) /\ Width(depth) = capacity
    BY <1>1, WidthGrows DEF capacity, Width
  <2>4. capacity \in Nat
    BY <1>1, WidthFacts DEF capacity, Width
  <2> QED
    BY <1>1, <2>1, <2>2, <2>3, <2>4
<1>3. a \in Nat /\ a + w <= capacity /\ Part(c, s, k) = Run(c, a, a + w) /\ Part(c, s, k) \in Seq(X)
      /\ Len(Part(c, s, k)) = w /\ k \in Nat
  <2>1. k \in Nat
    BY <1>1, WidthFacts DEF Across
  <2>2. /\ Part(c, s, k) \in Seq(X) /\ Len(Part(c, s, k)) = w
        /\ a \in Nat /\ a + w <= capacity
    BY <1>1, PartFacts
  <2>3. (k + 1) * w = k * w + w
    BY <1>2, <2>1
  <2>4. Part(c, s, k) = Run(c, a, a + w)
    BY <2>3 DEF Part
  <2> QED
    BY <2>1, <2>2, <2>4
<1>4. a \in LeafIndices /\ a \div w = k
  <2>1. a \in LeafIndices
    BY <1>2, <1>3 DEF LeafIndices
  <2>2. a = k * w + 0 /\ 0 \in 0..(w - 1)
    BY <1>2, <1>3
  <2> HIDE DEF w
  <2>3. a \div w = k
    BY <1>2, <1>3, <2>2, QuotientIs
  <2> QED
    BY <2>1, <2>3
<1>5. CanGenSubrootProof(a, a + w)
  <2>1. (a + w) - a = w
    BY <1>2, <1>3
  <2>2. w % arity = 0
    <3> DEFINE v == Width(s - 1)
    <3> HIDE DEF w, v
    <3>1. w = v * arity + 0 /\ 0 \in 0..(arity - 1) /\ v \in Nat /\ w \in Nat
      BY <1>1, <1>2 DEF v
    <3> QED
      BY <1>1, <3>1, QuotientIs
  <2> HIDE DEF w
  <2> QED
    BY <1>2, <1>3, <2>1, <2>2 DEF CanGenSubrootProof
<1> DEFINE inserted == FlattenSeq([i \in 1..((a + w) - a) |-> getNode(nds, a + i - 1)])
           full == genProof(nds, c, a)
<1>6. (a + w) - a = w /\ SubDepth((a + w) - a) = s
  <2>1. (a + w) - a = w
    BY <1>2, <1>3
  <2> QED
    BY <2>1, SubDepthOf
<1>7. inserted = Part(c, s, k)
  <2> HIDE DEF w
  <2>1. LeavesFrom(nds, a, w) = Run(c, a, a + w)
    BY <1>2, <1>3, LeavesRead
  <2>2. inserted = LeavesFrom(nds, a, (a + w) - a)
    BY DEF LeavesFrom
  <2> HIDE DEF inserted
  <2> QED
    BY <1>3, <1>6, <2>1, <2>2
<1>8. /\ p.leaf = inserted \o [i \in 1..(arity ^ s - Len(inserted)) |-> zeroValue]
      /\ p.root = c
      /\ p.pathElements = [i \in s..(depth - 1) |-> full.pathElements[i]]
      /\ p.pathIndices = [i \in s..(depth - 1) |-> full.pathIndices[i]]
  <2>1. full.root = c
    BY DEF genProof
  <2> QED
    BY <1>6, <2>1 DEF genSubrootProof
<1>9. /\ \A l \in s..(depth - 1) :
           /\ full.pathIndices[l] = (a \div Width(l)) % arity
           /\ \A j \in Children : j # full.pathIndices[l] =>
                full.pathElements[l][j] = getNode(nds, PathNode(a, l) + j)
  <2>1. \A l \in s..(depth - 1) : l \in 0..(depth - 1)
    BY <1>1
  <2>2. \A l \in 0..(depth - 1) : calcLeafIndices(a)[l] = (a \div Width(l)) % arity
    BY DEF calcLeafIndices, Width
  <2>3. \A l \in 0..(depth - 1) :
           /\ full.pathIndices[l] = calcLeafIndices(a)[l]
           /\ full.pathElements[l] = [j \in Children \ {calcLeafIndices(a)[l]} |-> getNode(nds, PathNode(a, l) + j)]
    BY DEF genProof
  <2> HIDE DEF full
  <2> QED
    BY <2>1, <2>2, <2>3, ZenonT(30)
<1> HIDE DEF p, full
<1>10. p.leaf = Part(c, s, k)
  <2> DEFINE z == [i \in 1..(arity ^ s - Len(inserted)) |-> zeroValue]
  <2>1. arity ^ s - Len(inserted) = 0
    BY <1>2, <1>3, <1>7 DEF Width
  <2>2. z = << >>
    <3> DEFINE m == arity ^ s - Len(inserted)
    <3>1. m = 0 /\ z = [i \in 1..m |-> zeroValue]
      BY <2>1
    <3> HIDE DEF m, z
    <3>2. z \in Seq(X) /\ Len(z) = 0
      BY <3>1
    <3> QED
      BY <3>2, EmptySeq
  <2> HIDE DEF z
  <2>3. Part(c, s, k) \o << >> = Part(c, s, k)
    BY <1>3, ConcatEmptySeq
  <2> QED
    BY <1>7, <1>8, <2>2, <2>3 DEF z
<1>11. PathProof(p, nds, c, a, s)
  <2>1. DOMAIN p.pathElements = s..(depth - 1)
    BY <1>8
  <2>2. \A l \in s..(depth - 1) :
          p.pathElements[l] = full.pathElements[l] /\ p.pathIndices[l] = full.pathIndices[l]
    BY <1>8
  <2>3. p.leaf = Part(c, s, a \div Width(s)) /\ p.root = c
    BY <1>4, <1>8, <1>10
  <2>4. ASSUME NEW l \in s..(depth - 1)
        PROVE  /\ p.pathIndices[l] = (a \div Width(l)) % arity
               /\ \A j \in Children : j # p.pathIndices[l] =>
                    p.pathElements[l][j] = getNode(nds, PathNode(a, l) + j)
    BY <1>9, <2>2
  <2> QED
    BY <2>1, <2>3, <2>4 DEF PathProof
<1>12. verifyProof(p)
  BY <1>1, <1>4, <1>11, PathVerifies
<1> QED
  BY <1>3, <1>5, <1>10, <1>12 DEF p, Run

\* What a leaf can hold.
Values == Nat \cup {zeroValue}

\* The values the variables take.
TreeTypes ==
  /\ nodes \in NodeMaps(Values)
  /\ root \in [Handles -> Seq(Values)]
  /\ nextIndex \in [Handles -> 0..capacity]
  /\ copied \in BOOLEAN
  /\ content \in [Handles -> Contents(Values)]
  /\ writes \in Seq(Handles) /\ (~copied => writes = << >>)
  /\ updates \in Nat
  /\ spoilt \in BOOLEAN

\* Where no one else has written, the nodes are those of a handle's leaves.
NodesShown == \A h \in InUse : ~OtherWrote(h) /\ ~spoilt => Shown(nodes, content[h])

\* What every step of either handle keeps.
TreeInvariant == TreeTypes /\ NodesShown /\ RootOfLeaves

\* A tree and its copy are two handles.
LEMMA TheOther ==
  /\ \A h \in Handles : Other(h) \in Handles /\ Other(h) # h /\ \A g \in Handles : g # h => g = Other(h)
  /\ InUse \subseteq Handles /\ "tree" \in InUse
<1>1. ASSUME NEW h \in Handles
      PROVE  Other(h) \in Handles /\ Other(h) # h
  <2>1. \E g \in Handles : g # h
    BY DEF Handles
  <2> QED
    BY <2>1 DEF Other
<1>2. ASSUME NEW h \in Handles, NEW g \in Handles, g # h PROVE g = Other(h)
  BY <1>1, <1>2 DEF Handles
<1>3. InUse \subseteq Handles /\ "tree" \in InUse
  BY DEF InUse, Handles
<1> QED
  BY <1>1, <1>2, <1>3

\* Leaves with another one changed are leaves.
LEMMA WithLeafTyped ==
  ASSUME NEW X, NEW c \in Contents(X), NEW n, NEW x \in X
  PROVE  WithLeaf(c, n, x) \in Contents(X)
<1>1. c \in Seq(X) /\ Len(c) = capacity
  BY DEF Contents
<1>2. capacity \in Nat
  BY <1>1, LenProperties
<1>3. c \in [1..capacity -> X]
  BY <1>1, LenProperties, ElementOfSeq
<1>4. WithLeaf(c, n, x) \in [1..capacity -> X]
  BY <1>3 DEF WithLeaf
<1> QED
  BY <1>2, <1>4 DEF Contents

\* A handle has not written after the other where that one has not written.
LEMMA NotAfter ==
  ASSUME NEW h \in Handles, ~OtherWrote(h)
  PROVE  ~WroteAfterOther(h)
BY DEF OtherWrote, WroteAfterOther, ToSet

\* What has happened when a handle writes.
Wrote(h, n, x, value) ==
  /\ nodes' = UpdatedNodes(nodes, n, value)
  /\ root' = [root EXCEPT ![h] = UpdatedNodes(nodes, n, value)[numNodes - 1]]
  /\ content' = [content EXCEPT ![h] = WithLeaf(content[h], n, x)]
  /\ writes' = (IF copied THEN Append(writes, h) ELSE writes)
  /\ copied' = copied /\ spoilt' = spoilt

\* The writes since the copy, after one more.
LEMMA WritesAfter ==
  ASSUME TreeTypes, NEW h \in InUse, writes' = (IF copied THEN Append(writes, h) ELSE writes)
  PROVE  /\ writes' \in Seq(Handles) /\ (~copied => writes' = << >>)
         /\ ~WroteAfterOther(h)' => ~OtherWrote(h)
         /\ ~OtherWrote(h)' => ~OtherWrote(h)
         /\ \A g \in InUse : g # h =>
              OtherWrote(g)' /\ (~WroteAfterOther(g)' => ~WroteAfterOther(g))
<1>1. /\ h \in Handles /\ Other(h) # h /\ Other(h) \in Handles /\ InUse \subseteq Handles
      /\ \A g \in Handles : Other(g) \in Handles /\ Other(g) # g
      /\ \A g \in Handles : g # h => Other(g) = h
  BY TheOther
<1>2. writes \in Seq(Handles) /\ (~copied => writes = << >>) /\ copied \in BOOLEAN /\ Len(writes) \in Nat
  BY LenProperties DEF TreeTypes
<1> DEFINE w == Append(writes, h)
<1>3. /\ w \in Seq(Handles) /\ Len(w) = Len(writes) + 1 /\ w[Len(writes) + 1] = h
      /\ \A i \in 1..Len(writes) : w[i] = writes[i]
  BY <1>1, <1>2, AppendProperties
<1>4. DOMAIN writes = 1..Len(writes) /\ DOMAIN w = 1..(Len(writes) + 1)
  BY <1>2, <1>3, LenProperties
<1> HIDE DEF w
<1>5. CASE ~copied
  <2>1. writes' = writes /\ InUse = {"tree"} /\ \A g \in InUse : g = h
    BY <1>5 DEF InUse
  <2>2. \A g \in Handles : OtherWrote(g)' <=> OtherWrote(g)
    BY <2>1 DEF OtherWrote, ToSet
  <2>3. writes = << >>
    BY <1>2, <1>5
  <2>4. ~OtherWrote(h)
    <3>1. DOMAIN writes = {}
      BY <1>4, <2>3, EmptySeq
    <3> QED
      BY <3>1 DEF OtherWrote, ToSet
  <2> QED
    BY <1>2, <1>5, <2>1, <2>3, <2>4
<1>6. CASE copied
  <2>1. writes' = w
    BY <1>6 DEF w
  <2>2. ASSUME OtherWrote(h) PROVE WroteAfterOther(h)' /\ OtherWrote(h)'
    <3>1. PICK i \in 1..Len(writes) : writes[i] = Other(h)
      BY <1>4, <2>2 DEF OtherWrote, ToSet
    <3>2. i \in 1..(Len(writes) + 1) /\ Len(writes) + 1 \in 1..(Len(writes) + 1) /\ i < Len(writes) + 1
      BY <1>2
    <3>3. w[i] = Other(h)
      BY <1>3, <3>1
    <3> QED
      BY <1>3, <1>4, <2>1, <3>2, <3>3 DEF OtherWrote, WroteAfterOther, ToSet
  <2>3. ASSUME NEW g \in InUse, g # h
        PROVE  OtherWrote(g)' /\ (WroteAfterOther(g) => WroteAfterOther(g)')
    <3>1. g \in Handles /\ Other(g) = h
      BY <1>1, <2>3
    <3>2. Len(writes) + 1 \in 1..(Len(writes) + 1) /\ \A i \in 1..Len(writes) : i \in 1..(Len(writes) + 1)
      BY <1>2
    <3>3. OtherWrote(g)'
      BY <1>3, <1>4, <2>1, <3>1, <3>2 DEF OtherWrote, ToSet
    <3>4. ASSUME WroteAfterOther(g) PROVE WroteAfterOther(g)'
      <4>1. PICK i \in 1..Len(writes), j \in 1..Len(writes) :
              i < j /\ writes[i] = Other(g) /\ writes[j] = g
        BY <1>4, <3>4 DEF WroteAfterOther
      <4>2. w[i] = Other(g) /\ w[j] = g
        BY <1>3, <4>1
      <4> QED
        BY <1>4, <2>1, <3>2, <4>1, <4>2 DEF WroteAfterOther
    <3> QED
      BY <3>3, <3>4
  <2> QED
    BY <1>3, <1>6, <2>1, <2>2, <2>3
<1> QED
  BY <1>2, <1>5, <1>6

\* An update leaves nodes.
LEMMA UpdatedTyped ==
  ASSUME NEW X, zeroValue \in X, NEW nds \in NodeMaps(X), NEW n \in LeafIndices, NEW value \in Seq(X)
  PROVE  UpdatedNodes(nds, n, value) \in NodeMaps(X) /\ UpdatedNodes(nds, n, value)[numNodes - 1] \in Seq(X)
<1>1. depth \in 0..depth
  BY QuinTreeConstants
<1>2. /\ Rehashed(nds, n, value) \in [0..depth -> NodeMaps(X)]
      /\ Rehashed(nds, n, value)[0] = [nds EXCEPT ![n] = value]
      /\ \A l \in 0..(depth - 1) :
           Rehashed(nds, n, value)[l + 1] = Rehash(Rehashed(nds, n, value)[l], n, l + 1)
      /\ UpdatedNodes(nds, n, value) = Rehashed(nds, n, value)[depth]
  BY RehashedDef
<1>3. numNodes - 1 \in NodeIndices
  <2>1. numNodes = LevelStart[depth] + 1 /\ LevelStart[depth] \in Nat
    BY <1>1, RootNode, LevelStartDef
  <2> QED
    BY <2>1 DEF NodeIndices
<1>4. UpdatedNodes(nds, n, value) \in NodeMaps(X)
  BY <1>1, <1>2
<1> QED
  BY <1>3, <1>4 DEF NodeMaps

\* A write keeps the invariant.
LEMMA WroteKeeps ==
  ASSUME TreeInvariant, NEW h \in InUse, NEW n \in LeafIndices, NEW x \in Values,
         NEW value \in Seq(Values), Writes(value, x), Wrote(h, n, x, value),
         nextIndex' \in [Handles -> 0..capacity], updates' \in Nat
  PROVE  TreeInvariant'
<1> DEFINE c == content[h]
           c2 == WithLeaf(content[h], n, x)
           written == UpdatedNodes(nodes, n, value)
<1>1. TreeTypes /\ NodesShown /\ RootOfLeaves
  BY DEF TreeInvariant
<1>2. h \in Handles /\ InUse \subseteq Handles
  BY TheOther
<1>3. zeroValue \in Values /\ c \in Contents(Values) /\ nodes \in NodeMaps(Values)
  BY <1>1, <1>2 DEF Values, TreeTypes
<1>4. c2 \in Contents(Values)
  BY <1>3, WithLeafTyped
<1>5. written \in NodeMaps(Values) /\ written[numNodes - 1] \in Seq(Values)
  BY <1>3, UpdatedTyped
<1>6. Shown(nodes, c) => Shown(written, c2) /\ written[numNodes - 1] = c2
  <2> HIDE DEF c
  <2>1. ASSUME Shown(nodes, c)
        PROVE  /\ Shown(UpdatedNodes(nodes, n, value), WithLeaf(c, n, x))
               /\ UpdatedNodes(nodes, n, value)[numNodes - 1] = WithLeaf(c, n, x)
    BY <1>3, <2>1, UpdatedShown
  <2> QED
    BY <2>1 DEF c
<1>7. /\ nodes' = written /\ root' = [root EXCEPT ![h] = written[numNodes - 1]]
      /\ content' = [content EXCEPT ![h] = c2]
      /\ writes' = (IF copied THEN Append(writes, h) ELSE writes)
      /\ copied' = copied /\ spoilt' = spoilt
  BY DEF Wrote
<1> HIDE DEF c2, written
<1>8. /\ writes' \in Seq(Handles) /\ (~copied => writes' = << >>)
      /\ ~WroteAfterOther(h)' => ~OtherWrote(h)
      /\ ~OtherWrote(h)' => ~OtherWrote(h)
      /\ \A g \in InUse : g # h =>
           OtherWrote(g)' /\ (~WroteAfterOther(g)' => ~WroteAfterOther(g))
  BY <1>1, <1>7, WritesAfter
<1>9. TreeTypes'
  <2>1. root' \in [Handles -> Seq(Values)] /\ content' \in [Handles -> Contents(Values)]
    BY <1>1, <1>4, <1>5, <1>7 DEF TreeTypes
  <2> QED
    BY <1>1, <1>5, <1>7, <1>8, <2>1 DEF TreeTypes
<1>10. InUse' = InUse
  BY <1>7 DEF InUse
<1>11. /\ root'[h] = written[numNodes - 1] /\ content'[h] = c2
       /\ \A g \in InUse : g # h => root'[g] = root[g] /\ content'[g] = content[g]
  BY <1>1, <1>2, <1>7 DEF TreeTypes
<1>12. ~OtherWrote(h) /\ ~spoilt => Shown(written, c2) /\ written[numNodes - 1] = c2
  BY <1>1, <1>6 DEF NodesShown
<1>13. NodesShown'
  <2>1. ASSUME NEW g \in InUse, ~OtherWrote(g)', ~spoilt' PROVE Shown(nodes', content'[g])
    <3>1. g = h
      BY <1>8, <2>1
    <3> QED
      BY <1>7, <1>8, <1>11, <1>12, <2>1, <3>1
  <2>2. \A g \in InUse' : ~OtherWrote(g)' /\ ~spoilt' => Shown(nodes', content'[g])
    BY <1>10, <2>1
  <2> QED
    BY <2>2 DEF NodesShown, Shown, getNode
<1>14. RootOfLeaves'
  <2>1. ASSUME NEW g \in InUse, ~WroteAfterOther(g)', ~spoilt' PROVE root'[g] = content'[g]
    <3>1. CASE g = h
      BY <1>7, <1>8, <1>11, <1>12, <2>1, <3>1
    <3>2. CASE g # h
      BY <1>1, <1>7, <1>8, <1>11, <2>1, <3>2 DEF RootOfLeaves
    <3> QED
      BY <3>1, <3>2
  <2>2. \A g \in InUse' : ~WroteAfterOther(g)' /\ ~spoilt' => root'[g] = content'[g]
    BY <1>10, <2>1
  <2> QED
    BY <2>2 DEF RootOfLeaves
<1> QED
  BY <1>9, <1>13, <1>14 DEF TreeInvariant

\* The value written is a number.
LEMMA NextValueTyped ==
  ASSUME TreeTypes
  PROVE  \E x \in Nat : NextValue = <<x>>
<1>1. nextIndex["tree"] \in Nat /\ nextIndex["copy"] \in Nat /\ updates \in Nat /\ copied \in BOOLEAN
  <2>1. capacity \in Nat
    BY QuinTreeConstants, WidthFacts DEF capacity, Width
  <2> QED
    BY <2>1 DEF TreeTypes, Handles
<1> DEFINE x == 1 + nextIndex["tree"] + (IF copied THEN nextIndex["copy"] ELSE 0) + updates
<1>2. x \in Nat
  BY <1>1
<1>3. NextValue = <<x>>
  BY DEF NextValue
<1> HIDE DEF x
<1> QED
  BY <1>2, <1>3

\* Write is the write of a leaf.
LEMMA WriteWrote ==
  ASSUME TreeTypes, NEW h \in InUse, NEW n \in LeafIndices,
         NEW value, value \in {NextValue, NoNode}, Write(h, n, value)
  PROVE  \E x \in Values : value \in Seq(Values) /\ Writes(value, x) /\ Wrote(h, n, x, value)
<1>1. PICK y \in Nat : NextValue = <<y>>
  BY NextValueTyped
<1> DEFINE x == IF value = NoNode THEN zeroValue ELSE value[1]
<1>2. x \in Values /\ value \in Seq(Values) /\ Writes(value, x)
  <2>1. CASE value = NoNode
    BY <2>1 DEF Values, Writes, NoNode
  <2>2. CASE value = <<y>> /\ value # NoNode
    BY <2>2 DEF Values, Writes
  <2> QED
    BY <1>1, <2>1, <2>2
<1>3. DOMAIN content = Handles /\ h \in Handles
  BY TheOther DEF TreeTypes
<1>4. /\ nodes' = UpdatedNodes(nodes, n, value)
      /\ root' = [root EXCEPT ![h] = UpdatedNodes(nodes, n, value)[numNodes - 1]]
      /\ content' = [content EXCEPT ![h][n + 1] = x]
      /\ writes' = (IF copied THEN Append(writes, h) ELSE writes)
      /\ copied' = copied /\ spoilt' = spoilt
  BY DEF Write
<1> HIDE DEF x
<1>5. content' = [content EXCEPT ![h] = WithLeaf(content[h], n, x)]
  BY <1>4 DEF WithLeaf
<1> QED
  BY <1>2, <1>4, <1>5 DEF Wrote

\* A new tree satisfies the invariant.
LEMMA NewTree == InitTree => TreeInvariant
<1> SUFFICES ASSUME InitTree PROVE TreeInvariant
  OBVIOUS
<1>1. zeroValue \in Values /\ depth \in 0..depth
  BY QuinTreeConstants DEF Values
<1>2. nodes \in NodeMaps(Values) /\ zeros(depth) \in Contents(Values) /\ Shown(nodes, zeros(depth))
  BY <1>1, NewShown DEF InitTree
<1>3. zeros(depth) \in Seq(Values)
  BY <1>2 DEF Contents
<1>4. capacity \in Nat
  BY QuinTreeConstants, WidthFacts DEF capacity, Width
<1>5. << >> \in Seq(Handles)
  OBVIOUS
<1>6. TreeTypes
  <2>1. /\ root = [h \in Handles |-> zeros(depth)] /\ content = [h \in Handles |-> zeros(depth)]
        /\ nextIndex = [h \in Handles |-> 0] /\ copied = FALSE /\ writes = << >>
        /\ updates = 0 /\ spoilt = FALSE
    BY DEF InitTree, Both
  <2>2. root \in [Handles -> Seq(Values)] /\ content \in [Handles -> Contents(Values)]
    BY <1>2, <1>3, <2>1
  <2>3. nextIndex \in [Handles -> 0..capacity]
    BY <1>4, <2>1
  <2> QED
    BY <1>2, <1>5, <2>1, <2>2, <2>3 DEF TreeTypes
<1>7. \A h \in InUse : content[h] = zeros(depth) /\ root[h] = content[h]
  BY TheOther DEF InitTree, Both
<1> QED
  BY <1>2, <1>6, <1>7 DEF TreeInvariant, NodesShown, RootOfLeaves

\* insert() keeps it: the nodes were those of the leaves if the other handle
\* has not written before.
LEMMA InsertKeeps ==
  ASSUME TreeInvariant, NEW h \in InUse, insert(h)
  PROVE  TreeInvariant'
<1> DEFINE n == nextIndex[h]
<1>1. TreeTypes /\ h \in Handles /\ capacity \in Nat
  BY TheOther, QuinTreeConstants, WidthFacts DEF TreeInvariant, capacity, Width
<1>2. n \in LeafIndices /\ n + 1 \in 0..capacity
  BY <1>1 DEF insert, TreeTypes, LeafIndices
<1>3. nextIndex' \in [Handles -> 0..capacity] /\ updates' \in Nat
  BY <1>1, <1>2 DEF insert, TreeTypes
<1>4. Write(h, n, NextValue)
  BY DEF insert
<1> HIDE DEF n
<1>5. PICK x \in Values : NextValue \in Seq(Values) /\ Writes(NextValue, x) /\ Wrote(h, n, x, NextValue)
  BY <1>1, <1>2, <1>4, WriteWrote
<1> QED
  BY <1>2, <1>3, <1>5, WroteKeeps

\* And so does update().
LEMMA UpdateKeeps ==
  ASSUME TreeInvariant, NEW h \in InUse, NEW n \in LeafIndices, update(h, n)
  PROVE  TreeInvariant'
<1>1. TreeTypes
  BY DEF TreeInvariant
<1>2. nextIndex' \in [Handles -> 0..capacity] /\ updates' \in Nat
  BY <1>1 DEF update, TreeTypes
<1>3. PICK value \in {NextValue, NoNode} : Write(h, n, value)
  BY DEF update
<1>4. PICK x \in Values : value \in Seq(Values) /\ Writes(value, x) /\ Wrote(h, n, x, value)
  BY <1>1, <1>3, WriteWrote
<1> QED
  BY <1>2, <1>4, WroteKeeps

\* insert() into a full tree leaves a node that is of no leaves.
LEMMA InsertIntoFullKeeps ==
  ASSUME TreeInvariant, NEW h \in InUse, insertIntoFull(h)
  PROVE  TreeInvariant'
<1>1. TreeTypes
  BY DEF TreeInvariant
<1>2. NextValue \in Seq(Values)
  <2>1. PICK x \in Nat : NextValue = <<x>>
    BY <1>1, NextValueTyped
  <2> QED
    BY <2>1 DEF Values
<1>3. nodes' \in NodeMaps(Values)
  BY <1>1, <1>2 DEF insertIntoFull, TreeTypes, NodeMaps
<1>4. TreeTypes'
  BY <1>1, <1>3 DEF insertIntoFull, TreeTypes
<1>5. spoilt'
  BY DEF insertIntoFull
<1> QED
  BY <1>4, <1>5 DEF TreeInvariant, NodesShown, RootOfLeaves

\* The copy starts with the leaves of the original.
LEMMA CopyKeeps ==
  ASSUME TreeInvariant, copy
  PROVE  TreeInvariant'
<1>1. TreeTypes /\ NodesShown /\ RootOfLeaves
  BY DEF TreeInvariant
<1>2. /\ ~copied /\ copied' = TRUE /\ writes' = writes /\ writes = << >> /\ spoilt' = spoilt /\ nodes' = nodes
      /\ updates' = updates
      /\ root' = Both(root["tree"]) /\ content' = Both(content["tree"])
      /\ nextIndex' = Both(nextIndex["tree"])
  BY <1>1 DEF copy, TreeTypes
<1>3. TreeTypes'
  BY <1>1, <1>2 DEF TreeTypes, Both, Handles
<1>4. ~OtherWrote("tree") /\ ~WroteAfterOther("tree")
  <2>1. ~OtherWrote("tree")
    BY <1>2 DEF OtherWrote, ToSet
  <2> QED
    BY <2>1, NotAfter, TheOther
<1>5. ~spoilt => Shown(nodes, content["tree"]) /\ root["tree"] = content["tree"]
  BY <1>1, <1>4, TheOther DEF NodesShown, RootOfLeaves
<1>6. \A h \in Handles : content'[h] = content["tree"] /\ root'[h] = root["tree"]
  BY <1>2 DEF Both
<1>7. InUse' \subseteq Handles
  BY DEF InUse, Handles
<1>8. NodesShown'
  <2>1. \A h \in InUse' : ~spoilt' => Shown(nodes', content'[h])
    BY <1>2, <1>5, <1>6, <1>7
  <2> QED
    BY <2>1 DEF NodesShown, Shown, getNode
<1>9. RootOfLeaves'
  BY <1>2, <1>5, <1>6, <1>7 DEF RootOfLeaves
<1> QED
  BY <1>3, <1>8, <1>9 DEF TreeInvariant

\* No step breaks the invariant.
LEMMA NextKeeps == TreeInvariant /\ [NextTree]_treeVars => TreeInvariant'
<1> SUFFICES ASSUME TreeInvariant, [NextTree]_treeVars PROVE TreeInvariant'
  OBVIOUS
<1>1. ASSUME NEW h \in InUse, insert(h) PROVE TreeInvariant'
  BY <1>1, InsertKeeps
<1>2. ASSUME NEW h \in InUse, insertIntoFull(h) PROVE TreeInvariant'
  BY <1>2, InsertIntoFullKeeps
<1>3. ASSUME NEW h \in InUse, NEW i \in LeafIndices, update(h, i) PROVE TreeInvariant'
  BY <1>3, UpdateKeeps
<1>4. CASE copy
  BY <1>4, CopyKeeps
<1>5. CASE UNCHANGED treeVars
  BY <1>5 DEF treeVars, TreeInvariant, TreeTypes, NodesShown, RootOfLeaves, InUse, OtherWrote,
              WroteAfterOther, Shown, getNode
<1> QED
  BY <1>1, <1>2, <1>3, <1>4, <1>5 DEF NextTree

\* The invariant holds throughout.
LEMMA TreeInvariantHolds == SpecTree => []TreeInvariant
BY NewTree, NextKeeps, PTL DEF SpecTree

\* The root of a tree is that of the leaves written through it: in whatever
\* order insert() and update() of quinTree.ts write them and with 0n among the
\* values, for every arity and depth, as long as the tree's copy has not
\* written between two of its writes.
THEOREM RootIsOfLeaves == SpecTree => []RootOfLeaves
<1>1. TreeInvariant => RootOfLeaves
  BY DEF TreeInvariant
<1> QED
  BY <1>1, TreeInvariantHolds, PTL

\* The invariant has the proofs verify.
LEMMA InvariantVerifies == TreeInvariant => ProofsVerify
<1> SUFFICES ASSUME TreeInvariant, NEW h \in InUse, ~OtherWrote(h), ~spoilt
             PROVE  /\ \A i \in LeafIndices :
                         LET proof == genProof(nodes, root[h], i)
                         IN  verifyProof(proof) /\ proof.leaf = <<content[h][i + 1]>>
                    /\ \A s \in 1..(depth - 1) : \A k \in 0..(arity ^ (depth - s) - 1) :
                         LET start == k * arity ^ s
                             proof == genSubrootProof(nodes, root[h], start, start + arity ^ s)
                         IN  /\ CanGenSubrootProof(start, start + arity ^ s)
                             /\ verifyProof(proof)
                             /\ proof.leaf = SubSeq(content[h], start + 1, start + arity ^ s)
  BY DEF ProofsVerify
<1> DEFINE c == content[h]
<1>1. h \in Handles /\ ~WroteAfterOther(h)
  BY TheOther, NotAfter
<1>2. zeroValue \in Values /\ nodes \in NodeMaps(Values) /\ c \in Contents(Values)
  BY <1>1 DEF TreeInvariant, TreeTypes, Values
<1>3. Shown(nodes, c) /\ root[h] = c
  BY <1>1 DEF TreeInvariant, NodesShown, RootOfLeaves
<1> HIDE DEF c
<1>4. \A i \in LeafIndices : verifyProof(genProof(nodes, c, i)) /\ genProof(nodes, c, i).leaf = <<c[i + 1]>>
  BY <1>2, <1>3, LeafProofVerifies
<1>5. ASSUME NEW s \in 1..(depth - 1), NEW k \in Across(s)
      PROVE  /\ CanGenSubrootProof(k * Width(s), k * Width(s) + Width(s))
             /\ verifyProof(genSubrootProof(nodes, c, k * Width(s), k * Width(s) + Width(s)))
             /\ genSubrootProof(nodes, c, k * Width(s), k * Width(s) + Width(s)).leaf
                  = SubSeq(c, k * Width(s) + 1, k * Width(s) + Width(s))
  <2> DEFINE a == k * Width(s)
  <2> HIDE DEF a
  <2>1. /\ CanGenSubrootProof(a, a + Width(s))
        /\ verifyProof(genSubrootProof(nodes, c, a, a + Width(s)))
        /\ genSubrootProof(nodes, c, a, a + Width(s)).leaf = SubSeq(c, a + 1, a + Width(s))
    BY <1>2, <1>3, SubrootProofVerifies DEF a
  <2> QED
    BY <2>1 DEF a
<1> QED
  BY <1>3, <1>4, <1>5 DEF c, Across, Width

\* genProof proves every leaf and genSubrootProof the leaves of every subtree
\* that processMessages takes for a batch, against the tree's own root, for
\* every arity and depth.
THEOREM ProofsAlwaysVerify == SpecTree => []ProofsVerify
BY InvariantVerifies, TreeInvariantHolds, PTL
=============================================================================
