------------------------------ MODULE QuinTree ------------------------------
(***************************************************************************)
(* IncrementalQuinTree (crypto/ts/quinTree.ts): a Merkle tree whose nodes  *)
(* are kept in one array-like object, leaves first, then level after level *)
(* up to the root, and only where they differ from the zeros.              *)
(*                                                                         *)
(* A hash is the sequence of the leaves under it.  An absent node, and one *)
(* that holds 0n, which getNode cannot tell from it, is the empty sequence.*)
(*                                                                         *)
(* copy() hands its `nodes` object on, so a tree and its copy are two      *)
(* handles with a root and a next index each and one set of nodes.         *)
(***************************************************************************)
EXTENDS Integers, Sequences, FiniteSetsExt, SequencesExt

CONSTANTS
  arity,        (* children of a node                                      *)
  depth,        (* levels above the leaves                                 *)
  zeroValue,    (* the zero value of the leaves                            *)
  MaxUpdates,   (* bound: calls of update() at an index of the caller's    *)
  MaxShared     (* bound: leaves written once there is a copy              *)

ASSUME QuinTreeConstants ==
  /\ arity \in Nat /\ arity >= 2
  /\ depth \in Nat /\ depth >= 1
  /\ MaxUpdates \in Nat /\ MaxShared \in Nat

\* What exponentiation means on the levels of a tree, for the provers.
ASSUME PowersOfArity ==
  /\ arity ^ 0 = 1
  /\ \A l \in 0..depth : arity ^ (l + 1) = arity * arity ^ l

NoNode == << >>
capacity == arity ^ depth
numNodes == (arity ^ (depth + 1) - 1) \div (arity - 1)
NodeIndices == 0..(numNodes - 1)
LeafIndices == 0..(capacity - 1)
Children == 0..(arity - 1)

zeros(level) == [i \in 1..(arity ^ level) |-> zeroValue]

-----------------------------------------------------------------------------
(***************************************************************************)
(* Indices.                                                                *)
(***************************************************************************)
\* Index of the first node of a level: all the levels below it come first.
LevelStart[level \in 0..depth] ==
  IF level = 0 THEN 0 ELSE LevelStart[level - 1] + arity ^ (depth - (level - 1))

LevelOf(index) == Max({l \in 0..depth : LevelStart[l] <= index})

calcLeafIndices(index) == [i \in 0..(depth - 1) |-> (index \div (arity ^ i)) % arity]

calcParentIndices(index) ==
  [i \in 1..depth |-> LevelStart[i] + (index \div (arity ^ i))]

\* The nodes of the levels up to one, were the lowest at the root.
PowerSum[level \in 0..depth] ==
  IF level = 0 THEN 1 ELSE PowerSum[level - 1] + arity ^ level

calcChildIndices(index) ==
  LET level == Min({l \in 1..depth : index < PowerSum[l]})
      start == (index - arity ^ level) * arity
  IN  [i \in Children |-> start + i]

-----------------------------------------------------------------------------
(***************************************************************************)
(* Reading and writing nodes.                                              *)
(***************************************************************************)
getNode(nodes, index) ==
  IF nodes[index] # NoNode THEN nodes[index] ELSE zeros(LevelOf(index))

HashChildren(nodes, index) ==
  FlattenSeq([i \in 1..arity |-> getNode(nodes, calcChildIndices(index)[i - 1])])

\* Mutant: the parents are hashed from the nodes as they were before.
ParentsHashedBefore(nodes, index, value) ==
  LET parents == ToSet(calcParentIndices(index))
  IN  [n \in DOMAIN nodes |->
         IF n = index THEN value
         ELSE IF n \in parents THEN HashChildren(nodes, n) ELSE nodes[n]]

\* update() of a leaf: the leaf, then its parents from the bottom up.
UpdatedNodes(nodes, index, value) ==
  LET parents == calcParentIndices(index)
      after[i \in 0..depth] ==
        IF i = 0 THEN [nodes EXCEPT ![index] = value]
        ELSE [after[i - 1] EXCEPT ![parents[i]] = HashChildren(after[i - 1], parents[i])]
  IN  after[depth]

\* Mutant: the sibling's place is taken without the level's offset.
PathNodeFlat(index, i) ==
  LET node == index \div (arity ^ i) IN node - (node % arity)

\* genProof: the first of the siblings on the path from a leaf, at a level.
PathNode(index, i) == PathNodeFlat(index, i) + LevelStart[i]

genProof(nodes, root, index) ==
  LET indices == calcLeafIndices(index)
  IN  [pathElements |->
         [i \in 0..(depth - 1) |->
            [j \in Children \ {indices[i]} |-> getNode(nodes, PathNode(index, i) + j)]],
       pathIndices |-> indices,
       root |-> root,
       leaf |-> getNode(nodes, index)]

\* The depth of a subtree of that many leaves, or the tree's if there is none.
SubDepth(numLeaves) ==
  Min({s \in 0..depth : s = depth \/ numLeaves = arity ^ s})

\* genSubrootProof answers for these ranges and throws for all others.
CanGenSubrootProof(startIndex, endIndex) ==
  /\ 0 <= startIndex /\ startIndex < endIndex
  /\ (endIndex - startIndex) % arity = 0
  /\ endIndex - startIndex < capacity
  /\ startIndex < capacity

genSubrootProof(nodes, root, startIndex, endIndex) ==
  LET subDepth == SubDepth(endIndex - startIndex)
      inserted == FlattenSeq([i \in 1..(endIndex - startIndex) |->
                                getNode(nodes, startIndex + i - 1)])
      full == genProof(nodes, root, startIndex)
  IN  [pathElements |-> [i \in subDepth..(depth - 1) |-> full.pathElements[i]],
       pathIndices |-> [i \in subDepth..(depth - 1) |-> full.pathIndices[i]],
       root |-> root,
       leaf |-> inserted \o [i \in 1..(arity ^ subDepth - Len(inserted)) |-> zeroValue]]

\* verifyProof: the leaf is spliced into each level's elements in turn.
verifyProof(proof) ==
  LET levels == DOMAIN proof.pathElements
      up[i \in levels] ==
        LET node == IF i - 1 \in levels THEN up[i - 1] ELSE proof.leaf
        IN  FlattenSeq([j \in 1..arity |->
              IF j - 1 = proof.pathIndices[i] THEN node ELSE proof.pathElements[i][j - 1]])
  IN  levels # {} /\ up[depth - 1] = proof.root

-----------------------------------------------------------------------------
(***************************************************************************)
(* A tree and, once copy() is called, its copy.  The n-th value written is *)
(* the number n, update() may also write 0n.                               *)
(***************************************************************************)
Handles == {"tree", "copy"}

VARIABLES
  nodes,      (* the object both handles refer to                          *)
  root,       (* root[h], this.root of a handle                            *)
  nextIndex,  (* nextIndex[h]                                              *)
  copied,     (* copy() has been called                                    *)
  content,    (* history: the leaves written through h, and before copy()  *)
  writes,     (* history: the handles in the order of their writes since   *)
              (*   copy()                                                  *)
  updates,    (* history: how often update() was called directly           *)
  spoilt      (* history: insert() was called on a full tree               *)

treeVars == <<nodes, root, nextIndex, copied, content, writes, updates, spoilt>>

Both(value) == [h \in Handles |-> value]

InUse == IF copied THEN Handles ELSE {"tree"}

InitTree ==
  /\ nodes = [n \in NodeIndices |-> IF n = numNodes - 1 THEN zeros(depth) ELSE NoNode]
  /\ root = Both(zeros(depth))
  /\ nextIndex = Both(0)
  /\ copied = FALSE
  /\ content = Both(zeros(depth))
  /\ writes = << >> /\ updates = 0 /\ spoilt = FALSE

NextValue == <<1 + nextIndex["tree"] + (IF copied THEN nextIndex["copy"] ELSE 0) + updates>>

Write(h, index, value) ==
  LET written == UpdatedNodes(nodes, index, value)
  IN  /\ Len(writes) < MaxShared
      /\ nodes' = written
      /\ root' = [root EXCEPT ![h] = written[numNodes - 1]]
      /\ content' = [content EXCEPT ![h][index + 1] =
                       IF value = NoNode THEN zeroValue ELSE value[1]]
      /\ writes' = IF copied THEN Append(writes, h) ELSE writes
      /\ UNCHANGED <<copied, spoilt>>

insert(h) ==
  /\ nextIndex[h] < capacity
  /\ Write(h, nextIndex[h], NextValue)
  /\ nextIndex' = [nextIndex EXCEPT ![h] = @ + 1]
  /\ UNCHANGED updates

\* insert() into a full tree: setNode accepts the index of any node, so the
\* leaf replaces the first node of the next level before the call throws.
insertIntoFull(h) ==
  /\ nextIndex[h] = capacity
  /\ ~spoilt
  /\ nodes' = [nodes EXCEPT ![nextIndex[h]] = NextValue]
  /\ spoilt' = TRUE
  /\ UNCHANGED <<root, nextIndex, copied, content, writes, updates>>

update(h, index) ==
  /\ updates < MaxUpdates
  /\ updates' = updates + 1
  /\ \E value \in {NextValue, NoNode} : Write(h, index, value)
  /\ UNCHANGED nextIndex

copy ==
  /\ ~copied
  /\ copied' = TRUE
  /\ root' = Both(root["tree"])
  /\ nextIndex' = Both(nextIndex["tree"])
  /\ content' = Both(content["tree"])
  /\ UNCHANGED <<nodes, writes, updates, spoilt>>

NextTree ==
  \/ \E h \in InUse : insert(h) \/ insertIntoFull(h) \/ \E i \in LeafIndices : update(h, i)
  \/ copy

SpecTree == InitTree /\ [][NextTree]_treeVars

-----------------------------------------------------------------------------
Other(h) == CHOOSE g \in Handles : g # h

\* h wrote after the other handle had.
WroteAfterOther(h) ==
  \E i, j \in DOMAIN writes : i < j /\ writes[i] = Other(h) /\ writes[j] = h

OtherWrote(h) == Other(h) \in ToSet(writes)

\* The root of a tree is that of the leaves written through it, over any
\* order of insert(), update() and writes of 0n; what a copy writes shows in
\* the original's root only with the original's own next write.
RootOfLeaves ==
  \A h \in InUse : ~WroteAfterOther(h) /\ ~spoilt => root[h] = content[h]

\* genProof proves every leaf, and genSubrootProof the leaves of every
\* subtree, as processMessages needs it for its batches, unless the other
\* handle has written since copy() or a value was inserted into the full tree.
ProofsVerify ==
  \A h \in InUse : ~OtherWrote(h) /\ ~spoilt =>
    /\ \A i \in LeafIndices :
         LET proof == genProof(nodes, root[h], i)
         IN  verifyProof(proof) /\ proof.leaf = <<content[h][i + 1]>>
    /\ \A s \in 1..(depth - 1) : \A k \in 0..(arity ^ (depth - s) - 1) :
         LET start == k * arity ^ s
             proof == genSubrootProof(nodes, root[h], start, start + arity ^ s)
         IN  /\ CanGenSubrootProof(start, start + arity ^ s)
             /\ verifyProof(proof)
             /\ proof.leaf = SubSeq(content[h], start + 1, start + arity ^ s)
=============================================================================
