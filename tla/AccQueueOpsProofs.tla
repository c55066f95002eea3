------------------------- MODULE AccQueueOpsProofs -------------------------
(***************************************************************************)
(* What the functions of AccQueue.sol do to the leaves a queue holds, for  *)
(* every number of children, every depth and every leaf.                   *)
(*                                                                         *)
(* The order of the leaves in a Queue is that of its rows: Rows(q, lo)[l]  *)
(* is what waits in the levels from lo up to l, the higher levels first.   *)
(* A queued node comes after all of it (QueuedRows), a subtree is complete *)
(* exactly when every level was full (SubtreeStep), _fill and              *)
(* queueSubRoot keep to the same order, and so do enqueue, fill,           *)
(* insertSubTree, mergeSubRoots and merge (EnqueueStored, FillStored,      *)
(* InsertStored, MergeSubRootsMerges, MergeStored).                        *)
(*                                                                         *)
(* What a recursive function computes is proved by induction, and that     *)
(* there is such a function, with the lemmas of Recursion.                 *)
(***************************************************************************)
EXTENDS AccQueueOps, Recursion, SequenceTheorems, TLAPS

-----------------------------------------------------------------------------
Associative(X) == \A x, y, z \in Seq(X) : x \o (y \o z) = (x \o y) \o z

\* As one fact, which instances are taken from.
LEMMA ConcatIsAssociative ==
  ASSUME NEW X
  PROVE  Associative(X)
BY ConcatAssociative DEF Associative

\* ConcatProperties, in one piece.
LEMMA Concatenated ==
  ASSUME NEW X, NEW s \in Seq(X), NEW t \in Seq(X)
  PROVE  /\ s \o t \in Seq(X) /\ Len(s \o t) = Len(s) + Len(t)
         /\ \A i \in 1..(Len(s) + Len(t)) :
              (s \o t)[i] = IF i <= Len(s) THEN s[i] ELSE t[i - Len(s)]
BY ConcatProperties

\* Leaves that are numbered as they come: MACI's users, a poll's messages.
UpTo(n) == [i \in 1..n |-> i]

LEMMA UpToGrows ==
  ASSUME NEW X, Nat \subseteq X, NEW n \in Nat
  PROVE  /\ UpTo(n) \in Seq(X) /\ Len(UpTo(n)) = n /\ \A i \in 1..n : UpTo(n)[i] = i
         /\ UpTo(n) \o <<n + 1>> = UpTo(n + 1)
<1>1. ASSUME NEW m \in Nat
      PROVE  UpTo(m) \in Seq(X) /\ Len(UpTo(m)) = m /\ \A i \in 1..m : UpTo(m)[i] = i
  <2>1. UpTo(m) \in [1..m -> X] /\ \A i \in 1..m : UpTo(m)[i] = i
    BY DEF UpTo
  <2> QED
    BY <2>1, SeqDef
<1> DEFINE s == UpTo(n)
           t == UpTo(n + 1)
           last == <<n + 1>>
           all == s \o last
<1>2. s \in Seq(X) /\ Len(s) = n /\ \A i \in 1..n : s[i] = i
  BY <1>1
<1>3. t \in Seq(X) /\ Len(t) = n + 1 /\ \A i \in 1..(n + 1) : t[i] = i
  <2>1. n + 1 \in Nat
    OBVIOUS
  <2> QED
    BY <1>1, <2>1
<1>4. last \in Seq(X) /\ Len(last) = 1 /\ last[1] = n + 1
  OBVIOUS
<1> HIDE DEF s, t, last
<1>5. /\ all \in Seq(X) /\ Len(all) = Len(s) + Len(last)
      /\ \A i \in 1..(Len(s) + Len(last)) : all[i] = IF i <= Len(s) THEN s[i] ELSE last[i - Len(s)]
  BY <1>2, <1>4, Concatenated
<1> HIDE DEF all
<1>6. \A i \in 1..(n + 1) : all[i] = t[i]
  <2> SUFFICES ASSUME NEW i \in 1..(n + 1) PROVE all[i] = t[i]
    OBVIOUS
  <2>1. ~ (i <= n) => i = n + 1 /\ i - n = 1
    OBVIOUS
  <2>2. i <= n => i \in 1..n
    OBVIOUS
  <2> QED
    BY <1>2, <1>3, <1>4, <1>5, <2>1, <2>2
<1>7. all = t
  BY <1>2, <1>3, <1>4, <1>5, <1>6, SeqEqual
<1> QED
  BY <1>2, <1>7 DEF all, s, t, last

Flat(s) ==
  LET flatten[i \in 1..Len(s)] == IF i = 1 THEN s[i] ELSE flatten[i - 1] \o s[i]
  IN  flatten

\* The recursion in FlattenSeq defines a function.
LEMMA FlatDef ==
  ASSUME NEW X, NEW s \in Seq(Seq(X)), s # << >>
  PROVE  /\ Flat(s) \in [1..Len(s) -> Seq(X)]
         /\ Flat(s)[1] = s[1]
         /\ \A i \in 2..Len(s) : Flat(s)[i] = Flat(s)[i - 1] \o s[i]
<1> DEFINE n == Len(s)
           g == [i \in 1..n |-> [x \in Seq(X) |-> x \o s[i]]]
           Def(f) == f = [i \in 1..n |-> IF i = 1 THEN s[i] ELSE f[i - 1] \o s[i]]
<1>1. n \in Nat /\ n >= 1 /\ \A i \in 1..n : s[i] \in Seq(X)
  OBVIOUS
<1> HIDE DEF n
<1>2. g \in [1..n -> [Seq(X) -> Seq(X)]]
  BY <1>1
<1>3. PICK f \in [1..n -> Seq(X)] :
        \A i \in 1..n : f[i] = IF i = 1 THEN s[1] ELSE g[i][f[i - 1]]
  <2>1. s[1] \in Seq(X) /\ 1 \in Nat
    BY <1>1
  <2> HIDE DEF g
  <2>2. HasRecursion(Seq(X), s[1], 1, n, g)
    BY <1>1, <1>2, <2>1, RangeRecursion
  <2> QED
    BY <2>2 DEF HasRecursion
<1>4. Def(f)
  <2>1. ASSUME NEW i \in 1..n
        PROVE  f[i] = IF i = 1 THEN s[i] ELSE f[i - 1] \o s[i]
    <3>1. i # 1 => i - 1 \in 1..n
      BY <1>1
    <3> QED
      BY <1>3, <3>1
  <2> QED
    BY <2>1
<1>5. Def(Flat(s))
  BY <1>4 DEF Flat, n
<1>6. /\ Flat(s) = [i \in 1..n |-> Flat(s)[i]]
      /\ Flat(s)[1] = s[1]
      /\ \A i \in 2..n : Flat(s)[i] = Flat(s)[i - 1] \o s[i]
  <2>1. \A i \in 1..n : Flat(s)[i] = IF i = 1 THEN s[i] ELSE Flat(s)[i - 1] \o s[i]
    BY <1>5
  <2>2. Flat(s) = [i \in 1..n |-> Flat(s)[i]]
    BY <1>5
  <2> HIDE DEF Def, g
  <2>3. 1 \in 1..n /\ \A i \in 2..n : i \in 1..n /\ i # 1
    BY <1>1
  <2> QED
    BY <2>1, <2>2, <2>3
<1> HIDE DEF Def, g
<1> DEFINE S == {i \in 1..n : Flat(s)[i] \in Seq(X)}
<1>7. 1 \in S
  BY <1>1, <1>6
<1>8. ASSUME NEW i \in 1..(n - 1), i \in S PROVE i + 1 \in S
  <2>1. i + 1 \in 2..n /\ i + 1 \in 1..n /\ (i + 1) - 1 = i
    BY <1>1
  <2>2. Flat(s)[i + 1] = Flat(s)[i] \o s[i + 1]
    BY <1>6, <2>1
  <2>3. Flat(s)[i] \o s[i + 1] \in Seq(X)
    BY <1>1, <1>8, <2>1, ConcatProperties
  <2> QED
    BY <2>1, <2>2, <2>3
<1> HIDE DEF S
<1>9. 1..n \subseteq S
  BY <1>1, <1>7, <1>8, RangeInduction
<1> QED
  BY <1>6, <1>9 DEF S, n

\* FlattenSeq is the last value of its recursion.
LEMMA FlattenIsFlat ==
  ASSUME NEW s, Len(s) # 0
  PROVE  FlattenSeq(s) = Flat(s)[Len(s)]
BY DEF FlattenSeq, Flat

\* Nothing flattens to nothing.
LEMMA FlattenEmpty == FlattenSeq(<< >>) = << >>
BY DEF FlattenSeq

\* Leaves flatten to leaves.
LEMMA FlattenTyped ==
  ASSUME NEW X, NEW s \in Seq(Seq(X))
  PROVE  FlattenSeq(s) \in Seq(X)
<1>1. CASE s = << >>
  BY <1>1, FlattenEmpty, EmptySeq
<1>2. CASE s # << >>
  <2>1. Len(s) # 0 /\ Len(s) \in 1..Len(s)
    BY <1>2, EmptySeq
  <2>2. FlattenSeq(s) = Flat(s)[Len(s)]
    BY <2>1, FlattenIsFlat
  <2>3. Flat(s) \in [1..Len(s) -> Seq(X)]
    BY <1>2, FlatDef
  <2> QED
    BY <2>1, <2>2, <2>3
<1> QED
  BY <1>1, <1>2

\* A node added at the end is flattened at the end.
LEMMA FlattenAppend ==
  ASSUME NEW X, NEW s \in Seq(Seq(X)), NEW e \in Seq(X)
  PROVE  FlattenSeq(Append(s, e)) = FlattenSeq(s) \o e
<1> DEFINE t == Append(s, e)
           n == Len(s)
<1>1. /\ t \in Seq(Seq(X)) /\ t # << >> /\ Len(t) = n + 1 /\ n \in Nat
      /\ t[n + 1] = e /\ \A i \in 1..n : t[i] = s[i]
  BY AppendProperties, LenProperties
<1> HIDE DEF t, n
<1>2. FlattenSeq(t) = Flat(t)[n + 1]
  BY <1>1, FlattenIsFlat
<1>3. CASE s = << >>
  <2>1. n = 0
    BY <1>3, EmptySeq DEF n
  <2>2. FlattenSeq(t) = e
    <3>1. Flat(t)[1] = t[1]
      BY <1>1, FlatDef
    <3>2. n + 1 = 1
      BY <2>1
    <3> QED
      BY <1>1, <1>2, <3>1, <3>2
  <2> QED
    BY <1>3, <2>2, FlattenEmpty, ConcatEmptySeq DEF t
<1>4. CASE s # << >>
  <2>1. n # 0 /\ FlattenSeq(s) = Flat(s)[n]
    BY <1>1, <1>4, FlattenIsFlat, EmptySeq DEF n
  <2> DEFINE S == {i \in 1..n : Flat(t)[i] = Flat(s)[i]}
  <2>s. Flat(s)[1] = s[1] /\ \A i \in 2..n : Flat(s)[i] = Flat(s)[i - 1] \o s[i]
    BY <1>4, FlatDef DEF n
  <2>t. Flat(t)[1] = t[1] /\ \A i \in 2..(n + 1) : Flat(t)[i] = Flat(t)[i - 1] \o t[i]
    BY <1>1, FlatDef
  <2>2. 1 \in S
    BY <1>1, <2>1, <2>s, <2>t
  <2>3. ASSUME NEW i \in 1..(n - 1), i \in S PROVE i + 1 \in S
    <3>1. i + 1 \in 2..n /\ i + 1 \in 2..(n + 1) /\ i + 1 \in 1..n /\ i = (i + 1) - 1
      BY <1>1
    <3>2. Flat(t)[i + 1] = Flat(t)[i] \o t[i + 1] /\ Flat(s)[i + 1] = Flat(s)[i] \o s[i + 1]
      BY <2>s, <2>t, <3>1
    <3> QED
      BY <1>1, <2>3, <3>1, <3>2
  <2>4. Flat(t)[n] = Flat(s)[n]
    <3> HIDE DEF S
    <3>1. 1..n \subseteq S
      BY <1>1, <2>2, <2>3, RangeInduction
    <3>2. n \in S
      BY <1>1, <2>1, <3>1
    <3> QED
      BY <3>2 DEF S
  <2>5. Flat(t)[n + 1] = Flat(t)[n] \o e
    <3>1. n + 1 \in 2..(n + 1) /\ n = (n + 1) - 1
      BY <1>1, <2>1
    <3> QED
      BY <1>1, <2>t, <3>1
  <2> QED
    BY <1>2, <2>1, <2>4, <2>5 DEF t
<1> QED
  BY <1>3, <1>4

\* Nodes of one size.
LEMMA FlattenLength ==
  ASSUME NEW X, NEW s \in Seq(Seq(X)), NEW c \in Nat, \A i \in 1..Len(s) : Len(s[i]) = c
  PROVE  Len(FlattenSeq(s)) = Len(s) * c
<1> DEFINE n == Len(s)
<1>1. n \in Nat
  OBVIOUS
<1>2. CASE s = << >>
  BY <1>2, FlattenEmpty, EmptySeq
<1>3. CASE s # << >>
  <2>1. n # 0 /\ FlattenSeq(s) = Flat(s)[n]
    BY <1>3, FlattenIsFlat, EmptySeq
  <2>2. /\ Flat(s) \in [1..n -> Seq(X)] /\ Flat(s)[1] = s[1]
        /\ \A i \in 2..n : Flat(s)[i] = Flat(s)[i - 1] \o s[i]
    BY <1>3, FlatDef
  <2>3. \A i \in 1..n : s[i] \in Seq(X) /\ Len(s[i]) = c
    OBVIOUS
  <2> HIDE DEF n
  <2> DEFINE S == {i \in 1..n : Len(Flat(s)[i]) = i * c}
  <2>4. 1 \in S
    BY <1>1, <2>1, <2>2, <2>3
  <2>5. ASSUME NEW i \in 1..(n - 1), i \in S PROVE i + 1 \in S
    <3>1. i + 1 \in 2..n /\ i + 1 \in 1..n /\ i = (i + 1) - 1 /\ i \in 1..n
      BY <1>1
    <3>2. Len(Flat(s)[i + 1]) = Len(Flat(s)[i]) + Len(s[i + 1])
      <4>1. Flat(s)[i + 1] = Flat(s)[i] \o s[i + 1]
        BY <2>2, <3>1
      <4>2. Flat(s)[i] \in Seq(X) /\ s[i + 1] \in Seq(X)
        BY <2>2, <2>3, <3>1
      <4> QED
        BY <4>1, <4>2, ConcatProperties
    <3>3. Len(Flat(s)[i]) = i * c /\ Len(s[i + 1]) = c
      BY <2>3, <2>5, <3>1
    <3>4. i * c + c = (i + 1) * c
      BY <3>1
    <3> QED
      BY <3>1, <3>2, <3>3, <3>4
  <2> HIDE DEF S
  <2>6. n \in S
    <3>1. 1..n \subseteq S
      BY <1>1, <2>4, <2>5, RangeInduction
    <3> QED
      BY <1>1, <2>1, <3>1
  <2> QED
    BY <2>1, <2>6 DEF S, n
<1> QED
  BY <1>2, <1>3

\* The least element of a set of numbers.
LEMMA MinOfNaturals ==
  ASSUME NEW S \in SUBSET Nat, S # {}
  PROVE  Min(S) \in S /\ \A n \in S : Min(S) <= n
<1>1. \E m \in S : \A n \in S : m <= n
  <2> DEFINE T == {k \in Nat : \A i \in 0..k : i \notin S}
  <2>1. SUFFICES ASSUME \A m \in S : \E n \in S : n < m
                 PROVE  FALSE
    OBVIOUS
  <2>2. 0 \in T
    BY <2>1
  <2>3. ASSUME NEW k \in T PROVE k + 1 \in T
    BY <2>1
  <2> HIDE DEF T
  <2>4. T = Nat
    BY <2>2, <2>3, SetInduction DEF T
  <2>5. ASSUME NEW k \in Nat PROVE k \notin S
    <3>1. k \in T /\ k \in 0..k
      BY <2>4
    <3> QED
      BY <3>1 DEF T
  <2> QED
    BY <2>5
<1> QED
  BY <1>1 DEF Min

-----------------------------------------------------------------------------
Queues(X) == [levels : [Levels -> [Slots -> Seq(X)]], indices : [Levels -> 0..(hashLength - 1)]]

Size(unit, level) == unit * hashLength ^ level

\* Powers of hashLength are positive numbers.
LEMMA PowerFacts ==
  \A l \in 0..(MAX_DEPTH + 1) : hashLength ^ l \in Nat /\ hashLength ^ l >= 1
<1> DEFINE S == {l \in 0..(MAX_DEPTH + 1) : hashLength ^ l \in Nat /\ hashLength ^ l >= 1}
<1>1. 0 \in S
  BY PowersOfHashLength, AccQueueConstants
<1>2. ASSUME NEW l \in 0..((MAX_DEPTH + 1) - 1), l \in S PROVE l + 1 \in S
  <2>1. l \in 0..MAX_DEPTH /\ l + 1 \in 0..(MAX_DEPTH + 1)
    BY AccQueueConstants
  <2>2. hashLength ^ (l + 1) = hashLength * hashLength ^ l
    BY <2>1, PowersOfHashLength
  <2> DEFINE w == hashLength ^ l
  <2>3. w \in Nat /\ w >= 1
    BY <1>2
  <2> HIDE DEF w
  <2>4. hashLength * w \in Nat /\ hashLength * w >= 1
    BY <2>3, AccQueueConstants
  <2> QED
    BY <2>1, <2>2, <2>4 DEF w
<1> HIDE DEF S
<1>3. 0..(MAX_DEPTH + 1) \subseteq S
  <2>1. MAX_DEPTH + 1 \in Nat /\ 0 \in Nat
    BY AccQueueConstants
  <2> QED
    BY <1>1, <1>2, <2>1, RangeInduction
<1> QED
  BY <1>3 DEF S

\* A node commits to hashLength times the leaves of a node below.
LEMMA SizeFacts ==
  ASSUME NEW unit \in Nat
  PROVE  /\ Size(unit, 0) = unit
         /\ \A l \in 0..(MAX_DEPTH + 1) :
              Size(unit, l) \in Nat /\ (unit >= 1 => Size(unit, l) >= 1)
         /\ \A l \in Levels : Size(unit, l + 1) = hashLength * Size(unit, l)
<1>1. Size(unit, 0) = unit
  BY PowersOfHashLength DEF Size
<1>2. ASSUME NEW l \in 0..(MAX_DEPTH + 1)
      PROVE  Size(unit, l) \in Nat /\ (unit >= 1 => Size(unit, l) >= 1)
  <2> DEFINE w == hashLength ^ l
  <2>1. w \in Nat /\ w >= 1
    BY PowerFacts
  <2> HIDE DEF w
  <2>2. unit * w \in Nat /\ (unit >= 1 => unit * w >= 1)
    BY <2>1
  <2> QED
    BY <2>2 DEF Size, w
<1>3. ASSUME NEW l \in Levels
      PROVE  Size(unit, l + 1) = hashLength * Size(unit, l)
  <2> DEFINE w == hashLength ^ l
  <2>1. w \in Nat /\ hashLength ^ (l + 1) = hashLength * w
    BY PowerFacts, PowersOfHashLength, AccQueueConstants DEF Levels
  <2> HIDE DEF w
  <2>2. unit * (hashLength * w) = hashLength * (unit * w)
    BY <2>1, AccQueueConstants
  <2> QED
    BY <2>1, <2>2 DEF Size, w
<1> QED
  BY <1>1, <1>2, <1>3

\* The nodes that wait at a level, and the leaves they commit to.
Waiting(q, level) == [i \in 1..q.indices[level] |-> q.levels[level][i - 1]]
Row(q, level) == HashLevel(q, level, Empty)

\* The nodes that wait at a level.
LEMMA WaitingTyped ==
  ASSUME NEW X, NEW q \in Queues(X), NEW l \in Levels
  PROVE  /\ Waiting(q, l) \in Seq(Seq(X))
         /\ Len(Waiting(q, l)) = q.indices[l]
<1>1. q.indices[l] \in 0..(hashLength - 1) /\ q.indices[l] \in Nat
  BY AccQueueConstants DEF Queues
<1>2. ASSUME NEW i \in 1..q.indices[l] PROVE q.levels[l][i - 1] \in Seq(X)
  <2>1. i - 1 \in Slots
    BY <1>1, AccQueueConstants DEF Slots
  <2> QED
    BY <2>1 DEF Queues
<1>3. Waiting(q, l) \in [1..q.indices[l] -> Seq(X)]
  BY <1>2 DEF Waiting
<1> QED
  BY <1>1, <1>3, SeqDef

\* hashLevel hashes what waits at the level, then the node.
LEMMA RowTyped ==
  ASSUME NEW X, NEW q \in Queues(X), NEW l \in Levels
  PROVE  /\ Row(q, l) \in Seq(X)
         /\ Row(q, l) = FlattenSeq(Waiting(q, l))
         /\ \A node \in Seq(X) : HashLevel(q, l, node) = Row(q, l) \o node
<1>1. FlattenSeq(Waiting(q, l)) \in Seq(X)
  BY WaitingTyped, FlattenTyped
<1>2. Row(q, l) = FlattenSeq(Waiting(q, l))
  BY <1>1, ConcatEmptySeq DEF Row, HashLevel, Waiting, Empty
<1> QED
  BY <1>1, <1>2 DEF HashLevel, Waiting

\* Every node that waits commits to as many leaves as its level says.
Sized(q, unit) ==
  \A l \in Levels : \A i \in Slots : i < q.indices[l] => Len(q.levels[l][i]) = Size(unit, l)

\* The leaves that wait at a level.
LEMMA RowLength ==
  ASSUME NEW X, NEW q \in Queues(X), NEW unit \in Nat, Sized(q, unit), NEW l \in Levels
  PROVE  Len(Row(q, l)) = q.indices[l] * Size(unit, l)
<1>1. Waiting(q, l) \in Seq(Seq(X)) /\ Len(Waiting(q, l)) = q.indices[l]
  BY WaitingTyped
<1>2. ASSUME NEW i \in 1..q.indices[l]
      PROVE  Len(Waiting(q, l)[i]) = Size(unit, l)
  <2>1. q.indices[l] \in 0..(hashLength - 1)
    BY DEF Queues
  <2>2. i - 1 \in Slots /\ i - 1 < q.indices[l]
    BY <2>1, AccQueueConstants DEF Slots
  <2> QED
    BY <2>2 DEF Sized, Waiting
<1>3. Size(unit, l) \in Nat
  BY SizeFacts, AccQueueConstants DEF Levels
<1> HIDE DEF Waiting, Size
<1>4. Len(FlattenSeq(Waiting(q, l))) = Len(Waiting(q, l)) * Size(unit, l)
  BY <1>1, <1>2, <1>3, FlattenLength
<1> QED
  BY <1>1, <1>4, RowTyped

\* The leaves that wait at the levels from lo up to, and without, a level.
Rows(q, lo) ==
  LET rows[l \in lo..(MAX_DEPTH + 1)] == IF l = lo THEN Empty ELSE Row(q, l - 1) \o rows[l - 1]
  IN  rows

\* The recursion in Rows defines a function.
LEMMA RowsDef ==
  ASSUME NEW X, NEW q \in Queues(X), NEW lo \in 0..(MAX_DEPTH + 1)
  PROVE  /\ Rows(q, lo) \in [lo..(MAX_DEPTH + 1) -> Seq(X)]
         /\ Rows(q, lo)[lo] = Empty
         /\ \A l \in lo..MAX_DEPTH : Rows(q, lo)[l + 1] = Row(q, l) \o Rows(q, lo)[l]
<1> DEFINE n == MAX_DEPTH + 1
           g == [l \in lo..n |-> [x \in Seq(X) |-> IF l = lo THEN x ELSE Row(q, l - 1) \o x]]
           Def(f) == f = [l \in lo..n |-> IF l = lo THEN Empty ELSE Row(q, l - 1) \o f[l - 1]]
<1>1. /\ n \in Nat /\ lo \in Nat /\ lo \in lo..n /\ Empty \in Seq(X)
      /\ \A l \in lo..n : l # lo => l - 1 \in Levels /\ l - 1 \in lo..n
      /\ \A l \in lo..MAX_DEPTH : l + 1 \in lo..n /\ l + 1 # lo /\ (l + 1) - 1 = l
  BY EmptySeq, AccQueueConstants DEF Levels, Empty
<1>2. \A l \in lo..n : l # lo => Row(q, l - 1) \in Seq(X)
  BY <1>1, RowTyped
<1> HIDE DEF n
<1>3. g \in [lo..n -> [Seq(X) -> Seq(X)]]
  BY <1>2, ConcatProperties
<1>4. PICK f \in [lo..n -> Seq(X)] :
        \A l \in lo..n : f[l] = IF l = lo THEN Empty ELSE g[l][f[l - 1]]
  <2> HIDE DEF g
  <2>1. HasRecursion(Seq(X), Empty, lo, n, g)
    BY <1>1, <1>3, RangeRecursion
  <2> QED
    BY <2>1 DEF HasRecursion
<1>5. Def(f)
  <2>1. ASSUME NEW l \in lo..n
        PROVE  f[l] = IF l = lo THEN Empty ELSE Row(q, l - 1) \o f[l - 1]
    BY <1>1, <1>4
  <2> QED
    BY <2>1
<1>6. Def(Rows(q, lo))
  BY <1>5 DEF Rows, n
<1> DEFINE rows == Rows(q, lo)
<1>7. \A l \in lo..n : rows[l] = IF l = lo THEN Empty ELSE Row(q, l - 1) \o rows[l - 1]
  BY <1>6
<1>8. rows = [l \in lo..n |-> rows[l]]
  BY <1>6
<1> HIDE DEF Def, g, rows
<1> DEFINE S == {l \in lo..n : rows[l] \in Seq(X)}
<1>9. lo \in S
  BY <1>1, <1>7
<1>10. ASSUME NEW l \in lo..(n - 1), l \in S PROVE l + 1 \in S
  <2>1. l + 1 \in lo..n /\ l + 1 # lo /\ (l + 1) - 1 = l
    BY <1>1
  <2>2. rows[l + 1] = Row(q, l) \o rows[l] /\ Row(q, l) \in Seq(X)
    BY <1>2, <1>7, <2>1
  <2>3. Row(q, l) \o rows[l] \in Seq(X)
    BY <1>10, <2>2, ConcatProperties
  <2> QED
    BY <2>1, <2>2, <2>3
<1> HIDE DEF S
<1>11. lo..n \subseteq S
  BY <1>1, <1>9, <1>10, RangeInduction
<1>12. rows \in [lo..n -> Seq(X)]
  BY <1>8, <1>11 DEF S
<1>13. \A l \in lo..MAX_DEPTH : rows[l + 1] = Row(q, l) \o rows[l]
  BY <1>1, <1>7
<1> QED
  BY <1>1, <1>7, <1>12, <1>13 DEF rows, n

\* Below a level there are fewer leaves than a node of it commits to, and one
\* node fewer only if every level is full.
LEMMA RowsLength ==
  ASSUME NEW X, NEW q \in Queues(X), NEW unit \in Nat, unit >= 1, Sized(q, unit),
         NEW lo \in Levels
  PROVE  \A l \in lo..(MAX_DEPTH + 1) :
           /\ Len(Rows(q, lo)[l]) <= Size(unit, l) - Size(unit, lo)
           /\ Len(Rows(q, lo)[l]) = Size(unit, l) - Size(unit, lo) =>
                \A k \in lo..(l - 1) : q.indices[k] = hashLength - 1
<1> DEFINE n == MAX_DEPTH + 1
           rows == Rows(q, lo)
           S == {l \in lo..n :
                   /\ Len(rows[l]) <= Size(unit, l) - Size(unit, lo)
                   /\ Len(rows[l]) = Size(unit, l) - Size(unit, lo) =>
                        \A k \in lo..(l - 1) : q.indices[k] = hashLength - 1}
<1>1. /\ n \in Nat /\ lo \in Nat /\ lo \in 0..n /\ lo \in lo..n
      /\ \A l \in lo..(n - 1) : l \in Levels /\ l \in lo..MAX_DEPTH /\ l \in lo..n /\ l + 1 \in lo..n /\ l + 1 \in 0..n /\ l \in 0..n
  BY AccQueueConstants DEF Levels
<1>2. /\ rows \in [lo..n -> Seq(X)] /\ rows[lo] = Empty
      /\ \A l \in lo..MAX_DEPTH : rows[l + 1] = Row(q, l) \o rows[l]
  BY <1>1, RowsDef
<1>3. /\ \A l \in 0..n : Size(unit, l) \in Nat /\ Size(unit, l) >= 1
      /\ \A l \in Levels : Size(unit, l + 1) = hashLength * Size(unit, l)
  BY SizeFacts
<1> HIDE DEF n, rows
<1>4. lo \in S
  BY <1>1, <1>2, <1>3, EmptySeq DEF Empty
<1>5. ASSUME NEW l \in lo..(n - 1), l \in S PROVE l + 1 \in S
  <2> DEFINE w == Size(unit, l)
             k == q.indices[l]
             below == Len(rows[l])
             base == Size(unit, lo)
  <2>1. w \in Nat /\ w >= 1 /\ base \in Nat /\ Size(unit, l + 1) = hashLength * w
    BY <1>1, <1>3
  <2>2. k \in 0..(hashLength - 1)
    BY <1>1 DEF Queues
  <2>3. rows[l] \in Seq(X) /\ Row(q, l) \in Seq(X) /\ Len(Row(q, l)) = k * w
    BY <1>1, <1>2, RowTyped, RowLength
  <2>4. below \in Nat /\ Len(rows[l + 1]) = k * w + below
    <3>1. rows[l + 1] = Row(q, l) \o rows[l]
      BY <1>1, <1>2
    <3>2. Len(rows[l + 1]) = Len(Row(q, l)) + Len(rows[l])
      BY <2>3, <3>1, ConcatProperties
    <3> QED
      BY <2>3, <3>2, LenProperties
  <2>5. below <= w - base /\ (below = w - base => \A j \in lo..(l - 1) : q.indices[j] = hashLength - 1)
    BY <1>5
  <2> HIDE DEF w, k, below, base
  <2>6. hashLength * w = (hashLength - 1) * w + w /\ (hashLength - 1) * w \in Int
    BY <2>1, AccQueueConstants
  <2>7. k * w <= (hashLength - 1) * w /\ (k # hashLength - 1 => k * w < (hashLength - 1) * w)
    BY <2>1, <2>2, AccQueueConstants
  <2>8. k * w \in Int
    BY <2>1, <2>2, AccQueueConstants
  <2>9. Len(rows[l + 1]) <= Size(unit, l + 1) - base
    BY <2>1, <2>4, <2>5, <2>6, <2>7, <2>8
  <2>10. ASSUME Len(rows[l + 1]) = Size(unit, l + 1) - base
         PROVE  \A j \in lo..l : q.indices[j] = hashLength - 1
    <3>1. below = w - base /\ k = hashLength - 1
      BY <2>1, <2>4, <2>5, <2>6, <2>7, <2>8, <2>10
    <3>2. \A j \in lo..l : j = l \/ j \in lo..(l - 1)
      BY <1>1
    <3> QED
      BY <2>5, <3>1, <3>2 DEF k
  <2>11. (l + 1) - 1 = l
    BY <1>1
  <2> QED
    BY <1>1, <2>9, <2>10, <2>11 DEF base
<1> HIDE DEF S
<1>6. lo..n \subseteq S
  BY <1>1, <1>4, <1>5, RangeInduction
<1> QED
  BY <1>6 DEF S, n, rows

-----------------------------------------------------------------------------
\* Climbing ends below the first level that has a free slot.
LEMMA StopLevelIsFirstFree ==
  ASSUME NEW X, NEW q \in Queues(X), NEW lo \in Levels
  PROVE  /\ StopLevel(q, lo) \in lo..(MAX_DEPTH + 1)
         /\ \A l \in lo..(StopLevel(q, lo) - 1) : q.indices[l] = hashLength - 1
         /\ StopLevel(q, lo) \in Levels => q.indices[StopLevel(q, lo)] < hashLength - 1
<1> DEFINE S == {l \in lo..(MAX_DEPTH + 1) : l = MAX_DEPTH + 1 \/ q.indices[l] # hashLength - 1}
           stop == StopLevel(q, lo)
<1>1. S \in SUBSET Nat /\ MAX_DEPTH + 1 \in S
  BY AccQueueConstants DEF Levels
<1>2. stop \in S /\ \A l \in S : stop <= l
  <2> HIDE DEF S
  <2>1. Min(S) \in S /\ \A l \in S : Min(S) <= l
    BY <1>1, MinOfNaturals
  <2> QED
    BY <2>1 DEF StopLevel, S
<1> HIDE DEF stop
<1>3. stop \in lo..(MAX_DEPTH + 1) /\ lo \in Nat
  BY <1>2, AccQueueConstants DEF Levels
<1>4. \A l \in lo..(stop - 1) : q.indices[l] = hashLength - 1
  BY <1>2, <1>3, AccQueueConstants
<1>5. stop \in Levels => q.indices[stop] < hashLength - 1
  <2>1. stop \in Levels => q.indices[stop] \in 0..(hashLength - 1) /\ stop # MAX_DEPTH + 1
    BY AccQueueConstants DEF Queues, Levels
  <2> QED
    BY <1>2, <2>1, AccQueueConstants
<1> QED
  BY <1>3, <1>4, <1>5 DEF stop

\* What hashLevel makes of a node that stands over other leaves.
LEMMA HashedOver ==
  ASSUME NEW X, NEW q \in Queues(X), NEW l \in Levels,
         NEW below \in Seq(X), NEW node \in Seq(X)
  PROVE  HashLevel(q, l, below \o node) = (Row(q, l) \o below) \o node
<1>1. below \o node \in Seq(X) /\ Row(q, l) \in Seq(X)
  BY ConcatProperties, RowTyped
<1>2. HashLevel(q, l, below \o node) = Row(q, l) \o (below \o node)
  BY <1>1, RowTyped
<1>3. \A x, y, z \in Seq(X) : x \o (y \o z) = (x \o y) \o z
  BY ConcatIsAssociative DEF Associative
<1>4. Row(q, l) \o (below \o node) = (Row(q, l) \o below) \o node
  BY <1>1, <1>3
<1> QED
  BY <1>2, <1>4

\* The node that reaches a level commits to the leaves that waited below.
LEMMA ClimbIsRows ==
  ASSUME NEW X, NEW q \in Queues(X), NEW lo \in Levels, NEW node \in Seq(X)
  PROVE  \A l \in lo..StopLevel(q, lo) :
           /\ Climb(q, node, lo)[l] = Rows(q, lo)[l] \o node
           /\ Climb(q, node, lo)[l] \in Seq(X)
<1> DEFINE n == StopLevel(q, lo)
           rows == Rows(q, lo)
           f == [l \in lo..n |-> rows[l] \o node]
           Def(up) == up = [l \in lo..n |-> IF l = lo THEN node ELSE HashLevel(q, l - 1, up[l - 1])]
<1>1. /\ n \in lo..(MAX_DEPTH + 1) /\ lo \in Nat /\ n \in Nat /\ lo \in 0..(MAX_DEPTH + 1)
      /\ \A l \in lo..n : l \in lo..(MAX_DEPTH + 1)
      /\ \A l \in lo..n : l # lo => l - 1 \in Levels /\ l - 1 \in lo..n /\ l - 1 \in lo..MAX_DEPTH /\ (l - 1) + 1 = l
  BY StopLevelIsFirstFree, AccQueueConstants DEF Levels
<1>2. /\ rows \in [lo..(MAX_DEPTH + 1) -> Seq(X)] /\ rows[lo] = Empty
      /\ \A l \in lo..MAX_DEPTH : rows[l + 1] = Row(q, l) \o rows[l]
  BY <1>1, RowsDef
<1> HIDE DEF n, rows
<1>3. \A l \in lo..n : rows[l] \in Seq(X) /\ rows[l] \o node \in Seq(X)
  BY <1>1, <1>2, ConcatProperties
<1>4. ASSUME NEW l \in lo..n, l # lo
      PROVE  HashLevel(q, l - 1, rows[l - 1] \o node) = rows[l] \o node
  <2> DEFINE k == l - 1
  <2>1. rows[l] = Row(q, k) \o rows[k] /\ k \in Levels
    BY <1>1, <1>2, <1>4
  <2>2. rows[k] \in Seq(X)
    BY <1>1, <1>3, <1>4
  <2> HIDE DEF k
  <2>3. \A below \in Seq(X) : HashLevel(q, k, below \o node) = (Row(q, k) \o below) \o node
    BY <2>1, HashedOver
  <2> QED
    BY <2>1, <2>2, <2>3 DEF k
<1>5. rows[lo] \o node = node
  BY <1>2, ConcatEmptySeq DEF Empty
<1>6. Def(f)
  <2>1. ASSUME NEW l \in lo..n
        PROVE  f[l] = IF l = lo THEN node ELSE HashLevel(q, l - 1, f[l - 1])
    <3>1. CASE l = lo
      BY <1>5, <3>1
    <3>2. CASE l # lo
      <4>1. f[l - 1] = rows[l - 1] \o node /\ f[l] = rows[l] \o node
        BY <1>1, <3>2
      <4> HIDE DEF f
      <4>2. HashLevel(q, l - 1, f[l - 1]) = rows[l] \o node
        BY <1>4, <3>2, <4>1
      <4> QED
        BY <3>2, <4>1, <4>2
    <3> QED
      BY <3>1, <3>2
  <2> QED
    BY <2>1
<1> DEFINE up == Climb(q, node, lo)
<1>7. Def(up)
  BY <1>6 DEF Climb, n
<1>8. \A l \in lo..n : up[l] = IF l = lo THEN node ELSE HashLevel(q, l - 1, up[l - 1])
  BY <1>7
<1> HIDE DEF Def, f, up
<1> DEFINE S == {l \in lo..n : up[l] = rows[l] \o node}
<1>9. lo \in S
  BY <1>1, <1>5, <1>8
<1>10. ASSUME NEW l \in lo..(n - 1), l \in S PROVE l + 1 \in S
  <2>1. l + 1 \in lo..n /\ l + 1 # lo /\ (l + 1) - 1 = l /\ l \in lo..n
    BY <1>1
  <2>2. up[l + 1] = HashLevel(q, (l + 1) - 1, up[l]) /\ up[l] = rows[l] \o node
    BY <1>8, <1>10, <2>1
  <2>3. HashLevel(q, (l + 1) - 1, rows[(l + 1) - 1] \o node) = rows[l + 1] \o node
    BY <1>4, <2>1
  <2> QED
    BY <2>1, <2>2, <2>3
<1> HIDE DEF S
<1>11. lo..n \subseteq S
  BY <1>1, <1>9, <1>10, RangeInduction
<1>12. \A l \in lo..n : up[l] = rows[l] \o node
  BY <1>11 DEF S
<1> QED
  BY <1>3, <1>12 DEF up, n, rows

-----------------------------------------------------------------------------
\* q2 is q with a node that came in at level lo stored at the first free level.
Queued(q, q2, lo, node) ==
  LET stop == StopLevel(q, lo)
  IN  /\ \A l \in lo..(stop - 1) : q2.indices[l] = 0
      /\ q2.indices[stop] = q.indices[stop] + 1
      /\ q2.levels[stop] = [q.levels[stop] EXCEPT ![q.indices[stop]] = Climb(q, node, lo)[stop]]
      /\ \A l \in Levels : l < lo \/ l > stop =>
           q2.indices[l] = q.indices[l] /\ q2.levels[l] = q.levels[l]

\* No leaf waits at a level without nodes.
LEMMA EmptyRow ==
  ASSUME NEW X, NEW q \in Queues(X), NEW l \in Levels, q.indices[l] = 0
  PROVE  Row(q, l) = << >>
<1>1. Waiting(q, l) \in Seq(Seq(X)) /\ Len(Waiting(q, l)) = 0
  BY WaitingTyped
<1>2. Waiting(q, l) = << >>
  BY <1>1, EmptySeq
<1> QED
  BY <1>2, RowTyped, FlattenEmpty

\* Nor in a range of such levels.
LEMMA EmptyRows ==
  ASSUME NEW X, NEW q \in Queues(X), NEW lo \in Levels, NEW hi \in lo..(MAX_DEPTH + 1),
         \A l \in lo..(hi - 1) : q.indices[l] = 0
  PROVE  Rows(q, lo)[hi] = << >>
<1> DEFINE rows == Rows(q, lo)
           S == {l \in lo..hi : rows[l] = << >>}
<1>1. /\ lo \in Nat /\ hi \in Nat /\ lo \in lo..hi /\ hi \in lo..hi /\ lo \in 0..(MAX_DEPTH + 1)
      /\ \A l \in lo..(hi - 1) : l \in Levels /\ l \in lo..MAX_DEPTH /\ l + 1 \in lo..hi
  BY AccQueueConstants DEF Levels
<1>2. rows[lo] = Empty /\ \A l \in lo..MAX_DEPTH : rows[l + 1] = Row(q, l) \o rows[l]
  BY <1>1, RowsDef
<1>3. \A l \in lo..(hi - 1) : Row(q, l) = << >>
  BY <1>1, EmptyRow
<1>4. << >> \o << >> = << >>
  BY EmptySeq, ConcatEmptySeq
<1> HIDE DEF rows
<1>5. lo \in S
  BY <1>1, <1>2 DEF Empty
<1>6. ASSUME NEW l \in lo..(hi - 1), l \in S PROVE l + 1 \in S
  BY <1>1, <1>2, <1>3, <1>4, <1>6
<1> HIDE DEF S
<1>7. lo..hi \subseteq S
  BY <1>1, <1>5, <1>6, RangeInduction
<1> QED
  BY <1>1, <1>7 DEF S, rows

\* A level with one node more.
LEMMA QueuedRow ==
  ASSUME NEW X, NEW q \in Queues(X), NEW q2 \in Queues(X), NEW l \in Levels, NEW node \in Seq(X),
         q2.indices[l] = q.indices[l] + 1,
         q2.levels[l] = [q.levels[l] EXCEPT ![q.indices[l]] = node]
  PROVE  Row(q2, l) = Row(q, l) \o node
<1> DEFINE k == q.indices[l]
           old == Waiting(q, l)
           new == Waiting(q2, l)
<1>1. k \in Nat /\ k < hashLength - 1 /\ k \in Slots
  <2>1. k \in 0..(hashLength - 1) /\ k + 1 \in 0..(hashLength - 1)
    BY DEF Queues
  <2> QED
    BY <2>1, AccQueueConstants DEF Slots
<1>2. /\ old \in Seq(Seq(X)) /\ Len(old) = k /\ new \in Seq(Seq(X)) /\ Len(new) = k + 1
  BY WaitingTyped
<1>3. q.levels[l] \in [Slots -> Seq(X)]
  BY DEF Queues
<1>4. ASSUME NEW i \in 1..(k + 1)
      PROVE  new[i] = IF i = k + 1 THEN node ELSE old[i]
  <2>1. new[i] = q2.levels[l][i - 1]
    BY <1>1 DEF Waiting
  <2>2. i # k + 1 => i \in 1..k /\ old[i] = q.levels[l][i - 1] /\ i - 1 # k
    BY <1>1 DEF Waiting
  <2>3. i - 1 \in Slots
    BY <1>1, AccQueueConstants DEF Slots
  <2> QED
    BY <1>1, <1>3, <2>1, <2>2, <2>3
<1> HIDE DEF k, old, new
<1>5. /\ Append(old, node) \in Seq(Seq(X)) /\ Len(Append(old, node)) = k + 1
      /\ Append(old, node)[k + 1] = node /\ \A i \in 1..k : Append(old, node)[i] = old[i]
  BY <1>2, AppendProperties
<1>6. \A i \in 1..(k + 1) : new[i] = Append(old, node)[i]
  <2>1. \A i \in 1..(k + 1) : i # k + 1 => i \in 1..k
    BY <1>1
  <2> QED
    BY <1>4, <1>5, <2>1
<1>7. new = Append(old, node)
  BY <1>2, <1>5, <1>6, SeqEqual
<1>8. FlattenSeq(new) = FlattenSeq(old) \o node
  BY <1>2, <1>7, FlattenAppend
<1> QED
  BY <1>8, RowTyped DEF old, new

EndsWith(q, q2, lo, node) ==
  \A l \in (StopLevel(q, lo) + 1)..(MAX_DEPTH + 1) : Rows(q2, lo)[l] = Rows(q, lo)[l] \o node

\* A queued node comes after everything that waits: above the level where it is
\* stored the rows end with it.
LEMMA QueuedRows ==
  ASSUME NEW X, NEW q \in Queues(X), NEW q2 \in Queues(X), NEW lo \in Levels, NEW node \in Seq(X),
         StopLevel(q, lo) \in Levels, Queued(q, q2, lo, node)
  PROVE  EndsWith(q, q2, lo, node)
<1> DEFINE stop == StopLevel(q, lo)
           n == MAX_DEPTH + 1
           a == stop + 1
           old == Rows(q, lo)
           new == Rows(q2, lo)
           up == Climb(q, node, lo)[stop]
           S == {l \in a..n : new[l] = old[l] \o node}
<1>1. /\ lo \in Nat /\ stop \in Nat /\ n \in Nat /\ a \in Nat /\ a \in a..n /\ stop \in lo..n /\ stop \in lo..stop
      /\ lo \in 0..n /\ stop \in lo..MAX_DEPTH
      /\ \A l \in a..(n - 1) : l \in Levels /\ l \in lo..MAX_DEPTH /\ l + 1 \in a..n /\ l > stop /\ l \in lo..n
  <2>1. stop \in lo..(MAX_DEPTH + 1) /\ stop \in 0..MAX_DEPTH /\ lo \in 0..MAX_DEPTH
    BY StopLevelIsFirstFree DEF Levels
  <2> HIDE DEF stop
  <2> QED
    BY <2>1, AccQueueConstants DEF Levels
<1>2. /\ old \in [lo..n -> Seq(X)] /\ \A l \in lo..MAX_DEPTH : old[l + 1] = Row(q, l) \o old[l]
  BY <1>1, RowsDef
<1>3. \A l \in lo..MAX_DEPTH : new[l + 1] = Row(q2, l) \o new[l]
  BY <1>1, RowsDef
<1>4. up = old[stop] \o node /\ up \in Seq(X)
  BY <1>1, ClimbIsRows
<1>5. /\ \A l \in lo..(stop - 1) : q2.indices[l] = 0
      /\ q2.indices[stop] = q.indices[stop] + 1
      /\ q2.levels[stop] = [q.levels[stop] EXCEPT ![q.indices[stop]] = up]
      /\ \A l \in Levels : l > stop => q2.indices[l] = q.indices[l] /\ q2.levels[l] = q.levels[l]
  BY DEF Queued
<1>6. stop \in Levels
  OBVIOUS
<1> HIDE DEF stop, n, a, old, up
<1>7. new[stop] = << >>
  BY <1>1, <1>5, EmptyRows DEF n
<1>8. Row(q2, stop) = Row(q, stop) \o up
  <2>1. \A x \in Seq(X) :
          q2.levels[stop] = [q.levels[stop] EXCEPT ![q.indices[stop]] = x] =>
            Row(q2, stop) = Row(q, stop) \o x
    BY <1>5, <1>6, QueuedRow
  <2> QED
    BY <1>4, <1>5, <2>1
<1>a. \A x, y, z \in Seq(X) : x \o (y \o z) = (x \o y) \o z
  BY ConcatIsAssociative DEF Associative
<1>9. \A l \in Levels : l > stop => Row(q2, l) = Row(q, l)
  BY <1>5 DEF Row, HashLevel
<1> HIDE DEF new
<1>10. a \in S
  <2>1. new[a] = (Row(q, stop) \o up) \o << >>
    BY <1>1, <1>3, <1>7, <1>8 DEF a
  <2>2. Row(q, stop) \in Seq(X) /\ old[stop] \in Seq(X)
    BY <1>1, <1>2, <1>6, RowTyped
  <2>3. Row(q, stop) \o up \in Seq(X)
    BY <1>4, <2>2, ConcatProperties
  <2>4. new[a] = Row(q, stop) \o up
    BY <2>1, <2>3, ConcatEmptySeq
  <2>5. Row(q, stop) \o (old[stop] \o node) = (Row(q, stop) \o old[stop]) \o node
    BY <1>a, <2>2
  <2>6. old[a] = Row(q, stop) \o old[stop]
    BY <1>1, <1>2 DEF a
  <2> QED
    BY <1>1, <1>4, <2>4, <2>5, <2>6
<1>11. ASSUME NEW l \in a..(n - 1), l \in S PROVE l + 1 \in S
  <2>1. new[l + 1] = Row(q, l) \o (old[l] \o node) /\ old[l + 1] = Row(q, l) \o old[l]
    BY <1>1, <1>2, <1>3, <1>9, <1>11
  <2>2. Row(q, l) \in Seq(X) /\ old[l] \in Seq(X)
    BY <1>1, <1>2, RowTyped
  <2>3. Row(q, l) \o (old[l] \o node) = (Row(q, l) \o old[l]) \o node
    BY <1>a, <2>2
  <2> QED
    BY <1>1, <2>1, <2>3
<1> HIDE DEF S
<1>12. a..n \subseteq S
  BY <1>1, <1>10, <1>11, RangeInduction
<1> QED
  BY <1>12 DEF EndsWith, S, a, n, new, old, stop

\* The lowest level comes last.
LEMMA RowsSplit ==
  ASSUME NEW X, NEW q \in Queues(X), NEW lo \in Levels
  PROVE  \A l \in (lo + 1)..(MAX_DEPTH + 1) : Rows(q, lo)[l] = Rows(q, lo + 1)[l] \o Row(q, lo)
<1> DEFINE n == MAX_DEPTH + 1
           a == lo + 1
           all == Rows(q, lo)
           upper == Rows(q, lo + 1)
           S == {l \in a..n : all[l] = upper[l] \o Row(q, lo)}
<1>1. /\ lo \in Nat /\ n \in Nat /\ a \in Nat /\ a \in a..n /\ lo \in 0..n /\ a \in 0..n /\ lo \in lo..MAX_DEPTH
      /\ \A l \in a..(n - 1) : l \in Levels /\ l \in lo..MAX_DEPTH /\ l \in a..MAX_DEPTH /\ l + 1 \in a..n /\ l \in a..n
  BY AccQueueConstants DEF Levels
<1>2. /\ all[lo] = Empty /\ \A l \in lo..MAX_DEPTH : all[l + 1] = Row(q, l) \o all[l]
  BY <1>1, RowsDef
<1>3. /\ upper \in [a..n -> Seq(X)] /\ upper[a] = Empty
      /\ \A l \in a..MAX_DEPTH : upper[l + 1] = Row(q, l) \o upper[l]
  BY <1>1, RowsDef
<1>4. \A x, y, z \in Seq(X) : x \o (y \o z) = (x \o y) \o z
  BY ConcatIsAssociative DEF Associative
<1>5. Row(q, lo) \in Seq(X)
  BY RowTyped
<1> HIDE DEF n, a, all, upper
<1>6. a \in S
  <2>1. all[a] = Row(q, lo) \o Empty /\ upper[a] \o Row(q, lo) = Empty \o Row(q, lo)
    BY <1>1, <1>2, <1>3 DEF a
  <2> QED
    BY <1>1, <1>5, <2>1, ConcatEmptySeq DEF Empty
<1>7. ASSUME NEW l \in a..(n - 1), l \in S PROVE l + 1 \in S
  <2>1. all[l + 1] = Row(q, l) \o (upper[l] \o Row(q, lo)) /\ upper[l + 1] = Row(q, l) \o upper[l]
    BY <1>1, <1>2, <1>3, <1>7
  <2>2. Row(q, l) \in Seq(X) /\ upper[l] \in Seq(X)
    BY <1>1, <1>3, RowTyped
  <2>3. Row(q, l) \o (upper[l] \o Row(q, lo)) = (Row(q, l) \o upper[l]) \o Row(q, lo)
    BY <1>4, <1>5, <2>2
  <2>4. l + 1 \in a..n
    BY <1>1
  <2> QED
    BY <2>1, <2>3, <2>4
<1> HIDE DEF S
<1>8. a..n \subseteq S
  BY <1>1, <1>6, <1>7, RangeInduction
<1> QED
  BY <1>8 DEF S, n, a, all, upper

\* Levels that are all full lack one node of the lowest to make one of the next.
LEMMA FullRows ==
  ASSUME NEW X, NEW q \in Queues(X), NEW unit \in Nat, unit >= 1, Sized(q, unit),
         NEW lo \in Levels, NEW hi \in lo..(MAX_DEPTH + 1),
         \A l \in lo..(hi - 1) : q.indices[l] = hashLength - 1
  PROVE  Len(Rows(q, lo)[hi]) = Size(unit, hi) - Size(unit, lo)
<1> DEFINE n == MAX_DEPTH + 1
           rows == Rows(q, lo)
           S == {l \in lo..hi : Len(rows[l]) = Size(unit, l) - Size(unit, lo)}
<1>1. /\ n \in Nat /\ lo \in Nat /\ hi \in Nat /\ lo \in 0..n /\ lo \in lo..hi /\ hi \in lo..hi
      /\ \A l \in lo..(hi - 1) : l \in Levels /\ l \in lo..MAX_DEPTH /\ l \in lo..n /\ l + 1 \in lo..hi /\ l \in 0..n
  BY AccQueueConstants DEF Levels
<1>2. /\ rows \in [lo..n -> Seq(X)] /\ rows[lo] = Empty
      /\ \A l \in lo..MAX_DEPTH : rows[l + 1] = Row(q, l) \o rows[l]
  BY <1>1, RowsDef
<1>3. /\ \A l \in 0..n : Size(unit, l) \in Nat /\ Size(unit, l) >= 1
      /\ \A l \in Levels : Size(unit, l + 1) = hashLength * Size(unit, l)
  BY SizeFacts
<1> HIDE DEF n, rows
<1>4. lo \in S
  BY <1>1, <1>2, <1>3, EmptySeq DEF Empty
<1>5. ASSUME NEW l \in lo..(hi - 1), l \in S PROVE l + 1 \in S
  <2> DEFINE w == Size(unit, l)
             base == Size(unit, lo)
  <2>1. w \in Nat /\ base \in Nat /\ Size(unit, l + 1) = hashLength * w
    BY <1>1, <1>3
  <2>2. rows[l] \in Seq(X) /\ Row(q, l) \in Seq(X) /\ Len(Row(q, l)) = q.indices[l] * w
    BY <1>1, <1>2, RowTyped, RowLength
  <2>3. Len(rows[l + 1]) = Len(Row(q, l)) + Len(rows[l])
    <3>1. rows[l + 1] = Row(q, l) \o rows[l]
      BY <1>1, <1>2
    <3> QED
      BY <2>2, <3>1, ConcatProperties
  <2>4. Len(rows[l]) = w - base /\ q.indices[l] = hashLength - 1
    BY <1>5
  <2> HIDE DEF w, base
  <2>5. hashLength * w = (hashLength - 1) * w + w /\ (hashLength - 1) * w \in Int
    BY <2>1, AccQueueConstants
  <2>6. Len(rows[l + 1]) = Size(unit, l + 1) - base
    BY <2>1, <2>2, <2>3, <2>4, <2>5
  <2> QED
    BY <1>1, <2>6 DEF base
<1> HIDE DEF S
<1>6. lo..hi \subseteq S
  BY <1>1, <1>4, <1>5, RangeInduction
<1> QED
  BY <1>1, <1>6 DEF S, n, rows

\* The node that reaches a level has its size.
LEMMA ClimbLength ==
  ASSUME NEW X, NEW q \in Queues(X), NEW unit \in Nat, unit >= 1, Sized(q, unit),
         NEW lo \in Levels, NEW node \in Seq(X), Len(node) = Size(unit, lo)
  PROVE  \A l \in lo..StopLevel(q, lo) : Len(Climb(q, node, lo)[l]) = Size(unit, l)
<1> SUFFICES ASSUME NEW l \in lo..StopLevel(q, lo)
             PROVE  Len(Climb(q, node, lo)[l]) = Size(unit, l)
  OBVIOUS
<1>1. /\ l \in lo..(MAX_DEPTH + 1) /\ lo \in 0..(MAX_DEPTH + 1) /\ l \in 0..(MAX_DEPTH + 1)
      /\ \A k \in lo..(l - 1) : q.indices[k] = hashLength - 1
  <2>1. StopLevel(q, lo) \in lo..(MAX_DEPTH + 1) /\ lo \in 0..MAX_DEPTH
    BY StopLevelIsFirstFree DEF Levels
  <2>2. \A k \in lo..(l - 1) : k \in lo..(StopLevel(q, lo) - 1)
    BY <2>1, AccQueueConstants
  <2>3. \A k \in lo..(StopLevel(q, lo) - 1) : q.indices[k] = hashLength - 1
    BY StopLevelIsFirstFree
  <2> QED
    BY <2>1, <2>2, <2>3, AccQueueConstants
<1>2. Len(Rows(q, lo)[l]) = Size(unit, l) - Size(unit, lo)
  BY <1>1, FullRows
<1>3. Rows(q, lo)[l] \in Seq(X)
  <2>1. Rows(q, lo) \in [lo..(MAX_DEPTH + 1) -> Seq(X)]
    BY <1>1, RowsDef
  <2> QED
    BY <1>1, <2>1
<1>4. Climb(q, node, lo)[l] = Rows(q, lo)[l] \o node
  BY ClimbIsRows
<1>5. Len(Climb(q, node, lo)[l]) = Len(Rows(q, lo)[l]) + Len(node)
  BY <1>3, <1>4, ConcatProperties
<1>6. Size(unit, l) \in Nat /\ Size(unit, lo) \in Nat
  BY <1>1, SizeFacts
<1> HIDE DEF Size
<1> QED
  BY <1>2, <1>5, <1>6

-----------------------------------------------------------------------------
\* _enqueue stores the node and empties the levels below.
LEMMA EnqueueAtTyped ==
  ASSUME NEW X, NEW q \in Queues(X), NEW lo \in Levels, NEW node \in Seq(X),
         StopLevel(q, lo) \in Levels
  PROVE  /\ EnqueueAt(q, node, lo) \in Queues(X)
         /\ StopLevel(q, lo) # subDepth => Queued(q, EnqueueAt(q, node, lo), lo, node)
<1> DEFINE stop == StopLevel(q, lo)
           up == Climb(q, node, lo)
           q2 == EnqueueAt(q, node, lo)
<1>1. /\ stop \in Levels /\ stop \in lo..stop /\ lo \in Nat /\ stop \in Nat
      /\ q.indices[stop] \in 0..(hashLength - 2) /\ q.indices[stop] \in Slots
      /\ \A l \in lo..(stop - 1) : l \in Levels
  <2>1. stop \in lo..(MAX_DEPTH + 1) /\ q.indices[stop] < hashLength - 1
    BY StopLevelIsFirstFree
  <2>2. q.indices[stop] \in 0..(hashLength - 1)
    BY DEF Queues
  <2> HIDE DEF stop
  <2>3. stop \in 0..MAX_DEPTH /\ lo \in 0..MAX_DEPTH
    BY DEF Levels, stop
  <2> QED
    BY <2>1, <2>2, <2>3, AccQueueConstants DEF Levels, Slots
<1>2. up[stop] \in Seq(X)
  BY <1>1, ClimbIsRows
<1>3. /\ q2.levels = [l \in Levels |->
                        IF l \in lo..(stop - 1) THEN [n \in Slots |-> Empty]
                        ELSE IF l = stop THEN [q.levels[l] EXCEPT ![q.indices[l]] = up[l]]
                        ELSE q.levels[l]]
      /\ q2.indices = [l \in Levels |->
                         IF l \in lo..(stop - 1) THEN 0
                         ELSE IF l = stop /\ l # subDepth THEN q.indices[l] + 1
                         ELSE q.indices[l]]
      /\ q2 = [levels |-> q2.levels, indices |-> q2.indices]
  BY DEF EnqueueAt
<1> HIDE DEF stop, up, q2
<1>4. /\ q.levels \in [Levels -> [Slots -> Seq(X)]] /\ q.indices \in [Levels -> 0..(hashLength - 1)]
      /\ [n \in Slots |-> Empty] \in [Slots -> Seq(X)]
  BY EmptySeq DEF Queues, Empty
<1>5. q2.levels \in [Levels -> [Slots -> Seq(X)]]
  <2>1. [q.levels[stop] EXCEPT ![q.indices[stop]] = up[stop]] \in [Slots -> Seq(X)]
    BY <1>1, <1>2, <1>4
  <2> QED
    BY <1>3, <1>4, <2>1
<1>6. q2.indices \in [Levels -> 0..(hashLength - 1)]
  <2>1. 0 \in 0..(hashLength - 1) /\ q.indices[stop] + 1 \in 0..(hashLength - 1)
    BY <1>1, AccQueueConstants
  <2> QED
    BY <1>3, <1>4, <2>1
<1>7. q2 \in Queues(X)
  BY <1>3, <1>5, <1>6 DEF Queues
<1>8. ASSUME stop # subDepth PROVE Queued(q, q2, lo, node)
  <2>1. \A l \in lo..(stop - 1) : q2.indices[l] = 0
    BY <1>1, <1>3
  <2>2. stop \notin lo..(stop - 1)
    BY <1>1
  <2>3. /\ q2.indices[stop] = q.indices[stop] + 1
        /\ q2.levels[stop] = [q.levels[stop] EXCEPT ![q.indices[stop]] = up[stop]]
    BY <1>1, <1>3, <1>8, <2>2
  <2>4. ASSUME NEW l \in Levels, l < lo \/ l > stop
        PROVE  q2.indices[l] = q.indices[l] /\ q2.levels[l] = q.levels[l]
    <3>1. l \notin lo..(stop - 1) /\ l # stop
      BY <1>1, <2>4, AccQueueConstants DEF Levels
    <3> QED
      BY <1>3, <3>1
  <2> QED
    BY <2>1, <2>3, <2>4 DEF Queued, stop, up
<1> QED
  BY <1>7, <1>8 DEF stop, q2

\* A subtree's queue holds nothing from the level of its root up.
SubtreeQueue(X, q) ==
  /\ q \in Queues(X)
  /\ Sized(q, 1)
  /\ \A l \in subDepth..MAX_DEPTH : q.indices[l] = 0

\* The sizes of the nodes stay right.
LEMMA QueuedSized ==
  ASSUME NEW X, NEW q \in Queues(X), NEW q2 \in Queues(X), NEW lo \in Levels, NEW node \in Seq(X),
         NEW unit \in Nat, unit >= 1, Sized(q, unit), Len(node) = Size(unit, lo),
         StopLevel(q, lo) \in Levels, Queued(q, q2, lo, node)
  PROVE  Sized(q2, unit)
<1> DEFINE stop == StopLevel(q, lo)
           up == Climb(q, node, lo)[stop]
<1>1. stop \in lo..stop /\ stop \in Nat /\ lo \in Nat
  <2>1. stop \in lo..(MAX_DEPTH + 1) /\ lo \in 0..MAX_DEPTH
    BY StopLevelIsFirstFree DEF Levels
  <2> HIDE DEF stop
  <2> QED
    BY <2>1, AccQueueConstants
<1>2. Len(up) = Size(unit, stop)
  BY <1>1, ClimbLength
<1>3. /\ \A l \in lo..(stop - 1) : q2.indices[l] = 0
      /\ q2.indices[stop] = q.indices[stop] + 1
      /\ q2.levels[stop] = [q.levels[stop] EXCEPT ![q.indices[stop]] = up]
      /\ \A l \in Levels : l < lo \/ l > stop =>
           q2.indices[l] = q.indices[l] /\ q2.levels[l] = q.levels[l]
  BY DEF Queued
<1> HIDE DEF stop, up
<1> SUFFICES ASSUME NEW l \in Levels, NEW i \in Slots, i < q2.indices[l]
             PROVE  Len(q2.levels[l][i]) = Size(unit, l)
  BY DEF Sized
<1>4. l \in Nat /\ i \in Nat
  BY AccQueueConstants DEF Levels, Slots
<1>5. CASE l < lo \/ l > stop
  BY <1>3, <1>5 DEF Sized
<1>6. CASE l \in lo..(stop - 1)
  BY <1>3, <1>4, <1>6
<1>7. CASE l = stop
  <2>1. q.levels[l] \in [Slots -> Seq(X)] /\ q.indices[l] \in 0..(hashLength - 1)
    BY DEF Queues
  <2>2. CASE i = q.indices[l]
    BY <1>2, <1>3, <1>7, <2>1, <2>2
  <2>3. CASE i # q.indices[l]
    <3>1. i < q.indices[l] /\ q2.levels[l][i] = q.levels[l][i]
      BY <1>3, <1>4, <1>7, <2>1, <2>3
    <3> QED
      BY <3>1 DEF Sized
  <2> QED
    BY <2>2, <2>3
<1> QED
  BY <1>1, <1>4, <1>5, <1>6, <1>7

\* A node queued in a subtree either waits after the leaves that wait already,
\* or completes the root, which commits to those leaves and then the node.
Waits(q, q2, lo, node) == Rows(q2, lo)[subDepth] = Rows(q, lo)[subDepth] \o node

Completes(q, q2, lo, node) ==
  /\ \A l \in lo..MAX_DEPTH : q2.indices[l] = 0
  /\ \A l \in lo..(subDepth - 1) : q.indices[l] = hashLength - 1
  /\ q2.levels[subDepth][0] = Rows(q, lo)[subDepth] \o node
  /\ Len(q2.levels[subDepth][0]) = Size(1, subDepth)

SubtreeStepped(X, q, q2, lo, node) ==
  /\ SubtreeQueue(X, q2)
  /\ \A l \in Levels : l < lo => q2.indices[l] = q.indices[l] /\ q2.levels[l] = q.levels[l]
  /\ Waits(q, q2, lo, node) \/ Completes(q, q2, lo, node)

\* _enqueue in the queue of a subtree: the node waits, or completes it.
LEMMA SubtreeStep ==
  ASSUME NEW X, NEW q, SubtreeQueue(X, q), NEW lo \in 0..subDepth,
         NEW node \in Seq(X), Len(node) = Size(1, lo),
         NEW q2, q2 = EnqueueAt(q, node, lo)
  PROVE  SubtreeStepped(X, q, q2, lo, node)
<1> DEFINE stop == StopLevel(q, lo)
           up == Climb(q, node, lo)
<1>1. /\ q \in Queues(X) /\ Sized(q, 1) /\ \A l \in subDepth..MAX_DEPTH : q.indices[l] = 0
      /\ lo \in Levels /\ lo \in Nat /\ subDepth \in Levels /\ subDepth \in subDepth..MAX_DEPTH
  BY AccQueueConstants DEF SubtreeQueue, Levels
<1>2. /\ stop \in lo..subDepth /\ stop \in Levels /\ stop \in Nat
      /\ \A l \in lo..(stop - 1) : q.indices[l] = hashLength - 1
  <2>1. /\ stop \in lo..(MAX_DEPTH + 1)
        /\ \A l \in lo..(stop - 1) : q.indices[l] = hashLength - 1
    BY <1>1, StopLevelIsFirstFree
  <2> HIDE DEF stop
  <2>2. ~ (subDepth \in lo..(stop - 1))
    BY <1>1, <2>1, AccQueueConstants
  <2> QED
    BY <1>1, <2>1, <2>2, AccQueueConstants DEF Levels
<1>3. q2 \in Queues(X) /\ (stop # subDepth => Queued(q, q2, lo, node))
  BY <1>1, <1>2, EnqueueAtTyped
<1>4. CASE stop # subDepth
  <2>1. Queued(q, q2, lo, node)
    BY <1>3, <1>4
  <2>2. Sized(q2, 1)
    BY <1>1, <1>2, <1>3, <2>1, QueuedSized
  <2>3. \A l \in (stop + 1)..(MAX_DEPTH + 1) : Rows(q2, lo)[l] = Rows(q, lo)[l] \o node
    <3>1. q \in Queues(X) /\ q2 \in Queues(X) /\ lo \in Levels /\ StopLevel(q, lo) \in Levels
      BY <1>1, <1>2, <1>3
    <3> QED
      <4>1. EndsWith(q, q2, lo, node)
        BY <2>1, <3>1, QueuedRows
      <4> QED
        BY <4>1 DEF EndsWith
  <2>4. \A l \in Levels : l < lo \/ l > stop => q2.indices[l] = q.indices[l] /\ q2.levels[l] = q.levels[l]
    BY <2>1 DEF Queued
  <2> HIDE DEF stop
  <2>5. subDepth \in (stop + 1)..(MAX_DEPTH + 1) /\ \A l \in subDepth..MAX_DEPTH : l \in Levels /\ l > stop
    BY <1>1, <1>2, <1>4, AccQueueConstants DEF Levels
  <2>6. \A l \in subDepth..MAX_DEPTH : q2.indices[l] = 0
    BY <1>1, <2>4, <2>5
  <2> QED
    BY <1>3, <2>2, <2>3, <2>4, <2>5, <2>6 DEF SubtreeQueue, Waits, SubtreeStepped
<1>5. CASE stop = subDepth
  <2>1. /\ q2.levels = [l \in Levels |->
                          IF l \in lo..(stop - 1) THEN [n \in Slots |-> Empty]
                          ELSE IF l = stop THEN [q.levels[l] EXCEPT ![q.indices[l]] = up[l]]
                          ELSE q.levels[l]]
        /\ q2.indices = [l \in Levels |->
                           IF l \in lo..(stop - 1) THEN 0
                           ELSE IF l = stop /\ l # subDepth THEN q.indices[l] + 1
                           ELSE q.indices[l]]
    BY DEF EnqueueAt
  <2>2. /\ up[subDepth] = Rows(q, lo)[subDepth] \o node
        /\ Len(up[subDepth]) = Size(1, subDepth)
    <3>1. subDepth \in lo..StopLevel(q, lo)
      BY <1>1, <1>2, <1>5
    <3>a. q \in Queues(X) /\ lo \in Levels
      BY <1>1
    <3>2. \A l \in lo..StopLevel(q, lo) : Climb(q, node, lo)[l] = Rows(q, lo)[l] \o node
      BY <3>a, ClimbIsRows, Zenon
    <3>3. \A l \in lo..StopLevel(q, lo) : Len(Climb(q, node, lo)[l]) = Size(1, l)
      BY <1>1, ClimbLength
    <3> QED
      BY <3>1, <3>2, <3>3
  <2> HIDE DEF stop, up
  <2>3. \A l \in Levels : q2.indices[l] = IF l \in lo..(subDepth - 1) THEN 0 ELSE q.indices[l]
    BY <1>5, <2>1
  <2>4. q2.levels[subDepth][0] = up[subDepth]
    <3>1. q.indices[subDepth] = 0 /\ 0 \in Slots /\ subDepth \notin lo..(subDepth - 1)
      BY <1>1, AccQueueConstants DEF Slots
    <3>2. q.levels[subDepth] \in [Slots -> Seq(X)]
      BY <1>1 DEF Queues
    <3> QED
      BY <1>1, <1>5, <2>1, <3>1, <3>2
  <2>5. ASSUME NEW l \in lo..MAX_DEPTH PROVE q2.indices[l] = 0
    <3>1. l \in Levels /\ (l \in lo..(subDepth - 1) \/ l \in subDepth..MAX_DEPTH)
      BY <1>1, AccQueueConstants DEF Levels
    <3> QED
      BY <1>1, <2>3, <3>1
  <2>6. \A l \in Levels : l < lo => q2.indices[l] = q.indices[l] /\ q2.levels[l] = q.levels[l]
    <3>1. \A l \in Levels : l < lo => l \notin lo..(stop - 1) /\ l # stop
      BY <1>1, <1>2, AccQueueConstants DEF Levels
    <3> QED
      BY <2>1, <3>1
  <2>7. Sized(q2, 1)
    <3> SUFFICES ASSUME NEW l \in Levels, NEW i \in Slots, i < q2.indices[l]
                 PROVE  Len(q2.levels[l][i]) = Size(1, l)
      BY DEF Sized
    <3>1. l < lo
      BY <1>1, <2>5, AccQueueConstants DEF Levels, Slots
    <3> QED
      BY <1>1, <2>6, <3>1 DEF Sized
  <2>8. \A l \in subDepth..MAX_DEPTH : q2.indices[l] = 0
    BY <1>1, <2>5, AccQueueConstants
  <2>9. \A l \in lo..(subDepth - 1) : q.indices[l] = hashLength - 1
    BY <1>2, <1>5
  <2> QED
    BY <1>3, <2>2, <2>4, <2>5, <2>6, <2>7, <2>8, <2>9 DEF SubtreeQueue, Completes, SubtreeStepped
<1> QED
  BY <1>4, <1>5

-----------------------------------------------------------------------------
(***************************************************************************)
(* The functions of the contract, in terms of the leaves it holds.         *)
(***************************************************************************)
StartedLeaves(q) ==
  FlattenSeq([i \in 1..subDepth |-> HashLevel(q, subDepth - i, Empty)])

\* AccQueue's Pending is the rows below the subtree's root.
LEMMA StartedLeavesAreRows ==
  ASSUME NEW X, NEW q \in Queues(X)
  PROVE  StartedLeaves(q) = Rows(q, 0)[subDepth] /\ StartedLeaves(q) \in Seq(X)
<1> DEFINE s == [i \in 1..subDepth |-> HashLevel(q, subDepth - i, Empty)]
           rows == Rows(q, 0)
           S == {i \in 1..subDepth : Flat(s)[i] \o rows[subDepth - i] = rows[subDepth]}
<1>1. /\ 0 \in 0..(MAX_DEPTH + 1) /\ subDepth \in 0..(MAX_DEPTH + 1) /\ subDepth \in 1..subDepth /\ 1 \in 1..subDepth
      /\ \A i \in 1..subDepth : subDepth - i \in Levels /\ subDepth - i \in 0..MAX_DEPTH /\ subDepth - i \in 0..(MAX_DEPTH + 1)
  BY AccQueueConstants DEF Levels
<1>2. /\ rows \in [0..(MAX_DEPTH + 1) -> Seq(X)] /\ rows[0] = Empty
      /\ \A l \in 0..MAX_DEPTH : rows[l + 1] = Row(q, l) \o rows[l]
  BY <1>1, RowsDef
<1>3. \A i \in 1..subDepth : s[i] = Row(q, subDepth - i)
  BY DEF Row
<1>4. \A i \in 1..subDepth : Row(q, subDepth - i) \in Seq(X)
  BY <1>1, RowTyped
<1>5. s \in Seq(Seq(X)) /\ Len(s) = subDepth /\ s # << >>
  <2>1. s \in [1..subDepth -> Seq(X)]
    BY <1>3, <1>4
  <2>2. s \in Seq(Seq(X)) /\ Len(s) = subDepth
    BY <2>1, SeqDef, AccQueueConstants
  <2> QED
    BY <2>2, EmptySeq, AccQueueConstants
<1> HIDE DEF s, rows
<1>6. /\ Flat(s) \in [1..subDepth -> Seq(X)] /\ Flat(s)[1] = s[1]
      /\ \A i \in 2..subDepth : Flat(s)[i] = Flat(s)[i - 1] \o s[i]
  BY <1>5, FlatDef
<1>7. ASSUME NEW i \in 1..subDepth
      PROVE  rows[(subDepth - i) + 1] = Row(q, subDepth - i) \o rows[subDepth - i]
  BY <1>1, <1>2
<1>8. 1 \in S
  <2>1. rows[subDepth] = Row(q, subDepth - 1) \o rows[subDepth - 1]
    <3>1. (subDepth - 1) + 1 = subDepth
      BY AccQueueConstants
    <3> QED
      BY <1>1, <1>7, <3>1
  <2> QED
    BY <1>1, <1>3, <1>6, <2>1
<1>9. ASSUME NEW i \in 1..(subDepth - 1), i \in S PROVE i + 1 \in S
  <2> DEFINE k == subDepth - (i + 1)
  <2>1. i + 1 \in 1..subDepth /\ i \in 1..subDepth /\ i + 1 \in 2..subDepth /\ (i + 1) - 1 = i /\ k + 1 = subDepth - i
    BY AccQueueConstants
  <2>2. Flat(s)[i + 1] = Flat(s)[i] \o Row(q, k)
    BY <1>3, <1>6, <2>1
  <2>3. rows[subDepth - i] = Row(q, k) \o rows[k]
    BY <1>7, <2>1
  <2>4. Flat(s)[i] \in Seq(X) /\ Row(q, k) \in Seq(X) /\ rows[k] \in Seq(X)
    BY <1>1, <1>2, <1>4, <1>6, <2>1
  <2>5. \A x, y, z \in Seq(X) : x \o (y \o z) = (x \o y) \o z
    BY ConcatIsAssociative DEF Associative
  <2>6. Flat(s)[i] \o (Row(q, k) \o rows[k]) = (Flat(s)[i] \o Row(q, k)) \o rows[k]
    BY <2>4, <2>5
  <2> HIDE DEF k
  <2>7. Flat(s)[i] \o rows[subDepth - i] = rows[subDepth]
    BY <1>9
  <2> QED
    BY <2>1, <2>2, <2>3, <2>6, <2>7 DEF k
<1> HIDE DEF S
<1>10. subDepth \in S
  <2>1. 1..subDepth \subseteq S
    BY <1>8, <1>9, RangeInduction, AccQueueConstants
  <2> QED
    BY <1>1, <2>1
<1>11. Flat(s)[subDepth] \o Empty = rows[subDepth]
  <2>1. subDepth - subDepth = 0
    BY AccQueueConstants
  <2> QED
    BY <1>2, <1>10, <2>1 DEF S
<1>12. Flat(s)[subDepth] \in Seq(X)
  BY <1>1, <1>6
<1>13. Flat(s)[subDepth] = rows[subDepth]
  BY <1>11, <1>12, ConcatEmptySeq DEF Empty
<1>14. FlattenSeq(s) = Flat(s)[subDepth]
  BY <1>5, FlattenIsFlat, AccQueueConstants
<1> QED
  BY <1>12, <1>13, <1>14 DEF StartedLeaves, s, rows

\* A sequence of zeros.
LEMMA ZerosTyped ==
  ASSUME NEW X, Zero \in X, NEW n \in Nat
  PROVE  /\ ZeroLeaves(n) \in Seq(X) /\ Len(ZeroLeaves(n)) = n
         /\ \A i \in 1..n : ZeroLeaves(n)[i] = Zero
<1>1. ZeroLeaves(n) \in [1..n -> X] /\ \A i \in 1..n : ZeroLeaves(n)[i] = Zero
  BY DEF ZeroLeaves
<1> QED
  BY <1>1, SeqDef

\* Zeros after zeros.
LEMMA ZerosAdd ==
  ASSUME NEW X, Zero \in X, NEW m \in Nat, NEW n \in Nat
  PROVE  ZeroLeaves(m) \o ZeroLeaves(n) = ZeroLeaves(m + n)
<1> DEFINE a == ZeroLeaves(m)
           b == ZeroLeaves(n)
           c == ZeroLeaves(m + n)
<1>1. /\ a \in Seq(X) /\ Len(a) = m /\ \A i \in 1..m : a[i] = Zero
      /\ b \in Seq(X) /\ Len(b) = n /\ \A i \in 1..n : b[i] = Zero
      /\ c \in Seq(X) /\ Len(c) = m + n /\ \A i \in 1..(m + n) : c[i] = Zero
  BY ZerosTyped
<1> HIDE DEF a, b, c
<1>2. /\ a \o b \in Seq(X) /\ Len(a \o b) = m + n
      /\ \A i \in 1..(m + n) : (a \o b)[i] = IF i <= m THEN a[i] ELSE b[i - m]
  BY <1>1, ConcatProperties
<1>3. \A i \in 1..(m + n) : (a \o b)[i] = c[i]
  <2> SUFFICES ASSUME NEW i \in 1..(m + n) PROVE (a \o b)[i] = c[i]
    OBVIOUS
  <2>1. c[i] = Zero /\ (a \o b)[i] = IF i <= m THEN a[i] ELSE b[i - m]
    BY <1>1, <1>2
  <2>2. i <= m => i \in 1..m
    OBVIOUS
  <2>3. ~ (i <= m) => i - m \in 1..n
    OBVIOUS
  <2> QED
    BY <1>1, <2>1, <2>2, <2>3
<1> QED
  BY <1>1, <1>2, <1>3, SeqEqual DEF a, b, c

\* Zeros behind zeros behind other leaves.
LEMMA ZerosAfter ==
  ASSUME NEW X, Zero \in X, NEW s \in Seq(X), NEW m \in Nat, NEW n \in Nat
  PROVE  (s \o ZeroLeaves(m)) \o ZeroLeaves(n) = s \o ZeroLeaves(m + n)
<1>1. \A x, y, z \in Seq(X) : x \o (y \o z) = (x \o y) \o z
  BY ConcatIsAssociative DEF Associative
<1>2. ZeroLeaves(m) \in Seq(X) /\ ZeroLeaves(n) \in Seq(X)
  BY ZerosTyped
<1>3. s \o (ZeroLeaves(m) \o ZeroLeaves(n)) = (s \o ZeroLeaves(m)) \o ZeroLeaves(n)
  BY <1>1, <1>2
<1> QED
  BY <1>3, ZerosAdd

AgreeFrom(q, q2, lo) == \A l \in lo..(MAX_DEPTH + 1) : Rows(q2, lo)[l] = Rows(q, lo)[l]

\* Queues whose levels hold the same leaves have the same rows there.
LEMMA RowsAgree ==
  ASSUME NEW X, NEW q \in Queues(X), NEW q2 \in Queues(X), NEW lo \in Levels,
         \A l \in lo..MAX_DEPTH : Row(q2, l) = Row(q, l)
  PROVE  AgreeFrom(q, q2, lo)
<1> DEFINE n == MAX_DEPTH + 1
           S == {l \in lo..n : Rows(q2, lo)[l] = Rows(q, lo)[l]}
<1>1. /\ lo \in Nat /\ n \in Nat /\ lo \in lo..n /\ lo \in 0..n
      /\ \A l \in lo..(n - 1) : l \in lo..MAX_DEPTH /\ l + 1 \in lo..n
  BY AccQueueConstants DEF Levels
<1>3. /\ Rows(q, lo)[lo] = Empty
      /\ \A l \in lo..MAX_DEPTH : Rows(q, lo)[l + 1] = Row(q, l) \o Rows(q, lo)[l]
  BY <1>1, RowsDef
<1>4. /\ Rows(q2, lo)[lo] = Empty
      /\ \A l \in lo..MAX_DEPTH : Rows(q2, lo)[l + 1] = Row(q2, l) \o Rows(q2, lo)[l]
  BY <1>1, RowsDef
<1> HIDE DEF n
<1>5. lo \in S
  BY <1>1, <1>3, <1>4
<1>6. ASSUME NEW l \in lo..(n - 1), l \in S PROVE l + 1 \in S
  BY <1>1, <1>3, <1>4, <1>6
<1> HIDE DEF S
<1>7. lo..n \subseteq S
  BY <1>1, <1>5, <1>6, RangeInduction
<1> QED
  BY <1>7 DEF S, n, AgreeFrom

LEMMA SameRows ==
  ASSUME NEW X, NEW q \in Queues(X), NEW q2 \in Queues(X), NEW lo \in Levels,
         \A l \in lo..MAX_DEPTH : q2.indices[l] = q.indices[l] /\ q2.levels[l] = q.levels[l]
  PROVE  AgreeFrom(q, q2, lo)
<1>1. \A l \in lo..MAX_DEPTH : Row(q2, l) = Row(q, l)
  BY DEF Row, HashLevel
<1> QED
  BY <1>1, RowsAgree

\* The levels from lo up hold the leaves s and those below hold nothing, or s
\* is a whole subtree whose root is stored.
Holds(q, lo, s) ==
  /\ \A l \in 0..(lo - 1) : q.indices[l] = 0
  /\ Rows(q, lo)[subDepth] = s

Completed(q, s) ==
  /\ \A l \in Levels : q.indices[l] = 0
  /\ q.levels[subDepth][0] = s
  /\ Len(s) = Size(1, subDepth)

Filled(q, lo, s) ==
  \E k \in Nat : Holds(q, lo, s \o ZeroLeaves(k)) \/ Completed(q, s \o ZeroLeaves(k))

\* _fill of a level that holds nodes.
LEMMA FillHeldLevel ==
  ASSUME NEW X, Zero \in X, NEW q, SubtreeQueue(X, q), NEW level \in 0..(subDepth - 1),
         NEW s \in Seq(X), Holds(q, level, s), NEW q2, q2 = FillLevel(q, level)
  PROVE  SubtreeQueue(X, q2) /\ Filled(q2, level + 1, s)
<1> DEFINE n == q.indices[level]
           up == level + 1
           zeros == (hashLength - n) * hashLength ^ level
           node == HashLevel(q, level, Empty) \o ZeroLeaves(zeros)
           enq == EnqueueAt(q, node, up)
           rows == Rows(q, level)[subDepth]
           upper == Rows(q, up)[subDepth]
<1>1. /\ q \in Queues(X) /\ Sized(q, 1) /\ \A l \in subDepth..MAX_DEPTH : q.indices[l] = 0
      /\ level \in Levels /\ up \in 0..subDepth /\ up \in Levels /\ level \in Nat /\ up \in Nat
      /\ subDepth \in (level + 1)..(MAX_DEPTH + 1) /\ up \in 0..(MAX_DEPTH + 1)
      /\ subDepth \in up..(MAX_DEPTH + 1)
      /\ \A l \in Levels : l \in 0..(level - 1) \/ l = level \/ l \in up..MAX_DEPTH
  BY AccQueueConstants DEF SubtreeQueue, Levels
<1>2. n \in 0..(hashLength - 1)
  BY <1>1 DEF Queues
<1>3. rows = upper \o Row(q, level)
  <2>1. \A l \in (level + 1)..(MAX_DEPTH + 1) :
          Rows(q, level)[l] = Rows(q, level + 1)[l] \o Row(q, level)
    BY <1>1, RowsSplit
  <2> QED
    BY <1>1, <2>1
<1>4. upper \in Seq(X) /\ Row(q, level) \in Seq(X)
  <2>1. Rows(q, up) \in [up..(MAX_DEPTH + 1) -> Seq(X)]
    BY <1>1, RowsDef
  <2> QED
    BY <1>1, <2>1, RowTyped
<1>5. /\ node = Row(q, level) \o ZeroLeaves(zeros)
      /\ ZeroLeaves(zeros) \in Seq(X) /\ zeros \in Nat /\ node \in Seq(X)
      /\ Len(node) = Size(1, up)
  <2> DEFINE w == hashLength ^ level
  <2>1. w \in Nat /\ Size(1, level) = w /\ Size(1, up) = hashLength * w
    <3>a. level \in 0..(MAX_DEPTH + 1) /\ level \in Levels
      BY <1>1, AccQueueConstants DEF Levels
    <3>b. w \in Nat
      BY <3>a, PowerFacts
    <3> HIDE DEF w
    <3>1. Size(1, level) \in Nat /\ Size(1, up) = hashLength * Size(1, level) /\ w \in Nat
      BY <3>a, <3>b, SizeFacts
    <3>2. Size(1, level) = 1 * w
      BY DEF Size, w
    <3> QED
      BY <3>1, <3>2
  <2>2. Len(Row(q, level)) = n * w
    BY <1>1, <2>1, RowLength
  <2> HIDE DEF w, n
  <2>3. zeros = (hashLength - n) * w
    BY DEF w
  <2>4. zeros \in Nat /\ n * w + zeros = hashLength * w
    <3>1. hashLength - n \in Nat /\ n \in Nat
      BY <1>2, AccQueueConstants
    <3>2. (hashLength - n) * w \in Nat /\ n * w + (hashLength - n) * w = hashLength * w
      BY <2>1, <3>1, AccQueueConstants
    <3> QED
      BY <2>3, <3>2
  <2> HIDE DEF zeros
  <2>5. ZeroLeaves(zeros) \in Seq(X) /\ Len(ZeroLeaves(zeros)) = zeros
    BY <2>4, ZerosTyped
  <2>6. node = Row(q, level) \o ZeroLeaves(zeros)
    BY DEF Row
  <2> HIDE DEF node
  <2>7. node \in Seq(X) /\ Len(node) = Len(Row(q, level)) + Len(ZeroLeaves(zeros))
    BY <1>4, <2>5, <2>6, ConcatProperties
  <2> QED
    BY <2>1, <2>2, <2>4, <2>5, <2>6, <2>7
<1>6. rows \in Seq(X)
  BY <1>3, <1>4, ConcatProperties
<1>a. rows = s /\ \A l \in 0..(level - 1) : q.indices[l] = 0
  BY DEF Holds
<1>7. CASE n = 0
  <2>1. q2 = [q EXCEPT !.indices[level] = 0]
    BY <1>7 DEF FillLevel
  <2>2. q2 = q
    BY <1>1, <1>7, <2>1 DEF Queues
  <2>3. Row(q, level) = << >>
    BY <1>1, <1>7, EmptyRow
  <2>4. rows = upper /\ ZeroLeaves(0) = << >>
    BY <1>3, <1>4, <2>3, ConcatEmptySeq, ZerosTyped, EmptySeq
  <2>5. upper = s \o ZeroLeaves(0)
    BY <1>6, <1>a, <2>4, ConcatEmptySeq
  <2>6. \A l \in 0..(up - 1) : q.indices[l] = 0
    <3>1. \A l \in 0..(up - 1) : l \in 0..(level - 1) \/ l = level
      BY <1>1
    <3> QED
      BY <1>7, <1>a, <3>1
  <2>7. Holds(q2, up, s \o ZeroLeaves(0))
    BY <2>2, <2>5, <2>6 DEF Holds
  <2>8. Filled(q2, up, s)
    BY <2>7 DEF Filled
  <2> QED
    BY <2>2, <2>8
<1>8. CASE n # 0
  <2>1. q2 = [enq EXCEPT !.indices[level] = 0]
    BY <1>8 DEF FillLevel
  <2> HIDE DEF n, up, zeros, node, enq, rows, upper
  <2>2. /\ SubtreeQueue(X, enq)
        /\ \A l \in Levels : l < up => enq.indices[l] = q.indices[l] /\ enq.levels[l] = q.levels[l]
        /\ Waits(q, enq, up, node) \/ Completes(q, enq, up, node)
    <3>1. enq = EnqueueAt(q, node, up)
      BY DEF enq, up
    <3>2. SubtreeStepped(X, q, enq, up, node)
      BY <1>1, <1>5, <3>1, SubtreeStep
    <3> QED
      BY <3>2 DEF SubtreeStepped
  <2>3. /\ q2.levels = enq.levels
        /\ \A l \in Levels : q2.indices[l] = IF l = level THEN 0 ELSE enq.indices[l]
        /\ q2 \in Queues(X)
    <3>1. enq \in [levels : [Levels -> [Slots -> Seq(X)]], indices : [Levels -> 0..(hashLength - 1)]]
      BY <2>2 DEF SubtreeQueue, Queues
    <3>2. 0 \in 0..(hashLength - 1)
      BY AccQueueConstants
    <3> QED
      BY <2>1, <3>1, <3>2 DEF Queues
  <2>4. SubtreeQueue(X, q2)
    <3>1. \A l \in Levels : q2.indices[l] = enq.indices[l] \/ q2.indices[l] = 0
      BY <2>3
    <3>2. Sized(q2, 1)
      <4>1. \A i \in Slots : ~ (i < 0)
        BY AccQueueConstants DEF Slots
      <4> QED
        BY <2>2, <2>3, <3>1, <4>1 DEF SubtreeQueue, Sized
    <3>3. \A l \in subDepth..MAX_DEPTH : l \in Levels
      BY AccQueueConstants DEF Levels
    <3> QED
      BY <2>2, <2>3, <3>1, <3>2, <3>3 DEF SubtreeQueue
  <2>5. \A l \in 0..(up - 1) : q2.indices[l] = 0
    <3>1. \A l \in 0..(up - 1) : l \in Levels /\ l < up /\ (l = level \/ l \in 0..(level - 1))
      BY <1>1, AccQueueConstants DEF Levels, up
    <3> QED
      BY <1>a, <2>2, <2>3, <3>1
  <2>7. Rows(q2, up)[subDepth] = Rows(enq, up)[subDepth]
    <3>1. \A l \in up..MAX_DEPTH : q2.indices[l] = enq.indices[l] /\ q2.levels[l] = enq.levels[l]
      <4>1. \A l \in up..MAX_DEPTH : l \in Levels /\ l # level
        BY <1>1, AccQueueConstants DEF Levels, up
      <4> QED
        BY <2>3, <4>1
    <3>2. enq \in Queues(X) /\ q2 \in Queues(X) /\ up \in Levels
      BY <1>1, <2>2, <2>3 DEF SubtreeQueue
    <3>3. AgreeFrom(enq, q2, up)
      BY <3>1, <3>2, SameRows
    <3> QED
      BY <1>1, <3>3 DEF AgreeFrom
  <2>8. upper \o node = s \o ZeroLeaves(zeros)
    <3>1. \A x, y, z \in Seq(X) : x \o (y \o z) = (x \o y) \o z
      BY ConcatIsAssociative DEF Associative
    <3>2. upper \o (Row(q, level) \o ZeroLeaves(zeros)) = (upper \o Row(q, level)) \o ZeroLeaves(zeros)
      BY <1>4, <1>5, <3>1
    <3> QED
      BY <1>3, <1>5, <1>a, <3>2
  <2>9. CASE Waits(q, enq, up, node)
    <3>1. Rows(q2, up)[subDepth] = s \o ZeroLeaves(zeros)
      BY <2>7, <2>8, <2>9 DEF upper, Waits
    <3>2. Holds(q2, up, s \o ZeroLeaves(zeros))
      BY <2>5, <3>1 DEF Holds
    <3>3. Filled(q2, up, s)
      BY <1>5, <3>2 DEF Filled
    <3> QED
      BY <2>4, <3>3 DEF up
  <2>10. CASE Completes(q, enq, up, node)
    <3>1. q2.levels[subDepth][0] = s \o ZeroLeaves(zeros)
      BY <2>3, <2>8, <2>10 DEF upper, Completes
    <3>2. \A l \in Levels : q2.indices[l] = 0
      <4>1. \A l \in Levels : l \in 0..(up - 1) \/ (l # level /\ l \in up..MAX_DEPTH)
        BY <1>1, AccQueueConstants DEF Levels, up
      <4> QED
        BY <2>3, <2>5, <2>10, <4>1 DEF Completes
    <3>3. Len(q2.levels[subDepth][0]) = Size(1, subDepth)
      BY <2>3, <2>10 DEF Completes
    <3>4. Completed(q2, s \o ZeroLeaves(zeros))
      BY <3>1, <3>2, <3>3 DEF Completed
    <3>5. Filled(q2, up, s)
      BY <1>5, <3>4 DEF Filled
    <3> QED
      BY <2>4, <3>5 DEF up
  <2> QED
    BY <2>2, <2>9, <2>10
<1> QED
  BY <1>7, <1>8

\* _fill of any level.
LEMMA FillLevelStep ==
  ASSUME NEW X, Zero \in X, NEW q, SubtreeQueue(X, q), NEW level \in 0..(subDepth - 1),
         NEW s \in Seq(X), Filled(q, level, s)
  PROVE  SubtreeQueue(X, FillLevel(q, level)) /\ Filled(FillLevel(q, level), level + 1, s)
<1> DEFINE q2 == FillLevel(q, level)
<1>1. PICK k \in Nat : Holds(q, level, s \o ZeroLeaves(k)) \/ Completed(q, s \o ZeroLeaves(k))
  BY DEF Filled
<1> DEFINE z == s \o ZeroLeaves(k)
<1>2. z \in Seq(X)
  BY ZerosTyped, ConcatProperties
<1>3. CASE Holds(q, level, z)
  <2>1. SubtreeQueue(X, q2) /\ Filled(q2, level + 1, z)
    BY <1>2, <1>3, FillHeldLevel
  <2>2. PICK j \in Nat : Holds(q2, level + 1, z \o ZeroLeaves(j)) \/ Completed(q2, z \o ZeroLeaves(j))
    BY <2>1 DEF Filled
  <2>3. z \o ZeroLeaves(j) = s \o ZeroLeaves(k + j)
    <3>1. \A x, y, w \in Seq(X) : x \o (y \o w) = (x \o y) \o w
      BY ConcatIsAssociative DEF Associative
    <3>2. ZeroLeaves(k) \o ZeroLeaves(j) = ZeroLeaves(k + j)
      BY ZerosAdd
    <3>3. ZeroLeaves(k) \in Seq(X) /\ ZeroLeaves(j) \in Seq(X)
      BY ZerosTyped
    <3>4. s \o (ZeroLeaves(k) \o ZeroLeaves(j)) = (s \o ZeroLeaves(k)) \o ZeroLeaves(j)
      BY <3>1, <3>3
    <3> QED
      BY <3>2, <3>4
  <2>4. k + j \in Nat
    OBVIOUS
  <2> HIDE DEF q2, z
  <2>5. Filled(q2, level + 1, s)
    BY <2>2, <2>3, <2>4 DEF Filled
  <2> QED
    BY <2>1, <2>5 DEF q2
<1>4. CASE Completed(q, z)
  <2>1. q.indices[level] = 0 /\ q \in Queues(X)
    BY <1>4, AccQueueConstants DEF Completed, Levels, SubtreeQueue
  <2>2. q2 = [q EXCEPT !.indices[level] = 0]
    BY <2>1 DEF FillLevel
  <2>3. q2 = q
    BY <2>1, <2>2, AccQueueConstants DEF Queues, Levels
  <2>4. Filled(q2, level + 1, s)
    BY <1>4, <2>3 DEF Filled
  <2> QED
    BY <2>3, <2>4
<1> QED
  BY <1>1, <1>3, <1>4

\* _fill from the lowest level up.
LEMMA FillQueueFills ==
  ASSUME NEW X, Zero \in X, NEW q, SubtreeQueue(X, q)
  PROVE  SubtreeQueue(X, FillQueue(q)) /\ Filled(FillQueue(q), subDepth, StartedLeaves(q))
<1> DEFINE s == StartedLeaves(q)
           V == {x \in Queues(X) : SubtreeQueue(X, x)}
           g == [i \in 0..subDepth |-> [x \in V |->
                   IF i # 0 /\ Filled(x, i - 1, s) THEN FillLevel(x, i - 1) ELSE x]]
           Def(f) == f = [l \in 0..subDepth |-> IF l = 0 THEN q ELSE FillLevel(f[l - 1], l - 1)]
           Ok(f, l) == f[l] \in V /\ Filled(f[l], l, s)
<1>1. /\ 0 \in Nat /\ subDepth \in Nat /\ 0 \in 0..subDepth /\ subDepth \in 0..subDepth
      /\ \A l \in 0..(subDepth - 1) :
           l + 1 \in 0..subDepth /\ l + 1 # 0 /\ (l + 1) - 1 = l /\ l \in 0..subDepth
      /\ \A l \in 0..subDepth : l # 0 => l - 1 \in 0..(subDepth - 1)
  BY AccQueueConstants
<1>2. q \in Queues(X) /\ q \in V
  BY DEF SubtreeQueue
<1>3. s \in Seq(X) /\ s = Rows(q, 0)[subDepth]
  BY <1>2, StartedLeavesAreRows
<1> HIDE DEF s
<1>4. Filled(q, 0, s)
  <2>1. s \o ZeroLeaves(0) = s
    <3>1. ZeroLeaves(0) = << >>
      BY ZerosTyped, EmptySeq
    <3> QED
      BY <1>3, <3>1, ConcatEmptySeq
  <2>2. Holds(q, 0, s \o ZeroLeaves(0))
    BY <1>3, <2>1 DEF Holds
  <2> QED
    BY <1>1, <2>2 DEF Filled
<1>5. ASSUME NEW x \in V, NEW l \in 0..(subDepth - 1), Filled(x, l, s)
      PROVE  FillLevel(x, l) \in V /\ Filled(FillLevel(x, l), l + 1, s)
  <2>1. SubtreeQueue(X, FillLevel(x, l)) /\ Filled(FillLevel(x, l), l + 1, s)
    BY <1>3, <1>5, FillLevelStep
  <2> QED
    BY <2>1 DEF SubtreeQueue
<1> HIDE DEF V
<1>6. g \in [0..subDepth -> [V -> V]]
  BY <1>1, <1>5
<1>7. PICK f \in [0..subDepth -> V] :
        \A l \in 0..subDepth : f[l] = IF l = 0 THEN q ELSE g[l][f[l - 1]]
  <2> HIDE DEF g
  <2>1. HasRecursion(V, q, 0, subDepth, g)
    BY <1>1, <1>2, <1>6, RangeRecursion
  <2> QED
    BY <2>1 DEF HasRecursion
<1> DEFINE S == {l \in 0..subDepth : Ok(f, l)}
<1>8. 0 \in S
  BY <1>1, <1>2, <1>4, <1>7
<1>9. ASSUME NEW l \in 0..(subDepth - 1), Ok(f, l)
      PROVE  f[l + 1] = FillLevel(f[l], l) /\ Ok(f, l + 1)
  <2>1. f[l + 1] = g[l + 1][f[l]]
    BY <1>1, <1>7
  <2>2. f[l + 1] = FillLevel(f[l], l)
    BY <1>1, <1>9, <2>1
  <2> QED
    BY <1>5, <1>9, <2>2
<1>10. \A l \in 0..(subDepth - 1) : l \in S => l + 1 \in S
  BY <1>1, <1>9
<1>11. 0..subDepth \subseteq S
  <2> HIDE DEF S
  <2> QED
    BY <1>1, <1>8, <1>10, RangeInduction
<1>12. Def(f)
  <2>1. ASSUME NEW l \in 0..subDepth
        PROVE  f[l] = IF l = 0 THEN q ELSE FillLevel(f[l - 1], l - 1)
    <3>1. CASE l = 0
      BY <1>7, <3>1
    <3>2. CASE l # 0
      <4>1. l - 1 \in 0..(subDepth - 1) /\ (l - 1) + 1 = l
        BY <1>1, <3>2
      <4>2. Ok(f, l - 1)
        BY <1>1, <1>11, <4>1
      <4> QED
        BY <1>9, <3>2, <4>1, <4>2
    <3> QED
      BY <3>1, <3>2
  <2> QED
    BY <2>1
<1> DEFINE filled[l \in 0..subDepth] == IF l = 0 THEN q ELSE FillLevel(filled[l - 1], l - 1)
<1>13. Def(filled)
  <2>1. \E h : Def(h)
    BY <1>12
  <2> HIDE DEF S, g
  <2> QED
    BY <2>1
<1>14. FillQueue(q) = filled[subDepth]
  BY DEF FillQueue
<1> HIDE DEF S, g, filled
<1>15. \A l \in 0..subDepth : filled[l] = IF l = 0 THEN q ELSE FillLevel(filled[l - 1], l - 1)
  BY <1>13
<1> HIDE DEF Def
<1> DEFINE T == {l \in 0..subDepth : Ok(filled, l)}
<1>16. 0 \in T
  BY <1>1, <1>2, <1>4, <1>15
<1>17. ASSUME NEW l \in 0..(subDepth - 1), l \in T PROVE l + 1 \in T
  <2>1. filled[l + 1] = FillLevel(filled[l], l) /\ l + 1 \in 0..subDepth
    BY <1>1, <1>15
  <2>2. Ok(filled, l)
    BY <1>17
  <2>3. Ok(filled, l + 1)
    BY <1>5, <2>1, <2>2
  <2> QED
    BY <2>1, <2>3
<1>18. 0..subDepth \subseteq T
  <2> HIDE DEF T
  <2> QED
    BY <1>1, <1>16, <1>17, RangeInduction
<1>19. Ok(filled, subDepth)
  BY <1>1, <1>18
<1> QED
  BY <1>14, <1>19 DEF V, s

\* _fill stores, in the slot of the root, the leaves that waited and zeros.
LEMMA FillQueueCompletes ==
  ASSUME NEW X, Zero \in X, NEW q, SubtreeQueue(X, q), StartedLeaves(q) # << >>
  PROVE  /\ SubtreeQueue(X, FillQueue(q))
         /\ \E k \in Nat : Completed(FillQueue(q), StartedLeaves(q) \o ZeroLeaves(k))
<1> DEFINE s == StartedLeaves(q)
           q2 == FillQueue(q)
<1>1. SubtreeQueue(X, q2) /\ Filled(q2, subDepth, s)
  BY FillQueueFills
<1>2. PICK k \in Nat : Holds(q2, subDepth, s \o ZeroLeaves(k)) \/ Completed(q2, s \o ZeroLeaves(k))
  BY <1>1 DEF Filled
<1>3. ~ Holds(q2, subDepth, s \o ZeroLeaves(k))
  <2>1. Rows(q2, subDepth)[subDepth] = << >>
    <3>1. q2 \in Queues(X) /\ subDepth \in 0..(MAX_DEPTH + 1)
      BY <1>1, AccQueueConstants DEF SubtreeQueue
    <3> QED
      BY <3>1, RowsDef DEF Empty
  <2>2. s \in Seq(X) /\ s # << >> /\ ZeroLeaves(k) \in Seq(X)
    BY StartedLeavesAreRows, ZerosTyped DEF SubtreeQueue
  <2> HIDE DEF s, q2
  <2>3. s \o ZeroLeaves(k) # << >>
    BY <2>2, ConcatProperties
  <2> QED
    BY <2>1, <2>3 DEF Holds
<1> QED
  BY <1>1, <1>2, <1>3

-----------------------------------------------------------------------------
\* The remainder of a multiple and a smaller number.
LEMMA ModUnique ==
  ASSUME NEW c \in Nat, c >= 1, NEW k \in Nat, NEW r \in 0..(c - 1)
  PROVE  (k * c + r) % c = r
<1> DEFINE n == k * c + r
           d == n \div c
           m == n % c
<1>1. n \in Int /\ n = k * c + r /\ r \in Int /\ 0 <= r /\ r < c
  OBVIOUS
<1> HIDE DEF n
<1>2. d \in Int /\ m \in Int /\ n = c * d + m /\ 0 <= m /\ m < c
  BY <1>1
<1> HIDE DEF d, m
<1>3. ~ (d < k)
  <2> SUFFICES ASSUME d < k PROVE FALSE
    OBVIOUS
  <2>1. k - d \in Nat /\ k - d >= 1
    BY <1>2
  <2>2. (k - d) * c >= c
    BY <2>1
  <2>3. (k - d) * c = m - r
    BY <1>1, <1>2
  <2> QED
    BY <1>1, <1>2, <2>2, <2>3
<1>4. ~ (d > k)
  <2> SUFFICES ASSUME d > k PROVE FALSE
    OBVIOUS
  <2>1. d - k \in Nat /\ d - k >= 1
    BY <1>2
  <2>2. (d - k) * c >= c
    BY <2>1
  <2>3. (d - k) * c = r - m
    BY <1>1, <1>2
  <2> QED
    BY <1>1, <1>2, <2>2, <2>3
<1>5. ASSUME d = k PROVE m = r
  <2>1. c * d = k * c
    BY <1>5, <1>2
  <2> QED
    BY <1>1, <1>2, <2>1
<1>6. m = r
  BY <1>2, <1>3, <1>4, <1>5
<1> QED
  BY <1>6 DEF m, n

AccQueues(X) ==
  [numLeaves : Nat, currentSubtreeIndex : Nat, nextSubRootIndex : Nat,
   leafQueue : Queues(X), subRootQueue : Queues(X),
   subRoots : Seq(Seq(X)), mainRoots : [Levels -> Seq(X)],
   smallSRTroot : Seq(X), subTreesMerged : BOOLEAN, treeMerged : BOOLEAN]

\* What the queue holds, by position.
Leaves(aq) == FlattenSeq(aq.subRoots) \o StartedLeaves(aq.leafQueue)

\* The counters agree with what is stored.
Stored(X, aq) ==
  /\ aq \in AccQueues(X)
  /\ SubtreeQueue(X, aq.leafQueue)
  /\ \A i \in 1..Len(aq.subRoots) : Len(aq.subRoots[i]) = subTreeCapacity
  /\ aq.currentSubtreeIndex = Len(aq.subRoots)
  /\ aq.nextSubRootIndex <= aq.currentSubtreeIndex
  /\ aq.numLeaves = Len(Leaves(aq))

\* The size of a subtree.
LEMMA Capacity ==
  /\ subTreeCapacity \in Nat /\ subTreeCapacity >= 1
  /\ subTreeCapacity = Size(1, subDepth) /\ Size(1, 0) = 1
<1>1. subTreeCapacity \in Nat /\ subTreeCapacity >= 1
  BY PowerFacts, AccQueueConstants DEF subTreeCapacity
<1>2. Size(1, subDepth) = 1 * subTreeCapacity
  BY DEF Size, subTreeCapacity
<1>3. Size(1, 0) = 1
  BY SizeFacts
<1> QED
  BY <1>1, <1>2, <1>3

\* A started subtree holds fewer leaves than a subtree.
LEMMA StartedLeavesLength ==
  ASSUME NEW X, NEW q, SubtreeQueue(X, q)
  PROVE  /\ StartedLeaves(q) \in Seq(X)
         /\ Len(StartedLeaves(q)) \in 0..(subTreeCapacity - 1)
<1>1. q \in Queues(X) /\ Sized(q, 1)
  BY DEF SubtreeQueue
<1>2. StartedLeaves(q) = Rows(q, 0)[subDepth] /\ StartedLeaves(q) \in Seq(X)
  BY <1>1, StartedLeavesAreRows
<1>3. 0 \in Levels /\ subDepth \in 0..(MAX_DEPTH + 1)
  BY AccQueueConstants DEF Levels
<1>4. Len(Rows(q, 0)[subDepth]) <= Size(1, subDepth) - Size(1, 0)
  BY <1>1, <1>3, RowsLength
<1> QED
  BY <1>2, <1>4, Capacity, LenProperties

\* numLeaves in subtrees and leaves.
LEMMA LeavesCounted ==
  ASSUME NEW X, NEW aq, Stored(X, aq)
  PROVE  /\ Leaves(aq) \in Seq(X)
         /\ FlattenSeq(aq.subRoots) \in Seq(X)
         /\ Len(FlattenSeq(aq.subRoots)) = aq.currentSubtreeIndex * subTreeCapacity
         /\ aq.numLeaves = aq.currentSubtreeIndex * subTreeCapacity + Len(StartedLeaves(aq.leafQueue))
         /\ aq.numLeaves % subTreeCapacity = Len(StartedLeaves(aq.leafQueue))
<1> DEFINE done == FlattenSeq(aq.subRoots)
           rest == StartedLeaves(aq.leafQueue)
           c == subTreeCapacity
<1>1. /\ aq.subRoots \in Seq(Seq(X)) /\ aq.currentSubtreeIndex = Len(aq.subRoots)
      /\ aq.currentSubtreeIndex \in Nat
      /\ \A i \in 1..Len(aq.subRoots) : Len(aq.subRoots[i]) = c
      /\ SubtreeQueue(X, aq.leafQueue) /\ aq.numLeaves = Len(Leaves(aq))
  BY DEF Stored, AccQueues
<1>2. c \in Nat /\ c >= 1
  BY Capacity
<1> HIDE DEF c
<1>3. done \in Seq(X) /\ Len(done) = aq.currentSubtreeIndex * c
  BY <1>1, <1>2, FlattenTyped, FlattenLength
<1>4. rest \in Seq(X) /\ Len(rest) \in 0..(c - 1)
  BY <1>1, StartedLeavesLength DEF c
<1> HIDE DEF done, rest
<1>5. Leaves(aq) = done \o rest
  BY DEF Leaves, done, rest
<1>6. Leaves(aq) \in Seq(X) /\ Len(Leaves(aq)) = Len(done) + Len(rest)
  BY <1>3, <1>4, <1>5, ConcatProperties
<1>7. aq.numLeaves = aq.currentSubtreeIndex * c + Len(rest)
  BY <1>1, <1>3, <1>6
<1>8. (aq.currentSubtreeIndex * c + Len(rest)) % c = Len(rest)
  BY <1>1, <1>2, <1>4, ModUnique
<1> QED
  BY <1>3, <1>6, <1>7, <1>8 DEF done, rest, c

\* No leaf waits in a queue without nodes.
LEMMA EmptyQueue ==
  ASSUME NEW X, NEW q \in Queues(X), \A l \in Levels : q.indices[l] = 0
  PROVE  SubtreeQueue(X, q) /\ StartedLeaves(q) = << >>
<1>1. Sized(q, 1)
  BY AccQueueConstants DEF Sized, Slots
<1>2. \A l \in subDepth..MAX_DEPTH : l \in Levels
  BY AccQueueConstants DEF Levels
<1>3. /\ 0 \in Levels /\ subDepth \in 0..(MAX_DEPTH + 1)
      /\ \A l \in 0..(subDepth - 1) : l \in Levels
  BY AccQueueConstants DEF Levels
<1>4. Rows(q, 0)[subDepth] = << >>
  BY <1>3, EmptyRows
<1> QED
  BY <1>1, <1>2, <1>4, StartedLeavesAreRows DEF SubtreeQueue

\* A new queue holds nothing.
LEMMA NewQueueEmpty ==
  ASSUME NEW X
  PROVE  NewQueue \in Queues(X) /\ SubtreeQueue(X, NewQueue) /\ StartedLeaves(NewQueue) = << >>
<1>1. NewQueue \in Queues(X)
  <2>1. Empty \in Seq(X) /\ 0 \in 0..(hashLength - 1)
    BY EmptySeq, AccQueueConstants DEF Empty
  <2> QED
    BY <2>1 DEF NewQueue, Queues
<1>2. \A l \in Levels : NewQueue.indices[l] = 0
  BY DEF NewQueue
<1> QED
  BY <1>1, <1>2, EmptyQueue

\* Nor does a new AccQueue.
LEMMA NewStored ==
  ASSUME NEW X
  PROVE  Stored(X, NewAccQueue) /\ Leaves(NewAccQueue) = << >>
<1>1. << >> \in Seq(X) /\ << >> \in Seq(Seq(X)) /\ Len(<< >>) = 0 /\ FlattenSeq(<< >>) = << >>
  BY EmptySeq, FlattenEmpty
<1>2. << >> \o << >> = << >>
  BY <1>1, ConcatEmptySeq
<1>3. NewAccQueue \in AccQueues(X)
  BY <1>1, NewQueueEmpty DEF NewAccQueue, AccQueues, Empty
<1>4. /\ NewAccQueue.subRoots = << >> /\ NewAccQueue.leafQueue = NewQueue
      /\ NewAccQueue.currentSubtreeIndex = 0 /\ NewAccQueue.nextSubRootIndex = 0 /\ NewAccQueue.numLeaves = 0
  BY DEF NewAccQueue, Empty
<1>5. Leaves(NewAccQueue) = << >>
  BY <1>1, <1>2, <1>4, NewQueueEmpty DEF Leaves
<1> QED
  BY <1>1, <1>3, <1>4, <1>5, NewQueueEmpty DEF Stored

-----------------------------------------------------------------------------
\* A call that may store subtrees but queues no subroot.
Grown(aq, aq2) ==
  /\ aq2.subRootQueue = aq.subRootQueue
  /\ aq2.nextSubRootIndex = aq.nextSubRootIndex
  /\ aq2.treeMerged = aq.treeMerged
  /\ aq2.currentSubtreeIndex >= aq.currentSubtreeIndex
  /\ \A i \in 1..Len(aq.subRoots) : aq2.subRoots[i] = aq.subRoots[i]

\* A subroot is left to be queued, or will be once the leaves are filled up.
Mergeable(aq) == aq.nextSubRootIndex < aq.currentSubtreeIndex \/ Started(aq)

WithSubRoot(X, s, t, r) ==
  /\ t \in Seq(Seq(X))
  /\ Len(t) = Len(s) + 1
  /\ \A i \in 1..Len(t) : Len(t[i]) = subTreeCapacity
  /\ \A i \in 1..Len(s) : t[i] = s[i]
  /\ FlattenSeq(t) = FlattenSeq(s) \o r

\* A subtree stored at the end.
LEMMA SubRootAdded ==
  ASSUME NEW X, NEW s \in Seq(Seq(X)), \A i \in 1..Len(s) : Len(s[i]) = subTreeCapacity,
         NEW r \in Seq(X), Len(r) = subTreeCapacity
  PROVE  WithSubRoot(X, s, Append(s, r), r)
<1> DEFINE t == Append(s, r)
<1>1. /\ t \in Seq(Seq(X)) /\ Len(t) = Len(s) + 1 /\ Len(s) \in Nat
      /\ t[Len(s) + 1] = r /\ \A i \in 1..Len(s) : t[i] = s[i]
  BY AppendProperties, LenProperties
<1> HIDE DEF t
<1>2. \A i \in 1..Len(t) : i \in 1..Len(s) \/ i = Len(s) + 1
  BY <1>1
<1>3. FlattenSeq(Append(s, r)) = FlattenSeq(s) \o r
  BY FlattenAppend
<1> QED
  BY <1>1, <1>2, <1>3 DEF t, WithSubRoot

\* enqueue's call of _enqueue: what is stored when the subtree is complete.
LEMMA EnqueueLeaf ==
  ASSUME NEW X, NEW aq, Stored(X, aq), NEW leaf \in X, NEW q2, q2 = EnqueueAt(aq.leafQueue, <<leaf>>, 0)
  PROVE  /\ SubtreeQueue(X, q2)
         /\ IF (aq.numLeaves + 1) % subTreeCapacity = 0
            THEN /\ q2.levels[subDepth][0] = StartedLeaves(aq.leafQueue) \o <<leaf>>
                 /\ Len(q2.levels[subDepth][0]) = subTreeCapacity
            ELSE StartedLeaves(q2) = StartedLeaves(aq.leafQueue) \o <<leaf>>
<1> DEFINE q == aq.leafQueue
           rest == StartedLeaves(q)
           c == subTreeCapacity
           k == aq.currentSubtreeIndex
<1>1. SubtreeQueue(X, q) /\ q \in Queues(X) /\ 0 \in 0..subDepth /\ k \in Nat
  BY AccQueueConstants DEF Stored, SubtreeQueue, AccQueues
<1>2. /\ c \in Nat /\ c >= 1 /\ c = Size(1, subDepth) /\ Size(1, 0) = 1
  BY Capacity
<1>3. <<leaf>> \in Seq(X) /\ Len(<<leaf>>) = 1
  OBVIOUS
<1>4. SubtreeStepped(X, q, q2, 0, <<leaf>>)
  BY <1>1, <1>2, <1>3, SubtreeStep
<1>5. /\ SubtreeQueue(X, q2)
      /\ Waits(q, q2, 0, <<leaf>>) \/ Completes(q, q2, 0, <<leaf>>)
  BY <1>4 DEF SubtreeStepped
<1>6. /\ rest \in Seq(X) /\ Len(rest) \in 0..(c - 1) /\ rest = Rows(q, 0)[subDepth]
      /\ aq.numLeaves = k * c + Len(rest)
  BY <1>1, StartedLeavesLength, StartedLeavesAreRows, LeavesCounted
<1>7. Len(rest \o <<leaf>>) = Len(rest) + 1
  <2> HIDE DEF rest
  <2> QED
    BY <1>3, <1>6, ConcatProperties
<1> HIDE DEF c, rest, q
<1>8. CASE Waits(q, q2, 0, <<leaf>>)
  <2>1. StartedLeaves(q2) = rest \o <<leaf>>
    BY <1>5, <1>6, <1>8, StartedLeavesAreRows DEF Waits, SubtreeQueue
  <2>2. Len(StartedLeaves(q2)) \in 0..(c - 1)
    BY <1>5, StartedLeavesLength DEF c
  <2>3. Len(rest) + 1 \in 0..(c - 1)
    BY <1>6, <1>7, <2>1, <2>2
  <2>4. (k * c + (Len(rest) + 1)) % c = Len(rest) + 1
    BY <1>1, <1>2, <2>3, ModUnique
  <2>5. aq.numLeaves + 1 = k * c + (Len(rest) + 1)
    BY <1>1, <1>2, <1>6
  <2>6. (aq.numLeaves + 1) % c # 0
    BY <1>6, <2>4, <2>5
  <2> QED
    BY <1>5, <2>1, <2>6 DEF c, rest, q
<1>9. CASE Completes(q, q2, 0, <<leaf>>)
  <2>1. q2.levels[subDepth][0] = rest \o <<leaf>> /\ Len(q2.levels[subDepth][0]) = c
    BY <1>2, <1>6, <1>9 DEF Completes
  <2>2. Len(rest) + 1 = c
    BY <1>7, <2>1
  <2>3. ((k + 1) * c + 0) % c = 0
    BY <1>1, <1>2, ModUnique
  <2>4. aq.numLeaves + 1 = (k + 1) * c + 0
    BY <1>1, <1>2, <1>6, <2>2
  <2> QED
    BY <1>5, <2>1, <2>3, <2>4 DEF c, rest, q
<1> QED
  BY <1>5, <1>8, <1>9

\* The subtrees, the started one included, are no more than the leaves.
LEMMA SubRootsAreBounded ==
  ASSUME NEW X, NEW q, Stored(X, q)
  PROVE  /\ q.numLeaves \in Nat /\ q.currentSubtreeIndex \in Nat
         /\ q.currentSubtreeIndex <= q.numLeaves
         /\ FillStarted(q).currentSubtreeIndex =
              IF Started(q) THEN q.currentSubtreeIndex + 1 ELSE q.currentSubtreeIndex
         /\ Started(q) <=> StartedLeaves(q.leafQueue) # << >>
<1> DEFINE c == subTreeCapacity
           k == q.currentSubtreeIndex
           rest == StartedLeaves(q.leafQueue)
<1>1. /\ q \in AccQueues(X) /\ q.numLeaves \in Nat /\ k \in Nat
      /\ SubtreeQueue(X, q.leafQueue)
  BY DEF Stored, AccQueues
<1>2. c \in Nat /\ c >= 1
  BY Capacity
<1>3. rest \in Seq(X) /\ q.numLeaves = k * c + Len(rest) /\ q.numLeaves % c = Len(rest) /\ Len(rest) \in Nat
  BY <1>1, LeavesCounted, StartedLeavesLength
<1>4. Started(q) <=> rest # << >>
  BY <1>3, EmptySeq DEF Started
<1> HIDE DEF c, k, rest
<1>5. k * c >= k
  BY <1>1, <1>2 DEF k
<1>6. k * c \in Nat
  BY <1>1, <1>2 DEF k
<1>7. k <= q.numLeaves
  BY <1>1, <1>3, <1>5, <1>6 DEF k
<1>8. FillStarted(q).currentSubtreeIndex = IF Started(q) THEN k + 1 ELSE k
  BY <1>1 DEF FillStarted, fill, AddSubRoot, AccQueues, k
<1> QED
  BY <1>1, <1>4, <1>7, <1>8 DEF k, rest

Enqueued(X, aq, aq2, leaf) ==
  /\ Stored(X, aq2)
  /\ Leaves(aq2) = Leaves(aq) \o <<leaf>>
  /\ Grown(aq, aq2)
  /\ Mergeable(aq2)
  /\ ~aq2.subTreesMerged
  /\ aq2.mainRoots = [l \in Levels |-> Empty]
  /\ aq2.currentSubtreeIndex <= aq.currentSubtreeIndex + 1

\* enqueue adds the leaf behind all the others.
LEMMA EnqueueStored ==
  ASSUME NEW X, NEW aq, Stored(X, aq), NEW leaf \in X
  PROVE  Enqueued(X, aq, enqueue(aq, leaf), leaf)
<1> DEFINE q2 == EnqueueAt(aq.leafQueue, <<leaf>>, 0)
           aq2 == enqueue(aq, leaf)
           c == subTreeCapacity
           root == q2.levels[subDepth][0]
           rest == StartedLeaves(aq.leafQueue)
           done == FlattenSeq(aq.subRoots)
<1>1. /\ aq \in AccQueues(X) /\ aq.subRoots \in Seq(Seq(X))
      /\ \A i \in 1..Len(aq.subRoots) : Len(aq.subRoots[i]) = c
      /\ aq.currentSubtreeIndex = Len(aq.subRoots) /\ aq.nextSubRootIndex <= aq.currentSubtreeIndex
      /\ aq.numLeaves = Len(Leaves(aq)) /\ aq.numLeaves \in Nat
      /\ aq.currentSubtreeIndex \in Nat /\ aq.nextSubRootIndex \in Nat
  BY DEF Stored, AccQueues
<1>2. /\ Leaves(aq) = done \o rest /\ Leaves(aq) \in Seq(X) /\ done \in Seq(X) /\ rest \in Seq(X)
      /\ <<leaf>> \in Seq(X) /\ Len(<<leaf>>) = 1
  <2>1. SubtreeQueue(X, aq.leafQueue)
    BY DEF Stored
  <2> QED
    BY <2>1, LeavesCounted, StartedLeavesLength DEF Leaves
<1>3. /\ SubtreeQueue(X, q2)
      /\ IF (aq.numLeaves + 1) % c = 0
         THEN root = rest \o <<leaf>> /\ Len(root) = c
         ELSE StartedLeaves(q2) = rest \o <<leaf>>
  BY EnqueueLeaf
<1>4. q2 \in [levels : [Levels -> [Slots -> Seq(X)]], indices : [Levels -> 0..(hashLength - 1)]]
  BY <1>3 DEF SubtreeQueue, Queues
<1>5. Empty \in Seq(X) /\ [l \in Levels |-> Empty] \in [Levels -> Seq(X)]
  BY EmptySeq DEF Empty
<1>6. Associative(X)
  BY ConcatIsAssociative
<1>7. done \o (rest \o <<leaf>>) = Leaves(aq) \o <<leaf>>
  <2> HIDE DEF done, rest
  <2> QED
    BY <1>2, <1>6 DEF Associative
<1>8. Len(Leaves(aq) \o <<leaf>>) = aq.numLeaves + 1
  BY <1>1, <1>2, ConcatProperties
<1> DEFINE added == [InvalidateRoots(aq) EXCEPT !.numLeaves = aq.numLeaves + 1]
<1>9. /\ added \in AccQueues(X) /\ added.numLeaves = aq.numLeaves + 1
      /\ added.currentSubtreeIndex = aq.currentSubtreeIndex
      /\ added.nextSubRootIndex = aq.nextSubRootIndex
      /\ added.leafQueue = aq.leafQueue /\ added.subRootQueue = aq.subRootQueue
      /\ added.subRoots = aq.subRoots /\ added.mainRoots = [l \in Levels |-> Empty]
      /\ added.subTreesMerged = FALSE /\ added.treeMerged = aq.treeMerged
  <2> DEFINE none == [l \in Levels |-> Empty]
             inv == [aq EXCEPT !.mainRoots = none, !.smallSRTroot = Empty, !.subTreesMerged = FALSE]
  <2> HIDE DEF q2, aq2, c, root, rest, done, none, inv
  <2>1. added = [inv EXCEPT !.numLeaves = aq.numLeaves + 1]
    BY DEF inv, none, InvalidateRoots
  <2>2. none \in [Levels -> Seq(X)] /\ aq.numLeaves + 1 \in Nat
    BY <1>1, <1>5 DEF none
  <2> HIDE DEF added
  <2>3. /\ inv \in AccQueues(X)
        /\ inv.currentSubtreeIndex = aq.currentSubtreeIndex
        /\ inv.nextSubRootIndex = aq.nextSubRootIndex
        /\ inv.leafQueue = aq.leafQueue /\ inv.subRootQueue = aq.subRootQueue
        /\ inv.subRoots = aq.subRoots /\ inv.mainRoots = none
        /\ inv.subTreesMerged = FALSE /\ inv.treeMerged = aq.treeMerged
    BY <1>1, <1>5, <2>2 DEF AccQueues, inv
  <2>4. /\ added \in AccQueues(X) /\ added.numLeaves = aq.numLeaves + 1
        /\ added.currentSubtreeIndex = inv.currentSubtreeIndex
        /\ added.nextSubRootIndex = inv.nextSubRootIndex
        /\ added.leafQueue = inv.leafQueue /\ added.subRootQueue = inv.subRootQueue
        /\ added.subRoots = inv.subRoots /\ added.mainRoots = inv.mainRoots
        /\ added.subTreesMerged = inv.subTreesMerged /\ added.treeMerged = inv.treeMerged
    BY <2>1, <2>2, <2>3 DEF AccQueues
  <2> QED
    BY <2>3, <2>4 DEF none
<1>10. aq2 = IF (aq.numLeaves + 1) % c = 0
             THEN [AddSubRoot(added, root) EXCEPT
                     !.leafQueue = [levels |-> [q2.levels EXCEPT ![subDepth][0] = Empty],
                                    indices |-> [l \in Levels |-> 0]]]
             ELSE [added EXCEPT !.leafQueue = q2]
  BY DEF enqueue
<1> HIDE DEF q2, aq2, c, rest, done, added
<1>11. CASE (aq.numLeaves + 1) % c = 0
  <2> DEFINE cleared == [levels |-> [q2.levels EXCEPT ![subDepth][0] = Empty],
                         indices |-> [l \in Levels |-> 0]]
             subRoots == Append(aq.subRoots, root)
  <2>1. root = rest \o <<leaf>> /\ Len(root) = c /\ root \in Seq(X)
    <3>1. rest \o <<leaf>> \in Seq(X)
      BY <1>2, ConcatProperties
    <3> QED
      BY <1>3, <1>11, <3>1
  <2>2. cleared \in Queues(X) /\ \A l \in Levels : cleared.indices[l] = 0
    <3>1. 0 \in 0..(hashLength - 1)
      BY AccQueueConstants
    <3>2. [q2.levels EXCEPT ![subDepth][0] = Empty] \in [Levels -> [Slots -> Seq(X)]]
      BY <1>4, <1>5
    <3> QED
      BY <3>1, <3>2 DEF Queues
  <2> HIDE DEF root
  <2>3. /\ subRoots \in Seq(Seq(X)) /\ Len(subRoots) = Len(aq.subRoots) + 1
        /\ \A i \in 1..Len(subRoots) : Len(subRoots[i]) = c
        /\ \A i \in 1..Len(aq.subRoots) : subRoots[i] = aq.subRoots[i]
        /\ FlattenSeq(subRoots) = done \o root
    <3>1. WithSubRoot(X, aq.subRoots, subRoots, root)
      BY <1>1, <2>1, SubRootAdded DEF c
    <3> QED
      BY <3>1 DEF WithSubRoot, c, done
  <2> HIDE DEF cleared
  <2>4. /\ aq2 \in AccQueues(X) /\ aq2.numLeaves = aq.numLeaves + 1
        /\ aq2.currentSubtreeIndex = aq.currentSubtreeIndex + 1
        /\ aq2.nextSubRootIndex = aq.nextSubRootIndex
        /\ aq2.leafQueue = cleared /\ aq2.subRootQueue = aq.subRootQueue
        /\ aq2.subRoots = subRoots /\ aq2.mainRoots = [l \in Levels |-> Empty]
        /\ aq2.subTreesMerged = FALSE /\ aq2.treeMerged = aq.treeMerged
    <3>1. aq2 = [AddSubRoot(added, root) EXCEPT !.leafQueue = cleared]
      BY <1>10, <1>11 DEF cleared
    <3>2. AddSubRoot(added, root) = [added EXCEPT !.subRoots = subRoots,
                                       !.currentSubtreeIndex = aq.currentSubtreeIndex + 1]
      BY <1>9 DEF AddSubRoot
    <3>3. aq.currentSubtreeIndex + 1 \in Nat
      BY <1>1
    <3> HIDE DEF subRoots
    <3> QED
      BY <1>9, <2>2, <2>3, <3>1, <3>2, <3>3 DEF AccQueues
  <2> HIDE DEF subRoots
  <2>5. SubtreeQueue(X, cleared) /\ StartedLeaves(cleared) = << >>
    BY <2>2, EmptyQueue
  <2>6. Leaves(aq2) = Leaves(aq) \o <<leaf>>
    <3>1. Leaves(aq2) = (done \o root) \o << >>
      BY <2>3, <2>4, <2>5 DEF Leaves
    <3>2. done \o root \in Seq(X)
      BY <1>2, <2>1, ConcatProperties
    <3>3. (done \o root) \o << >> = done \o root
      BY <3>2, ConcatEmptySeq
    <3> QED
      BY <1>7, <2>1, <3>1, <3>3
  <2>7. Stored(X, aq2)
    BY <1>1, <1>8, <2>3, <2>4, <2>5, <2>6 DEF Stored, c
  <2>8. Grown(aq, aq2)
    BY <1>1, <2>3, <2>4 DEF Grown
  <2>9. Mergeable(aq2)
    BY <1>1, <2>4 DEF Mergeable
  <2> QED
    BY <1>1, <2>4, <2>6, <2>7, <2>8, <2>9 DEF Enqueued, aq2
<1>12. CASE (aq.numLeaves + 1) % c # 0
  <2>1. aq2 = [added EXCEPT !.leafQueue = q2]
    BY <1>10, <1>12
  <2>2. q2 \in Queues(X) /\ SubtreeQueue(X, q2)
    BY <1>3 DEF SubtreeQueue
  <2>4. /\ aq2 \in AccQueues(X) /\ aq2.numLeaves = aq.numLeaves + 1
        /\ aq2.currentSubtreeIndex = aq.currentSubtreeIndex
        /\ aq2.nextSubRootIndex = aq.nextSubRootIndex
        /\ aq2.leafQueue = q2 /\ aq2.subRootQueue = aq.subRootQueue
        /\ aq2.subRoots = aq.subRoots /\ aq2.mainRoots = [l \in Levels |-> Empty]
        /\ aq2.subTreesMerged = FALSE /\ aq2.treeMerged = aq.treeMerged
    BY <1>9, <2>1, <2>2 DEF AccQueues
  <2>6. Leaves(aq2) = Leaves(aq) \o <<leaf>>
    BY <1>3, <1>7, <1>12, <2>4 DEF Leaves, done
  <2>7. Stored(X, aq2)
    BY <1>1, <1>8, <2>2, <2>4, <2>6 DEF Stored, c
  <2>8. Grown(aq, aq2)
    BY <1>1, <2>4 DEF Grown
  <2>9. Mergeable(aq2)
    BY <1>12, <2>4 DEF Mergeable, Started, c
  <2> QED
    BY <1>1, <2>4, <2>6, <2>7, <2>8, <2>9 DEF Enqueued, aq2
<1> QED
  BY <1>11, <1>12

\* A leaf needs one more subtree at most.
LEMMA EnqueueSubtrees ==
  ASSUME NEW X, NEW aq, Stored(X, aq), NEW leaf \in X
  PROVE  FillStarted(enqueue(aq, leaf)).currentSubtreeIndex <= FillStarted(aq).currentSubtreeIndex + 1
<1> DEFINE aq2 == enqueue(aq, leaf)
           c == subTreeCapacity
           k == aq.currentSubtreeIndex
           k2 == aq2.currentSubtreeIndex
           rest2 == StartedLeaves(aq2.leafQueue)
<1>1. Enqueued(X, aq, aq2, leaf)
  BY EnqueueStored
<1> HIDE DEF aq2
<1>2. Stored(X, aq2) /\ Leaves(aq2) = Leaves(aq) \o <<leaf>> /\ k2 <= k + 1
  BY <1>1 DEF Enqueued
<1>3. /\ k \in Nat /\ k2 \in Nat /\ aq.numLeaves \in Nat /\ aq2.numLeaves \in Nat
      /\ FillStarted(aq).currentSubtreeIndex = IF Started(aq) THEN k + 1 ELSE k
      /\ FillStarted(aq2).currentSubtreeIndex = IF Started(aq2) THEN k2 + 1 ELSE k2
  BY <1>2, SubRootsAreBounded
<1>4. aq2.numLeaves = aq.numLeaves + 1
  <2>1. <<leaf>> \in Seq(X) /\ Len(<<leaf>>) = 1 /\ Leaves(aq) \in Seq(X)
    BY LeavesCounted
  <2>2. Len(Leaves(aq) \o <<leaf>>) = Len(Leaves(aq)) + 1
    BY <2>1, ConcatProperties
  <2> QED
    BY <1>2, <2>2 DEF Stored
<1> DEFINE n == aq.numLeaves
<1>5. CASE Started(aq)
  BY <1>2, <1>3, <1>5 DEF aq2
<1>6. CASE ~Started(aq)
  <2>1. c \in Nat /\ c >= 1 /\ Len(rest2) \in 0..(c - 1)
    BY <1>2, Capacity, StartedLeavesLength DEF Stored
  <2>2. n = k * c /\ n + 1 = k2 * c + Len(rest2) /\ (Started(aq2) <=> Len(rest2) # 0)
    <3>1. n % c = 0 /\ n = k * c + Len(StartedLeaves(aq.leafQueue)) /\ n % c = Len(StartedLeaves(aq.leafQueue))
      BY <1>6, LeavesCounted DEF Started
    <3>2. n + 1 = k2 * c + Len(rest2) /\ aq2.numLeaves % c = Len(rest2)
      BY <1>2, <1>4, LeavesCounted
    <3> HIDE DEF n, k, k2, rest2, c
    <3>3. k * c \in Nat
      BY <1>3, <2>1
    <3>4. n = k * c
      BY <3>1, <3>3
    <3> QED
      BY <3>2, <3>4 DEF Started, c, rest2
  <2>3. CASE k2 = k + 1
    <3> HIDE DEF n, k, k2, rest2, c
    <3>1. (k + 1) * c = k * c + c /\ k * c \in Nat
      BY <1>3, <2>1
    <3>2. Len(rest2) = 0
      BY <2>1, <2>2, <2>3, <3>1
    <3> QED
      BY <1>3, <1>6, <2>2, <2>3, <3>2 DEF aq2, k
  <2>4. CASE k2 # k + 1
    BY <1>2, <1>3, <1>6, <2>4 DEF aq2
  <2> QED
    BY <2>3, <2>4
<1> QED
  BY <1>5, <1>6 DEF aq2

\* fill's call of _fill.
LEMMA FilledSubtree ==
  ASSUME NEW X, Zero \in X, NEW aq, Stored(X, aq), Started(aq), NEW q2, q2 = FillQueue(aq.leafQueue)
  PROVE  /\ q2 \in Queues(X) /\ \A l \in Levels : q2.indices[l] = 0
         /\ q2.levels[subDepth][0] \in Seq(X) /\ Len(q2.levels[subDepth][0]) = subTreeCapacity
         /\ \E k \in Nat : q2.levels[subDepth][0] = StartedLeaves(aq.leafQueue) \o ZeroLeaves(k)
<1> DEFINE rest == StartedLeaves(aq.leafQueue)
<1>1. SubtreeQueue(X, aq.leafQueue)
  BY DEF Stored
<1>2. rest \in Seq(X) /\ Len(rest) # 0
  BY <1>1, StartedLeavesLength, LeavesCounted DEF Started
<1>3. rest # << >>
  BY <1>2
<1>4. SubtreeQueue(X, q2) /\ \E k \in Nat : Completed(q2, rest \o ZeroLeaves(k))
  BY <1>1, <1>3, FillQueueCompletes
<1>5. PICK k \in Nat : Completed(q2, rest \o ZeroLeaves(k))
  BY <1>4
<1>6. rest \o ZeroLeaves(k) \in Seq(X)
  BY <1>2, ZerosTyped, ConcatProperties
<1> QED
  BY <1>4, <1>5, <1>6, Capacity DEF Completed, SubtreeQueue

\* aq2 holds the leaves of aq, completed with zeros to whole subtrees.
FilledUp(X, aq, aq2) ==
  /\ Stored(X, aq2)
  /\ \E k \in Nat : Leaves(aq2) = Leaves(aq) \o ZeroLeaves(k)
  /\ StartedLeaves(aq2.leafQueue) = << >>
  /\ Grown(aq, aq2)
  /\ Mergeable(aq2)
  /\ ~aq2.subTreesMerged
  /\ aq2.currentSubtreeIndex = aq.currentSubtreeIndex + 1
  /\ aq2.mainRoots = IF Started(aq) THEN [l \in Levels |-> Empty] ELSE aq.mainRoots

\* fill adds zeros behind all the leaves.
LEMMA FillStored ==
  ASSUME NEW X, Zero \in X, NEW aq, Stored(X, aq)
  PROVE  FilledUp(X, aq, fill(aq))
<1> DEFINE q2 == FillQueue(aq.leafQueue)
           aq2 == fill(aq)
           c == subTreeCapacity
           rest == StartedLeaves(aq.leafQueue)
           done == FlattenSeq(aq.subRoots)
           none == [l \in Levels |-> Empty]
           root == IF Started(aq) THEN q2.levels[subDepth][0] ELSE getZero(subDepth)
           subRoots == Append(aq.subRoots, root)
           leafQueue == IF Started(aq) THEN [levels |-> NewQueue.levels, indices |-> q2.indices]
                        ELSE aq.leafQueue
           mainRoots == IF Started(aq) THEN none ELSE aq.mainRoots
<1>1. /\ aq \in AccQueues(X) /\ aq.subRoots \in Seq(Seq(X))
      /\ \A i \in 1..Len(aq.subRoots) : Len(aq.subRoots[i]) = c
      /\ aq.currentSubtreeIndex = Len(aq.subRoots) /\ aq.nextSubRootIndex <= aq.currentSubtreeIndex
      /\ aq.numLeaves = Len(Leaves(aq)) /\ aq.numLeaves \in Nat
      /\ aq.currentSubtreeIndex \in Nat /\ aq.nextSubRootIndex \in Nat
      /\ SubtreeQueue(X, aq.leafQueue) /\ aq.leafQueue \in Queues(X) /\ aq.mainRoots \in [Levels -> Seq(X)]
  BY DEF Stored, AccQueues
<1>2. /\ Leaves(aq) = done \o rest /\ Leaves(aq) \in Seq(X) /\ done \in Seq(X) /\ rest \in Seq(X)
      /\ Len(done) = aq.currentSubtreeIndex * c /\ (Started(aq) <=> Len(rest) # 0)
  BY <1>1, LeavesCounted, StartedLeavesLength DEF Leaves, Started
<1>3. c \in Nat /\ c >= 1 /\ Empty \in Seq(X) /\ none \in [Levels -> Seq(X)]
  BY Capacity, EmptySeq DEF Empty
<1>4. /\ root \in Seq(X) /\ Len(root) = c
      /\ \E k \in Nat : root = rest \o ZeroLeaves(k)
      /\ leafQueue \in Queues(X) /\ SubtreeQueue(X, leafQueue) /\ StartedLeaves(leafQueue) = << >>
  <2>1. CASE Started(aq)
    <3>1. /\ q2 \in Queues(X) /\ \A l \in Levels : q2.indices[l] = 0
          /\ root \in Seq(X) /\ Len(root) = c
          /\ \E k \in Nat : root = rest \o ZeroLeaves(k)
      BY <2>1, FilledSubtree
    <3>2. leafQueue \in Queues(X) /\ \A l \in Levels : leafQueue.indices[l] = 0
      BY <2>1, <3>1, NewQueueEmpty DEF Queues
    <3> HIDE DEF leafQueue
    <3>3. SubtreeQueue(X, leafQueue) /\ StartedLeaves(leafQueue) = << >>
      BY <3>2, EmptyQueue
    <3> QED
      BY <3>1, <3>2, <3>3
  <2>2. CASE ~Started(aq)
    <3>1. root = ZeroLeaves(c) /\ leafQueue = aq.leafQueue
      BY <2>2 DEF getZero, subTreeCapacity
    <3>2. rest = << >>
      BY <1>2, <2>2, EmptySeq
    <3>3. ZeroLeaves(c) \in Seq(X) /\ Len(ZeroLeaves(c)) = c
      BY <1>3, ZerosTyped
    <3>4. rest \o ZeroLeaves(c) = ZeroLeaves(c)
      BY <3>2, <3>3, ConcatEmptySeq
    <3> QED
      BY <1>1, <1>3, <3>1, <3>2, <3>3, <3>4
  <2> QED
    BY <2>1, <2>2
<1>5. mainRoots \in [Levels -> Seq(X)]
  BY <1>1, <1>3
<1> HIDE DEF root
<1>6. WithSubRoot(X, aq.subRoots, subRoots, root)
  BY <1>1, <1>4, SubRootAdded DEF c
<1>7. /\ subRoots \in Seq(Seq(X)) /\ Len(subRoots) = Len(aq.subRoots) + 1
      /\ \A i \in 1..Len(subRoots) : Len(subRoots[i]) = c
      /\ \A i \in 1..Len(aq.subRoots) : subRoots[i] = aq.subRoots[i]
      /\ FlattenSeq(subRoots) = done \o root
  BY <1>6 DEF WithSubRoot, c, done
<1>8. /\ aq2 \in AccQueues(X) /\ aq2.numLeaves = (aq.currentSubtreeIndex + 1) * c
      /\ aq2.currentSubtreeIndex = aq.currentSubtreeIndex + 1
      /\ aq2.nextSubRootIndex = aq.nextSubRootIndex
      /\ aq2.leafQueue = leafQueue /\ aq2.subRootQueue = aq.subRootQueue
      /\ aq2.subRoots = subRoots /\ aq2.mainRoots = mainRoots
      /\ aq2.subTreesMerged = FALSE /\ aq2.treeMerged = aq.treeMerged
  <2> DEFINE num == (aq.currentSubtreeIndex + 1) * c
             cur == aq.currentSubtreeIndex + 1
             added == [aq EXCEPT !.subRoots = subRoots, !.currentSubtreeIndex = cur]
             filled == [added EXCEPT !.leafQueue = leafQueue, !.mainRoots = mainRoots]
  <2>1. num \in Nat /\ cur \in Nat
    BY <1>1, <1>3
  <2>2. aq2 = [filled EXCEPT !.numLeaves = num, !.smallSRTroot = Empty, !.subTreesMerged = FALSE]
    <3>1. CASE Started(aq)
      BY <3>1 DEF fill, AddSubRoot, NumLeavesAfterFill, root
    <3>2. CASE ~Started(aq)
      <4>1. fill(aq) = [added EXCEPT !.numLeaves = num, !.smallSRTroot = Empty, !.subTreesMerged = FALSE]
        BY <3>2 DEF fill, AddSubRoot, NumLeavesAfterFill, root
      <4>2. leafQueue = aq.leafQueue /\ mainRoots = aq.mainRoots
        BY <3>2
      <4> HIDE DEF leafQueue, mainRoots, num, cur, subRoots
      <4>3. filled = added
        BY <1>1, <4>2 DEF AccQueues
      <4> QED
        BY <4>1, <4>3
    <3> QED
      BY <3>1, <3>2
  <2> HIDE DEF num, cur, subRoots, leafQueue, mainRoots, aq2
  <2>3. /\ filled \in AccQueues(X)
        /\ filled.currentSubtreeIndex = cur
        /\ filled.nextSubRootIndex = aq.nextSubRootIndex
        /\ filled.leafQueue = leafQueue /\ filled.subRootQueue = aq.subRootQueue
        /\ filled.subRoots = subRoots /\ filled.mainRoots = mainRoots
        /\ filled.treeMerged = aq.treeMerged
    BY <1>1, <1>4, <1>5, <1>7, <2>1 DEF AccQueues
  <2> HIDE DEF filled
  <2>4. /\ aq2 \in AccQueues(X) /\ aq2.numLeaves = num
        /\ aq2.currentSubtreeIndex = filled.currentSubtreeIndex
        /\ aq2.nextSubRootIndex = filled.nextSubRootIndex
        /\ aq2.leafQueue = filled.leafQueue /\ aq2.subRootQueue = filled.subRootQueue
        /\ aq2.subRoots = filled.subRoots /\ aq2.mainRoots = filled.mainRoots
        /\ aq2.subTreesMerged = FALSE /\ aq2.treeMerged = filled.treeMerged
    BY <1>3, <2>1, <2>2, <2>3 DEF AccQueues
  <2> QED
    BY <2>3, <2>4 DEF num, cur
<1> HIDE DEF aq2, subRoots, c, rest, done, none, q2, leafQueue
<1>9. PICK k \in Nat : root = rest \o ZeroLeaves(k)
  BY <1>4
<1>10. Leaves(aq2) = done \o root /\ Len(done \o root) = (aq.currentSubtreeIndex + 1) * c
  <2>1. Leaves(aq2) = (done \o root) \o << >>
    BY <1>4, <1>7, <1>8 DEF Leaves
  <2>2. done \o root \in Seq(X) /\ Len(done \o root) = Len(done) + Len(root)
    BY <1>2, <1>4, ConcatProperties
  <2>3. (done \o root) \o << >> = done \o root
    BY <2>2, ConcatEmptySeq
  <2>4. aq.currentSubtreeIndex * c + c = (aq.currentSubtreeIndex + 1) * c
    BY <1>1, <1>3
  <2>5. Len(done \o root) = aq.currentSubtreeIndex * c + c
    BY <1>2, <1>4, <2>2
  <2>6. Leaves(aq2) = done \o root
    BY <2>1, <2>3
  <2> QED
    BY <2>4, <2>5, <2>6
<1>11. Leaves(aq2) = Leaves(aq) \o ZeroLeaves(k)
  <2>1. Associative(X)
    BY ConcatIsAssociative
  <2>2. ZeroLeaves(k) \in Seq(X)
    BY ZerosTyped
  <2>3. done \o (rest \o ZeroLeaves(k)) = (done \o rest) \o ZeroLeaves(k)
    BY <1>2, <2>1, <2>2 DEF Associative
  <2> QED
    BY <1>2, <1>9, <1>10, <2>3
<1>12. Stored(X, aq2)
  <2>1. aq2.numLeaves = Len(Leaves(aq2))
    BY <1>8, <1>10
  <2>2. aq2.currentSubtreeIndex = Len(aq2.subRoots) /\ aq2.nextSubRootIndex <= aq2.currentSubtreeIndex
    BY <1>1, <1>7, <1>8
  <2>3. \A i \in 1..Len(aq2.subRoots) : Len(aq2.subRoots[i]) = c
    BY <1>7, <1>8
  <2>4. aq2 \in AccQueues(X) /\ SubtreeQueue(X, aq2.leafQueue)
    BY <1>4, <1>8
  <2> QED
    BY <2>1, <2>2, <2>3, <2>4 DEF Stored, c
<1>13. Grown(aq, aq2)
  BY <1>1, <1>7, <1>8 DEF Grown
<1>14. Mergeable(aq2)
  BY <1>1, <1>8 DEF Mergeable
<1> QED
  BY <1>4, <1>8, <1>11, <1>12, <1>13, <1>14 DEF FilledUp, aq2, none

\* insertSubTree keeps the counters in step.
LEMMA InsertStored ==
  ASSUME NEW X, NEW aq, Stored(X, aq), NEW subRoot \in Seq(X), Len(subRoot) = subTreeCapacity
  PROVE  /\ Stored(X, insertSubTree(aq, subRoot))
         /\ Grown(aq, insertSubTree(aq, subRoot))
         /\ Mergeable(insertSubTree(aq, subRoot))
         /\ ~insertSubTree(aq, subRoot).subTreesMerged
         /\ insertSubTree(aq, subRoot).numLeaves = aq.numLeaves + subTreeCapacity
<1> DEFINE aq2 == insertSubTree(aq, subRoot)
           c == subTreeCapacity
           rest == StartedLeaves(aq.leafQueue)
           done == FlattenSeq(aq.subRoots)
           subRoots == Append(aq.subRoots, subRoot)
<1>1. /\ aq \in AccQueues(X) /\ aq.subRoots \in Seq(Seq(X))
      /\ \A i \in 1..Len(aq.subRoots) : Len(aq.subRoots[i]) = c
      /\ aq.currentSubtreeIndex = Len(aq.subRoots) /\ aq.nextSubRootIndex <= aq.currentSubtreeIndex
      /\ aq.numLeaves = Len(Leaves(aq)) /\ aq.numLeaves \in Nat
      /\ aq.currentSubtreeIndex \in Nat /\ aq.nextSubRootIndex \in Nat
      /\ SubtreeQueue(X, aq.leafQueue)
  BY DEF Stored, AccQueues
<1>2. /\ Leaves(aq) = done \o rest /\ Leaves(aq) \in Seq(X) /\ done \in Seq(X) /\ rest \in Seq(X)
      /\ c \in Nat /\ c >= 1
  BY <1>1, LeavesCounted, StartedLeavesLength, Capacity DEF Leaves
<1>3. WithSubRoot(X, aq.subRoots, subRoots, subRoot)
  BY <1>1, SubRootAdded DEF c
<1>4. /\ subRoots \in Seq(Seq(X)) /\ Len(subRoots) = Len(aq.subRoots) + 1
      /\ \A i \in 1..Len(subRoots) : Len(subRoots[i]) = c
      /\ \A i \in 1..Len(aq.subRoots) : subRoots[i] = aq.subRoots[i]
      /\ FlattenSeq(subRoots) = done \o subRoot
  BY <1>3 DEF WithSubRoot, c, done
<1>5. /\ aq2 \in AccQueues(X) /\ aq2.numLeaves = aq.numLeaves + c
      /\ aq2.currentSubtreeIndex = aq.currentSubtreeIndex + 1
      /\ aq2.nextSubRootIndex = aq.nextSubRootIndex
      /\ aq2.leafQueue = aq.leafQueue /\ aq2.subRootQueue = aq.subRootQueue
      /\ aq2.subRoots = subRoots /\ aq2.subTreesMerged = FALSE /\ aq2.treeMerged = aq.treeMerged
  <2> DEFINE num == aq.numLeaves + c
             cur == aq.currentSubtreeIndex + 1
             added == [aq EXCEPT !.subRoots = subRoots, !.currentSubtreeIndex = cur]
  <2>1. num \in Nat /\ cur \in Nat /\ Empty \in Seq(X)
    BY <1>1, <1>2, EmptySeq DEF Empty
  <2>2. aq2 = [added EXCEPT !.numLeaves = num, !.smallSRTroot = Empty, !.subTreesMerged = FALSE]
    BY DEF insertSubTree, AddSubRoot
  <2> HIDE DEF num, cur, subRoots, aq2
  <2>3. /\ added \in AccQueues(X)
        /\ added.currentSubtreeIndex = cur
        /\ added.nextSubRootIndex = aq.nextSubRootIndex
        /\ added.leafQueue = aq.leafQueue /\ added.subRootQueue = aq.subRootQueue
        /\ added.subRoots = subRoots /\ added.treeMerged = aq.treeMerged
    BY <1>1, <1>4, <2>1 DEF AccQueues
  <2> HIDE DEF added
  <2>4. /\ aq2 \in AccQueues(X) /\ aq2.numLeaves = num
        /\ aq2.currentSubtreeIndex = added.currentSubtreeIndex
        /\ aq2.nextSubRootIndex = added.nextSubRootIndex
        /\ aq2.leafQueue = added.leafQueue /\ aq2.subRootQueue = added.subRootQueue
        /\ aq2.subRoots = added.subRoots
        /\ aq2.subTreesMerged = FALSE /\ aq2.treeMerged = added.treeMerged
    BY <2>1, <2>2, <2>3 DEF AccQueues
  <2> QED
    BY <2>3, <2>4 DEF num, cur
<1> HIDE DEF aq2, subRoots, c, rest, done
<1>6. Len(Leaves(aq2)) = aq.numLeaves + c
  <2>1. Leaves(aq2) = (done \o subRoot) \o rest
    BY <1>4, <1>5 DEF Leaves, rest
  <2>2. done \o subRoot \in Seq(X) /\ Len(done \o subRoot) = Len(done) + c
    BY <1>2, ConcatProperties DEF c
  <2>3. Len(Leaves(aq2)) = (Len(done) + c) + Len(rest)
    BY <1>2, <2>1, <2>2, ConcatProperties
  <2>4. Len(Leaves(aq)) = Len(done) + Len(rest) /\ Len(done) \in Nat /\ Len(rest) \in Nat
    BY <1>2, ConcatProperties, LenProperties
  <2> QED
    BY <1>1, <1>2, <2>3, <2>4
<1>7. Stored(X, aq2)
  BY <1>1, <1>4, <1>5, <1>6 DEF Stored, c
<1>8. Grown(aq, aq2)
  BY <1>1, <1>4, <1>5 DEF Grown
<1>9. Mergeable(aq2)
  BY <1>1, <1>5 DEF Mergeable
<1> QED
  BY <1>5, <1>7, <1>8, <1>9 DEF aq2, c

-----------------------------------------------------------------------------
\* Nodes of a higher level are no smaller.
LEMMA SizeGrows ==
  ASSUME NEW unit \in Nat, NEW a \in 0..(MAX_DEPTH + 1), NEW b \in a..(MAX_DEPTH + 1)
  PROVE  Size(unit, a) <= Size(unit, b)
<1> DEFINE n == MAX_DEPTH + 1
           S == {l \in a..n : Size(unit, a) <= Size(unit, l)}
<1>1. /\ a \in Nat /\ n \in Nat /\ a \in a..n /\ b \in a..n
      /\ \A l \in a..(n - 1) : l + 1 \in a..n /\ l \in Levels /\ l \in 0..n /\ l + 1 \in 0..n
  BY AccQueueConstants DEF Levels
<1>2. /\ \A l \in 0..n : Size(unit, l) \in Nat
      /\ \A l \in Levels : Size(unit, l + 1) = hashLength * Size(unit, l)
  BY SizeFacts
<1> HIDE DEF n
<1>3. a \in S
  BY <1>1, <1>2
<1>4. ASSUME NEW l \in a..(n - 1), l \in S PROVE l + 1 \in S
  <2> DEFINE z == Size(unit, l)
  <2>1. z \in Nat /\ Size(unit, l + 1) = hashLength * z /\ Size(unit, a) <= z /\ Size(unit, a) \in Nat
    BY <1>1, <1>2, <1>4
  <2> HIDE DEF z
  <2>2. hashLength * z >= z /\ hashLength * z \in Nat
    BY <2>1, AccQueueConstants
  <2> QED
    BY <1>1, <2>1, <2>2
<1> HIDE DEF S
<1>5. a..n \subseteq S
  BY <1>1, <1>3, <1>4, RangeInduction
<1> QED
  BY <1>1, <1>5 DEF S

\* Rows of higher levels are no shorter.
LEMMA RowsGrow ==
  ASSUME NEW X, NEW q \in Queues(X), NEW lo \in Levels, NEW a \in lo..(MAX_DEPTH + 1)
  PROVE  \A l \in a..(MAX_DEPTH + 1) : Len(Rows(q, lo)[a]) <= Len(Rows(q, lo)[l])
<1> DEFINE n == MAX_DEPTH + 1
           rows == Rows(q, lo)
           S == {l \in a..n : Len(rows[a]) <= Len(rows[l])}
<1>1. /\ lo \in Nat /\ a \in Nat /\ n \in Nat /\ a \in a..n /\ a \in lo..n /\ lo \in 0..n
      /\ \A l \in a..(n - 1) : l + 1 \in a..n /\ l \in Levels /\ l \in lo..MAX_DEPTH /\ l \in lo..n /\ l + 1 \in lo..n
  BY AccQueueConstants DEF Levels
<1>2. /\ rows \in [lo..n -> Seq(X)]
      /\ \A l \in lo..MAX_DEPTH : rows[l + 1] = Row(q, l) \o rows[l]
  BY <1>1, RowsDef
<1> HIDE DEF n, rows
<1>3. a \in S
  <2>1. rows[a] \in Seq(X)
    BY <1>1, <1>2
  <2> QED
    BY <1>1, <2>1, LenProperties
<1>4. ASSUME NEW l \in a..(n - 1), l \in S PROVE l + 1 \in S
  <2>1. rows[l] \in Seq(X) /\ Row(q, l) \in Seq(X) /\ rows[l + 1] = Row(q, l) \o rows[l]
    BY <1>1, <1>2, RowTyped
  <2>2. Len(rows[l + 1]) = Len(Row(q, l)) + Len(rows[l])
    BY <2>1, ConcatProperties
  <2>3. Len(Row(q, l)) \in Nat /\ Len(rows[l]) \in Nat
    BY <2>1, LenProperties
  <2>4. rows[a] \in Seq(X)
    BY <1>1, <1>2
  <2> QED
    BY <1>1, <1>4, <2>2, <2>3, <2>4, LenProperties
<1> HIDE DEF S
<1>5. a..n \subseteq S
  BY <1>1, <1>3, <1>4, RangeInduction
<1> QED
  BY <1>5 DEF S, n, rows

\* Levels without nodes add nothing to the rows.
LEMMA RowsStop ==
  ASSUME NEW X, NEW q \in Queues(X), NEW lo \in Levels, NEW a \in lo..(MAX_DEPTH + 1),
         \A l \in a..MAX_DEPTH : q.indices[l] = 0
  PROVE  \A l \in a..(MAX_DEPTH + 1) : Rows(q, lo)[l] = Rows(q, lo)[a]
<1> DEFINE n == MAX_DEPTH + 1
           rows == Rows(q, lo)
           S == {l \in a..n : rows[l] = rows[a]}
<1>1. /\ lo \in Nat /\ a \in Nat /\ n \in Nat /\ a \in a..n /\ a \in lo..n /\ lo \in 0..n
      /\ \A l \in a..(n - 1) : l + 1 \in a..n /\ l \in Levels /\ l \in lo..MAX_DEPTH /\ l \in a..MAX_DEPTH
  BY AccQueueConstants DEF Levels
<1>2. /\ rows \in [lo..n -> Seq(X)]
      /\ \A l \in lo..MAX_DEPTH : rows[l + 1] = Row(q, l) \o rows[l]
  BY <1>1, RowsDef
<1> HIDE DEF n, rows
<1>3. a \in S
  BY <1>1
<1>4. ASSUME NEW l \in a..(n - 1), l \in S PROVE l + 1 \in S
  <2>1. Row(q, l) = << >> /\ rows[l + 1] = Row(q, l) \o rows[a] /\ rows[a] \in Seq(X)
    BY <1>1, <1>2, <1>4, EmptyRow
  <2>2. << >> \o rows[a] = rows[a]
    BY <2>1, ConcatEmptySeq
  <2> QED
    BY <1>1, <2>1, <2>2
<1> HIDE DEF S
<1>5. a..n \subseteq S
  BY <1>1, <1>3, <1>4, RangeInduction
<1> QED
  BY <1>5 DEF S, n, rows

\* queueSubRoot within the depth.
LEMMA QueueSubRootTyped ==
  ASSUME NEW X, NEW q \in Queues(X), NEW node \in Seq(X), NEW depth \in Nat
  PROVE  /\ QueueSubRoot(q, node, depth) \in Queues(X)
         /\ StopLevel(q, 0) <= depth /\ depth \in Levels =>
              Queued(q, QueueSubRoot(q, node, depth), 0, node)
<1> DEFINE stop == StopLevel(q, 0)
           up == Climb(q, node, 0)
           q2 == QueueSubRoot(q, node, depth)
<1>1. /\ 0 \in Levels /\ stop \in Nat /\ stop \in 0..(MAX_DEPTH + 1) /\ stop \in 0..stop
      /\ \A l \in 0..(stop - 1) : q.indices[l] = hashLength - 1
      /\ stop \in Levels => q.indices[stop] # hashLength - 1
  <2>1. 0 \in Levels
    BY AccQueueConstants DEF Levels
  <2>2. /\ stop \in 0..(MAX_DEPTH + 1)
        /\ \A l \in 0..(stop - 1) : q.indices[l] = hashLength - 1
        /\ stop \in Levels => q.indices[stop] < hashLength - 1
    BY <2>1, StopLevelIsFirstFree
  <2> HIDE DEF stop
  <2>3. stop \in Levels => q.indices[stop] \in 0..(hashLength - 1)
    BY DEF Queues
  <2> QED
    BY <2>1, <2>2, <2>3, AccQueueConstants DEF Levels
<1>2. up[stop] \in Seq(X)
  BY <1>1, ClimbIsRows
<1>3. /\ q2 = [levels |-> q2.levels, indices |-> q2.indices]
      /\ q2.levels = [l \in Levels |->
                        IF l = stop /\ l <= depth
                        THEN [q.levels[l] EXCEPT ![q.indices[l]] = up[l]]
                        ELSE q.levels[l]]
      /\ q2.indices = [l \in Levels |->
                         IF l > depth THEN q.indices[l]
                         ELSE IF l < stop THEN 0
                         ELSE IF l = stop THEN q.indices[l] + 1
                         ELSE q.indices[l]]
  BY DEF QueueSubRoot
<1> HIDE DEF stop, up, q2
<1>4. /\ q.levels \in [Levels -> [Slots -> Seq(X)]] /\ q.indices \in [Levels -> 0..(hashLength - 1)]
  BY DEF Queues
<1>5. ASSUME stop \in Levels
      PROVE  [q.levels[stop] EXCEPT ![q.indices[stop]] = up[stop]] \in [Slots -> Seq(X)]
  BY <1>2, <1>4, <1>5
<1>6. q2.levels \in [Levels -> [Slots -> Seq(X)]]
  BY <1>3, <1>4, <1>5
<1>7. q2.indices \in [Levels -> 0..(hashLength - 1)]
  <2>1. ASSUME stop \in Levels PROVE q.indices[stop] + 1 \in 0..(hashLength - 1)
    BY <1>1, <1>4, <2>1, AccQueueConstants
  <2>2. 0 \in 0..(hashLength - 1)
    BY AccQueueConstants
  <2> QED
    BY <1>3, <1>4, <2>1, <2>2
<1>8. q2 \in Queues(X)
  BY <1>3, <1>6, <1>7 DEF Queues
<1>9. ASSUME stop <= depth, depth \in Levels PROVE Queued(q, q2, 0, node)
  <2>1. stop \in Levels /\ \A l \in 0..(stop - 1) : l \in Levels /\ ~ (l > depth) /\ l < stop
    BY <1>1, <1>9, AccQueueConstants DEF Levels
  <2>2. \A l \in 0..(stop - 1) : q2.indices[l] = 0
    BY <1>3, <2>1
  <2>3. /\ q2.indices[stop] = q.indices[stop] + 1
        /\ q2.levels[stop] = [q.levels[stop] EXCEPT ![q.indices[stop]] = up[stop]]
    BY <1>1, <1>3, <1>9, <2>1
  <2>4. ASSUME NEW l \in Levels, l < 0 \/ l > stop
        PROVE  q2.indices[l] = q.indices[l] /\ q2.levels[l] = q.levels[l]
    <3>1. l # stop /\ ~ (l < stop)
      BY <1>1, <2>4, AccQueueConstants DEF Levels
    <3> QED
      BY <1>3, <3>1
  <2> QED
    BY <2>2, <2>3, <2>4 DEF Queued, stop, up
<1> QED
  BY <1>8, <1>9 DEF stop, q2

\* A queue of subroots that holds the leaves s.
SubRoots(X, q, s) ==
  /\ q \in Queues(X)
  /\ Sized(q, subTreeCapacity)
  /\ Rows(q, 0)[MAX_DEPTH + 1] = s

\* The subroots so far are one node below, and from a level up nothing waits.
LEMMA NothingAbove ==
  ASSUME NEW X, NEW q, NEW s, SubRoots(X, q, s), NEW depth \in Levels,
         Len(s) < Size(subTreeCapacity, depth)
  PROVE  /\ \A l \in depth..MAX_DEPTH : q.indices[l] = 0
         /\ Rows(q, 0)[depth] = s
<1> DEFINE c == subTreeCapacity
           n == MAX_DEPTH + 1
           rows == Rows(q, 0)
<1>1. /\ q \in Queues(X) /\ Sized(q, c) /\ rows[n] = s /\ c \in Nat
      /\ 0 \in Levels /\ depth \in 0..n /\ depth \in depth..n /\ n \in depth..n
      /\ \A l \in depth..MAX_DEPTH : l \in Levels /\ l \in 0..MAX_DEPTH /\ l \in depth..n /\ l \in 0..n /\ l + 1 \in 0..n /\ n \in (l + 1)..n
  BY Capacity, AccQueueConstants DEF SubRoots, Levels
<1>2. /\ rows \in [0..n -> Seq(X)] /\ \A l \in 0..MAX_DEPTH : rows[l + 1] = Row(q, l) \o rows[l]
  BY <1>1, RowsDef
<1>3. ASSUME NEW l \in depth..MAX_DEPTH PROVE q.indices[l] = 0
  <2> DEFINE z == Size(c, l)
             i == q.indices[l]
  <2>1. Len(rows[l + 1]) <= Len(rows[n])
    BY <1>1, RowsGrow
  <2>2. /\ rows[l + 1] = Row(q, l) \o rows[l] /\ Row(q, l) \in Seq(X) /\ rows[l] \in Seq(X)
    BY <1>1, <1>2, RowTyped
  <2>3. Len(Row(q, l)) = i * z
    BY <1>1, RowLength
  <2>4. Size(c, depth) <= z /\ z \in Nat /\ Size(c, depth) \in Nat
    BY <1>1, SizeGrows, SizeFacts
  <2>5. i \in Nat
    BY <1>1, AccQueueConstants DEF Queues
  <2> HIDE DEF z, i, rows, c, n
  <2>6. /\ Len(rows[l + 1]) = Len(Row(q, l)) + Len(rows[l])
        /\ Len(rows[l]) \in Nat /\ Len(Row(q, l)) \in Nat
    BY <2>2, ConcatProperties, LenProperties
  <2>7. i # 0 => i * z >= z
    BY <2>4, <2>5
  <2>8. i # 0 => Len(Row(q, l)) >= z
    BY <2>3, <2>7
  <2>9. Len(s) < z /\ Len(rows[l + 1]) <= Len(s) /\ Len(s) \in Nat
    <3>1. Len(s) \in Nat
      <4>1. s \in Seq(X)
        BY <1>1, <1>2 DEF n
      <4> QED
        BY <4>1, LenProperties
    <3> QED
      BY <1>1, <2>1, <2>4, <3>1 DEF c
  <2>10. i = 0
    BY <2>4, <2>6, <2>8, <2>9
  <2> QED
    BY <2>10 DEF i
<1>4. \A l \in depth..n : rows[l] = rows[depth]
  BY <1>1, <1>3, RowsStop
<1> QED
  BY <1>1, <1>3, <1>4

SubRootStepped(X, q2, s, node, depth) ==
  /\ SubRoots(X, q2, s \o node)
  /\ Len(s) + subTreeCapacity = Size(subTreeCapacity, depth) => q2.levels[depth][0] = s \o node

\* queueSubRoot puts the subroot behind the others.
LEMMA SubRootStep ==
  ASSUME NEW X, NEW q, NEW s, SubRoots(X, q, s), NEW depth \in Levels,
         Len(s) < Size(subTreeCapacity, depth),
         NEW node \in Seq(X), Len(node) = subTreeCapacity,
         NEW q2, q2 = QueueSubRoot(q, node, depth)
  PROVE  SubRootStepped(X, q2, s, node, depth)
<1> DEFINE c == subTreeCapacity
           n == MAX_DEPTH + 1
           stop == StopLevel(q, 0)
           full == Size(c, depth)
<1>1. /\ q \in Queues(X) /\ Sized(q, c) /\ Rows(q, 0)[n] = s
      /\ c \in Nat /\ c >= 1 /\ Size(c, 0) = c
      /\ 0 \in Levels /\ depth \in 0..n /\ depth \in Nat /\ n \in Nat /\ depth \in depth..MAX_DEPTH
      /\ depth \in 0..MAX_DEPTH
  <2>1. c \in Nat /\ c >= 1
    BY Capacity
  <2> QED
    BY <2>1, SizeFacts, AccQueueConstants DEF SubRoots, Levels
<1>2. (\A l \in depth..MAX_DEPTH : q.indices[l] = 0) /\ Rows(q, 0)[depth] = s
  BY NothingAbove
<1>3. /\ stop \in 0..n
      /\ \A l \in 0..(stop - 1) : q.indices[l] = hashLength - 1
  BY <1>1, StopLevelIsFirstFree
<1> HIDE DEF stop, n, c, full
<1>4. stop <= depth /\ stop \in Levels /\ stop \in Nat
  <2>1. ~ (depth \in 0..(stop - 1))
    BY <1>1, <1>2, <1>3, AccQueueConstants
  <2> QED
    BY <1>1, <1>3, <2>1, AccQueueConstants DEF Levels, n
<1>5. q2 \in Queues(X) /\ Queued(q, q2, 0, node)
  BY <1>1, <1>4, QueueSubRootTyped DEF stop
<1>6. Sized(q2, c)
  BY <1>1, <1>4, <1>5, QueuedSized DEF stop, c
<1>7. EndsWith(q, q2, 0, node)
  BY <1>1, <1>4, <1>5, QueuedRows DEF stop
<1>8. Rows(q2, 0)[n] = s \o node
  <2>1. n \in (stop + 1)..(MAX_DEPTH + 1)
    BY <1>1, <1>4, AccQueueConstants DEF Levels, n
  <2> QED
    BY <1>1, <1>7, <2>1 DEF EndsWith, stop
<1>9. SubRoots(X, q2, s \o node)
  BY <1>5, <1>6, <1>8 DEF SubRoots, c, n
<1>10. ASSUME Len(s) + c = full PROVE q2.levels[depth][0] = s \o node
  <2>1. Len(Rows(q, 0)[depth]) = Size(c, depth) - Size(c, 0)
    <3>1. s \in Seq(X)
      <4>1. Rows(q, 0) \in [0..(MAX_DEPTH + 1) -> Seq(X)]
        BY <1>1, RowsDef DEF n
      <4> QED
        BY <1>1, <4>1 DEF n
    <3>2. Len(s) \in Nat
      BY <3>1, LenProperties
    <3> QED
      BY <1>1, <1>2, <1>10, <3>2 DEF full
  <2>2. \A l \in 0..(depth - 1) : q.indices[l] = hashLength - 1
    BY <1>1, <2>1, RowsLength DEF n
  <2>3. stop = depth
    <3>1. q.indices[stop] < hashLength - 1
      BY <1>1, <1>4, StopLevelIsFirstFree DEF stop
    <3>2. ~ (stop \in 0..(depth - 1))
      BY <2>2, <3>1, AccQueueConstants
    <3> QED
      BY <1>1, <1>4, <3>2
  <2>4. q2.levels[stop] = [q.levels[stop] EXCEPT ![q.indices[stop]] = Climb(q, node, 0)[stop]]
    BY <1>5 DEF Queued, stop
  <2>5. Climb(q, node, 0)[depth] = s \o node
    <3>1. depth \in 0..StopLevel(q, 0)
      BY <1>1, <2>3 DEF stop
    <3>2. \A l \in 0..StopLevel(q, 0) : Climb(q, node, 0)[l] = Rows(q, 0)[l] \o node
      BY <1>1, ClimbIsRows, Zenon
    <3> QED
      BY <1>2, <3>1, <3>2
  <2>6. q.indices[depth] = 0 /\ q.levels[depth] \in [Slots -> Seq(X)] /\ 0 \in Slots
    BY <1>1, <1>2, AccQueueConstants DEF Queues, Slots
  <2> QED
    BY <2>3, <2>4, <2>5, <2>6
<1> QED
  BY <1>9, <1>10 DEF full, c, SubRootStepped

After(q, nodes, depth) ==
  LET after[i \in 0..Len(nodes)] ==
        IF i = 0 THEN q ELSE QueueSubRoot(after[i - 1], nodes[i], depth)
  IN  after

\* The recursion in QueueAll defines a function.
LEMMA AfterDef ==
  ASSUME NEW X, NEW q \in Queues(X), NEW nodes \in Seq(Seq(X)), NEW depth \in Nat
  PROVE  /\ After(q, nodes, depth) \in [0..Len(nodes) -> Queues(X)]
         /\ After(q, nodes, depth)[0] = q
         /\ \A i \in 0..(Len(nodes) - 1) :
              After(q, nodes, depth)[i + 1] = QueueSubRoot(After(q, nodes, depth)[i], nodes[i + 1], depth)
         /\ QueueAll(q, nodes, depth) = After(q, nodes, depth)[Len(nodes)]
<1> DEFINE n == Len(nodes)
           V == Queues(X)
           g == [i \in 0..n |-> [x \in V |-> IF i = 0 THEN x ELSE QueueSubRoot(x, nodes[i], depth)]]
           Def(f) == f = [i \in 0..n |-> IF i = 0 THEN q ELSE QueueSubRoot(f[i - 1], nodes[i], depth)]
           after == After(q, nodes, depth)
<1>1. /\ n \in Nat /\ 0 \in 0..n /\ n \in 0..n /\ 0 \in Nat
      /\ \A i \in 0..n : i # 0 => nodes[i] \in Seq(X) /\ i - 1 \in 0..n
      /\ \A i \in 0..(n - 1) : i + 1 \in 0..n /\ i + 1 # 0 /\ (i + 1) - 1 = i /\ i \in 0..n
  <2>1. n \in Nat /\ \A i \in 1..n : nodes[i] \in Seq(X)
    BY LenProperties, ElementOfSeq
  <2> HIDE DEF n
  <2> QED
    BY <2>1
<1> HIDE DEF n
<1>2. \A i \in 0..n, x \in V : i # 0 => QueueSubRoot(x, nodes[i], depth) \in V
  BY <1>1, QueueSubRootTyped
<1> HIDE DEF V
<1>3. g \in [0..n -> [V -> V]]
  BY <1>2
<1>4. PICK f \in [0..n -> V] : \A i \in 0..n : f[i] = IF i = 0 THEN q ELSE g[i][f[i - 1]]
  <2> HIDE DEF g
  <2>0. q \in V
    BY DEF V
  <2>1. HasRecursion(V, q, 0, n, g)
    BY <1>1, <1>3, <2>0, RangeRecursion
  <2> QED
    BY <2>1 DEF HasRecursion
<1>5. Def(f)
  <2>1. ASSUME NEW i \in 0..n PROVE f[i] = IF i = 0 THEN q ELSE QueueSubRoot(f[i - 1], nodes[i], depth)
    BY <1>1, <1>4
  <2> QED
    BY <2>1
<1>6. Def(after)
  BY <1>5 DEF After, n
<1>7. /\ after = [i \in 0..n |-> after[i]]
      /\ \A i \in 0..n : after[i] = IF i = 0 THEN q ELSE QueueSubRoot(after[i - 1], nodes[i], depth)
  <2> HIDE DEF after
  <2> QED
    BY <1>6
<1>8. QueueAll(q, nodes, depth) = after[n]
  BY DEF QueueAll, After, n
<1> HIDE DEF Def, g, after
<1> DEFINE S == {i \in 0..n : after[i] \in V}
<1>9. 0 \in S
  BY <1>1, <1>7 DEF V
<1>10. ASSUME NEW i \in 0..(n - 1), i \in S PROVE i + 1 \in S
  <2>1. after[i + 1] = QueueSubRoot(after[i], nodes[i + 1], depth)
    BY <1>1, <1>7
  <2> QED
    BY <1>1, <1>2, <1>10, <2>1
<1> HIDE DEF S
<1>11. 0..n \subseteq S
  BY <1>1, <1>9, <1>10, RangeInduction
<1>12. after \in [0..n -> V]
  BY <1>7, <1>11 DEF S
<1>13. \A i \in 0..(n - 1) : after[i + 1] = QueueSubRoot(after[i], nodes[i + 1], depth)
  BY <1>1, <1>7
<1> QED
  BY <1>1, <1>7, <1>8, <1>12, <1>13 DEF n, V, after

\* QueueAll returns a queue.
LEMMA QueueAllTyped ==
  ASSUME NEW X, NEW q \in Queues(X), NEW nodes \in Seq(Seq(X)), NEW depth \in Nat
  PROVE  QueueAll(q, nodes, depth) \in Queues(X)
<1>1. Len(nodes) \in 0..Len(nodes)
  BY LenProperties
<1>2. /\ After(q, nodes, depth) \in [0..Len(nodes) -> Queues(X)]
      /\ QueueAll(q, nodes, depth) = After(q, nodes, depth)[Len(nodes)]
  BY AfterDef
<1> QED
  BY <1>1, <1>2

\* Subroots queued one after the other, up to a whole tree.
LEMMA QueueAllHolds ==
  ASSUME NEW X, NEW q, NEW s \in Seq(X), SubRoots(X, q, s), NEW depth \in Levels,
         NEW nodes \in Seq(Seq(X)), \A i \in 1..Len(nodes) : Len(nodes[i]) = subTreeCapacity,
         Len(s) + Len(nodes) * subTreeCapacity <= Size(subTreeCapacity, depth)
  PROVE  /\ SubRoots(X, QueueAll(q, nodes, depth), s \o FlattenSeq(nodes))
         /\ Len(nodes) # 0 /\ Len(s) + Len(nodes) * subTreeCapacity = Size(subTreeCapacity, depth) =>
              QueueAll(q, nodes, depth).levels[depth][0] = s \o FlattenSeq(nodes)
<1> DEFINE n == Len(nodes)
           c == subTreeCapacity
           full == Size(c, depth)
           after == After(q, nodes, depth)
           content(i) == IF i = 0 THEN s ELSE s \o Flat(nodes)[i]
           P(i) == /\ SubRoots(X, after[i], content(i)) /\ content(i) \in Seq(X)
                   /\ Len(content(i)) = Len(s) + i * c
           S == {i \in 0..n : P(i)}
<1>1. /\ n \in Nat /\ 0 \in 0..n /\ n \in 0..n /\ 0 \in Nat /\ c \in Nat /\ c >= 1
      /\ Len(s) \in Nat /\ full \in Nat /\ depth \in Nat /\ q \in Queues(X)
      /\ \A i \in 0..(n - 1) : i + 1 \in 0..n /\ i + 1 # 0 /\ i + 1 \in 1..n /\ nodes[i + 1] \in Seq(X)
                               /\ Len(nodes[i + 1]) = c
  <2>1. n \in Nat /\ Len(s) \in Nat /\ \A i \in 1..n : nodes[i] \in Seq(X) /\ Len(nodes[i]) = c
    BY LenProperties, ElementOfSeq
  <2>2. c \in Nat /\ c >= 1 /\ depth \in 0..(MAX_DEPTH + 1) /\ depth \in Nat /\ q \in Queues(X)
    BY Capacity, AccQueueConstants DEF Levels, SubRoots
  <2>3. full \in Nat
    BY <2>2, SizeFacts
  <2> HIDE DEF n, c, full
  <2> QED
    BY <2>1, <2>2, <2>3
<1>2. /\ after[0] = q /\ QueueAll(q, nodes, depth) = after[n]
      /\ \A i \in 0..(n - 1) : after[i + 1] = QueueSubRoot(after[i], nodes[i + 1], depth)
  BY <1>1, AfterDef
<1>3. Len(s) + n * c <= full
  OBVIOUS
<1> HIDE DEF after, full, c
<1>4. ASSUME NEW i \in 0..(n - 1), content(i) \in Seq(X)
      PROVE  content(i + 1) = content(i) \o nodes[i + 1]
  <2>1. nodes # << >>
    BY <1>1, EmptySeq
  <2>2. /\ Flat(nodes) \in [1..n -> Seq(X)] /\ Flat(nodes)[1] = nodes[1]
        /\ \A j \in 2..n : Flat(nodes)[j] = Flat(nodes)[j - 1] \o nodes[j]
    BY <2>1, FlatDef
  <2> HIDE DEF n
  <2>3. content(i + 1) = s \o Flat(nodes)[i + 1]
    BY <1>1
  <2>4. CASE i = 0
    <3>1. content(i) = s /\ i + 1 = 1
      BY <2>4
    <3> QED
      BY <2>2, <2>3, <2>4, <3>1
  <2>5. CASE i # 0
    <3>1. i \in 1..n /\ i + 1 \in 2..n /\ (i + 1) - 1 = i
      BY <1>1, <2>5
    <3>2. Flat(nodes)[i + 1] = Flat(nodes)[i] \o nodes[i + 1] /\ Flat(nodes)[i] \in Seq(X)
      BY <2>2, <3>1
    <3>3. Associative(X)
      BY ConcatIsAssociative
    <3>4. s \o (Flat(nodes)[i] \o nodes[i + 1]) = (s \o Flat(nodes)[i]) \o nodes[i + 1]
      BY <1>1, <3>2, <3>3 DEF Associative
    <3> QED
      BY <2>3, <2>5, <3>2, <3>4
  <2> QED
    BY <2>4, <2>5
<1> HIDE DEF n, content
<1>5. content(0) = s
  BY DEF content
<1>6. 0 \in S
  <2>1. Len(s) + 0 * c = Len(s)
    BY <1>1
  <2> QED
    BY <1>1, <1>2, <1>5, <2>1
<1>7. ASSUME NEW i \in 0..(n - 1), P(i)
      PROVE  /\ P(i + 1)
             /\ Len(s) + (i + 1) * c = full => after[i + 1].levels[depth][0] = content(i + 1)
  <2> DEFINE node == nodes[i + 1]
  <2>1. node \in Seq(X) /\ Len(node) = c /\ after[i + 1] = QueueSubRoot(after[i], node, depth)
    BY <1>1, <1>2
  <2>2. (i + 1) * c <= n * c /\ i * c \in Nat /\ (i + 1) * c = i * c + c
    BY <1>1
  <2>3. content(i) \in Seq(X) /\ Len(content(i)) = Len(s) + i * c /\ SubRoots(X, after[i], content(i))
    BY <1>7
  <2> HIDE DEF node
  <2>4. Len(content(i)) < full
    <3> DEFINE a == i * c
               b == n * c
               d == (i + 1) * c
    <3>1. a \in Nat /\ d = a + c /\ d <= b /\ Len(s) + b <= full /\ Len(content(i)) = Len(s) + a /\ b \in Nat
      BY <1>1, <1>3, <2>2, <2>3
    <3> HIDE DEF a, b, d
    <3> QED
      BY <1>1, <3>1
  <2>5. /\ SubRoots(X, after[i + 1], content(i) \o node)
        /\ Len(content(i)) + c = full => after[i + 1].levels[depth][0] = content(i) \o node
    <3>1. SubRootStepped(X, after[i + 1], content(i), node, depth)
      BY <2>1, <2>3, <2>4, SubRootStep DEF c, full
    <3> QED
      BY <3>1 DEF SubRootStepped, c, full
  <2>6. content(i + 1) = content(i) \o node
    BY <1>4, <2>3 DEF node
  <2>7. content(i) \o node \in Seq(X) /\ Len(content(i) \o node) = Len(content(i)) + c
    BY <2>1, <2>3, ConcatProperties
  <2>8. Len(content(i)) + c = Len(s) + (i + 1) * c
    <3> DEFINE a == i * c
               d == (i + 1) * c
    <3>1. a \in Nat /\ d = a + c /\ Len(content(i)) = Len(s) + a
      BY <2>2, <2>3
    <3> HIDE DEF a, d
    <3>2. Len(content(i)) + c = Len(s) + d
      BY <1>1, <3>1
    <3> QED
      BY <3>2 DEF d
  <2> QED
    BY <2>5, <2>6, <2>7, <2>8
<1>8. \A i \in 0..(n - 1) : i \in S => i + 1 \in S
  BY <1>1, <1>7
<1>9. 0..n \subseteq S
  <2> HIDE DEF S
  <2> QED
    BY <1>1, <1>6, <1>8, RangeInduction
<1>10. content(n) = s \o FlattenSeq(nodes)
  <2>1. CASE n = 0
    <3>1. nodes = << >>
      BY <2>1, EmptySeq DEF n
    <3> QED
      BY <2>1, <3>1, FlattenEmpty, ConcatEmptySeq DEF content
  <2>2. CASE n # 0
    BY <2>2, FlattenIsFlat DEF n, content
  <2> QED
    BY <2>1, <2>2
<1>11. ASSUME n # 0, Len(s) + n * c = full PROVE after[n].levels[depth][0] = content(n)
  <2>1. n - 1 \in 0..(n - 1) /\ (n - 1) + 1 = n /\ n - 1 \in 0..n
    BY <1>1, <1>11
  <2>2. P(n - 1)
    BY <1>9, <2>1
  <2> HIDE DEF P
  <2>3. Len(s) + ((n - 1) + 1) * c = full => after[(n - 1) + 1].levels[depth][0] = content((n - 1) + 1)
    BY <1>7, <2>1, <2>2
  <2> QED
    BY <1>11, <2>1, <2>3
<1>12. SubRoots(X, after[n], content(n))
  BY <1>1, <1>9
<1> QED
  BY <1>2, <1>10, <1>11, <1>12 DEF n, c, full

-----------------------------------------------------------------------------
\* What flattens to both parts.
LEMMA FlattenConcat ==
  ASSUME NEW X, NEW s \in Seq(Seq(X)), NEW u \in Seq(Seq(X))
  PROVE  FlattenSeq(s \o u) = FlattenSeq(s) \o FlattenSeq(u)
<1> DEFINE Y == Seq(X)
           T == {m \in Nat : \A t \in Seq(Y) : Len(t) = m =>
                                FlattenSeq(s \o t) = FlattenSeq(s) \o FlattenSeq(t)}
<1>1. 0 \in T
  <2> SUFFICES ASSUME NEW t \in Seq(Y), Len(t) = 0
               PROVE  FlattenSeq(s \o t) = FlattenSeq(s) \o FlattenSeq(t)
    OBVIOUS
  <2>1. t = << >>
    BY EmptySeq
  <2>2. s \o t = s /\ FlattenSeq(s) \in Seq(X)
    BY <2>1, ConcatEmptySeq, FlattenTyped
  <2> QED
    BY <2>1, <2>2, FlattenEmpty, ConcatEmptySeq
<1>2. ASSUME NEW m \in T PROVE m + 1 \in T
  <2> SUFFICES ASSUME NEW t \in Seq(Y), Len(t) = m + 1
               PROVE  FlattenSeq(s \o t) = FlattenSeq(s) \o FlattenSeq(t)
    OBVIOUS
  <2>1. m \in Nat /\ \A r \in Seq(Y) : Len(r) = m => FlattenSeq(s \o r) = FlattenSeq(s) \o FlattenSeq(r)
    OBVIOUS
  <2> HIDE DEF T
  <2>2. t # << >>
    BY <2>1, EmptySeq
  <2>3. PICK r \in Seq(Y), e \in Y : t = Append(r, e)
    BY <2>2, SequenceEmptyOrAppend
  <2>4. Len(r) = m /\ Len(r) \in Nat
    BY <2>1, <2>3, AppendProperties, LenProperties
  <2>5. s \o t = Append(s \o r, e)
    <3>1. s \o r \in Seq(Y) /\ <<e>> \in Seq(Y)
      BY ConcatProperties
    <3>2. Append(s \o r, e) = (s \o r) \o <<e>> /\ t = r \o <<e>>
      BY <2>3, <3>1, AppendIsConcat
    <3>3. Associative(Y)
      BY ConcatIsAssociative
    <3> QED
      BY <3>1, <3>2, <3>3 DEF Associative
  <2>6. s \o r \in Seq(Seq(X)) /\ r \in Seq(Seq(X)) /\ e \in Seq(X)
    BY ConcatProperties
  <2>7. FlattenSeq(s \o t) = FlattenSeq(s \o r) \o e /\ FlattenSeq(t) = FlattenSeq(r) \o e
    BY <2>3, <2>5, <2>6, FlattenAppend
  <2>8. FlattenSeq(s \o r) = FlattenSeq(s) \o FlattenSeq(r)
    BY <2>1, <2>4
  <2>9. FlattenSeq(s) \in Seq(X) /\ FlattenSeq(r) \in Seq(X)
    BY <2>6, FlattenTyped
  <2>10. Associative(X)
    BY ConcatIsAssociative
  <2>11. FlattenSeq(s) \o (FlattenSeq(r) \o e) = (FlattenSeq(s) \o FlattenSeq(r)) \o e
    BY <2>6, <2>9, <2>10 DEF Associative
  <2> QED
    BY <2>7, <2>8, <2>11
<1> HIDE DEF T
<1>3. T = Nat
  BY <1>1, <1>2, SetInduction DEF T
<1>4. Len(u) \in T
  BY <1>3, LenProperties
<1> QED
  BY <1>4 DEF T

Blanks(m) == [i \in 1..m |-> getZero(subDepth)]

\* Blank subtrees are zeros.
LEMMA FlattenBlanks ==
  ASSUME NEW X, Zero \in X, NEW m \in Nat
  PROVE  /\ Blanks(m) \in Seq(Seq(X)) /\ Len(Blanks(m)) = m
         /\ \A i \in 1..m : Len(Blanks(m)[i]) = subTreeCapacity
         /\ FlattenSeq(Blanks(m)) = ZeroLeaves(m * subTreeCapacity)
<1> DEFINE c == subTreeCapacity
           z == getZero(subDepth)
           T == {k \in Nat : FlattenSeq(Blanks(k)) = ZeroLeaves(k * c)}
<1>1. c \in Nat /\ z = ZeroLeaves(c)
  BY Capacity DEF getZero, subTreeCapacity
<1>2. z \in Seq(X) /\ Len(z) = c
  BY <1>1, ZerosTyped
<1>3. ASSUME NEW k \in Nat
      PROVE  Blanks(k) \in Seq(Seq(X)) /\ Len(Blanks(k)) = k /\ \A i \in 1..k : Blanks(k)[i] = z
  <2>1. Blanks(k) \in [1..k -> Seq(X)] /\ \A i \in 1..k : Blanks(k)[i] = z
    BY <1>2 DEF Blanks
  <2> QED
    BY <2>1, SeqDef
<1> HIDE DEF z, c
<1>4. 0 \in T
  <2>1. Blanks(0) = << >> /\ ZeroLeaves(0) = << >> /\ 0 * c = 0
    BY <1>1, <1>3, ZerosTyped, EmptySeq
  <2> QED
    BY <2>1, FlattenEmpty
<1>5. ASSUME NEW k \in T PROVE k + 1 \in T
  <2>1. k \in Nat /\ k + 1 \in Nat /\ FlattenSeq(Blanks(k)) = ZeroLeaves(k * c)
    OBVIOUS
  <2> HIDE DEF T
  <2>2. /\ Append(Blanks(k), z) \in Seq(Seq(X)) /\ Len(Append(Blanks(k), z)) = k + 1
        /\ \A i \in 1..k : Append(Blanks(k), z)[i] = Blanks(k)[i]
        /\ Append(Blanks(k), z)[k + 1] = z
    <3> DEFINE b == Blanks(k)
    <3>1. b \in Seq(Seq(X)) /\ Len(b) = k
      BY <1>3, <2>1
    <3> HIDE DEF b
    <3>2. /\ Append(b, z) \in Seq(Seq(X)) /\ Len(Append(b, z)) = Len(b) + 1
          /\ \A i \in 1..Len(b) : Append(b, z)[i] = b[i]
          /\ Append(b, z)[Len(b) + 1] = z
      BY <1>2, <3>1, AppendProperties
    <3> QED
      BY <3>1, <3>2 DEF b
  <2>3. \A i \in 1..(k + 1) : Append(Blanks(k), z)[i] = Blanks(k + 1)[i]
    <3>1. \A i \in 1..(k + 1) : i \in 1..k \/ i = k + 1
      BY <2>1
    <3> QED
      BY <1>3, <2>1, <2>2, <3>1
  <2>4. Append(Blanks(k), z) = Blanks(k + 1)
    BY <1>3, <2>1, <2>2, <2>3, SeqEqual
  <2>5. FlattenSeq(Blanks(k + 1)) = ZeroLeaves(k * c) \o ZeroLeaves(c)
    BY <1>1, <1>2, <1>3, <2>1, <2>4, FlattenAppend
  <2>6. k * c \in Nat /\ k * c + c = (k + 1) * c
    BY <1>1, <2>1
  <2>7. ZeroLeaves(k * c) \o ZeroLeaves(c) = ZeroLeaves(k * c + c)
    BY <1>1, <2>6, ZerosAdd
  <2> QED
    BY <2>1, <2>5, <2>6, <2>7 DEF T
<1> HIDE DEF T
<1>6. T = Nat
  BY <1>4, <1>5, SetInduction DEF T
<1>7. FlattenSeq(Blanks(m)) = ZeroLeaves(m * c)
  BY <1>6 DEF T
<1> QED
  BY <1>2, <1>3, <1>7 DEF c

\* The depth of a subtree and of the tree over it.
LEMMA PowersAdd ==
  ASSUME NEW e \in 0..(MAX_DEPTH - subDepth)
  PROVE  hashLength ^ (subDepth + e) = Size(subTreeCapacity, e)
<1> DEFINE n == MAX_DEPTH - subDepth
           c == subTreeCapacity
           S == {l \in 0..n : hashLength ^ (subDepth + l) = Size(c, l)}
<1>1. /\ n \in Nat /\ 0 \in Nat /\ 0 \in 0..n /\ subDepth + 0 = subDepth
      /\ \A l \in 0..(n - 1) : /\ l + 1 \in 0..n /\ l \in Levels /\ subDepth + l \in 0..MAX_DEPTH
                                /\ subDepth + (l + 1) = (subDepth + l) + 1
  BY AccQueueConstants DEF Levels
<1>2. c \in Nat /\ c = hashLength ^ subDepth
  BY Capacity DEF subTreeCapacity
<1> HIDE DEF n, c
<1>3. Size(c, 0) = c /\ \A l \in Levels : Size(c, l + 1) = hashLength * Size(c, l)
  BY <1>2, SizeFacts
<1>4. 0 \in S
  BY <1>1, <1>2, <1>3
<1>5. ASSUME NEW l \in 0..(n - 1), l \in S PROVE l + 1 \in S
  <2>1. hashLength ^ ((subDepth + l) + 1) = hashLength * hashLength ^ (subDepth + l)
    BY <1>1, PowersOfHashLength
  <2>2. hashLength ^ (subDepth + l) = Size(c, l)
    BY <1>5
  <2>3. hashLength ^ (subDepth + (l + 1)) = Size(c, l + 1)
    BY <1>1, <1>3, <2>1, <2>2
  <2> QED
    BY <1>1, <2>3
<1> HIDE DEF S
<1>6. 0..n \subseteq S
  BY <1>1, <1>4, <1>5, RangeInduction
<1> QED
  BY <1>6 DEF S, n, c

\* calcMinHeight is the least depth with room for the subtrees.
LEMMA MinHeight ==
  ASSUME NEW k \in Nat, k <= hashLength ^ MAX_DEPTH
  PROVE  /\ calcMinHeight(k) \in 1..MAX_DEPTH
         /\ hashLength ^ calcMinHeight(k) >= k
         /\ \A e \in 1..MAX_DEPTH : hashLength ^ e >= k => calcMinHeight(k) <= e
<1> DEFINE S == {d \in 1..(MAX_DEPTH + 1) : d = MAX_DEPTH + 1 \/ hashLength ^ d >= k}
<1>1. \A e \in 1..MAX_DEPTH : e \in 1..(MAX_DEPTH + 1)
  BY AccQueueConstants
<1>2. hashLength ^ MAX_DEPTH \in Nat
  BY PowerFacts, AccQueueConstants
<1>3. MAX_DEPTH \in S /\ MAX_DEPTH \in Nat /\ S \in SUBSET Nat
  BY <1>2, AccQueueConstants
<1>4. \A d \in S : d <= MAX_DEPTH => d \in 1..MAX_DEPTH /\ hashLength ^ d >= k
  BY <1>3
<1>5. \A e \in 1..MAX_DEPTH : hashLength ^ e >= k => e \in S
  BY <1>1
<1>6. calcMinHeight(k) = Min(S)
  BY DEF calcMinHeight
<1> HIDE DEF S
<1>7. calcMinHeight(k) \in S /\ \A d \in S : calcMinHeight(k) <= d
  BY <1>3, <1>6, MinOfNaturals
<1> QED
  BY <1>3, <1>4, <1>5, <1>7

\* The leaves that the root over the subroots commits to.
MergedSize(k) == IF k = 1 THEN subTreeCapacity ELSE Size(subTreeCapacity, calcMinHeight(k))

\* A depth that holds the leaves holds the subtrees and their blanks.
LEMMA MergeFits ==
  ASSUME NEW k \in Nat, k >= 1, k <= hashLength ^ MAX_DEPTH
  PROVE  /\ MergedSize(k) \in Nat /\ k * subTreeCapacity <= MergedSize(k)
         /\ \A depth \in Levels :
              depth >= subDepth /\ hashLength ^ depth >= k * subTreeCapacity =>
                MergedSize(k) <= hashLength ^ depth
<1> DEFINE c == subTreeCapacity
           h == calcMinHeight(k)
<1>1. c \in Nat /\ c >= 1
  BY Capacity
<1>2. /\ h \in 1..MAX_DEPTH /\ hashLength ^ h >= k
      /\ \A e \in 1..MAX_DEPTH : hashLength ^ e >= k => h <= e
  BY MinHeight
<1>3. h \in 0..(MAX_DEPTH + 1) /\ MAX_DEPTH \in Nat
  BY <1>2, AccQueueConstants
<1>4. hashLength ^ h \in Nat /\ Size(c, h) \in Nat
  BY <1>1, <1>3, SizeFacts, PowerFacts
<1>5. MergedSize(k) \in Nat /\ k * c <= MergedSize(k)
  <2> DEFINE w == hashLength ^ h
  <2>1. w \in Nat /\ w >= k
    BY <1>2, <1>4
  <2> HIDE DEF w, c
  <2>2. k * c <= c * w
    BY <1>1, <2>1
  <2>3. Size(c, h) = c * w
    BY DEF Size, w
  <2>4. k = 1 => k * c = c
    BY <1>1
  <2> QED
    BY <1>1, <1>4, <2>2, <2>3, <2>4 DEF MergedSize, c
<1> SUFFICES ASSUME NEW depth \in Levels, depth >= subDepth, hashLength ^ depth >= k * c
             PROVE  MergedSize(k) <= hashLength ^ depth
  BY <1>5
<1> DEFINE e == depth - subDepth
           v == hashLength ^ e
<1>6. e \in 0..(MAX_DEPTH - subDepth) /\ e \in 0..MAX_DEPTH /\ e \in 0..(MAX_DEPTH + 1) /\ subDepth + e = depth
  BY AccQueueConstants DEF Levels
<1>7. hashLength ^ depth = Size(c, e) /\ v \in Nat /\ v >= 1
  BY <1>6, PowersAdd, PowerFacts
<1> HIDE DEF e, c
<1>8. Size(c, e) = c * v
  BY DEF Size
<1> HIDE DEF v
<1>9. v >= k
  <2>1. c * v >= k * c
    BY <1>7, <1>8
  <2>2. v < k => c * v < k * c
    BY <1>1, <1>7
  <2>3. c * v \in Nat /\ k * c \in Nat
    BY <1>1, <1>7
  <2> QED
    BY <1>7, <2>1, <2>2, <2>3
<1>10. CASE k = 1
  <2>1. c * v >= c
    BY <1>1, <1>7
  <2> QED
    BY <1>7, <1>8, <1>10, <2>1 DEF MergedSize, c
<1>11. CASE k # 1
  <2>1. e # 0
    <3>1. hashLength ^ 0 = 1
      BY PowersOfHashLength
    <3> QED
      BY <1>9, <1>11, <3>1 DEF v
  <2>2. e \in 1..MAX_DEPTH /\ hashLength ^ e >= k
    BY <1>3, <1>6, <1>9, <2>1 DEF v
  <2>3. h <= e
    BY <1>2, <2>2
  <2>4. e \in h..(MAX_DEPTH + 1)
    BY <1>3, <1>6, <2>3
  <2>5. Size(c, h) <= Size(c, e)
    BY <1>1, <1>3, <2>4, SizeGrows
  <2> QED
    BY <1>7, <1>11, <2>5 DEF MergedSize, c
<1> QED
  BY <1>10, <1>11

-----------------------------------------------------------------------------
\* The subroots queued so far, and nothing else, wait in the subroots' queue.
QueuedLeaves(aq) == FlattenSeq(SubSeq(aq.subRoots, 1, aq.nextSubRootIndex))
Unmixed(X, aq) == SubRoots(X, aq.subRootQueue, QueuedLeaves(aq))

\* The root over the subroots commits to all the leaves, and then zeros.
Rooted(aq) ==
  /\ StartedLeaves(aq.leafQueue) = << >>
  /\ aq.currentSubtreeIndex >= 1 /\ aq.currentSubtreeIndex <= hashLength ^ MAX_DEPTH
  /\ aq.smallSRTroot =
       Leaves(aq) \o ZeroLeaves(MergedSize(aq.currentSubtreeIndex) - Len(Leaves(aq)))

\* This merge has queued blank subroots.
BlanksQueued(aq) ==
  /\ aq.subTreesMerged
  /\ aq.currentSubtreeIndex > 1
  /\ aq.currentSubtreeIndex # hashLength ^ calcMinHeight(aq.currentSubtreeIndex)

\* The first subtrees of the array.
LEMMA QueuedTyped ==
  ASSUME NEW X, NEW s \in Seq(Seq(X)), \A i \in 1..Len(s) : Len(s[i]) = subTreeCapacity,
         NEW k \in 0..Len(s)
  PROVE  /\ SubSeq(s, 1, k) \in Seq(Seq(X)) /\ Len(SubSeq(s, 1, k)) = k
         /\ \A i \in 1..k : SubSeq(s, 1, k)[i] = s[i]
         /\ FlattenSeq(SubSeq(s, 1, k)) \in Seq(X)
         /\ Len(FlattenSeq(SubSeq(s, 1, k))) = k * subTreeCapacity
<1> DEFINE u == SubSeq(s, 1, k)
           Y == Seq(X)
<1>1. Len(s) \in Nat /\ k \in Nat /\ \A i \in 1..k : i \in 1..Len(s) /\ s[i] \in Y
  BY LenProperties, ElementOfSeq
<1>2. /\ u \in Seq(Y) /\ Len(u) = (IF 1 <= k THEN k - 1 + 1 ELSE 0)
      /\ \A i \in 1..(k - 1 + 1) : u[i] = s[1 + i - 1]
  BY <1>1, SubSeqProperties
<1> HIDE DEF u
<1>3. Len(u) = k /\ \A i \in 1..k : u[i] = s[i]
  BY <1>1, <1>2
<1>4. \A i \in 1..Len(u) : Len(u[i]) = subTreeCapacity
  BY <1>1, <1>3
<1>5. FlattenSeq(u) \in Seq(X) /\ Len(FlattenSeq(u)) = k * subTreeCapacity
  BY <1>2, <1>3, <1>4, FlattenTyped, FlattenLength, Capacity
<1> QED
  BY <1>2, <1>3, <1>5 DEF u

\* New subtrees do not disturb the queue of the subroots.
LEMMA UnmixedKept ==
  ASSUME NEW X, NEW aq, Stored(X, aq), NEW aq2, Stored(X, aq2), Grown(aq, aq2), Unmixed(X, aq)
  PROVE  Unmixed(X, aq2)
<1> DEFINE k == aq.nextSubRootIndex
           s == aq.subRoots
           t == aq2.subRoots
           Y == Seq(X)
<1>1. /\ s \in Seq(Y) /\ t \in Seq(Y) /\ Len(s) <= Len(t) /\ aq2.nextSubRootIndex = k
      /\ k \in 0..Len(s) /\ k \in 0..Len(t) /\ Len(s) \in Nat
      /\ \A i \in 1..Len(s) : t[i] = s[i] /\ Len(s[i]) = subTreeCapacity
      /\ \A i \in 1..Len(t) : Len(t[i]) = subTreeCapacity
      /\ aq2.subRootQueue = aq.subRootQueue
  BY DEF Stored, AccQueues, Grown
<1> HIDE DEF s, t, k
<1>2. /\ SubSeq(s, 1, k) \in Seq(Y) /\ Len(SubSeq(s, 1, k)) = k
      /\ \A i \in 1..k : SubSeq(s, 1, k)[i] = s[i]
  BY <1>1, QueuedTyped
<1>3. /\ SubSeq(t, 1, k) \in Seq(Y) /\ Len(SubSeq(t, 1, k)) = k
      /\ \A i \in 1..k : SubSeq(t, 1, k)[i] = t[i]
  BY <1>1, QueuedTyped
<1>4. \A i \in 1..k : SubSeq(t, 1, k)[i] = SubSeq(s, 1, k)[i]
  BY <1>1, <1>2, <1>3
<1>5. SubSeq(t, 1, k) = SubSeq(s, 1, k)
  BY <1>2, <1>3, <1>4, SeqEqual
<1> QED
  BY <1>1, <1>5 DEF Unmixed, QueuedLeaves, s, t, k

\* aq2 has queued more subroots of aq than before and nothing else is new.
MoreQueued(X, aq, aq2) ==
  /\ Stored(X, aq2)
  /\ aq2.leafQueue = aq.leafQueue /\ aq2.subRoots = aq.subRoots
  /\ aq2.currentSubtreeIndex = aq.currentSubtreeIndex /\ aq2.numLeaves = aq.numLeaves
  /\ aq2.mainRoots = aq.mainRoots /\ aq2.treeMerged = aq.treeMerged
  /\ aq2.nextSubRootIndex > aq.nextSubRootIndex
  /\ aq2.subTreesMerged <=> aq2.nextSubRootIndex = aq.currentSubtreeIndex
  /\ Unmixed(X, aq) /\ aq2.subTreesMerged => Rooted(aq2)
  /\ Unmixed(X, aq) /\ ~BlanksQueued(aq2) => Unmixed(X, aq2)

\* The loop of mergeSubRoots over the subroots, with its limit.
LEMMA MergeManyQueues ==
  ASSUME NEW X, Zero \in X, NEW aq, Stored(X, aq), StartedLeaves(aq.leafQueue) = << >>,
         aq.currentSubtreeIndex # 1, aq.currentSubtreeIndex <= hashLength ^ MAX_DEPTH,
         aq.nextSubRootIndex < aq.currentSubtreeIndex, ~aq.subTreesMerged, NEW lim \in Nat
  PROVE  MoreQueued(X, aq, MergeManySubRoots(aq, lim))
<1> DEFINE aq2 == MergeManySubRoots(aq, lim)
           c == subTreeCapacity
           Y == Seq(X)
           s == aq.subRoots
           k == aq.nextSubRootIndex
           cur == aq.currentSubtreeIndex
           d == calcMinHeight(cur)
           w == hashLength ^ d
           next == k + SubRootsToQueue(aq, lim)
           nodes == SubSeq(s, k + 1, next)
           m == w - cur
           q == aq.subRootQueue
<1>1. /\ aq \in AccQueues(X) /\ s \in Seq(Y) /\ Len(s) = cur /\ cur \in Nat /\ k \in Nat /\ k < cur
      /\ \A i \in 1..Len(s) : Len(s[i]) = c
      /\ q \in Queues(X) /\ c \in Nat /\ c >= 1 /\ aq.subTreesMerged = FALSE
      /\ aq.numLeaves = Len(Leaves(aq)) /\ SubtreeQueue(X, aq.leafQueue)
  BY Capacity DEF Stored, AccQueues
<1>2. /\ next \in Nat /\ next > k /\ next <= cur
  BY <1>1 DEF SubRootsToQueue
<1>3. /\ d \in 1..MAX_DEPTH /\ w >= cur /\ d \in Levels /\ d \in Nat /\ w \in Nat /\ m \in Nat
  <2>1. d \in 1..MAX_DEPTH /\ w >= cur
    BY <1>1, MinHeight
  <2>2. d \in 0..(MAX_DEPTH + 1) /\ d \in Levels /\ d \in Nat
    BY <2>1, AccQueueConstants DEF Levels
  <2>3. w \in Nat
    BY <2>2, PowerFacts
  <2> HIDE DEF d, w
  <2> QED
    BY <1>1, <2>1, <2>2, <2>3
<1>4. aq2 = IF next < cur
            THEN [aq EXCEPT !.subRootQueue = QueueAll(q, nodes, d), !.nextSubRootIndex = next]
            ELSE [aq EXCEPT !.subRootQueue = QueueAll(q, nodes \o Blanks(m), d),
                            !.nextSubRootIndex = next,
                            !.smallSRTroot = QueueAll(q, nodes \o Blanks(m), d).levels[d][0],
                            !.subTreesMerged = TRUE]
  BY DEF MergeManySubRoots, Blanks
<1> HIDE DEF aq2, c, s, k, cur, d, w, next, m, q
<1>5. /\ nodes \in Seq(Y) /\ Len(nodes) = next - k
      /\ \A i \in 1..Len(nodes) : Len(nodes[i]) = c
  <2>1. \A i \in (k + 1)..next : i \in 1..Len(s) /\ s[i] \in Y
    BY <1>1, <1>2, ElementOfSeq
  <2>2. /\ nodes \in Seq(Y) /\ Len(nodes) = (IF k + 1 <= next THEN next - (k + 1) + 1 ELSE 0)
        /\ \A i \in 1..(next - (k + 1) + 1) : nodes[i] = s[(k + 1) + i - 1]
    BY <1>1, <1>2, <2>1, SubSeqProperties
  <2> HIDE DEF nodes
  <2>3. Len(nodes) = next - k
    BY <1>1, <1>2, <2>2
  <2>4. \A i \in 1..(next - k) : nodes[i] = s[k + i] /\ k + i \in 1..Len(s)
    BY <1>1, <1>2, <2>2
  <2> QED
    BY <1>1, <2>2, <2>3, <2>4
<1>6. SubSeq(s, 1, k) \o nodes = SubSeq(s, 1, next) /\ SubSeq(s, 1, k) \in Seq(Y) /\ SubSeq(s, 1, next) \in Seq(Y)
  <2>1. /\ 1 \in 1..(Len(s) + 1) /\ k \in (1 - 1)..Len(s) /\ next \in k..Len(s) /\ k \in 0..Len(s) /\ next \in 0..Len(s)
    BY <1>1, <1>2
  <2>2. SubSeq(s, 1, k) \o nodes = SubSeq(s, 1, next)
    BY <1>1, <2>1, ConcatAdjacentSubSeq
  <2> QED
    BY <1>1, <2>1, <2>2, QueuedTyped DEF c
<1> DEFINE old == FlattenSeq(SubSeq(s, 1, k))
           new == FlattenSeq(SubSeq(s, 1, next))
<1>7. /\ old \in Seq(X) /\ Len(old) = k * c /\ new \in Seq(X) /\ Len(new) = next * c
      /\ FlattenSeq(nodes) \in Seq(X) /\ new = old \o FlattenSeq(nodes)
  <2>1. k \in 0..Len(s) /\ next \in 0..Len(s)
    BY <1>1, <1>2
  <2>2. old \in Seq(X) /\ Len(old) = k * c /\ new \in Seq(X) /\ Len(new) = next * c
    BY <1>1, <2>1, QueuedTyped DEF c
  <2> QED
    BY <1>5, <1>6, <2>2, FlattenTyped, FlattenConcat
<1> HIDE DEF nodes, old, new
<1>8. /\ Size(c, d) = c * w /\ Size(c, d) \in Nat
  <2>1. d \in 0..(MAX_DEPTH + 1)
    BY <1>3, AccQueueConstants
  <2>2. Size(c, d) = c * w
    BY DEF Size, w
  <2> QED
    BY <1>1, <2>1, <2>2, SizeFacts
<1>9. CASE next < cur
  <2> DEFINE q2 == QueueAll(q, nodes, d)
  <2>1. q2 \in Queues(X)
    BY <1>1, <1>3, <1>5, QueueAllTyped
  <2> HIDE DEF q2
  <2>2. /\ aq2 \in AccQueues(X)
        /\ aq2.leafQueue = aq.leafQueue /\ aq2.subRoots = aq.subRoots
        /\ aq2.currentSubtreeIndex = aq.currentSubtreeIndex /\ aq2.numLeaves = aq.numLeaves
        /\ aq2.mainRoots = aq.mainRoots /\ aq2.treeMerged = aq.treeMerged
        /\ aq2.nextSubRootIndex = next /\ aq2.subTreesMerged = FALSE /\ aq2.subRootQueue = q2
    <3>1. aq2 = [aq EXCEPT !.subRootQueue = q2, !.nextSubRootIndex = next]
      BY <1>4, <1>9 DEF q2
    <3> QED
      BY <1>1, <1>2, <2>1, <3>1 DEF AccQueues
  <2>3. Stored(X, aq2)
    BY <1>1, <1>2, <2>2 DEF Stored, Leaves, s, k, cur, c
  <2>4. ASSUME Unmixed(X, aq) PROVE Unmixed(X, aq2)
    <3>1. SubRoots(X, q, old)
      BY <2>4 DEF Unmixed, QueuedLeaves, q, old, s, k
    <3>2. Len(old) + Len(nodes) * c <= Size(c, d)
      <4>1. k * c + (next - k) * c = next * c /\ next * c <= w * c /\ w * c = c * w
        BY <1>1, <1>2, <1>3, <1>9
      <4>2. Len(old) + Len(nodes) * c = next * c
        BY <1>5, <1>7, <4>1
      <4> QED
        BY <1>8, <4>1, <4>2
    <3>3. SubRoots(X, q2, old \o FlattenSeq(nodes))
      BY <1>3, <1>5, <1>7, <3>1, <3>2, QueueAllHolds DEF c, q2
    <3> QED
      BY <1>7, <2>2, <3>3 DEF Unmixed, QueuedLeaves, new, s
  <2> QED
    BY <1>2, <1>9, <2>2, <2>3, <2>4 DEF MoreQueued, aq2, k, cur
<1>10. CASE ~ (next < cur)
  <2> DEFINE all == nodes \o Blanks(m)
             q2 == QueueAll(q, all, d)
             z == ZeroLeaves(m * c)
  <2>1. next = cur
    BY <1>1, <1>2, <1>10
  <2>2. /\ all \in Seq(Y) /\ Len(all) = Len(nodes) + m /\ \A i \in 1..Len(all) : Len(all[i]) = c
        /\ FlattenSeq(all) = FlattenSeq(nodes) \o z
    <3> DEFINE b == Blanks(m)
    <3>1. /\ b \in Seq(Y) /\ Len(b) = m /\ \A i \in 1..m : Len(b[i]) = c
          /\ FlattenSeq(b) = z
      BY <1>3, FlattenBlanks DEF c
    <3> HIDE DEF b, z
    <3>2. /\ nodes \o b \in Seq(Y) /\ Len(nodes \o b) = Len(nodes) + Len(b)
          /\ \A i \in 1..(Len(nodes) + Len(b)) : (nodes \o b)[i] =
               IF i <= Len(nodes) THEN nodes[i] ELSE b[i - Len(nodes)]
      BY <1>5, <3>1, ConcatProperties
    <3>3. ASSUME NEW i \in 1..Len(nodes \o b) PROVE Len((nodes \o b)[i]) = c
      <4>1. Len(nodes) \in Nat /\ Len(b) \in Nat
        BY <1>3, <1>5, <3>1, LenProperties
      <4>2. CASE i <= Len(nodes)
        <5>1. i \in 1..Len(nodes) /\ (nodes \o b)[i] = nodes[i]
          BY <3>2, <4>1, <4>2
        <5> QED
          BY <1>5, <5>1
      <4>3. CASE ~ (i <= Len(nodes))
        <5>1. i - Len(nodes) \in 1..m /\ (nodes \o b)[i] = b[i - Len(nodes)]
          BY <3>1, <3>2, <4>1, <4>3
        <5> QED
          BY <3>1, <5>1
      <4> QED
        BY <4>2, <4>3
    <3>4. FlattenSeq(nodes \o b) = FlattenSeq(nodes) \o z
      BY <1>5, <3>1, FlattenConcat
    <3> QED
      BY <3>1, <3>2, <3>3, <3>4 DEF b
  <2> HIDE DEF all
  <2>3. q2 \in Queues(X)
    BY <1>1, <1>3, <2>2, QueueAllTyped
  <2> HIDE DEF q2
  <2>4. q2.levels[d][0] \in Seq(X)
    <3>1. 0 \in Slots
      BY AccQueueConstants DEF Slots
    <3> QED
      BY <1>3, <2>3, <3>1 DEF Queues
  <2>5. /\ aq2 \in AccQueues(X)
        /\ aq2.leafQueue = aq.leafQueue /\ aq2.subRoots = aq.subRoots
        /\ aq2.currentSubtreeIndex = aq.currentSubtreeIndex /\ aq2.numLeaves = aq.numLeaves
        /\ aq2.mainRoots = aq.mainRoots /\ aq2.treeMerged = aq.treeMerged
        /\ aq2.nextSubRootIndex = next /\ aq2.subTreesMerged = TRUE /\ aq2.subRootQueue = q2
        /\ aq2.smallSRTroot = q2.levels[d][0]
    <3>1. aq2 = [aq EXCEPT !.subRootQueue = q2, !.nextSubRootIndex = next,
                           !.smallSRTroot = q2.levels[d][0], !.subTreesMerged = TRUE]
      BY <1>4, <1>10 DEF q2, all
    <3> QED
      BY <1>1, <1>2, <2>3, <2>4, <3>1 DEF AccQueues
  <2>6. Stored(X, aq2)
    BY <1>1, <1>2, <2>5 DEF Stored, Leaves, s, k, cur, c
  <2>7. ASSUME Unmixed(X, aq)
        PROVE  /\ SubRoots(X, q2, new \o z)
               /\ q2.levels[d][0] = new \o z
    <3>1. SubRoots(X, q, old)
      BY <2>7 DEF Unmixed, QueuedLeaves, q, old, s, k
    <3>2. Len(old) + Len(all) * c = Size(c, d) /\ Len(all) # 0
      <4>1. Len(all) = w - k /\ Len(all) # 0
        BY <1>1, <1>2, <1>3, <1>5, <2>1, <2>2 DEF m
      <4>2. k * c + (w - k) * c = c * w
        BY <1>1, <1>3
      <4> QED
        BY <1>7, <1>8, <4>1, <4>2
    <3>3. /\ SubRoots(X, q2, old \o FlattenSeq(all))
          /\ q2.levels[d][0] = old \o FlattenSeq(all)
      <4>1. Len(old) + Len(all) * c <= Size(c, d)
        BY <1>8, <3>2
      <4> QED
        BY <1>3, <1>7, <2>2, <3>1, <3>2, <4>1, QueueAllHolds DEF c, q2
    <3>4. old \o (FlattenSeq(nodes) \o z) = (old \o FlattenSeq(nodes)) \o z
      <4>1. Associative(X)
        BY ConcatIsAssociative
      <4>2. m * c \in Nat
        BY <1>1, <1>3
      <4>3. z \in Seq(X)
        BY <4>2, ZerosTyped
      <4> QED
        BY <1>7, <4>1, <4>3 DEF Associative
    <3> QED
      BY <1>7, <2>2, <3>3, <3>4
  <2>8. new = FlattenSeq(s)
    BY <1>1, <2>1, SubSeqFull DEF new
  <2>9. ASSUME Unmixed(X, aq) PROVE Rooted(aq2)
    <3>1. Leaves(aq) = new
      <4>1. Leaves(aq) = new \o << >>
        BY <2>8 DEF Leaves, s
      <4> QED
        BY <1>7, <4>1, ConcatEmptySeq
    <3>2. Leaves(aq2) = Leaves(aq)
      BY <2>5 DEF Leaves
    <3>3. MergedSize(cur) - Len(new) = m * c
      <4>1. MergedSize(cur) = c * w
        BY <1>8 DEF MergedSize, c, d, cur
      <4>2. c * w - cur * c = (w - cur) * c
        BY <1>1, <1>3
      <4> QED
        BY <1>7, <2>1, <4>1, <4>2 DEF m
    <3> QED
      BY <1>1, <2>5, <2>7, <2>9, <3>1, <3>2, <3>3 DEF Rooted, cur
  <2>10. ASSUME Unmixed(X, aq), ~BlanksQueued(aq2) PROVE Unmixed(X, aq2)
    <3>1. cur = w
      <4>1. cur > 1
        BY <1>1 DEF cur, k
      <4> QED
        BY <2>5, <2>10, <4>1 DEF BlanksQueued, cur, w, d
    <3>2. z = << >>
      <4>1. m * c = 0
        BY <1>1, <1>3, <3>1 DEF m
      <4> QED
        BY <4>1, ZerosTyped, EmptySeq
    <3>3. new \o z = new
      BY <1>7, <3>2, ConcatEmptySeq
    <3> QED
      BY <2>5, <2>7, <2>10, <3>3 DEF Unmixed, QueuedLeaves, new, s
  <2> QED
    BY <1>2, <2>1, <2>5, <2>6, <2>9, <2>10 DEF MoreQueued, aq2, k, cur
<1> QED
  BY <1>9, <1>10

\* The leaves of aq with its started subtree, if any, completed with zeros.
Rounded(X, aq, aq2) ==
  /\ Stored(X, aq2)
  /\ StartedLeaves(aq2.leafQueue) = << >>
  /\ \E k \in Nat : Leaves(aq2) = Leaves(aq) \o ZeroLeaves(k)
  /\ ~Started(aq) => Leaves(aq2) = Leaves(aq)
  /\ aq2.mainRoots = IF Started(aq) THEN [l \in Levels |-> Empty] ELSE aq.mainRoots
  /\ aq2.treeMerged = aq.treeMerged

\* What mergeSubRoots does first.
LEMMA FillStartedRounds ==
  ASSUME NEW X, Zero \in X, NEW aq, Stored(X, aq)
  PROVE  /\ Rounded(X, aq, FillStarted(aq))
         /\ ~aq.subTreesMerged => ~FillStarted(aq).subTreesMerged
         /\ FillStarted(aq).nextSubRootIndex = aq.nextSubRootIndex
         /\ Mergeable(aq) => aq.nextSubRootIndex < FillStarted(aq).currentSubtreeIndex
         /\ Unmixed(X, aq) => Unmixed(X, FillStarted(aq))
<1>1. CASE Started(aq)
  <2>1. FillStarted(aq) = fill(aq)
    BY <1>1 DEF FillStarted
  <2>2. FilledUp(X, aq, fill(aq))
    BY FillStored
  <2> DEFINE aq2 == fill(aq)
  <2> HIDE DEF aq2
  <2>3. FilledUp(X, aq, aq2) /\ FillStarted(aq) = aq2
    BY <2>1, <2>2 DEF aq2
  <2>4. /\ Stored(X, aq2) /\ StartedLeaves(aq2.leafQueue) = << >> /\ Grown(aq, aq2) /\ ~aq2.subTreesMerged
        /\ \E k \in Nat : Leaves(aq2) = Leaves(aq) \o ZeroLeaves(k)
        /\ aq2.currentSubtreeIndex = aq.currentSubtreeIndex + 1
        /\ aq2.mainRoots = IF Started(aq) THEN [l \in Levels |-> Empty] ELSE aq.mainRoots
    BY <2>3 DEF FilledUp
  <2>5. aq2.nextSubRootIndex = aq.nextSubRootIndex /\ aq2.treeMerged = aq.treeMerged
    BY <2>4 DEF Grown
  <2>6. Rounded(X, aq, aq2)
    BY <1>1, <2>4, <2>5 DEF Rounded
  <2>7. Unmixed(X, aq) => Unmixed(X, aq2)
    BY <2>4, UnmixedKept
  <2>8. aq.nextSubRootIndex < aq2.currentSubtreeIndex
    BY <2>4 DEF Stored, AccQueues
  <2> QED
    BY <2>3, <2>4, <2>5, <2>6, <2>7, <2>8
<1>2. CASE ~Started(aq)
  <2>1. FillStarted(aq) = aq
    BY <1>2 DEF FillStarted
  <2>2. StartedLeaves(aq.leafQueue) = << >>
    <3>1. SubtreeQueue(X, aq.leafQueue)
      BY DEF Stored
    <3>2. StartedLeaves(aq.leafQueue) \in Seq(X) /\ Len(StartedLeaves(aq.leafQueue)) = 0
      BY <1>2, <3>1, LeavesCounted, StartedLeavesLength DEF Started
    <3> QED
      BY <3>2, EmptySeq
  <2>3. Leaves(aq) = Leaves(aq) \o ZeroLeaves(0) /\ 0 \in Nat
    <3>1. Leaves(aq) \in Seq(X)
      BY LeavesCounted
    <3>2. ZeroLeaves(0) = << >>
      BY ZerosTyped, EmptySeq
    <3> QED
      BY <3>1, <3>2, ConcatEmptySeq
  <2>4. Rounded(X, aq, aq)
    BY <1>2, <2>2, <2>3 DEF Rounded
  <2> QED
    BY <1>2, <2>1, <2>4 DEF Mergeable
<1> QED
  BY <1>1, <1>2

SubRootsMerged(X, aq, aq2) ==
  /\ Rounded(X, aq, aq2)
  /\ aq2.currentSubtreeIndex = FillStarted(aq).currentSubtreeIndex
  /\ aq2.nextSubRootIndex >= aq.nextSubRootIndex
  /\ aq2.subTreesMerged \/ aq2.nextSubRootIndex > aq.nextSubRootIndex
  /\ aq2.currentSubtreeIndex = 1 \/ aq2.nextSubRootIndex > aq.nextSubRootIndex
  /\ ~aq2.subTreesMerged => Mergeable(aq2)
  /\ (aq2.subTreesMerged /\ aq2.currentSubtreeIndex > 1) => ~Mergeable(aq2)
  /\ (Unmixed(X, aq) /\ aq2.subTreesMerged) => Rooted(aq2)
  /\ (Unmixed(X, aq) /\ ~BlanksQueued(aq2)) => Unmixed(X, aq2)

\* A call of mergeSubRoots, however few operations it is allowed.
LEMMA MergeSubRootsMerges ==
  ASSUME NEW X, Zero \in X, NEW aq, Stored(X, aq), Mergeable(aq), ~aq.subTreesMerged,
         FillStarted(aq).currentSubtreeIndex <= hashLength ^ MAX_DEPTH, NEW lim \in Nat
  PROVE  SubRootsMerged(X, aq, mergeSubRoots(aq, lim))
<1> DEFINE full == FillStarted(aq)
           aq2 == mergeSubRoots(aq, lim)
<1>1. /\ Rounded(X, aq, full) /\ ~full.subTreesMerged /\ full.nextSubRootIndex = aq.nextSubRootIndex
      /\ aq.nextSubRootIndex < full.currentSubtreeIndex
      /\ Unmixed(X, aq) => Unmixed(X, full)
  BY FillStartedRounds
<1>2. Stored(X, full) /\ StartedLeaves(full.leafQueue) = << >> /\ full.currentSubtreeIndex <= hashLength ^ MAX_DEPTH
  BY <1>1 DEF Rounded
<1>3. aq2 = IF full.currentSubtreeIndex = 1
            THEN [full EXCEPT !.smallSRTroot = full.subRoots[1], !.subTreesMerged = TRUE]
            ELSE MergeManySubRoots(full, lim)
  BY DEF mergeSubRoots
<1> HIDE DEF aq2, full
<1>4. /\ full \in AccQueues(X) /\ full.currentSubtreeIndex = Len(full.subRoots) /\ full.subRoots \in Seq(Seq(X))
      /\ full.currentSubtreeIndex \in Nat /\ full.nextSubRootIndex \in Nat /\ aq.nextSubRootIndex \in Nat
  BY <1>2 DEF Stored, AccQueues
<1>5. CASE full.currentSubtreeIndex = 1
  <2> DEFINE root == full.subRoots[1]
  <2>1. root \in Seq(X) /\ full.subRoots = <<root>>
    <3> DEFINE s == full.subRoots
               Y == Seq(X)
    <3>1. s \in Seq(Y) /\ Len(s) = 1
      BY <1>4, <1>5
    <3> HIDE DEF s, Y
    <3>2. s[1] \in Y
      <4>1. 1 \in 1..Len(s)
        BY <3>1
      <4> QED
        BY <3>1, <4>1, ElementOfSeq, Zenon
    <3>3. <<s[1]>> \in Seq(Y) /\ Len(<<s[1]>>) = 1 /\ <<s[1]>>[1] = s[1]
      BY <3>2
    <3>4. s = <<s[1]>>
      BY <3>1, <3>3, SeqEqual
    <3> QED
      BY <3>2, <3>4 DEF s, Y
  <2> HIDE DEF root
  <2>2. /\ aq2 \in AccQueues(X) /\ aq2.leafQueue = full.leafQueue /\ aq2.subRoots = full.subRoots
        /\ aq2.subRootQueue = full.subRootQueue /\ aq2.numLeaves = full.numLeaves
        /\ aq2.currentSubtreeIndex = full.currentSubtreeIndex /\ aq2.nextSubRootIndex = full.nextSubRootIndex
        /\ aq2.mainRoots = full.mainRoots /\ aq2.treeMerged = full.treeMerged
        /\ aq2.smallSRTroot = root /\ aq2.subTreesMerged = TRUE
    <3>1. aq2 = [full EXCEPT !.smallSRTroot = root, !.subTreesMerged = TRUE]
      BY <1>3, <1>5 DEF root
    <3> QED
      BY <1>4, <2>1, <3>1 DEF AccQueues
  <2>3. Leaves(aq2) = Leaves(full)
    BY <2>2 DEF Leaves
  <2>4. Stored(X, aq2)
    BY <1>2, <2>2, <2>3 DEF Stored
  <2>5. Rounded(X, aq, aq2)
    BY <1>1, <2>2, <2>3, <2>4 DEF Rounded
  <2>6. Unmixed(X, aq) => Unmixed(X, aq2)
    BY <1>1, <2>2 DEF Unmixed, QueuedLeaves
  <2>7. Rooted(aq2)
    <3>1. FlattenSeq(<<root>>) = root
      <4>1. Append(<< >>, root) = <<root>> /\ << >> \in Seq(Seq(X))
        BY EmptySeq
      <4>2. FlattenSeq(<<root>>) = FlattenSeq(<< >>) \o root
        BY <2>1, <4>1, FlattenAppend
      <4>3. << >> \o root = root
        BY <2>1, ConcatEmptySeq
      <4> QED
        BY <4>2, <4>3, FlattenEmpty
    <3>2. Leaves(aq2) = root
      <4>1. Leaves(aq2) = root \o << >>
        BY <1>2, <2>1, <2>2, <3>1 DEF Leaves
      <4> QED
        BY <2>1, <4>1, ConcatEmptySeq
    <3>3. MergedSize(1) - Len(root) = 0
      <4>1. Len(root) = subTreeCapacity
        BY <1>2, <1>4, <1>5, <2>1 DEF Stored
      <4> QED
        BY <4>1, Capacity DEF MergedSize
    <3>4. root \o ZeroLeaves(0) = root
      <4>1. ZeroLeaves(0) = << >>
        BY ZerosTyped, EmptySeq
      <4> QED
        BY <2>1, <4>1, ConcatEmptySeq
    <3> QED
      BY <1>2, <1>5, <2>2, <3>2, <3>3, <3>4 DEF Rooted
  <2> QED
    BY <1>1, <1>4, <1>5, <2>2, <2>5, <2>6, <2>7 DEF SubRootsMerged, aq2, full
<1>6. CASE full.currentSubtreeIndex # 1
  <2>1. MoreQueued(X, full, aq2)
    <3>1. aq2 = MergeManySubRoots(full, lim)
      BY <1>3, <1>6
    <3>2. MoreQueued(X, full, MergeManySubRoots(full, lim))
      BY <1>1, <1>2, <1>6, MergeManyQueues
    <3> QED
      BY <3>1, <3>2
  <2>2. /\ Stored(X, aq2)
        /\ aq2.leafQueue = full.leafQueue /\ aq2.subRoots = full.subRoots
        /\ aq2.currentSubtreeIndex = full.currentSubtreeIndex
        /\ aq2.mainRoots = full.mainRoots /\ aq2.treeMerged = full.treeMerged
        /\ aq2.nextSubRootIndex > full.nextSubRootIndex
        /\ (aq2.subTreesMerged <=> aq2.nextSubRootIndex = full.currentSubtreeIndex)
        /\ (Unmixed(X, full) /\ aq2.subTreesMerged) => Rooted(aq2)
        /\ (Unmixed(X, full) /\ ~BlanksQueued(aq2)) => Unmixed(X, aq2)
    BY <2>1 DEF MoreQueued
  <2>3. Leaves(aq2) = Leaves(full)
    BY <2>2 DEF Leaves
  <2>4. Rounded(X, aq, aq2)
    BY <1>1, <2>2, <2>3 DEF Rounded
  <2>5. aq2.nextSubRootIndex \in Nat /\ aq2.nextSubRootIndex <= aq2.currentSubtreeIndex
    BY <2>2 DEF Stored, AccQueues
  <2>6. ~aq2.subTreesMerged => Mergeable(aq2)
    BY <1>4, <2>2, <2>5 DEF Mergeable
  <2>7. aq2.subTreesMerged => ~Mergeable(aq2)
    <3>1. ~Started(aq2)
      BY <1>2, <2>2, SubRootsAreBounded
    <3> QED
      BY <1>4, <2>2, <3>1 DEF Mergeable
  <2> QED
    BY <1>1, <1>4, <2>2, <2>4, <2>5, <2>6, <2>7 DEF SubRootsMerged, aq2, full
<1> QED
  BY <1>5, <1>6

\* A new AccQueue has no subroot queued.
LEMMA NewUnmixed ==
  ASSUME NEW X
  PROVE  Unmixed(X, NewAccQueue)
<1> DEFINE q == NewAccQueue.subRootQueue
<1>1. q = NewQueue /\ NewAccQueue.subRoots = << >> /\ NewAccQueue.nextSubRootIndex = 0
  BY DEF NewAccQueue, Empty
<1>2. q \in Queues(X) /\ \A l \in Levels : q.indices[l] = 0
  BY <1>1, NewQueueEmpty DEF NewQueue
<1>3. Sized(q, subTreeCapacity)
  BY <1>2, AccQueueConstants DEF Sized, Slots
<1>4. /\ 0 \in Levels /\ MAX_DEPTH + 1 \in 0..(MAX_DEPTH + 1)
      /\ \A l \in 0..((MAX_DEPTH + 1) - 1) : l \in Levels
  BY AccQueueConstants DEF Levels
<1> HIDE DEF q
<1>5. Rows(q, 0)[MAX_DEPTH + 1] = << >>
  BY <1>2, <1>4, EmptyRows
<1>6. QueuedLeaves(NewAccQueue) = << >>
  <2>1. SubSeq(<< >>, 1, 0) = << >>
    BY SubSeqEmpty
  <2> QED
    BY <1>1, <2>1, FlattenEmpty DEF QueuedLeaves
<1> QED
  BY <1>2, <1>3, <1>5, <1>6 DEF Unmixed, SubRoots, q

\* merge extends the root over the subroots with zeros to the depth it is given.
LEMMA MergeStored ==
  ASSUME NEW X, Zero \in X, NEW aq, Stored(X, aq), NEW depth \in Levels
  PROVE  /\ Stored(X, merge(aq, depth))
         /\ Leaves(merge(aq, depth)) = Leaves(aq)
         /\ merge(aq, depth).treeMerged
         /\ \A l \in Levels : merge(aq, depth).mainRoots[l] =
               IF l = depth THEN MergedRoot(aq, depth) ELSE aq.mainRoots[l]
         /\ Unmixed(X, aq) => Unmixed(X, merge(aq, depth))
         /\ Rooted(aq) => Rooted(merge(aq, depth))
         /\ Mergeable(aq) <=> Mergeable(merge(aq, depth))
         /\ (CanMerge(aq, depth) /\ Rooted(aq)) =>
              MergedRoot(aq, depth) = Leaves(aq) \o ZeroLeaves(hashLength ^ depth - Len(Leaves(aq)))
<1> DEFINE aq2 == merge(aq, depth)
           root == MergedRoot(aq, depth)
           k == aq.currentSubtreeIndex
           n == hashLength ^ depth
           leaves == Leaves(aq)
<1>1. /\ aq \in AccQueues(X) /\ aq.smallSRTroot \in Seq(X) /\ aq.mainRoots \in [Levels -> Seq(X)]
      /\ k \in Nat /\ aq.numLeaves = Len(leaves) /\ leaves \in Seq(X)
  BY LeavesCounted DEF Stored, AccQueues
<1>2. n \in Nat /\ Len(aq.smallSRTroot) \in Nat
  <2>1. depth \in 0..(MAX_DEPTH + 1)
    BY AccQueueConstants DEF Levels
  <2> QED
    BY <1>1, <2>1, PowerFacts, LenProperties
<1>3. root \in Seq(X)
  <2> DEFINE m == n - Len(aq.smallSRTroot)
  <2>1. root = aq.smallSRTroot \o ZeroLeaves(m)
    BY DEF MergedRoot
  <2>2. m \in Int
    BY <1>2
  <2> HIDE DEF m
  <2>3. ZeroLeaves(m) \in Seq(X)
    <3>1. CASE m \in Nat
      BY <3>1, ZerosTyped
    <3>2. CASE m \notin Nat
      <4>1. 1..m = 1..0
        BY <2>2, <3>2
      <4>2. ZeroLeaves(m) = ZeroLeaves(0)
        BY <4>1 DEF ZeroLeaves
      <4> QED
        BY <4>2, ZerosTyped
    <3> QED
      BY <3>1, <3>2
  <2> QED
    BY <1>1, <2>1, <2>3, ConcatProperties
<1> HIDE DEF root, leaves, k, n
<1>4. /\ aq2 \in AccQueues(X) /\ aq2.leafQueue = aq.leafQueue /\ aq2.subRoots = aq.subRoots
      /\ aq2.subRootQueue = aq.subRootQueue /\ aq2.numLeaves = aq.numLeaves
      /\ aq2.currentSubtreeIndex = aq.currentSubtreeIndex /\ aq2.nextSubRootIndex = aq.nextSubRootIndex
      /\ aq2.smallSRTroot = aq.smallSRTroot /\ aq2.subTreesMerged = aq.subTreesMerged
      /\ aq2.mainRoots = [aq.mainRoots EXCEPT ![depth] = root] /\ aq2.treeMerged = TRUE
  <2> DEFINE roots == [aq.mainRoots EXCEPT ![depth] = root]
  <2>1. aq2 = [aq EXCEPT !.mainRoots = roots, !.treeMerged = TRUE]
    BY DEF merge, root
  <2>2. roots \in [Levels -> Seq(X)]
    BY <1>1, <1>3
  <2> HIDE DEF roots, aq2
  <2>3. /\ aq2 \in AccQueues(X) /\ aq2.leafQueue = aq.leafQueue /\ aq2.subRoots = aq.subRoots
        /\ aq2.subRootQueue = aq.subRootQueue /\ aq2.numLeaves = aq.numLeaves
        /\ aq2.currentSubtreeIndex = aq.currentSubtreeIndex /\ aq2.nextSubRootIndex = aq.nextSubRootIndex
        /\ aq2.smallSRTroot = aq.smallSRTroot /\ aq2.subTreesMerged = aq.subTreesMerged
        /\ aq2.mainRoots = roots /\ aq2.treeMerged = TRUE
    BY <1>1, <2>1, <2>2 DEF AccQueues
  <2> QED
    BY <2>3 DEF roots
<1> HIDE DEF aq2
<1>5. Leaves(aq2) = Leaves(aq)
  BY <1>4 DEF Leaves
<1>6. Stored(X, aq2)
  BY <1>4, <1>5 DEF Stored
<1>7. \A l \in Levels : aq2.mainRoots[l] = IF l = depth THEN root ELSE aq.mainRoots[l]
  BY <1>1, <1>4
<1>8. ASSUME CanMerge(aq, depth), Rooted(aq)
      PROVE  root = leaves \o ZeroLeaves(n - Len(leaves))
  <2> DEFINE size == MergedSize(k)
             a == size - Len(leaves)
             b == n - size
  <2>1. /\ k >= 1 /\ k <= hashLength ^ MAX_DEPTH /\ StartedLeaves(aq.leafQueue) = << >>
        /\ aq.smallSRTroot = leaves \o ZeroLeaves(a)
    BY <1>8 DEF Rooted, k, leaves
  <2>2. depth >= subDepth /\ n >= aq.numLeaves
    BY <1>8 DEF CanMerge, n
  <2>3. Len(leaves) = k * subTreeCapacity /\ Len(leaves) \in Nat
    <3>1. Len(leaves) = k * subTreeCapacity + Len(StartedLeaves(aq.leafQueue)) /\ Len(StartedLeaves(aq.leafQueue)) = 0
      BY <1>1, <2>1, LeavesCounted DEF k
    <3>2. k * subTreeCapacity \in Nat
      BY <1>1, Capacity
    <3> QED
      BY <3>1, <3>2
  <2>4. size \in Nat /\ Len(leaves) <= size /\ size <= n
    BY <1>1, <2>1, <2>2, <2>3, MergeFits DEF n
  <2> HIDE DEF size
  <2>5. a \in Nat /\ b \in Nat /\ a + b = n - Len(leaves)
    BY <1>2, <2>3, <2>4
  <2> HIDE DEF a
  <2>6. ZeroLeaves(a) \in Seq(X) /\ Len(ZeroLeaves(a)) = a
    BY <2>5, ZerosTyped
  <2>7. n - Len(aq.smallSRTroot) = b
    <3>1. Len(aq.smallSRTroot) = Len(leaves) + a
      BY <1>1, <2>1, <2>6, ConcatProperties
    <3> QED
      BY <1>2, <2>3, <2>4, <3>1 DEF a
  <2> HIDE DEF b
  <2>8. root = (leaves \o ZeroLeaves(a)) \o ZeroLeaves(b)
    BY <2>1, <2>7 DEF root, MergedRoot, n
  <2>9. (leaves \o ZeroLeaves(a)) \o ZeroLeaves(b) = leaves \o (ZeroLeaves(a) \o ZeroLeaves(b))
    <3>1. Associative(X)
      BY ConcatIsAssociative
    <3>2. ZeroLeaves(b) \in Seq(X)
      BY <2>5, ZerosTyped
    <3> QED
      BY <1>1, <2>6, <3>1, <3>2 DEF Associative
  <2>10. ZeroLeaves(a) \o ZeroLeaves(b) = ZeroLeaves(a + b)
    BY <2>5, ZerosAdd
  <2> QED
    BY <2>5, <2>8, <2>9, <2>10
<1>9. Unmixed(X, aq) => Unmixed(X, aq2)
  BY <1>4 DEF Unmixed, QueuedLeaves
<1>10. Rooted(aq) => Rooted(aq2)
  BY <1>4, <1>5 DEF Rooted
<1>11. Mergeable(aq) <=> Mergeable(aq2)
  BY <1>4 DEF Mergeable, Started
<1> QED
  BY <1>4, <1>5, <1>6, <1>7, <1>8, <1>9, <1>10, <1>11 DEF aq2, root, leaves, n
=============================================================================
