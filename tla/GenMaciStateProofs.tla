------------------------- MODULE GenMaciStateProofs -------------------------
(***************************************************************************)
(* Whatever happens on the chain during the call, and however its requests *)
(* cut the blocks: what genMaciStateFromContract returns is the contract's *)
(* state, and a call that is given every block of a quiet chain returns.   *)
(*                                                                         *)
(* Events and messages are told apart by their numbers, so that a sequence *)
(* of them in a known order is determined by the set of its elements: that *)
(* is how what was fetched, sorted and replayed is compared with what is   *)
(* on the chain.                                                           *)
(***************************************************************************)
EXTENDS GenMaciState, AccQueueOpsProofs, FiniteSetTheorems

-----------------------------------------------------------------------------
(***************************************************************************)
(* Sequences that list a set in an order.                                  *)
(***************************************************************************)
Ordered(s, R) == \A i, j \in DOMAIN s : i < j => <<s[i], s[j]>> \in R

\* s lists the elements of S in the order R.
Lists(s, S, R) == s \in Seq(S) /\ ToSet(s) = S /\ Ordered(s, R)

\* Every element of S comes before every element of T.
AllBefore(S, T, R) == \A x \in S, y \in T : <<x, y>> \in R

Asymmetric(R) == \A x, y : <<x, y>> \in R => <<y, x>> \notin R

\* s is a beginning of t.
IsStart(s, t) == Len(s) <= Len(t) /\ \A i \in 1..Len(s) : s[i] = t[i]

-----------------------------------------------------------------------------
LEMMA Associates == \A x, y, z \in Seq(Nat) : x \o (y \o z) = (x \o y) \o z
BY ConcatIsAssociative DEF Associative

\* A list of S, position by position.
LEMMA ListsDef ==
  ASSUME NEW s, NEW S, NEW R
  PROVE  Lists(s, S, R) <=> /\ s \in Seq(S) /\ Len(s) \in Nat /\ DOMAIN s = 1..Len(s)
                            /\ \A i \in 1..Len(s) : s[i] \in S
                            /\ \A x \in S : \E i \in 1..Len(s) : x = s[i]
                            /\ \A i, j \in 1..Len(s) : i < j => <<s[i], s[j]>> \in R
<1>1. CASE s \in Seq(S)
  <2>1. Len(s) \in Nat /\ DOMAIN s = 1..Len(s) /\ \A i \in 1..Len(s) : s[i] \in S
    BY <1>1, ElementOfSeq
  <2>2. ToSet(s) = S <=> \A x \in S : \E i \in 1..Len(s) : x = s[i]
    BY <2>1 DEF ToSet
  <2> QED
    BY <1>1, <2>1, <2>2 DEF Lists, Ordered
<1>2. CASE s \notin Seq(S)
  BY <1>2 DEF Lists
<1> QED
  BY <1>1, <1>2

\* What lists a part that comes before the rest is the beginning of the list.
LEMMA FirstPart ==
  ASSUME NEW R, Asymmetric(R), NEW S, NEW T, NEW s, NEW t,
         Lists(s, S, R), Lists(t, T, R), T \subseteq S, AllBefore(T, S \ T, R)
  PROVE  IsStart(t, s)
<1>1. /\ Len(s) \in Nat
      /\ \A i \in 1..Len(s) : s[i] \in S
      /\ \A x \in S : \E i \in 1..Len(s) : x = s[i]
      /\ \A i, j \in 1..Len(s) : i < j => <<s[i], s[j]>> \in R
  BY ListsDef
<1>2. /\ Len(t) \in Nat
      /\ \A i \in 1..Len(t) : t[i] \in T
      /\ \A x \in T : \E i \in 1..Len(t) : x = t[i]
      /\ \A i, j \in 1..Len(t) : i < j => <<t[i], t[j]>> \in R
  BY ListsDef
<1> DEFINE P == {k \in 0..Len(t) : k <= Len(s) /\ \A i \in 1..k : s[i] = t[i]}
<1>3. 0 \in P
  BY <1>1, <1>2
<1>4. ASSUME NEW k \in 0..(Len(t) - 1), k \in P PROVE k + 1 \in P
  <2>1. k + 1 \in 1..Len(t) /\ \A i \in 1..k : i \in 1..Len(t) /\ i < k + 1 /\ i \in 1..Len(s)
    BY <1>1, <1>2, <1>4
  <2>2. t[k + 1] \in T /\ t[k + 1] \in S
    BY <1>2, <2>1
  <2>3. PICK m \in 1..Len(s) : s[m] = t[k + 1]
    BY <1>1, <2>2
  <2>4. m > k
    <3>1. SUFFICES ASSUME m <= k PROVE FALSE
      BY <1>4, <2>3
    <3>2. m \in 1..k
      BY <3>1, <2>3
    <3>3. t[m] = t[k + 1] /\ <<t[m], t[k + 1]>> \in R
      BY <1>2, <1>4, <2>1, <2>3, <3>2
    <3> QED
      BY <3>3 DEF Asymmetric
  <2>5. k + 1 \in 1..Len(s) /\ k + 1 <= Len(s)
    BY <1>1, <1>4, <2>3, <2>4
  <2>6. s[k + 1] = t[k + 1]
    <3>1. SUFFICES ASSUME m # k + 1 PROVE FALSE
      BY <2>3
    <3>2. k + 1 < m
      BY <2>4, <2>3, <1>4, <3>1
    <3>3. <<s[k + 1], t[k + 1]>> \in R
      BY <1>1, <2>3, <2>5, <3>2
    <3>4. <<t[k + 1], s[k + 1]>> \notin R
      BY <3>3 DEF Asymmetric
    <3>5. s[k + 1] \in T
      BY <1>1, <2>2, <2>5, <3>4 DEF AllBefore
    <3>6. PICK l \in 1..Len(t) : t[l] = s[k + 1]
      BY <1>2, <3>5
    <3>7. CASE l <= k
      <4>1. s[l] = s[k + 1] /\ <<s[l], s[k + 1]>> \in R
        BY <1>1, <1>4, <2>1, <2>5, <3>6, <3>7
      <4> QED
        BY <4>1 DEF Asymmetric
    <3>8. CASE l = k + 1
      BY <3>3, <3>4, <3>6, <3>8
    <3>9. CASE l > k + 1
      BY <1>2, <2>1, <3>4, <3>6, <3>9
    <3> QED
      BY <1>4, <3>6, <3>7, <3>8, <3>9
  <2>7. \A i \in 1..(k + 1) : i \in 1..k \/ i = k + 1
    BY <1>4
  <2> QED
    BY <1>2, <1>4, <2>1, <2>5, <2>6, <2>7
<1> HIDE DEF P
<1>5. 0..Len(t) \subseteq P
  BY <1>2, <1>3, <1>4, RangeInduction
<1>6. Len(t) \in P
  BY <1>2, <1>5
<1> QED
  BY <1>6 DEF P, IsStart

\* A set is listed in one way only.
LEMMA OneList ==
  ASSUME NEW R, Asymmetric(R), NEW S, NEW s, NEW t, Lists(s, S, R), Lists(t, S, R)
  PROVE  s = t
<1>1. AllBefore(S, S \ S, R) /\ S \subseteq S
  BY DEF AllBefore
<1>2. IsStart(s, t) /\ IsStart(t, s)
  BY <1>1, FirstPart
<1>3. s \in Seq(S) /\ t \in Seq(S)
  BY DEF Lists
<1>4. Len(s) = Len(t) /\ \A i \in 1..Len(s) : s[i] = t[i]
  BY <1>2, <1>3 DEF IsStart
<1> QED
  BY <1>3, <1>4, SeqEqual

\* A list has as many positions as its set has elements.
LEMMA ListLength ==
  ASSUME NEW R, Asymmetric(R), NEW S, NEW s, Lists(s, S, R)
  PROVE  IsFiniteSet(S) /\ Cardinality(S) = Len(s)
<1>1. /\ s \in Seq(S) /\ Len(s) \in Nat /\ DOMAIN s = 1..Len(s)
      /\ \A i \in 1..Len(s) : s[i] \in S
      /\ \A x \in S : \E i \in 1..Len(s) : x = s[i]
      /\ \A i, j \in 1..Len(s) : i < j => <<s[i], s[j]>> \in R
  BY ListsDef
<1> DEFINE D == 1..Len(s)
<1>2. IsFiniteSet(D) /\ Cardinality(D) = Len(s)
  <2>1. Len(s) \in Int /\ 1 \in Int /\ Len(s) >= 0
    BY <1>1
  <2>2. IsFiniteSet(1..Len(s)) /\ Cardinality(1..Len(s)) = IF 1 > Len(s) THEN 0 ELSE Len(s) - 1 + 1
    BY <2>1, FS_Interval
  <2> QED
    BY <2>1, <2>2
<1>3. \A i, j \in D : s[i] = s[j] => i = j
  <2> SUFFICES ASSUME NEW i \in D, NEW j \in D, s[i] = s[j], i # j PROVE FALSE
    OBVIOUS
  <2>1. i < j \/ j < i
    BY <1>1
  <2>2. <<s[i], s[j]>> \in R \/ <<s[j], s[i]>> \in R
    BY <1>1, <2>1
  <2> QED
    BY <2>2 DEF Asymmetric
<1>4. s \in [D -> S]
  BY <1>1
<1> HIDE DEF D
<1>5. s \in Injection(D, S) /\ s \in Surjection(D, S)
  BY <1>1, <1>3, <1>4 DEF Injection, Surjection, D, IsInjective
<1>6. ExistsBijection(D, S)
  BY <1>5 DEF ExistsBijection, Bijection
<1> QED
  BY <1>2, <1>6, FS_Bijection

\* A list of a part that is as long as that of the whole.
LEMMA WholeList ==
  ASSUME NEW R, Asymmetric(R), NEW S, NEW T, NEW s, NEW t,
         Lists(s, S, R), Lists(t, T, R), T \subseteq S, Len(s) = Len(t)
  PROVE  T = S /\ s = t
<1>1. IsFiniteSet(S) /\ Cardinality(S) = Cardinality(T)
  BY ListLength
<1>2. T \in SUBSET S
  OBVIOUS
<1>3. T = S
  BY <1>1, <1>2, FS_Subset
<1> QED
  BY <1>3, OneList

\* The empty list, and the list of one element.
LEMMA NothingListed ==
  ASSUME NEW R
  PROVE  Lists(<< >>, {}, R)
BY DEF Lists, Ordered, ToSet

LEMMA OneListed ==
  ASSUME NEW R, NEW x
  PROVE  Lists(<<x>>, {x}, R)
<1> DEFINE s == <<x>>
<1>1. /\ s \in Seq({x}) /\ Len(s) = 1 /\ s[1] = x /\ Len(s) \in Nat /\ DOMAIN s = 1..Len(s)
      /\ 1 \in 1..Len(s) /\ \A i \in 1..Len(s) : i = 1
  OBVIOUS
<1> HIDE DEF s
<1>2. /\ \A i \in 1..Len(s) : s[i] \in {x}
      /\ \A y \in {x} : \E i \in 1..Len(s) : y = s[i]
      /\ \A i, j \in 1..Len(s) : i < j => <<s[i], s[j]>> \in R
  BY <1>1
<1>3. Lists(s, {x}, R)
  BY <1>1, <1>2, ListsDef
<1> QED
  BY <1>3 DEF s

\* Lists of which one comes before the other can be joined.
LEMMA JoinedLists ==
  ASSUME NEW R, NEW S, NEW T, NEW s, NEW t,
         Lists(s, S, R), Lists(t, T, R), AllBefore(S, T, R)
  PROVE  Lists(s \o t, S \cup T, R)
<1>1. /\ s \in Seq(S) /\ Len(s) \in Nat
      /\ \A i \in 1..Len(s) : s[i] \in S
      /\ \A x \in S : \E i \in 1..Len(s) : x = s[i]
      /\ \A i, j \in 1..Len(s) : i < j => <<s[i], s[j]>> \in R
  BY ListsDef
<1>2. /\ t \in Seq(T) /\ Len(t) \in Nat
      /\ \A i \in 1..Len(t) : t[i] \in T
      /\ \A x \in T : \E i \in 1..Len(t) : x = t[i]
      /\ \A i, j \in 1..Len(t) : i < j => <<t[i], t[j]>> \in R
  BY ListsDef
<1> DEFINE st == s \o t
           U == S \cup T
<1>3. /\ st \in Seq(U) /\ Len(st) = Len(s) + Len(t)
      /\ \A i \in 1..Len(st) : st[i] = IF i <= Len(s) THEN s[i] ELSE t[i - Len(s)]
  <2>1. s \in Seq(U) /\ t \in Seq(U)
    BY <1>1, <1>2, SeqMonotonic
  <2> HIDE DEF U
  <2> QED
    BY <2>1, ConcatProperties
<1>0. /\ Len(s) \in Nat /\ Len(t) \in Nat /\ Len(st) = Len(s) + Len(t)
      /\ \A i \in 1..(Len(s) + Len(t)) : st[i] = IF i <= Len(s) THEN s[i] ELSE t[i - Len(s)]
  BY <1>1, <1>2, <1>3
<1> HIDE DEF st
<1>4. \A i \in 1..Len(st) : (i <= Len(s) /\ i \in 1..Len(s) /\ st[i] = s[i])
                            \/ (i > Len(s) /\ i - Len(s) \in 1..Len(t) /\ st[i] = t[i - Len(s)])
  BY <1>1, <1>2, <1>3
<1>5. \A i \in 1..Len(st) : st[i] \in U
  BY <1>1, <1>2, <1>4
<1>6. \A x \in U : \E i \in 1..Len(st) : x = st[i]
  <2>1. ASSUME NEW x \in S PROVE \E i \in 1..Len(st) : x = st[i]
    <3>1. PICK i \in 1..Len(s) : x = s[i]
      BY <1>1, <2>1
    <3>2. i \in 1..Len(st) /\ i <= Len(s) /\ i \in 1..(Len(s) + Len(t))
      BY <1>0, <3>1
    <3> QED
      BY <1>0, <3>1, <3>2
  <2>2. ASSUME NEW x \in T PROVE \E i \in 1..Len(st) : x = st[i]
    <3>1. PICK i \in 1..Len(t) : x = t[i]
      BY <1>2, <2>2
    <3>2. Len(s) + i \in 1..Len(st) /\ ~(Len(s) + i <= Len(s)) /\ (Len(s) + i) - Len(s) = i
          /\ Len(s) + i \in 1..(Len(s) + Len(t))
      BY <1>0, <3>1
    <3> QED
      BY <1>0, <3>1, <3>2
  <2> QED
    BY <2>1, <2>2
<1>7. ASSUME NEW i \in 1..Len(st), NEW j \in 1..Len(st), i < j
      PROVE  <<st[i], st[j]>> \in R
  <2>0. i \in Nat /\ j \in Nat
    BY <1>0
  <2>1. CASE j <= Len(s)
    <3>1. i <= Len(s) /\ ~(i > Len(s)) /\ ~(j > Len(s))
      BY <1>0, <1>7, <2>0, <2>1
    <3>2. i \in 1..Len(s) /\ j \in 1..Len(s) /\ st[i] = s[i] /\ st[j] = s[j]
      BY <1>4, <3>1
    <3> QED
      BY <1>1, <1>7, <3>2
  <2>2. CASE i > Len(s)
    <3>1. i - Len(s) < j - Len(s) /\ j > Len(s)
      BY <1>0, <1>7, <2>0, <2>2
    <3>2. i - Len(s) \in 1..Len(t) /\ j - Len(s) \in 1..Len(t) /\ st[i] = t[i - Len(s)]
          /\ st[j] = t[j - Len(s)]
      BY <1>0, <1>4, <2>0, <2>2, <3>1
    <3> QED
      BY <1>2, <3>1, <3>2
  <2>3. CASE i <= Len(s) /\ j > Len(s)
    <3>0. ~(i > Len(s)) /\ ~(j <= Len(s))
      BY <1>0, <2>0, <2>3
    <3>1. st[i] \in S /\ st[j] \in T
      BY <1>1, <1>2, <1>4, <3>0
    <3> QED
      BY <3>1 DEF AllBefore
  <2> QED
    BY <1>0, <2>0, <2>1, <2>2, <2>3
<1> HIDE DEF U
<1>8. Lists(st, U, R)
  <2>1. Len(st) \in Nat /\ DOMAIN st = 1..Len(st)
    BY <1>3
  <2> QED
    BY <1>3, <1>5, <1>6, <1>7, <2>1, ListsDef
<1> QED
  BY <1>8 DEF U, st

LEMMA AppendedList ==
  ASSUME NEW R, NEW S, NEW s, NEW x, Lists(s, S, R), AllBefore(S, {x}, R)
  PROVE  Lists(Append(s, x), S \cup {x}, R)
<1>1. Lists(<<x>>, {x}, R)
  BY OneListed
<1>2. Lists(s \o <<x>>, S \cup {x}, R)
  BY <1>1, JoinedLists
<1>3. s \in Seq(S \cup {x})
  BY SeqMonotonic DEF Lists
<1>4. Append(s, x) = s \o <<x>>
  BY <1>3
<1> QED
  BY <1>2, <1>4

-----------------------------------------------------------------------------
(***************************************************************************)
(* The model's own operators on sequences, one position at a time.         *)
(***************************************************************************)
\* The beginnings of Those(s, K).
PickedTo(s, K) ==
  LET picked[k \in 0..Len(s)] ==
        IF k = 0 THEN << >> ELSE IF k \in K THEN Append(picked[k - 1], s[k]) ELSE picked[k - 1]
  IN  picked

\* Those, as a recursion.
LEMMA PickedDef ==
  ASSUME NEW X, NEW s \in Seq(X), NEW K
  PROVE  /\ PickedTo(s, K) \in [0..Len(s) -> Seq(X)]
         /\ PickedTo(s, K)[0] = << >>
         /\ \A k \in 1..Len(s) :
              PickedTo(s, K)[k] = IF k \in K THEN Append(PickedTo(s, K)[k - 1], s[k])
                                  ELSE PickedTo(s, K)[k - 1]
         /\ Those(s, K) = PickedTo(s, K)[Len(s)]
<1> DEFINE L == Len(s)
           V == Seq(X)
           none == << >>
           g == [k \in 0..L |-> [v \in V |-> IF k = 0 THEN none
                                             ELSE IF k \in K THEN Append(v, s[k]) ELSE v]]
           f == PickedTo(s, K)
<1>1. L \in Nat /\ none \in V /\ \A k \in 1..L : s[k] \in X
  BY ElementOfSeq
<1>2. \A k \in 1..L : \A v \in V : Append(v, s[k]) \in V
  BY <1>1
<1>3. g \in [0..L -> [V -> V]]
  <2> HIDE DEF V, none, L
  <2> QED
    BY <1>1, <1>2
<1>4. HasRecursion(V, none, 0, L, g)
  <2> HIDE DEF g, V, none, L
  <2> QED
    BY <1>1, <1>3, RangeRecursion
<1>5. PICK h \in [0..L -> V] : \A k \in 0..L : h[k] = IF k = 0 THEN none ELSE g[k][h[k - 1]]
  <2> HIDE DEF g, V, none, L
  <2> QED
    BY <1>4 DEF HasRecursion
<1>6. \A k \in 0..L : h[k] = IF k = 0 THEN none
                             ELSE IF k \in K THEN Append(h[k - 1], s[k]) ELSE h[k - 1]
  <2> HIDE DEF V, none, L
  <2> SUFFICES ASSUME NEW k \in 0..L, k # 0
               PROVE  h[k] = IF k \in K THEN Append(h[k - 1], s[k]) ELSE h[k - 1]
    BY <1>5
  <2>1. k - 1 \in 0..L /\ h[k - 1] \in V
    BY <1>1, <1>5
  <2> QED
    BY <1>5, <2>1
<1>7. h = [k \in 0..L |-> IF k = 0 THEN << >>
                          ELSE IF k \in K THEN Append(h[k - 1], s[k]) ELSE h[k - 1]]
  BY <1>5, <1>6
<1>8. f = [k \in 0..L |-> IF k = 0 THEN << >>
                          ELSE IF k \in K THEN Append(f[k - 1], s[k]) ELSE f[k - 1]]
  BY <1>7 DEF PickedTo
<1>9. Those(s, K) = f[L]
  BY DEF Those, PickedTo
<1>10. f = h
  <2> DEFINE P == {k \in 0..L : f[k] = h[k]}
  <2>1. 0 \in P
    BY <1>1, <1>6, <1>8
  <2>2. ASSUME NEW k \in 0..(L - 1), k \in P PROVE k + 1 \in P
    <3>1. k + 1 \in 0..L /\ k + 1 # 0 /\ (k + 1) - 1 = k
      BY <1>1
    <3> QED
      BY <1>6, <1>8, <2>2, <3>1
  <2> HIDE DEF P, L, f
  <2>3. 0..L \subseteq P
    BY <1>1, <2>1, <2>2, RangeInduction
  <2> QED
    BY <1>5, <1>8, <2>3 DEF P
<1> HIDE DEF f
<1>11. f \in [0..L -> V] /\ f[0] = << >>
  BY <1>1, <1>5, <1>6, <1>10
<1>12. \A k \in 1..L : f[k] = IF k \in K THEN Append(f[k - 1], s[k]) ELSE f[k - 1]
  <2> SUFFICES ASSUME NEW k \in 1..L
               PROVE  f[k] = IF k \in K THEN Append(f[k - 1], s[k]) ELSE f[k - 1]
    OBVIOUS
  <2>1. k \in 0..L /\ k # 0
    BY <1>1
  <2> QED
    BY <1>6, <1>10, <2>1
<1> QED
  BY <1>9, <1>11, <1>12 DEF f

\* The elements at the positions K, in the order they had.
Chosen(s, K) == {s[k] : k \in K \cap DOMAIN s}

\* Picking some positions of a list keeps its order.
LEMMA ThoseLists ==
  ASSUME NEW R, NEW S, NEW s, Lists(s, S, R), NEW K
  PROVE  Lists(Those(s, K), Chosen(s, K), R)
<1>1. /\ s \in Seq(S) /\ Len(s) \in Nat /\ DOMAIN s = 1..Len(s)
      /\ \A i, j \in 1..Len(s) : i < j => <<s[i], s[j]>> \in R
  BY ListsDef
<1> DEFINE f == PickedTo(s, K)
           C(k) == {s[j] : j \in K \cap 1..k}
           P == {k \in 0..Len(s) : Lists(f[k], C(k), R)}
<1>2. /\ f[0] = << >> /\ Those(s, K) = f[Len(s)]
      /\ \A k \in 1..Len(s) : f[k] = IF k \in K THEN Append(f[k - 1], s[k]) ELSE f[k - 1]
  BY <1>1, PickedDef
<1>3. 0 \in P
  <2>1. C(0) = {}
    OBVIOUS
  <2> QED
    <3>1. 0 \in 0..Len(s) /\ f[0] = << >>
      BY <1>1, <1>2
    <3> HIDE DEF f
    <3>2. Lists(f[0], C(0), R)
      BY <2>1, <3>1, NothingListed
    <3> QED
      BY <3>1, <3>2
<1>4. ASSUME NEW k \in 0..(Len(s) - 1), k \in P PROVE k + 1 \in P
  <2> DEFINE l == k + 1
  <2>1. l \in 1..Len(s) /\ l - 1 = k /\ l \in 0..Len(s) /\ 1..l = (1..k) \cup {l}
        /\ \A j \in 1..k : j \in 1..Len(s) /\ j < l
    BY <1>1
  <2> HIDE DEF f, l
  <2>2. Lists(f[k], C(k), R)
    BY <1>4
  <2>3. CASE l \in K
    <3>1. AllBefore(C(k), {s[l]}, R)
      BY <1>1, <2>1 DEF AllBefore
    <3>2. C(l) = C(k) \cup {s[l]}
      BY <2>1, <2>3
    <3> HIDE DEF C
    <3>3. Lists(Append(f[k], s[l]), C(k) \cup {s[l]}, R)
      BY <2>2, <3>1, AppendedList
    <3>4. f[l] = Append(f[k], s[l])
      BY <1>2, <2>1, <2>3
    <3>5. Lists(f[l], C(l), R)
      BY <3>2, <3>3, <3>4
    <3> QED
      BY <2>1, <3>5 DEF l
  <2>4. CASE l \notin K
    <3>1. C(l) = C(k)
      BY <2>1, <2>4
    <3>2. f[l] = f[k]
      BY <1>2, <2>1, <2>4
    <3>3. Lists(f[l], C(l), R)
      BY <2>2, <3>1, <3>2
    <3> QED
      BY <2>1, <3>3 DEF l
  <2> QED
    BY <2>3, <2>4
<1>5. C(Len(s)) = Chosen(s, K)
  BY <1>1 DEF Chosen
<1> HIDE DEF P
<1>6. 0..Len(s) \subseteq P
  BY <1>1, <1>3, <1>4, RangeInduction
<1>7. Len(s) \in P
  BY <1>1, <1>6
<1>8. Lists(f[Len(s)], C(Len(s)), R)
  BY <1>7 DEF P
<1> QED
  BY <1>2, <1>5, <1>8

-----------------------------------------------------------------------------
JoinedTo(f) ==
  LET flatten[i \in 1..Len(f)] == IF i = 1 THEN f[i] ELSE flatten[i - 1] \o f[i]
  IN  flatten

\* FlattenSeq, as a recursion.
LEMMA JoinedDef ==
  ASSUME NEW X, NEW f \in Seq(Seq(X)), Len(f) # 0
  PROVE  /\ JoinedTo(f)[1] = f[1]
         /\ \A k \in 2..Len(f) : JoinedTo(f)[k] = JoinedTo(f)[k - 1] \o f[k]
         /\ FlattenSeq(f) = JoinedTo(f)[Len(f)]
<1> DEFINE L == Len(f)
           V == Seq(X)
           g == [k \in 1..L |-> [v \in V |-> IF k = 1 THEN f[1] ELSE v \o f[k]]]
           j == JoinedTo(f)
<1>1. L \in Nat /\ 1 \in 1..L /\ \A k \in 1..L : f[k] \in V
  BY ElementOfSeq
<1>2. \A k \in 1..L : \A v \in V : v \o f[k] \in V
  BY <1>1
<1>3. g \in [1..L -> [V -> V]]
  <2> HIDE DEF V, L
  <2> QED
    BY <1>1, <1>2
<1>4. HasRecursion(V, f[1], 1, L, g)
  <2> HIDE DEF g, V, L
  <2> QED
    BY <1>1, <1>3, RangeRecursion
<1>5. PICK h \in [1..L -> V] : \A k \in 1..L : h[k] = IF k = 1 THEN f[1] ELSE g[k][h[k - 1]]
  <2> HIDE DEF g, V, L
  <2> QED
    BY <1>4 DEF HasRecursion
<1>6. \A k \in 1..L : h[k] = IF k = 1 THEN f[k] ELSE h[k - 1] \o f[k]
  <2> HIDE DEF V, L
  <2> SUFFICES ASSUME NEW k \in 1..L, k # 1
               PROVE  h[k] = h[k - 1] \o f[k]
    BY <1>5
  <2>1. k - 1 \in 1..L /\ h[k - 1] \in V
    BY <1>1, <1>5
  <2> QED
    BY <1>5, <2>1
<1>7. h = [k \in 1..L |-> IF k = 1 THEN f[k] ELSE h[k - 1] \o f[k]]
  BY <1>5, <1>6
<1>8. j = [k \in 1..L |-> IF k = 1 THEN f[k] ELSE j[k - 1] \o f[k]]
  BY <1>7 DEF JoinedTo
<1>9. FlattenSeq(f) = j[L]
  BY DEF FlattenSeq, JoinedTo
<1> HIDE DEF j, L
<1>10. \A k \in 2..L : k \in 1..L /\ k # 1
  BY <1>1
<1>11. j[1] = f[1] /\ \A k \in 2..L : j[k] = j[k - 1] \o f[k]
  BY <1>1, <1>8, <1>10
<1> QED
  BY <1>9, <1>11 DEF j, L

\* A family of lists, each before the next.
InTurn(A, n, R) == \A i, k \in 1..n : i < k => AllBefore(A[i], A[k], R)
Parts(A, n) == UNION {A[k] : k \in 1..n}

\* Lists that come one after the other, joined.
LEMMA FlatLists ==
  ASSUME NEW R, NEW X, NEW f \in Seq(Seq(X)), NEW A,
         \A k \in 1..Len(f) : Lists(f[k], A[k], R), InTurn(A, Len(f), R)
  PROVE  Lists(FlattenSeq(f), Parts(A, Len(f)), R)
<1>0. Len(f) \in Nat
  OBVIOUS
<1>1. CASE Len(f) = 0
  <2>1. FlattenSeq(f) = << >> /\ Parts(A, Len(f)) = {}
    BY <1>1 DEF FlattenSeq, Parts
  <2> QED
    BY <2>1, NothingListed
<1>2. CASE Len(f) # 0
  <2> DEFINE j == JoinedTo(f)
             P == {k \in 1..Len(f) : Lists(j[k], Parts(A, k), R)}
  <2>1. /\ j[1] = f[1] /\ FlattenSeq(f) = j[Len(f)]
        /\ \A k \in 2..Len(f) : j[k] = j[k - 1] \o f[k]
    BY <1>2, JoinedDef
  <2>2. 1 \in P
    <3>1. 1 \in 1..Len(f) /\ Parts(A, 1) = A[1]
      BY <1>0, <1>2 DEF Parts
    <3> QED
      BY <2>1, <3>1
  <2>3. ASSUME NEW k \in 1..(Len(f) - 1), k \in P PROVE k + 1 \in P
    <3> DEFINE l == k + 1
    <3>1. l \in 1..Len(f) /\ l \in 2..Len(f) /\ l - 1 = k /\ 1..l = (1..k) \cup {l}
          /\ \A i \in 1..k : i \in 1..Len(f) /\ i < l
      BY <1>0
    <3> HIDE DEF l, j
    <3>2. Parts(A, l) = Parts(A, k) \cup A[l]
      BY <3>1 DEF Parts
    <3>3. AllBefore(Parts(A, k), A[l], R)
      BY <3>1 DEF Parts, AllBefore, InTurn
    <3>4. Lists(j[k], Parts(A, k), R) /\ Lists(f[l], A[l], R)
      BY <2>3, <3>1
    <3>5. Lists(j[k] \o f[l], Parts(A, k) \cup A[l], R)
      BY <3>3, <3>4, JoinedLists
    <3>6. j[l] = j[k] \o f[l]
      BY <2>1, <3>1
    <3>7. Lists(j[l], Parts(A, l), R)
      BY <3>2, <3>5, <3>6
    <3> QED
      BY <3>1, <3>7 DEF l
  <2> HIDE DEF P
  <2>4. 1..Len(f) \subseteq P
    BY <1>0, <2>2, <2>3, RangeInduction
  <2>5. Len(f) \in P
    <3>1. Len(f) \in 1..Len(f)
      BY <1>0, <1>2
    <3> QED
      BY <2>4, <3>1
  <2> QED
    BY <2>1, <2>5 DEF P
<1> QED
  BY <1>1, <1>2

-----------------------------------------------------------------------------
(***************************************************************************)
(* A queue that was given the leaves s.  Its merge is begun by the first   *)
(* merge of subroots and late once a leaf follows: then nothing is said of *)
(* the order of what it holds.                                             *)
(***************************************************************************)
QueueOf(aq, s, phase) ==
  /\ Stored(Nat, aq) /\ s \in Seq(Nat)
  /\ FillStarted(aq).currentSubtreeIndex <= Len(s)
  /\ CanMergeSubRoots(aq) => Mergeable(aq)
  /\ phase # "late" =>
       /\ \E k \in Nat : Leaves(aq) = s \o ZeroLeaves(k)
       /\ ~aq.subTreesMerged => Unmixed(Nat, aq)
       /\ aq.subTreesMerged => Rooted(aq)
  /\ phase = "no" => Leaves(aq) = s /\ ~aq.subTreesMerged

AfterLeaf(phase) == IF phase = "no" THEN "no" ELSE "late"
AfterMerge(phase) == IF phase = "late" THEN "late" ELSE "yes"

LEMMA BlankIsNumber == Zero \in Nat /\ Blank = 0
BY GenMaciStateConstants DEF Blank

LEMMA NoBlanks ==
  ASSUME NEW s \in Seq(Nat)
  PROVE  s = s \o ZeroLeaves(0)
<1>1. ZeroLeaves(0) = << >>
  BY BlankIsNumber, ZerosTyped, EmptySeq
<1> QED
  BY <1>1, ConcatEmptySeq

\* A new queue.
LEMMA NewQueueOf == QueueOf(NewAccQueue, << >>, "no")
<1> DEFINE none == NewAccQueue
<1>1. Stored(Nat, none) /\ Leaves(none) = << >> /\ Unmixed(Nat, none)
  BY NewStored, NewUnmixed
<1>2. /\ none.currentSubtreeIndex = 0 /\ none.leafQueue = NewQueue /\ none.numLeaves = 0
      /\ ~none.subTreesMerged
  BY DEF NewAccQueue
<1>3. FillStarted(none).currentSubtreeIndex = 0
  <2>1. ~Started(none)
    BY <1>1, <1>2, SubRootsAreBounded, NewQueueEmpty
  <2> QED
    BY <1>1, <1>2, <2>1, SubRootsAreBounded
<1>4. << >> \in Seq(Nat) /\ Len(<< >>) = 0 /\ 0 \in Nat /\ "no" # "late"
  OBVIOUS
<1>5. Leaves(none) = << >> \o ZeroLeaves(0)
  BY <1>1, <1>4, NoBlanks
<1> HIDE DEF none
<1>6. ~CanMergeSubRoots(none)
  BY <1>2 DEF CanMergeSubRoots
<1>7. QueueOf(none, << >>, "no")
  BY <1>1, <1>2, <1>3, <1>4, <1>5, <1>6 DEF QueueOf
<1> QED
  BY <1>7 DEF none

\* One more leaf.
LEMMA LeafQueued ==
  ASSUME NEW aq, NEW s, NEW phase, QueueOf(aq, s, phase), NEW x \in Nat
  PROVE  QueueOf(enqueue(aq, x), s \o <<x>>, AfterLeaf(phase))
<1> DEFINE aq2 == enqueue(aq, x)
           t == s \o <<x>>
<1>1. Stored(Nat, aq) /\ s \in Seq(Nat) /\ FillStarted(aq).currentSubtreeIndex <= Len(s)
  BY DEF QueueOf
<1>2. Enqueued(Nat, aq, aq2, x)
  BY <1>1, EnqueueStored
<1>3. FillStarted(aq2).currentSubtreeIndex <= FillStarted(aq).currentSubtreeIndex + 1
  BY <1>1, EnqueueSubtrees
<1> HIDE DEF aq2
<1>4. /\ Stored(Nat, aq2) /\ Leaves(aq2) = Leaves(aq) \o <<x>> /\ Grown(aq, aq2)
      /\ Mergeable(aq2) /\ ~aq2.subTreesMerged
  BY <1>2 DEF Enqueued
<1>5. t \in Seq(Nat) /\ Len(t) = Len(s) + 1 /\ Len(s) \in Nat
  BY <1>1, ConcatProperties, LenProperties
<1>6. FillStarted(aq2).currentSubtreeIndex <= Len(t)
  <2>1. FillStarted(aq2).currentSubtreeIndex \in Nat /\ FillStarted(aq).currentSubtreeIndex \in Nat
    BY <1>1, <1>4, SubRootsAreBounded
  <2> QED
    BY <1>1, <1>3, <1>5, <2>1
<1>7. ASSUME phase = "no"
      PROVE  Leaves(aq2) = t /\ Unmixed(Nat, aq2) /\ \E k \in Nat : Leaves(aq2) = t \o ZeroLeaves(k)
  <2>1. Leaves(aq) = s /\ Unmixed(Nat, aq)
    BY <1>7 DEF QueueOf
  <2>2. Unmixed(Nat, aq2)
    BY <1>1, <1>4, <2>1, UnmixedKept
  <2>3. t = t \o ZeroLeaves(0) /\ 0 \in Nat
    BY <1>5, NoBlanks
  <2> QED
    BY <1>4, <2>1, <2>2, <2>3
<1> HIDE DEF t
<1>8. QueueOf(aq2, t, AfterLeaf(phase))
  BY <1>4, <1>5, <1>6, <1>7 DEF QueueOf, AfterLeaf
<1> QED
  BY <1>8 DEF aq2, t

Queueing(aq, xs) ==
  LET after[i \in 0..Len(xs)] == IF i = 0 THEN aq ELSE enqueue(after[i - 1], xs[i])
  IN  after

\* The leaves of a transaction are queued one after the other.
LEMMA QueueingDef ==
  ASSUME NEW aq, Stored(Nat, aq), NEW xs \in Seq(Nat)
  PROVE  /\ Queueing(aq, xs)[0] = aq
         /\ \A i \in 0..(Len(xs) - 1) : Queueing(aq, xs)[i + 1] = enqueue(Queueing(aq, xs)[i], xs[i + 1])
         /\ EnqueueAll(aq, xs) = Queueing(aq, xs)[Len(xs)]
<1> DEFINE n == Len(xs)
           V == {q \in AccQueues(Nat) : Stored(Nat, q)}
           g == [i \in 0..n |-> [q \in V |-> IF i = 0 THEN q ELSE enqueue(q, xs[i])]]
           Def(f) == f = [i \in 0..n |-> IF i = 0 THEN aq ELSE enqueue(f[i - 1], xs[i])]
           after == Queueing(aq, xs)
<1>1. /\ n \in Nat /\ 0 \in 0..n /\ n \in 0..n /\ 0 \in Nat
      /\ \A i \in 0..n : i # 0 => i - 1 \in 0..n /\ xs[i] \in Nat
      /\ \A i \in 0..(n - 1) : i + 1 \in 0..n /\ i + 1 # 0 /\ (i + 1) - 1 = i /\ i \in 0..n
  BY ElementOfSeq
<1>2. \A q : q \in V <=> Stored(Nat, q)
  BY DEF Stored
<1> HIDE DEF n
<1>3. \A i \in 0..n, q \in V : (IF i = 0 THEN q ELSE enqueue(q, xs[i])) \in V
  BY <1>1, <1>2, EnqueueStored DEF Enqueued
<1> HIDE DEF V
<1>4. g \in [0..n -> [V -> V]]
  BY <1>3
<1>5. aq \in V
  BY <1>2
<1>6. PICK f \in [0..n -> V] : \A i \in 0..n : f[i] = IF i = 0 THEN aq ELSE g[i][f[i - 1]]
  <2> HIDE DEF g
  <2>1. HasRecursion(V, aq, 0, n, g)
    BY <1>1, <1>4, <1>5, RangeRecursion
  <2> QED
    BY <2>1 DEF HasRecursion
<1>7. Def(f)
  <2>1. ASSUME NEW i \in 0..n PROVE f[i] = IF i = 0 THEN aq ELSE enqueue(f[i - 1], xs[i])
    BY <1>1, <1>6
  <2> QED
    BY <2>1
<1>8. Def(after)
  BY <1>7 DEF Queueing, n
<1>9. \A i \in 0..n : after[i] = IF i = 0 THEN aq ELSE enqueue(after[i - 1], xs[i])
  <2> HIDE DEF after
  <2> QED
    BY <1>8
<1>10. EnqueueAll(aq, xs) = after[n]
  BY DEF EnqueueAll, Queueing, n
<1> HIDE DEF Def, g, after
<1>11. \A i \in 0..(n - 1) : after[i + 1] = enqueue(after[i], xs[i + 1])
  BY <1>1, <1>9
<1> QED
  BY <1>1, <1>9, <1>10, <1>11 DEF after, n

LEMMA LeavesQueued ==
  ASSUME NEW aq, NEW s, NEW phase, QueueOf(aq, s, phase), NEW xs \in Seq(Nat)
  PROVE  QueueOf(EnqueueAll(aq, xs), s \o xs, IF xs = << >> THEN phase ELSE AfterLeaf(phase))
<1> DEFINE n == Len(xs)
           after == Queueing(aq, xs)
           To(i) == IF i = 0 THEN phase ELSE AfterLeaf(phase)
           S == {i \in 0..n : QueueOf(after[i], s \o SubSeq(xs, 1, i), To(i))}
<1>1. /\ after[0] = aq /\ EnqueueAll(aq, xs) = after[n] /\ s \in Seq(Nat) /\ n \in Nat
      /\ \A i \in 0..(n - 1) : after[i + 1] = enqueue(after[i], xs[i + 1])
  BY QueueingDef, LenProperties DEF QueueOf
<1> HIDE DEF after, n
<1>2. 0 \in S
  <2>1. SubSeq(xs, 1, 0) = << >>
    BY SubSeqEmpty
  <2>2. s \o SubSeq(xs, 1, 0) = s
    BY <1>1, <2>1, ConcatEmptySeq
  <2>3. QueueOf(after[0], s \o SubSeq(xs, 1, 0), To(0))
    BY <1>1, <2>2
  <2> QED
    BY <1>1, <2>3
<1>3. ASSUME NEW i \in 0..(n - 1), i \in S PROVE i + 1 \in S
  <2> DEFINE u == SubSeq(xs, 1, i)
             v == SubSeq(xs, 1, i + 1)
  <2>1. i + 1 \in 1..Len(xs) /\ i \in 0..Len(xs) /\ i + 1 \in 0..n /\ xs[i + 1] \in Nat /\ i \in Nat /\ i + 1 # 0
    BY <1>1, ElementOfSeq DEF n
  <2>2. QueueOf(after[i], s \o u, To(i))
    BY <1>3
  <2>3. u \in Seq(Nat) /\ v = u \o <<xs[i + 1]>>
    <3>1. v = Append(SubSeq(xs, 1, (i + 1) - 1), xs[i + 1])
      BY <2>1
    <3>2. (i + 1) - 1 = i
      BY <2>1
    <3>3. u \in Seq(Nat)
      BY <2>1
    <3> QED
      BY <3>1, <3>2, <3>3
  <2> HIDE DEF u, v
  <2>4. (s \o u) \o <<xs[i + 1]>> = s \o v
    <3> DEFINE w == <<xs[i + 1]>>
    <3>1. w \in Seq(Nat) /\ v = u \o w
      BY <2>1, <2>3
    <3> HIDE DEF w
    <3>2. \A x, y, z \in Seq(Nat) : x \o (y \o z) = (x \o y) \o z
      BY Associates
    <3>3. s \o (u \o w) = (s \o u) \o w
      BY <1>1, <2>3, <3>1, <3>2
    <3>4. (s \o u) \o w = s \o v
      BY <3>1, <3>3
    <3> QED
      BY <3>4 DEF w
  <2>5. QueueOf(enqueue(after[i], xs[i + 1]), (s \o u) \o <<xs[i + 1]>>, AfterLeaf(To(i)))
    BY <2>1, <2>2, LeafQueued
  <2>6. AfterLeaf(To(i)) = To(i + 1)
    BY <2>1 DEF AfterLeaf
  <2> QED
    BY <1>1, <2>1, <2>4, <2>5, <2>6 DEF v
<1> HIDE DEF S
<1>4. 0..n \subseteq S
  BY <1>1, <1>2, <1>3, RangeInduction
<1>5. n \in S
  BY <1>1, <1>4
<1>6. SubSeq(xs, 1, n) = xs
  BY DEF n
<1>7. n = 0 <=> xs = << >>
  BY EmptySeq DEF n
<1>8. QueueOf(after[n], s \o xs, To(n))
  BY <1>5, <1>6 DEF S
<1> QED
  BY <1>1, <1>7, <1>8

\* A merge of subroots.
LEMMA SubRootsQueued ==
  ASSUME NEW aq, NEW s, NEW phase, QueueOf(aq, s, phase), CanMergeSubRoots(aq), NEW lim \in Nat,
         Len(s) <= hashLength ^ MAX_DEPTH
  PROVE  QueueOf(mergeSubRoots(aq, lim), s, AfterMerge(phase))
<1> DEFINE aq2 == mergeSubRoots(aq, lim)
<1>1. /\ Stored(Nat, aq) /\ s \in Seq(Nat) /\ FillStarted(aq).currentSubtreeIndex <= Len(s)
      /\ Mergeable(aq) /\ ~aq.subTreesMerged /\ Zero \in Nat
  BY BlankIsNumber DEF QueueOf, CanMergeSubRoots
<1>2. FillStarted(aq).currentSubtreeIndex <= hashLength ^ MAX_DEPTH
  <2>1. hashLength ^ MAX_DEPTH \in Nat
    BY PowerFacts, AccQueueConstants
  <2>2. FillStarted(aq).currentSubtreeIndex \in Nat /\ Len(s) \in Nat
    BY <1>1, SubRootsAreBounded, LenProperties
  <2> QED
    BY <1>1, <2>1, <2>2
<1>3. SubRootsMerged(Nat, aq, aq2)
  BY <1>1, <1>2, MergeSubRootsMerges
<1> HIDE DEF aq2
<1>4. /\ Rounded(Nat, aq, aq2)
      /\ aq2.currentSubtreeIndex = FillStarted(aq).currentSubtreeIndex
      /\ ~aq2.subTreesMerged => Mergeable(aq2)
      /\ Unmixed(Nat, aq) /\ aq2.subTreesMerged => Rooted(aq2)
      /\ Unmixed(Nat, aq) /\ ~BlanksQueued(aq2) => Unmixed(Nat, aq2)
  BY <1>3 DEF SubRootsMerged
<1>5. /\ Stored(Nat, aq2) /\ StartedLeaves(aq2.leafQueue) = << >>
      /\ \E k \in Nat : Leaves(aq2) = Leaves(aq) \o ZeroLeaves(k)
  BY <1>4 DEF Rounded
<1>6. FillStarted(aq2).currentSubtreeIndex <= Len(s)
  BY <1>1, <1>4, <1>5, SubRootsAreBounded
<1>7. ASSUME phase # "late"
      PROVE  /\ \E k \in Nat : Leaves(aq2) = s \o ZeroLeaves(k)
             /\ ~aq2.subTreesMerged => Unmixed(Nat, aq2)
             /\ aq2.subTreesMerged => Rooted(aq2)
  <2>1. Unmixed(Nat, aq)
    BY <1>1, <1>7 DEF QueueOf
  <2>2. PICK k \in Nat : Leaves(aq) = s \o ZeroLeaves(k)
    BY <1>7 DEF QueueOf
  <2>3. PICK l \in Nat : Leaves(aq2) = Leaves(aq) \o ZeroLeaves(l)
    BY <1>5
  <2>4. Leaves(aq2) = s \o ZeroLeaves(k + l) /\ k + l \in Nat
    <3>1. (s \o ZeroLeaves(k)) \o ZeroLeaves(l) = s \o ZeroLeaves(k + l)
      BY <1>1, ZerosAfter
    <3> QED
      BY <2>2, <2>3, <3>1
  <2> QED
    BY <1>4, <2>1, <2>4 DEF BlanksQueued
<1>8. CanMergeSubRoots(aq2) => Mergeable(aq2)
  BY <1>4 DEF CanMergeSubRoots
<1>9. QueueOf(aq2, s, AfterMerge(phase))
  BY <1>1, <1>5, <1>6, <1>7, <1>8 DEF QueueOf, AfterMerge
<1> QED
  BY <1>9 DEF aq2

\* The root that is merged is the one then served.
LEMMA RootServed ==
  ASSUME NEW aq, Stored(Nat, aq), NEW d \in Levels
  PROVE  merge(aq, d).mainRoots[d] = MergedRoot(aq, d)
<1>1. aq \in AccQueues(Nat)
  BY DEF Stored
<1>2. /\ merge(aq, d).mainRoots = [aq.mainRoots EXCEPT ![d] = MergedRoot(aq, d)]
      /\ DOMAIN aq.mainRoots = Levels
  BY <1>1 DEF merge, AccQueues
<1> QED
  BY <1>2

\* A merge of the root: it is of the leaves given, in their order, and blank
\* after them.
LEMMA RootMerged ==
  ASSUME NEW aq, NEW s, NEW phase, QueueOf(aq, s, phase), NEW d \in Levels, CanMerge(aq, d)
  PROVE  /\ QueueOf(merge(aq, d), s, phase) /\ MergedRoot(aq, d) \in Seq(Nat)
         /\ phase # "late" => MergedRoot(aq, d) = RootOf(s, d)
<1> DEFINE aq2 == merge(aq, d)
           H == hashLength ^ d
           root == MergedRoot(aq, d)
           old == Leaves(aq)
<1>1. /\ Stored(Nat, aq) /\ s \in Seq(Nat) /\ Zero \in Nat /\ aq \in AccQueues(Nat)
      /\ aq.subTreesMerged /\ H >= aq.numLeaves
  BY BlankIsNumber DEF QueueOf, CanMerge, Stored
<1>2. /\ Stored(Nat, aq2) /\ Leaves(aq2) = old
      /\ Unmixed(Nat, aq) => Unmixed(Nat, aq2)
      /\ Rooted(aq) => Rooted(aq2)
      /\ Mergeable(aq) <=> Mergeable(aq2)
      /\ Rooted(aq) => root = old \o ZeroLeaves(H - Len(old))
      /\ aq2.mainRoots[d] = root
  <2>1. Stored(Nat, aq2) /\ Leaves(aq2) = old
    BY <1>1, MergeStored
  <2>2. (Unmixed(Nat, aq) => Unmixed(Nat, aq2)) /\ (Rooted(aq) => Rooted(aq2))
    BY <1>1, MergeStored
  <2>3. Mergeable(aq) <=> Mergeable(aq2)
    BY <1>1, MergeStored
  <2>4. Rooted(aq) => root = old \o ZeroLeaves(H - Len(old))
    <3>1. (CanMerge(aq, d) /\ Rooted(aq)) => root = old \o ZeroLeaves(H - Len(old))
      BY <1>1, MergeStored
    <3> HIDE DEF root, old, H
    <3> QED
      BY <3>1
  <2>5. aq2.mainRoots[d] = root
    BY <1>1, RootServed
  <2> QED
    BY <2>1, <2>2, <2>3, <2>4, <2>5
<1>3. /\ aq2.subTreesMerged = aq.subTreesMerged /\ aq2.numLeaves = aq.numLeaves
      /\ aq2.currentSubtreeIndex = aq.currentSubtreeIndex
  BY <1>1 DEF merge, AccQueues
<1>4. root \in Seq(Nat)
  BY <1>2 DEF Stored, AccQueues
<1>5. FillStarted(aq2).currentSubtreeIndex <= Len(s)
  <2>1. Started(aq2) <=> Started(aq)
    BY <1>3 DEF Started
  <2>2. FillStarted(aq2).currentSubtreeIndex = FillStarted(aq).currentSubtreeIndex
    BY <1>1, <1>2, <1>3, <2>1, SubRootsAreBounded
  <2> QED
    BY <2>2 DEF QueueOf
<1>6. QueueOf(aq2, s, phase)
  <2> HIDE DEF aq2, old, root
  <2>1. CanMergeSubRoots(aq2) => CanMergeSubRoots(aq)
    BY <1>3 DEF CanMergeSubRoots
  <2> QED
    BY <1>1, <1>2, <1>3, <1>5, <2>1 DEF QueueOf, old
<1>7. ASSUME phase # "late" PROVE root = RootOf(s, d)
  <2>1. PICK k \in Nat : old = s \o ZeroLeaves(k)
    BY <1>7 DEF QueueOf
  <2>2. Rooted(aq)
    BY <1>1, <1>7 DEF QueueOf
  <2>3. root = old \o ZeroLeaves(H - Len(old))
    BY <1>2, <2>2
  <2>4. aq.numLeaves = Len(old) /\ old \in Seq(Nat) /\ Len(old) \in Nat
    <3>1. aq.numLeaves = Len(old) /\ old \in Seq(Nat)
      BY <1>1, LeavesCounted DEF Stored
    <3> HIDE DEF old
    <3> QED
      BY <3>1
  <2>5. H \in Nat
    <3>1. d \in 0..(MAX_DEPTH + 1)
      BY AccQueueConstants DEF Levels
    <3> QED
      BY <3>1, PowerFacts
  <2>6. Len(old) = Len(s) + k /\ Len(s) \in Nat
    <3>1. ZeroLeaves(k) \in Seq(Nat) /\ Len(ZeroLeaves(k)) = k
      BY <1>1, ZerosTyped
    <3> HIDE DEF old
    <3> QED
      BY <1>1, <2>1, <3>1, ConcatProperties, LenProperties
  <2> HIDE DEF H, old, root
  <2>7. H - Len(old) \in Nat /\ k + (H - Len(old)) = H - Len(s)
    BY <1>1, <2>4, <2>5, <2>6
  <2>8. (s \o ZeroLeaves(k)) \o ZeroLeaves(H - Len(old)) = s \o ZeroLeaves(k + (H - Len(old)))
    BY <1>1, <2>7, ZerosAfter
  <2> QED
    BY <2>1, <2>3, <2>7, <2>8 DEF RootOf, H
<1> QED
  BY <1>4, <1>6, <1>7

-----------------------------------------------------------------------------
(***************************************************************************)
(* Events.                                                                 *)
(***************************************************************************)
Less == {x \in Nat \X Nat : x[1] < x[2]}

EventTypes ==
  {"SignUp", "DeployPoll", "PublishMessage", "TopupMessage", "MergeMessageAqSubRoots",
   "MergeMessageAq", "MergeMaciStateAqSubRoots", "MergeMaciStateAq"}
MergeTypes == {"MergeMessageAq", "MergeMaciStateAq"}
OneDatum == MessageTypes \cup {"SignUp"}
Events ==
  [n : Nat, block : Nat, tx : Nat, type : EventTypes, poll : Nat \cup {Everybody},
   data : Seq(Nat)]

\* Events in their order on the chain, and events of which those of one type
\* are in that order.
Earlier == {x \in Events \X Events : x[1].n < x[2].n}
InKind == {x \in Events \X Events : x[1].type = x[2].type => x[1].n < x[2].n}

-----------------------------------------------------------------------------
(***************************************************************************)
(* The events E of a chain c.                                              *)
(***************************************************************************)
Of(E, types, p) == {e \in E : e.type \in types /\ e.poll = p}
Numbers(E) == {e.n : e \in E}
MessagesOf(E, p) == Numbers(Of(E, MessageTypes, p))
UsersOf(E) == Numbers(Of(E, {"SignUp"}, Everybody))
Until(E, e) == {x \in E : x.n < e.n}

Numbered(c) == c \in Seq(Events) /\ \A k \in DOMAIN c : c[k].n = k

Timed(E, h, t) ==
  /\ \A e \in E : e.block \in 1..(h + 1) /\ e.tx \in 1..t
  /\ \A e, x \in E : e.n < x.n => e.block <= x.block /\ e.tx <= x.tx

Formed(E) ==
  \A e \in E :
    /\ e.type = "SignUp" <=> e.poll = Everybody
    /\ e.type \in OneDatum => e.data = <<e.n>>

Deployed(E) ==
  \A e \in E : e.poll # Everybody =>
    \E d \in E : d.type = "DeployPoll" /\ d.poll = e.poll /\ d.tx <= e.tx

PollsCount(c) == \A k \in DOMAIN OfType(c, "DeployPoll") : OfType(c, "DeployPoll")[k].poll = k - 1

\* How far the merge of a queue is, by the merges of subroots and the leaves.
Phase(merges, leaves) ==
  IF merges = {} THEN "no" ELSE IF \E y \in merges, x \in leaves : y.n < x.n THEN "late" ELSE "yes"
MessagePhase(E, p) == Phase(Of(E, {"MergeMessageAqSubRoots"}, p), Of(E, MessageTypes, p))
StatePhase(E) ==
  Phase({e \in E : e.type = "MergeMaciStateAqSubRoots"}, Of(E, {"SignUp"}, Everybody))

\* What the merges of the events E come to: the root of the leaves, unless one
\* came late, and the number of users.
MessagesMerged(E, p, data) ==
  MessagePhase(E, p) # "late" =>
    \E s : Lists(s, MessagesOf(E, p), Less) /\ data = RootOf(s, messageTreeDepth)
StateMerged(E, data) ==
  \E s : /\ Lists(s, {Blank} \cup UsersOf(E), Less) /\ data # << >> /\ Head(data) = Len(s)
         /\ StatePhase(E) # "late" => Tail(data) = RootOf(s, stateTreeDepth)

Merged(E) ==
  /\ \A e, x \in E : e.type = "MergeMaciStateAq" /\ x.type = e.type /\ x.poll = e.poll => x = e
  /\ \A e, x \in E : e.type = "MergeMessageAq" /\ x.tx = e.tx => x = e
  /\ \A e \in E :
       /\ e.type = "MergeMessageAq" => MessagesMerged(Until(E, e), e.poll, e.data)
       /\ e.type = "MergeMaciStateAq" => StateMerged(Until(E, e), e.data)

ChainOK(c, h, t) ==
  /\ Numbered(c) /\ PollsCount(c)
  /\ Timed(ToSet(c), h, t) /\ Formed(ToSet(c)) /\ Deployed(ToSet(c)) /\ Merged(ToSet(c))

-----------------------------------------------------------------------------
\* Both are orders: what they list is determined by its set.
LEMMA Orders == Asymmetric(Less) /\ Asymmetric(Earlier)
<1>1. ASSUME NEW x, NEW y, <<x, y>> \in Less PROVE <<y, x>> \notin Less
  BY <1>1 DEF Less
<1>2. ASSUME NEW x, NEW y, <<x, y>> \in Earlier PROVE <<y, x>> \notin Earlier
  <2>1. x.n \in Nat /\ y.n \in Nat /\ x.n < y.n
    BY <1>2 DEF Earlier, Events
  <2>2. ~ (y.n < x.n)
    BY <2>1
  <2> QED
    BY <2>2 DEF Earlier
<1> QED
  BY <1>1, <1>2 DEF Asymmetric

\* A list is a list in every weaker order.
LEMMA Weaker ==
  ASSUME NEW s, NEW S, NEW R, NEW Q, Lists(s, S, R),
         \A x, y \in S : <<x, y>> \in R => <<x, y>> \in Q
  PROVE  Lists(s, S, Q)
BY ListsDef

\* A function of 1..n is a sequence.
LEMMA Listed ==
  ASSUME NEW S, NEW n \in Nat, NEW f \in [1..n -> S]
  PROVE  f \in Seq(S) /\ Len(f) = n
BY SeqDef

\* The events are told apart by their numbers.
LEMMA Numbering ==
  ASSUME NEW c, Numbered(c)
  PROVE  /\ c \in Seq(Events) /\ Len(c) \in Nat /\ DOMAIN c = 1..Len(c)
         /\ ToSet(c) \subseteq Events
         /\ \A e \in ToSet(c) : e.n \in 1..Len(c) /\ c[e.n] = e
         /\ \A k \in 1..Len(c) : c[k] \in ToSet(c) /\ c[k].n = k
         /\ \A e, x \in ToSet(c) : e.n = x.n => e = x
         /\ Lists(c, ToSet(c), Earlier)
<1>1. c \in Seq(Events) /\ Len(c) \in Nat /\ DOMAIN c = 1..Len(c)
      /\ \A k \in 1..Len(c) : c[k] \in Events /\ c[k] \in ToSet(c) /\ c[k].n = k
  BY ElementOfSeq DEF Numbered, ToSet
<1>2. /\ ToSet(c) \subseteq Events
      /\ \A e \in ToSet(c) : e.n \in 1..Len(c) /\ c[e.n] = e
      /\ \A x \in ToSet(c) : \E i \in 1..Len(c) : x = c[i]
  BY <1>1 DEF ToSet
<1>3. \A i, j \in 1..Len(c) : i < j => <<c[i], c[j]>> \in Earlier
  BY <1>1 DEF Earlier
<1>4. c \in Seq(ToSet(c))
  <2>1. c \in [1..Len(c) -> ToSet(c)]
    BY <1>1
  <2> QED
    BY <1>1, <2>1, Listed
<1>5. Lists(c, ToSet(c), Earlier)
  BY <1>1, <1>2, <1>3, <1>4, ListsDef
<1>6. \A e, x \in ToSet(c) : e.n = x.n => e = x
  <2> SUFFICES ASSUME NEW e \in ToSet(c), NEW x \in ToSet(c), e.n = x.n PROVE e = x
    OBVIOUS
  <2> QED
    BY <1>2
<1> QED
  BY <1>1, <1>2, <1>5, <1>6

\* The elements of a sequence.
LEMMA Elements ==
  ASSUME NEW X, NEW s \in Seq(X)
  PROVE  /\ Len(s) \in Nat /\ DOMAIN s = 1..Len(s)
         /\ \A k \in 1..Len(s) : s[k] \in X /\ s[k] \in ToSet(s)
         /\ \A x \in ToSet(s) : x \in X /\ \E k \in 1..Len(s) : x = s[k]
BY ElementOfSeq DEF ToSet

\* The data of events that are one number each.
LEMMA DataLists ==
  ASSUME NEW c, Numbered(c), Formed(ToSet(c)), NEW types, types \subseteq OneDatum, NEW p
  PROVE  Lists(DataOf(c, types, p), Numbers(Of(ToSet(c), types, p)), Less)
<1> DEFINE n == Len(c)
           f == [k \in DOMAIN c |-> IF c[k].type \in types /\ c[k].poll = p THEN c[k].data ELSE << >>]
           A == [k \in 1..n |-> IF c[k].type \in types /\ c[k].poll = p THEN {k} ELSE {}]
<1>1. /\ n \in Nat /\ DOMAIN c = 1..n /\ ToSet(c) \subseteq Events
      /\ \A e \in ToSet(c) : e.n \in 1..n /\ c[e.n] = e
      /\ \A k \in 1..n : c[k] \in ToSet(c) /\ c[k].n = k
  BY Numbering
<1>2. \A k \in 1..n : c[k].type \in types => c[k].data = <<k>>
  BY <1>1 DEF Formed
<1>3. f \in [1..n -> Seq(Nat)]
  <2> HIDE DEF n
  <2>1. \A k \in 1..n : c[k].data \in Seq(Nat)
    BY <1>1 DEF Events
  <2>2. << >> \in Seq(Nat)
    OBVIOUS
  <2> QED
    BY <1>1, <2>1, <2>2
<1>4. f \in Seq(Seq(Nat)) /\ Len(f) = n
  <2> HIDE DEF f, n
  <2> QED
    BY <1>1, <1>3, Listed
<1>5. \A k \in 1..n : Lists(f[k], A[k], Less)
  <2> SUFFICES ASSUME NEW k \in 1..n PROVE Lists(f[k], A[k], Less)
    OBVIOUS
  <2>1. CASE c[k].type \in types /\ c[k].poll = p
    <3>1. f[k] = <<k>> /\ A[k] = {k}
      BY <1>1, <1>2, <2>1
    <3> HIDE DEF f, A
    <3> QED
      BY <3>1, OneListed
  <2>2. CASE ~ (c[k].type \in types /\ c[k].poll = p)
    <3>1. f[k] = << >> /\ A[k] = {}
      BY <1>1, <2>2
    <3> HIDE DEF f, A
    <3> QED
      BY <3>1, NothingListed
  <2> QED
    BY <2>1, <2>2
<1>6. InTurn(A, n, Less)
  <2> SUFFICES ASSUME NEW i \in 1..n, NEW k \in 1..n, i < k, NEW x \in A[i], NEW y \in A[k]
               PROVE  <<x, y>> \in Less
    BY DEF InTurn, AllBefore
  <2>1. x = i /\ y = k
    OBVIOUS
  <2> QED
    BY <1>1, <2>1 DEF Less
<1>7. Parts(A, n) = Numbers(Of(ToSet(c), types, p))
  <2>1. ASSUME NEW x \in Parts(A, n) PROVE x \in Numbers(Of(ToSet(c), types, p))
    <3>1. PICK k \in 1..n : x \in A[k]
      BY <2>1 DEF Parts
    <3>2. x = k /\ c[k].type \in types /\ c[k].poll = p
      BY <3>1
    <3> QED
      BY <1>1, <3>2 DEF Numbers, Of
  <2>2. ASSUME NEW x \in Numbers(Of(ToSet(c), types, p)) PROVE x \in Parts(A, n)
    <3>1. PICK e \in ToSet(c) : x = e.n /\ e.type \in types /\ e.poll = p
      BY <2>2 DEF Numbers, Of
    <3>2. x \in 1..n /\ c[x] = e
      BY <1>1, <3>1
    <3>3. x \in A[x]
      BY <3>1, <3>2
    <3> QED
      BY <3>2, <3>3 DEF Parts
  <2> QED
    BY <2>1, <2>2
<1>8. DataOf(c, types, p) = FlattenSeq(f)
  BY DEF DataOf
<1> HIDE DEF f, A, n
<1>9. Lists(FlattenSeq(f), Parts(A, Len(f)), Less)
  BY <1>4, <1>5, <1>6, FlatLists
<1> QED
  BY <1>4, <1>7, <1>8, <1>9

\* The data of the only event of its kind.
LEMMA DataOfOne ==
  ASSUME NEW s \in Seq(Events), \A i, j \in 1..Len(s) : s[i] = s[j] => i = j,
         NEW types, NEW p, NEW e, Of(ToSet(s), types, p) = {e}
  PROVE  DataOf(s, types, p) = e.data
<1> DEFINE n == Len(s)
           f == [k \in DOMAIN s |-> IF s[k].type \in types /\ s[k].poll = p THEN s[k].data ELSE << >>]
<1>1. /\ n \in Nat /\ DOMAIN s = 1..n
      /\ \A k \in 1..n : s[k] \in Events /\ s[k] \in ToSet(s)
      /\ \A x \in ToSet(s) : \E k \in 1..n : x = s[k]
  BY Elements
<1>2. e \in ToSet(s) /\ e.type \in types /\ e.poll = p
      /\ \A k \in 1..n : s[k].type \in types /\ s[k].poll = p <=> s[k] = e
  <2>1. e \in Of(ToSet(s), types, p)
    OBVIOUS
  <2>2. e \in ToSet(s) /\ e.type \in types /\ e.poll = p
    BY <2>1 DEF Of
  <2>3. ASSUME NEW k \in 1..n, s[k].type \in types, s[k].poll = p PROVE s[k] = e
    <3>1. s[k] \in Of(ToSet(s), types, p)
      BY <1>1, <2>3 DEF Of
    <3> QED
      BY <3>1
  <2> QED
    BY <2>2, <2>3
<1>3. f \in [1..n -> Seq(Nat)]
  <2> HIDE DEF n
  <2>1. \A k \in 1..n : s[k].data \in Seq(Nat)
    BY <1>1 DEF Events
  <2>2. << >> \in Seq(Nat)
    OBVIOUS
  <2> QED
    BY <1>1, <2>1, <2>2
<1>4. f \in Seq(Seq(Nat)) /\ Len(f) = n
  <2> HIDE DEF f, n
  <2> QED
    BY <1>1, <1>3, Listed
<1>5. PICK m \in 1..n : s[m] = e
  BY <1>1, <1>2
<1>6. /\ f[m] = e.data /\ e.data \in Seq(Nat) /\ m \in Nat /\ n # 0
      /\ \A k \in 1..n : k # m => f[k] = << >>
  <2>1. \A k \in 1..n : k # m => s[k] # e
    BY <1>5
  <2>2. e.data \in Seq(Nat)
    BY <1>1, <1>5 DEF Events
  <2> QED
    BY <1>1, <1>2, <1>5, <2>1, <2>2
<1>7. DataOf(s, types, p) = FlattenSeq(f)
  BY DEF DataOf
<1> DEFINE j == JoinedTo(f)
           P == {k \in 1..n : j[k] = IF k < m THEN << >> ELSE e.data}
<1>8. /\ j[1] = f[1] /\ FlattenSeq(f) = j[n]
      /\ \A k \in 2..n : j[k] = j[k - 1] \o f[k]
  <2> HIDE DEF f, n
  <2> QED
    BY <1>4, <1>6, JoinedDef
<1> HIDE DEF f, n, j
<1>9. 1 \in P
  <2>1. 1 \in 1..n /\ (1 < m \/ 1 = m)
    BY <1>1, <1>5
  <2> QED
    BY <1>5, <1>6, <1>8, <2>1
<1>10. ASSUME NEW k \in 1..(n - 1), k \in P PROVE k + 1 \in P
  <2> DEFINE l == k + 1
  <2>1. l \in 1..n /\ l \in 2..n /\ l - 1 = k /\ k \in 1..n /\ k < l /\ m \in Nat
        /\ (k < m => l < m \/ l = m) /\ (~(k < m) => ~(l < m) /\ l # m)
    BY <1>1, <1>5
  <2> HIDE DEF l
  <2>2. j[l] = j[k] \o f[l] /\ j[k] = IF k < m THEN << >> ELSE e.data
    BY <1>8, <1>10, <2>1
  <2>3. CASE k < m /\ l < m
    <3>1. j[k] = << >> /\ f[l] = << >> /\ << >> \in Seq(Nat)
      BY <1>6, <2>1, <2>2, <2>3
    <3>2. j[l] = << >>
      BY <2>2, <3>1, ConcatEmptySeq
    <3> QED
      BY <2>1, <2>3, <3>2 DEF l
  <2>4. CASE k < m /\ l = m
    <3>1. j[k] = << >> /\ f[l] = e.data /\ ~(l < m)
      BY <1>6, <2>1, <2>2, <2>4
    <3>2. j[l] = e.data
      BY <1>6, <2>2, <3>1, ConcatEmptySeq
    <3> QED
      BY <2>1, <3>1, <3>2 DEF l
  <2>5. CASE ~(k < m)
    <3>1. j[k] = e.data /\ f[l] = << >> /\ ~(l < m)
      BY <1>6, <2>1, <2>2, <2>5
    <3>2. j[l] = e.data
      BY <1>6, <2>2, <3>1, ConcatEmptySeq
    <3> QED
      BY <2>1, <3>1, <3>2 DEF l
  <2> QED
    BY <2>1, <2>3, <2>4, <2>5
<1> HIDE DEF P
<1>11. 1..n \subseteq P
  BY <1>1, <1>9, <1>10, RangeInduction
<1>12. j[n] = e.data
  <2>1. n \in 1..n /\ ~(n < m)
    BY <1>1, <1>5
  <2> QED
    BY <1>11, <2>1 DEF P
<1> QED
  BY <1>7, <1>8, <1>12 DEF n

\* The events of a type, in their order on the chain.
LEMMA KindLists ==
  ASSUME NEW s, NEW S, Lists(s, S, InKind), NEW type
  PROVE  Lists(OfType(s, type), {e \in S : e.type = type}, Earlier)
<1> DEFINE K == {k \in DOMAIN s : s[k].type = type}
           T == {e \in S : e.type = type}
<1>1. DOMAIN s = 1..Len(s) /\ (\A k \in 1..Len(s) : s[k] \in S) /\ \A x \in S : \E k \in 1..Len(s) : x = s[k]
  BY ListsDef
<1>2. Chosen(s, K) = T
  BY <1>1 DEF Chosen
<1>3. Those(s, K) = OfType(s, type)
  BY DEF OfType
<1>4. Lists(Those(s, K), Chosen(s, K), InKind)
  BY ThoseLists
<1>5. \A x, y \in T : <<x, y>> \in InKind => <<x, y>> \in Earlier
  BY DEF InKind, Earlier
<1> HIDE DEF K, T
<1>6. Lists(OfType(s, type), T, InKind)
  BY <1>2, <1>3, <1>4
<1>7. Lists(OfType(s, type), T, Earlier)
  BY <1>5, <1>6, Weaker
<1> QED
  BY <1>7 DEF T

\* The chain has each type in its order.
LEMMA ChainInKind ==
  ASSUME NEW c, Numbered(c)
  PROVE  Lists(c, ToSet(c), InKind)
<1>1. Lists(c, ToSet(c), Earlier)
  BY Numbering
<1>2. \A x, y \in ToSet(c) : <<x, y>> \in Earlier => <<x, y>> \in InKind
  BY DEF Earlier, InKind
<1> QED
  BY <1>1, <1>2, Weaker

\* Once every block is mined the events mined are the chain.
LEMMA AllMined ==
  ASSUME NEW c, Numbered(c), NEW h, \A e \in ToSet(c) : e.block <= h
  PROVE  Those(c, {k \in DOMAIN c : c[k].block <= h}) = c
<1> DEFINE K == {k \in DOMAIN c : c[k].block <= h}
<1>1. /\ DOMAIN c = 1..Len(c) /\ Lists(c, ToSet(c), Earlier)
      /\ \A k \in 1..Len(c) : c[k] \in ToSet(c)
  BY Numbering
<1>2. K = DOMAIN c
  BY <1>1
<1>3. Chosen(c, K) = ToSet(c)
  BY <1>2 DEF Chosen, ToSet
<1> HIDE DEF K
<1>4. Lists(Those(c, K), Chosen(c, K), Earlier)
  BY <1>1, ThoseLists
<1>5. Lists(Those(c, K), ToSet(c), Earlier)
  BY <1>3, <1>4
<1>6. Those(c, K) = c
  BY <1>1, <1>5, Orders, OneList
<1> QED
  BY <1>6 DEF K

-----------------------------------------------------------------------------
(***************************************************************************)
(* The chain grows by the events N of a transaction.                       *)
(***************************************************************************)
Newer(E, N) == \A e \in E, x \in N : e.n < x.n
Stamped(N, h, t) == \A x \in N : x.block = h + 1 /\ x.tx = t + 1

\* New events are stamped after those there.
LEMMA TimedGrows ==
  ASSUME NEW E, NEW N, NEW h \in Nat, NEW t \in Nat, NEW g \in Nat, h <= g,
         E \subseteq Events, N \subseteq Events,
         Timed(E, h, t), Newer(E, N), Stamped(N, h, t)
  PROVE  Timed(E \cup N, g, t + 1)
<1>1. ASSUME NEW e \in E PROVE e.block \in 1..(g + 1) /\ e.tx \in 1..(t + 1)
  <2>1. e.block \in 1..(h + 1) /\ e.tx \in 1..t
    BY DEF Timed
  <2> QED
    BY <2>1
<1>2. ASSUME NEW e \in N PROVE e.block \in 1..(g + 1) /\ e.tx \in 1..(t + 1)
  <2>1. e.block = h + 1 /\ e.tx = t + 1
    BY DEF Stamped
  <2> QED
    BY <2>1
<1>3. ASSUME NEW e \in E \cup N, NEW x \in E \cup N, e.n < x.n
      PROVE  e.block <= x.block /\ e.tx <= x.tx
  <2>1. CASE e \in E /\ x \in E
    BY <1>3, <2>1 DEF Timed
  <2>2. CASE e \in E /\ x \in N
    <3>1. e.block \in 1..(h + 1) /\ e.tx \in 1..t /\ x.block = h + 1 /\ x.tx = t + 1
      BY <2>2 DEF Timed, Stamped
    <3> QED
      BY <3>1
  <2>3. CASE e \in N /\ x \in N
    <3>1. e.block = h + 1 /\ e.tx = t + 1 /\ x.block = h + 1 /\ x.tx = t + 1
      BY <2>3 DEF Stamped
    <3> QED
      BY <3>1
  <2>4. CASE e \in N /\ x \in E
    <3>1. x.n < e.n /\ x.n \in Nat /\ e.n \in Nat
      BY <2>4 DEF Newer, Events
    <3> QED
      BY <1>3, <3>1
  <2> QED
    BY <2>1, <2>2, <2>3, <2>4
<1> QED
  BY <1>1, <1>2, <1>3 DEF Timed

\* A merge is alone in its transaction, and its data are those of the contract.
NewMerge(E, N) ==
  \A e \in N : e.type \in MergeTypes =>
    /\ N = {e}
    /\ e.type = "MergeMessageAq" => MessagesMerged(E, e.poll, e.data)
    /\ e.type = "MergeMaciStateAq" => /\ \A x \in E : ~ (x.type = e.type /\ x.poll = e.poll)
                                      /\ StateMerged(E, e.data)

\* New events leave what a merge is of as it was.
LEMMA MergedGrows ==
  ASSUME NEW E, NEW N, NEW h \in Nat, NEW t \in Nat, E \subseteq Events, N \subseteq Events,
         Timed(E, h, t), Newer(E, N), Stamped(N, h, t), Merged(E), NewMerge(E, N)
  PROVE  Merged(E \cup N)
<1>1. \A e \in E : Until(E \cup N, e) = Until(E, e)
  <2> SUFFICES ASSUME NEW e \in E, NEW x \in N PROVE ~ (x.n < e.n)
    BY DEF Until
  <2>1. e.n < x.n /\ e.n \in Nat /\ x.n \in Nat
    BY DEF Newer, Events
  <2> QED
    BY <2>1
<1>2. ASSUME NEW e, N = {e} PROVE Until(E \cup N, e) = E
  <2>1. e.n \in Nat /\ (\A x \in E : x.n < e.n) /\ ~ (e.n < e.n)
    BY <1>2 DEF Newer, Events
  <2> QED
    BY <1>2, <2>1 DEF Until
<1>3. \A e \in E, x \in N : e.tx # x.tx
  <2> SUFFICES ASSUME NEW e \in E, NEW x \in N PROVE e.tx # x.tx
    OBVIOUS
  <2>1. e.tx \in 1..t /\ x.tx = t + 1
    BY DEF Timed, Stamped
  <2> QED
    BY <2>1
<1>4. ASSUME NEW e \in E \cup N, NEW x \in E \cup N, e.type = "MergeMaciStateAq", x.type = e.type,
             x.poll = e.poll
      PROVE  x = e
  <2>1. CASE e \in E /\ x \in E
    BY <1>4, <2>1 DEF Merged
  <2>2. CASE e \in N
    BY <1>4, <2>2 DEF NewMerge, MergeTypes
  <2>3. CASE x \in N
    BY <1>4, <2>3 DEF NewMerge, MergeTypes
  <2> QED
    BY <2>1, <2>2, <2>3
<1>5. ASSUME NEW e \in E \cup N, NEW x \in E \cup N, e.type = "MergeMessageAq", x.tx = e.tx
      PROVE  x = e
  <2>1. CASE e \in E
    <3>1. x \in E
      BY <1>3, <1>5, <2>1
    <3> QED
      BY <1>5, <2>1, <3>1 DEF Merged
  <2>2. CASE e \in N
    <3>1. x \in N
      BY <1>3, <1>5, <2>2
    <3>2. N = {e}
      BY <1>5, <2>2 DEF NewMerge, MergeTypes
    <3> QED
      BY <3>1, <3>2
  <2> QED
    BY <2>1, <2>2
<1> DEFINE U(e) == Until(E \cup N, e)
<1>6. ASSUME NEW e \in E \cup N
      PROVE  /\ e.type = "MergeMessageAq" => MessagesMerged(U(e), e.poll, e.data)
             /\ e.type = "MergeMaciStateAq" => StateMerged(U(e), e.data)
  <2>1. CASE e \in E
    <3>1. U(e) = Until(E, e)
      BY <1>1, <2>1
    <3> HIDE DEF U
    <3> QED
      BY <2>1, <3>1 DEF Merged
  <2>2. CASE e \in N /\ e.type \in MergeTypes
    <3>1. U(e) = E
      BY <1>2, <2>2 DEF NewMerge
    <3> HIDE DEF U
    <3> QED
      BY <2>2, <3>1 DEF NewMerge
  <2>3. CASE e.type \notin MergeTypes
    BY <2>3 DEF MergeTypes
  <2> QED
    BY <2>1, <2>2, <2>3
<1> QED
  BY <1>4, <1>5, <1>6 DEF Merged

\* The numbers of the events go on.
LEMMA Longer ==
  ASSUME NEW c, Numbered(c), NEW evs \in Seq(Events),
         \A k \in 1..Len(evs) : evs[k].n = Len(c) + k
  PROVE  /\ Numbered(c \o evs) /\ ToSet(c \o evs) = ToSet(c) \cup ToSet(evs)
         /\ Newer(ToSet(c), ToSet(evs)) /\ ToSet(evs) \subseteq Events
         /\ Len(c \o evs) = Len(c) + Len(evs)
         /\ \A k \in 1..Len(c) : (c \o evs)[k] = c[k]
<1> DEFINE d == c \o evs
<1>1. /\ c \in Seq(Events) /\ Len(c) \in Nat
      /\ \A e \in ToSet(c) : e.n \in 1..Len(c) /\ c[e.n] = e
      /\ \A k \in 1..Len(c) : c[k] \in ToSet(c) /\ c[k].n = k
  BY Numbering
<1>2. /\ Len(evs) \in Nat /\ \A k \in 1..Len(evs) : evs[k] \in ToSet(evs)
      /\ \A x \in ToSet(evs) : x \in Events /\ \E k \in 1..Len(evs) : x = evs[k]
  BY Elements
<1>3. /\ d \in Seq(Events) /\ Len(d) = Len(c) + Len(evs) /\ DOMAIN d = 1..(Len(c) + Len(evs))
      /\ \A i \in 1..(Len(c) + Len(evs)) : d[i] = IF i <= Len(c) THEN c[i] ELSE evs[i - Len(c)]
  BY <1>1, ConcatProperties
<1> HIDE DEF d
<1>4. ASSUME NEW i \in 1..(Len(c) + Len(evs))
      PROVE  \/ i \in 1..Len(c) /\ d[i] = c[i]
             \/ i - Len(c) \in 1..Len(evs) /\ d[i] = evs[i - Len(c)] /\ Len(c) + (i - Len(c)) = i
  BY <1>1, <1>2, <1>3
<1>5. \A i \in 1..Len(c) : i \in 1..(Len(c) + Len(evs)) /\ d[i] = c[i]
  BY <1>1, <1>2, <1>3
<1>6. ASSUME NEW k \in 1..Len(evs)
      PROVE  Len(c) + k \in 1..(Len(c) + Len(evs)) /\ d[Len(c) + k] = evs[k]
  <2>1. Len(c) + k \in 1..(Len(c) + Len(evs)) /\ ~ (Len(c) + k <= Len(c)) /\ (Len(c) + k) - Len(c) = k
    BY <1>1, <1>2
  <2> QED
    BY <1>3, <2>1
<1>7. \A i \in 1..(Len(c) + Len(evs)) : d[i].n = i /\ d[i] \in ToSet(c) \cup ToSet(evs)
  <2> SUFFICES ASSUME NEW i \in 1..(Len(c) + Len(evs))
               PROVE  d[i].n = i /\ d[i] \in ToSet(c) \cup ToSet(evs)
    OBVIOUS
  <2>1. CASE i \in 1..Len(c) /\ d[i] = c[i]
    BY <1>1, <2>1
  <2>2. CASE i - Len(c) \in 1..Len(evs) /\ d[i] = evs[i - Len(c)] /\ Len(c) + (i - Len(c)) = i
    BY <1>2, <2>2
  <2> QED
    BY <1>4, <2>1, <2>2
<1>8. Numbered(d)
  BY <1>3, <1>7 DEF Numbered
<1>9. ToSet(d) = ToSet(c) \cup ToSet(evs)
  <2>1. \A x \in ToSet(d) : x \in ToSet(c) \cup ToSet(evs)
    BY <1>3, <1>7 DEF ToSet
  <2>2. \A x \in ToSet(c) : x \in ToSet(d)
    <3> SUFFICES ASSUME NEW x \in ToSet(c) PROVE x \in ToSet(d)
      OBVIOUS
    <3>1. x.n \in DOMAIN d /\ d[x.n] = x
      BY <1>1, <1>3, <1>5
    <3> QED
      BY <3>1 DEF ToSet
  <2>3. \A x \in ToSet(evs) : x \in ToSet(d)
    <3> SUFFICES ASSUME NEW x \in ToSet(evs) PROVE x \in ToSet(d)
      OBVIOUS
    <3>1. PICK k \in 1..Len(evs) : x = evs[k]
      BY <1>2
    <3>2. Len(c) + k \in DOMAIN d /\ d[Len(c) + k] = x
      BY <1>3, <1>6, <3>1
    <3> QED
      BY <3>2 DEF ToSet
  <2> QED
    BY <2>1, <2>2, <2>3
<1>10. Newer(ToSet(c), ToSet(evs))
  <2> SUFFICES ASSUME NEW e \in ToSet(c), NEW x \in ToSet(evs) PROVE e.n < x.n
    BY DEF Newer
  <2>1. PICK k \in 1..Len(evs) : x = evs[k]
    BY <1>2
  <2>2. x.n = Len(c) + k /\ e.n \in 1..Len(c)
    BY <1>1, <2>1
  <2> QED
    BY <1>1, <2>2
<1> QED
  BY <1>2, <1>3, <1>5, <1>8, <1>9, <1>10 DEF d

-----------------------------------------------------------------------------
(***************************************************************************)
(* What the contracts emit.                                                *)
(***************************************************************************)
\* The polls of a chain, when a poll is deployed and when none is.
LEMMA PollsKept ==
  ASSUME NEW c, NEW d, Numbered(c), Numbered(d), NEW N, ToSet(d) = ToSet(c) \cup N,
         \A x \in N : x.type # "DeployPoll"
  PROVE  OfType(d, "DeployPoll") = OfType(c, "DeployPoll")
<1> DEFINE S == {e \in ToSet(c) : e.type = "DeployPoll"}
           T == {e \in ToSet(d) : e.type = "DeployPoll"}
<1>1. S = T
  OBVIOUS
<1>2. Lists(OfType(c, "DeployPoll"), S, Earlier) /\ Lists(OfType(d, "DeployPoll"), T, Earlier)
  BY ChainInKind, KindLists
<1> HIDE DEF S, T
<1> QED
  BY <1>1, <1>2, Orders, OneList

LEMMA PollAppended ==
  ASSUME NEW c, NEW d, Numbered(c), Numbered(d), NEW N, ToSet(d) = ToSet(c) \cup N,
         N \subseteq Events, Newer(ToSet(c), N),
         NEW y \in N, \A x \in N : x.type = "DeployPoll" <=> x = y
  PROVE  OfType(d, "DeployPoll") = Append(OfType(c, "DeployPoll"), y)
<1> DEFINE S == {e \in ToSet(c) : e.type = "DeployPoll"}
           T == {e \in ToSet(d) : e.type = "DeployPoll"}
<1>1. S \cup {y} = T
  OBVIOUS
<1>2. Lists(OfType(c, "DeployPoll"), S, Earlier) /\ Lists(OfType(d, "DeployPoll"), T, Earlier)
  BY ChainInKind, KindLists
<1>3. AllBefore(S, {y}, Earlier)
  <2>1. ToSet(c) \subseteq Events
    BY Numbering
  <2> QED
    BY <2>1 DEF AllBefore, Newer, Earlier
<1> HIDE DEF S, T
<1>4. Lists(Append(OfType(c, "DeployPoll"), y), S \cup {y}, Earlier)
  BY <1>2, <1>3, AppendedList
<1> QED
  BY <1>1, <1>2, <1>4, Orders, OneList

LEMMA PollsCountAfter ==
  ASSUME NEW c, NEW d, PollsCount(c), Numbered(c),
         NEW y, y.poll = Len(OfType(c, "DeployPoll")),
         OfType(d, "DeployPoll") = Append(OfType(c, "DeployPoll"), y)
  PROVE  PollsCount(d)
<1> DEFINE s == OfType(c, "DeployPoll")
           t == OfType(d, "DeployPoll")
           S == {e \in ToSet(c) : e.type = "DeployPoll"}
<1>1. Lists(s, S, Earlier)
  BY ChainInKind, KindLists
<1>2. s \in Seq(S) /\ Len(s) \in Nat /\ DOMAIN s = 1..Len(s)
  BY <1>1 DEF Lists
<1>3. \A k \in 1..Len(s) : s[k].poll = k - 1
  BY <1>2 DEF PollsCount
<1>4. t = Append(s, y) /\ y.poll = Len(s)
  OBVIOUS
<1> HIDE DEF s, t, S
<1>5. DOMAIN t = 1..(Len(s) + 1) /\ t[Len(s) + 1] = y /\ \A k \in 1..Len(s) : t[k] = s[k]
  BY <1>2, <1>4
<1>6. \A k \in 1..(Len(s) + 1) : k \in 1..Len(s) \/ (k = Len(s) + 1 /\ k - 1 = Len(s))
  BY <1>2
<1>7. \A k \in DOMAIN t : t[k].poll = k - 1
  BY <1>3, <1>4, <1>5, <1>6
<1> QED
  BY <1>7 DEF PollsCount, t

-----------------------------------------------------------------------------
NewEvents(evs) ==
  /\ evs \in Seq(Events)
  /\ \A k \in 1..Len(evs) : evs[k].n = Len(chain) + k /\ evs[k].block = head + 1
                            /\ evs[k].tx = transactions + 1

Emitted ==
  /\ transactions' = transactions + 1
  /\ head' = IF gen.at = "idle" THEN head ELSE head + 1
  /\ excused' = (excused \/ gen.at # "idle")
  /\ gen' = gen

DeployedBy(E, N) ==
  \A e \in N : e.poll # Everybody =>
    \E d \in E \cup N : d.type = "DeployPoll" /\ d.poll = e.poll
                        /\ (d \in E \/ d.tx = e.tx)

ChainNow ==
  /\ head \in Nat /\ transactions \in Nat
  /\ ChainOK(chain, head, transactions)

\* The chain has grown by the events N.
GrownBy(N) ==
  /\ ChainNow'
  /\ ToSet(chain)' = ToSet(chain) \cup N
  /\ N \subseteq Events /\ Newer(ToSet(chain), N) /\ Stamped(N, head, transactions)
  /\ Emitted

\* What holds of the chain is kept by what a transaction may emit.
LEMMA ChainGrows ==
  ASSUME ChainNow, NEW evs, NewEvents(evs), Emit(evs),
         Formed(ToSet(evs)), DeployedBy(ToSet(chain), ToSet(evs)),
         NewMerge(ToSet(chain), ToSet(evs)), PollsCount(chain \o evs)
  PROVE  GrownBy(ToSet(evs))
<1> DEFINE E == ToSet(chain)
           N == ToSet(evs)
<1>1. /\ head \in Nat /\ transactions \in Nat /\ Numbered(chain)
      /\ Timed(E, head, transactions) /\ Formed(E) /\ Deployed(E) /\ Merged(E)
  BY DEF ChainNow, ChainOK
<1>2. chain' = chain \o evs /\ Emitted
  BY DEF Emit, Emitted
<1>3. /\ Numbered(chain \o evs) /\ ToSet(chain \o evs) = E \cup N
      /\ Newer(E, N) /\ N \subseteq Events /\ E \subseteq Events
  BY <1>1, Longer, Numbering DEF NewEvents
<1>4. Stamped(N, head, transactions)
  BY Elements DEF NewEvents, Stamped
<1>5. transactions' = transactions + 1 /\ head' \in Nat /\ head <= head' /\ transactions' \in Nat
  BY <1>1, <1>2 DEF Emitted
<1>6. Formed(N) /\ DeployedBy(E, N) /\ NewMerge(E, N)
  OBVIOUS
<1>7. ToSet(chain)' = E \cup N
  BY <1>2, <1>3
<1> HIDE DEF E, N
<1>8. Timed(E \cup N, head', transactions')
  BY <1>1, <1>3, <1>4, <1>5, TimedGrows
<1>9. Merged(E \cup N)
  BY <1>1, <1>3, <1>4, <1>6, MergedGrows
<1>10. Formed(E \cup N)
  BY <1>1, <1>6 DEF Formed
<1>11. Deployed(E \cup N)
  <2> SUFFICES ASSUME NEW e \in E \cup N, e.poll # Everybody
               PROVE  \E d \in E \cup N : d.type = "DeployPoll" /\ d.poll = e.poll /\ d.tx <= e.tx
    BY DEF Deployed
  <2>1. CASE e \in E
    BY <1>1, <2>1 DEF Deployed
  <2>2. CASE e \in N
    <3>1. PICK d \in E \cup N : d.type = "DeployPoll" /\ d.poll = e.poll /\ (d \in E \/ d.tx = e.tx)
      BY <1>6, <2>2 DEF DeployedBy
    <3>2. CASE d \in E
      <4>1. d.tx \in 1..transactions /\ e.tx = transactions + 1
        BY <1>1, <1>4, <2>2, <3>2 DEF Timed, Stamped
      <4>2. d.tx <= e.tx
        BY <1>1, <4>1
      <4> QED
        BY <3>1, <4>2
    <3>3. CASE d.tx = e.tx
      <4>1. d.tx <= e.tx
        BY <1>1, <1>4, <2>2, <3>3 DEF Stamped
      <4> QED
        BY <3>1, <4>1
    <3> QED
      BY <3>1, <3>2, <3>3
  <2> QED
    BY <2>1, <2>2
<1>12. ChainOK(chain', head', transactions')
  <2>1. Numbered(chain') /\ PollsCount(chain') /\ ToSet(chain') = E \cup N
    BY <1>2, <1>3, <1>7
  <2> QED
    BY <1>8, <1>9, <1>10, <1>11, <2>1 DEF ChainOK
<1>13. ChainNow'
  BY <1>5, <1>12 DEF ChainNow
<1> QED
  BY <1>2, <1>3, <1>4, <1>7, <1>13 DEF GrownBy, E, N

EventIs(e, k, type, p, data) ==
  /\ e \in Events /\ e.n = Len(chain) + k /\ e.block = head + 1 /\ e.tx = transactions + 1
  /\ e.type = type /\ e.poll = p /\ e.data = data

\* The events the contracts emit.
LEMMA EventTyped ==
  ASSUME ChainNow, NEW k, k \in Nat, NEW type, type \in EventTypes, NEW p,
         p \in Nat \cup {Everybody}, NEW data, data \in Seq(Nat)
  PROVE  EventIs(Event(k, type, p, data), k, type, p, data)
<1>1. head \in Nat /\ transactions \in Nat /\ Len(chain) \in Nat
  BY Numbering DEF ChainNow, ChainOK
<1> QED
  BY <1>1 DEF Event, Events, EventIs

\* One event.
LEMMA OneEvent ==
  ASSUME ChainNow, NEW type \in EventTypes, NEW p \in Nat \cup {Everybody}, NEW data \in Seq(Nat),
         Emit(<<Event(1, type, p, data)>>), type # "DeployPoll",
         type = "SignUp" <=> p = Everybody,
         type \in OneDatum => data = <<Len(chain) + 1>>,
         p # Everybody => Has(chain, "DeployPoll", p),
         NewMerge(ToSet(chain), {Event(1, type, p, data)})
  PROVE  GrownBy({Event(1, type, p, data)})
<1> DEFINE e == Event(1, type, p, data)
           evs == <<e>>
<1>1. /\ e \in Events /\ e.n = Len(chain) + 1 /\ e.block = head + 1 /\ e.tx = transactions + 1
      /\ e.type = type /\ e.poll = p /\ e.data = data
  <2>1. EventIs(e, 1, type, p, data)
    BY EventTyped, 1 \in Nat
  <2> HIDE DEF e
  <2> QED
    BY <2>1 DEF EventIs
<1>2. Numbered(chain) /\ PollsCount(chain)
  BY DEF ChainNow, ChainOK
<1> HIDE DEF e
<1>3. evs \in Seq(Events) /\ Len(evs) = 1 /\ evs[1] = e /\ DOMAIN evs = {1} /\ ToSet(evs) = {e}
      /\ \A k \in 1..Len(evs) : k = 1
  BY <1>1 DEF ToSet
<1> HIDE DEF evs
<1>4. NewEvents(evs)
  BY <1>1, <1>3 DEF NewEvents
<1>5. Formed(ToSet(evs))
  BY <1>1, <1>3 DEF Formed
<1>6. DeployedBy(ToSet(chain), ToSet(evs))
  <2> SUFFICES ASSUME p # Everybody
               PROVE  \E d \in ToSet(chain) : d.type = "DeployPoll" /\ d.poll = p
    BY <1>1, <1>3 DEF DeployedBy
  <2>1. PICK k \in DOMAIN chain : chain[k].type = "DeployPoll" /\ chain[k].poll = p
    BY DEF Has
  <2> QED
    BY <2>1 DEF ToSet
<1>7. NewMerge(ToSet(chain), ToSet(evs))
  BY <1>3 DEF e
<1>8. PollsCount(chain \o evs)
  <2>1. Numbered(chain \o evs) /\ ToSet(chain \o evs) = ToSet(chain) \cup ToSet(evs)
    BY <1>2, <1>4, Longer DEF NewEvents
  <2>2. \A x \in ToSet(evs) : x.type # "DeployPoll"
    BY <1>1, <1>3
  <2>3. OfType(chain \o evs, "DeployPoll") = OfType(chain, "DeployPoll")
    BY <1>2, <2>1, <2>2, PollsKept
  <2> QED
    BY <1>2, <2>3 DEF PollsCount
<1>9. Emit(evs)
  BY DEF evs, e
<1>10. GrownBy(ToSet(evs))
  BY <1>4, <1>5, <1>6, <1>7, <1>8, <1>9, ChainGrows
<1> QED
  BY <1>3, <1>10 DEF e

\* How the phase of a merge goes on.
LEMMA PhaseAfterLeaves ==
  ASSUME NEW S, NEW T, NEW N, N # {}, Newer(S, N)
  PROVE  Phase(S, T \cup N) = AfterLeaf(Phase(S, T))
<1>1. CASE S = {}
  BY <1>1 DEF Phase, AfterLeaf
<1>2. CASE S # {}
  <2>1. \E y \in S, x \in T \cup N : y.n < x.n
    BY <1>2 DEF Newer
  <2>2. Phase(S, T \cup N) = "late" /\ Phase(S, T) # "no"
    BY <1>2, <2>1 DEF Phase
  <2> QED
    BY <2>2 DEF AfterLeaf
<1> QED
  BY <1>1, <1>2

LEMMA PhaseAfterMerge ==
  ASSUME NEW S, NEW T, NEW e, \A x \in T : ~ (e.n < x.n)
  PROVE  Phase(S \cup {e}, T) = AfterMerge(Phase(S, T))
BY DEF Phase, AfterMerge

\* The chain d is c with the events N after it.
Extends(c, d, N) ==
  /\ Numbered(c) /\ Numbered(d) /\ Formed(ToSet(c)) /\ Formed(ToSet(d))
  /\ ToSet(d) = ToSet(c) \cup N /\ N \subseteq Events /\ ToSet(c) \subseteq Events
  /\ Newer(ToSet(c), N)

LEMMA GrownExtends ==
  ASSUME ChainNow, NEW N, GrownBy(N)
  PROVE  Extends(chain, chain', N)
BY Numbering DEF ChainNow, ChainOK, GrownBy, Extends

LEMMA MoreNumbers ==
  ASSUME NEW E, NEW N, NEW types, NEW p
  PROVE  Numbers(Of(E \cup N, types, p)) = Numbers(Of(E, types, p)) \cup Numbers(Of(N, types, p))
BY DEF Numbers, Of

\* t is s and then xs.
GoesOn(s, t, xs) == t = s \o xs

\* Data go on with those of the new events.
LEMMA DataGrows ==
  ASSUME NEW c, NEW d, NEW N, Extends(c, d, N), NEW types, types \subseteq OneDatum, NEW p,
         NEW xs, Lists(xs, Numbers(Of(N, types, p)), Less)
  PROVE  GoesOn(DataOf(c, types, p), DataOf(d, types, p), xs)
<1> DEFINE S == Numbers(Of(ToSet(c), types, p))
           T == Numbers(Of(N, types, p))
<1>1. Lists(DataOf(c, types, p), S, Less)
  BY DataLists DEF Extends
<1>2. Lists(DataOf(d, types, p), S \cup T, Less)
  <2>1. Lists(DataOf(d, types, p), Numbers(Of(ToSet(d), types, p)), Less)
    BY DataLists DEF Extends
  <2>2. Numbers(Of(ToSet(d), types, p)) = S \cup T
    BY MoreNumbers DEF Extends
  <2> QED
    BY <2>1, <2>2
<1>3. AllBefore(S, T, Less)
  <2> SUFFICES ASSUME NEW e \in ToSet(c), NEW x \in N PROVE <<e.n, x.n>> \in Less
    BY DEF AllBefore, Numbers, Of
  <2> QED
    BY DEF Extends, Newer, Less, Events
<1> HIDE DEF S, T
<1>4. Lists(DataOf(c, types, p) \o xs, S \cup T, Less)
  BY <1>1, <1>3, JoinedLists DEF T
<1> QED
  BY <1>2, <1>4, OneList, Orders DEF GoesOn

\* With no new event of the types the data are as they were.
LEMMA DataKept ==
  ASSUME NEW c, NEW d, NEW N, Extends(c, d, N), NEW types, types \subseteq OneDatum, NEW p,
         \A x \in N : x.type \in types => x.poll # p
  PROVE  DataOf(d, types, p) = DataOf(c, types, p) /\ DataOf(c, types, p) \in Seq(Nat)
<1> DEFINE s == DataOf(c, types, p)
           S == Numbers(Of(ToSet(c), types, p))
<1>1. Numbers(Of(N, types, p)) = {}
  BY DEF Numbers, Of
<1> DEFINE none == << >>
<1>2. Lists(none, Numbers(Of(N, types, p)), Less)
  BY <1>1, NothingListed
<1>3. GoesOn(s, DataOf(d, types, p), none)
  <2> HIDE DEF none
  <2>1. Extends(c, d, N) /\ types \subseteq OneDatum
    OBVIOUS
  <2> QED
    BY <1>2, <2>1, DataGrows
<1>4. Lists(s, S, Less)
  BY DataLists DEF Extends
<1>5. S \subseteq Nat
  BY DEF Numbers, Of, Extends, Events
<1> HIDE DEF s, S
<1>6. s \in Seq(Nat)
  BY <1>4, <1>5, SeqMonotonic DEF Lists
<1> QED
  BY <1>3, <1>6, ConcatEmptySeq DEF s, GoesOn

-----------------------------------------------------------------------------
(***************************************************************************)
(* The queues hold what the events say, and have room for it.              *)
(***************************************************************************)
StateQueueOK(aq, c) ==
  /\ QueueOf(aq, <<Blank>> \o UsersIn(c), StatePhase(ToSet(c)))
  /\ 1 + Len(UsersIn(c)) <= hashLength ^ stateTreeDepth
MessageQueueOK(aq, c, p) ==
  /\ QueueOf(aq, MessagesIn(c, p), MessagePhase(ToSet(c), p))
  /\ Len(MessagesIn(c, p)) <= hashLength ^ messageTreeDepth

QueuesOK ==
  /\ StateQueueOK(stateAq, chain)
  /\ DOMAIN messageAq = 0..(MaxPolls - 1)
  /\ \A p \in 0..(MaxPolls - 1) :
       Has(chain, "DeployPoll", p) => MessageQueueOK(messageAq[p], chain, p)

\* The events that change a queue.
StateQueueTypes == {"SignUp", "MergeMaciStateAqSubRoots"}
PollQueueTypes == MessageTypes \cup {"DeployPoll", "MergeMessageAqSubRoots"}

\* Other events leave a queue what it is, if it was changed to one that holds
\* the same.
LEMMA StateFrame ==
  ASSUME NEW c, NEW d, NEW N, Extends(c, d, N), \A x \in N : x.type \notin StateQueueTypes,
         NEW aq, StateQueueOK(aq, c), NEW bq, QueueOf(bq, <<Blank>> \o UsersIn(c), StatePhase(ToSet(c)))
  PROVE  StateQueueOK(bq, d)
<1>1. UsersIn(d) = UsersIn(c)
  <2>1. {"SignUp"} \subseteq OneDatum /\ \A x \in N : x.type \in {"SignUp"} => x.poll # Everybody
    BY DEF OneDatum, StateQueueTypes
  <2>2. DataOf(d, {"SignUp"}, Everybody) = DataOf(c, {"SignUp"}, Everybody)
    BY <2>1, DataKept
  <2> QED
    BY <2>2 DEF UsersIn
<1>2. StatePhase(ToSet(d)) = StatePhase(ToSet(c))
  <2>1. {e \in ToSet(d) : e.type = "MergeMaciStateAqSubRoots"}
        = {e \in ToSet(c) : e.type = "MergeMaciStateAqSubRoots"}
    BY DEF Extends, StateQueueTypes
  <2>2. Of(ToSet(d), {"SignUp"}, Everybody) = Of(ToSet(c), {"SignUp"}, Everybody)
    BY DEF Extends, StateQueueTypes, Of
  <2> QED
    BY <2>1, <2>2 DEF StatePhase
<1> QED
  BY <1>1, <1>2 DEF StateQueueOK

LEMMA MessageFrame ==
  ASSUME NEW c, NEW d, NEW N, Extends(c, d, N), NEW p,
         \A x \in N : x.poll = p => x.type \notin PollQueueTypes,
         NEW aq, MessageQueueOK(aq, c, p), NEW bq, QueueOf(bq, MessagesIn(c, p), MessagePhase(ToSet(c), p))
  PROVE  MessageQueueOK(bq, d, p)
<1>1. MessagesIn(d, p) = MessagesIn(c, p)
  <2>1. MessageTypes \subseteq OneDatum /\ \A x \in N : x.type \in MessageTypes => x.poll # p
    BY DEF OneDatum, PollQueueTypes
  <2>2. DataOf(d, MessageTypes, p) = DataOf(c, MessageTypes, p)
    BY <2>1, DataKept
  <2> QED
    BY <2>2 DEF MessagesIn
<1>2. MessagePhase(ToSet(d), p) = MessagePhase(ToSet(c), p)
  <2>1. Of(ToSet(d), {"MergeMessageAqSubRoots"}, p) = Of(ToSet(c), {"MergeMessageAqSubRoots"}, p)
    BY DEF Extends, PollQueueTypes, Of
  <2>2. Of(ToSet(d), MessageTypes, p) = Of(ToSet(c), MessageTypes, p)
    BY DEF Extends, PollQueueTypes, Of
  <2> QED
    BY <2>1, <2>2 DEF MessagePhase
<1> QED
  BY <1>1, <1>2 DEF MessageQueueOK

LEMMA HasGrown ==
  ASSUME NEW c, NEW d, NEW N, Extends(c, d, N), NEW p,
         \A x \in N : x.poll = p => x.type # "DeployPoll"
  PROVE  Has(d, "DeployPoll", p) => Has(c, "DeployPoll", p)
BY DEF Has, Extends, ToSet

\* The queues of the polls but q are as they were.
LEMMA PollsFrame ==
  ASSUME QueuesOK, NEW N, Extends(chain, chain', N), NEW q,
         \A x \in N : x.poll # q => x.type \notin PollQueueTypes,
         DOMAIN messageAq' = DOMAIN messageAq,
         \A p \in 0..(MaxPolls - 1) : p # q => messageAq'[p] = messageAq[p],
         q \in 0..(MaxPolls - 1) => MessageQueueOK(messageAq'[q], chain', q),
         StateQueueOK(stateAq', chain')
  PROVE  QueuesOK'
<1>1. ASSUME NEW p \in 0..(MaxPolls - 1), Has(chain', "DeployPoll", p), p # q
      PROVE  MessageQueueOK(messageAq'[p], chain', p)
  <2> DEFINE c == chain
             d == chain'
             aq == messageAq[p]
  <2>1. \A x \in N : x.poll = p => x.type \notin PollQueueTypes
    BY <1>1
  <2>2. \A x \in N : x.poll = p => x.type # "DeployPoll"
    BY <2>1 DEF PollQueueTypes
  <2>3. Extends(c, d, N)
    OBVIOUS
  <2>4. Has(c, "DeployPoll", p)
    <3>1. Has(d, "DeployPoll", p)
      BY <1>1
    <3> HIDE DEF c, d
    <3> QED
      BY <2>2, <2>3, <3>1, HasGrown
  <2>5. MessageQueueOK(aq, c, p) /\ messageAq'[p] = aq
    BY <1>1, <2>4 DEF QueuesOK
  <2> HIDE DEF c, d, aq
  <2>6. MessageQueueOK(aq, d, p)
    BY <2>1, <2>3, <2>5, MessageFrame DEF MessageQueueOK
  <2> QED
    BY <2>5, <2>6 DEF d
<1>2. \A p \in 0..(MaxPolls - 1) : Has(chain', "DeployPoll", p) => MessageQueueOK(messageAq'[p], chain', p)
  BY <1>1
<1>3. DOMAIN messageAq' = 0..(MaxPolls - 1)
  BY DEF QueuesOK
<1> QED
  BY <1>2, <1>3 DEF QueuesOK

\* The sizes of the trees.
LEMMA PowersGrow ==
  ASSUME NEW d \in Levels
  PROVE  /\ hashLength ^ d \in Nat /\ 1 <= hashLength ^ d
         /\ d # 0 => 2 <= hashLength ^ d
         /\ hashLength ^ d <= hashLength ^ MAX_DEPTH
<1> DEFINE w == hashLength ^ d
           n == MAX_DEPTH - d
           S == {k \in 0..n : w <= hashLength ^ (d + k)}
<1>1. d \in Nat /\ n \in Nat /\ d + 0 = d /\ d + n = MAX_DEPTH /\ d \in 0..(MAX_DEPTH + 1)
      /\ hashLength \in Nat /\ hashLength >= 2
  BY AccQueueConstants DEF Levels
<1>2. w \in Nat /\ w >= 1
  BY <1>1, PowerFacts
<1>3. 0 \in S
  BY <1>1, <1>2
<1>4. ASSUME NEW k \in 0..(n - 1), k \in S PROVE k + 1 \in S
  <2> DEFINE v == hashLength ^ (d + k)
  <2>1. /\ d + k \in 0..(MAX_DEPTH + 1) /\ d + k \in 0..MAX_DEPTH /\ d + (k + 1) = (d + k) + 1
        /\ k + 1 \in 0..n
    BY <1>1
  <2>2. v \in Nat /\ w <= v
    BY <1>4, <2>1, PowerFacts
  <2>3. hashLength ^ (d + (k + 1)) = hashLength * v
    BY <2>1, PowersOfHashLength
  <2> HIDE DEF v, w
  <2>4. v <= hashLength * v /\ hashLength * v \in Nat
    BY <1>1, <2>2
  <2>5. w <= hashLength * v
    BY <1>2, <2>2, <2>4
  <2> QED
    BY <2>1, <2>3, <2>5
<1> HIDE DEF S
<1>5. 0..n \subseteq S
  BY <1>1, <1>3, <1>4, RangeInduction
<1>6. n \in S
  BY <1>1, <1>5
<1>7. w <= hashLength ^ MAX_DEPTH
  BY <1>1, <1>6 DEF S
<1>8. ASSUME d # 0 PROVE 2 <= w
  <2> DEFINE v == hashLength ^ (d - 1)
  <2>1. d - 1 \in 0..(MAX_DEPTH + 1) /\ d - 1 \in 0..MAX_DEPTH /\ (d - 1) + 1 = d
    BY <1>1, <1>8
  <2>2. v \in Nat /\ v >= 1
    BY <2>1, PowerFacts
  <2>3. hashLength ^ ((d - 1) + 1) = hashLength * v
    BY <2>1, PowersOfHashLength
  <2>4. w = hashLength * v
    BY <2>1, <2>3
  <2> HIDE DEF v, w
  <2> QED
    BY <1>1, <2>2, <2>4
<1> QED
  BY <1>2, <1>7, <1>8

LEMMA TreeSizes ==
  /\ stateTreeDepth \in Levels /\ messageTreeDepth \in Levels
  /\ \A d \in {stateTreeDepth, messageTreeDepth} :
       hashLength ^ d \in Nat /\ 2 <= hashLength ^ d /\ hashLength ^ d <= hashLength ^ MAX_DEPTH
<1>1. stateTreeDepth \in Levels \ {0} /\ messageTreeDepth \in Levels \ {0}
  BY GenMaciStateConstants
<1>2. \A d \in Levels \ {0} :
        hashLength ^ d \in Nat /\ 2 <= hashLength ^ d /\ hashLength ^ d <= hashLength ^ MAX_DEPTH
  BY PowersGrow
<1> QED
  BY <1>1, <1>2

-----------------------------------------------------------------------------
\* Each operation of the contracts emits such events and keeps the queues.
LEMMA NotHas ==
  ASSUME NEW c, NEW type, NEW p, ~ Has(c, type, p)
  PROVE  \A x \in ToSet(c) : ~ (x.type = type /\ x.poll = p)
BY DEF Has, ToSet

\* The users and the messages on the chain.
LEMMA Listings ==
  ASSUME ChainNow
  PROVE  /\ Numbered(chain) /\ Len(chain) \in Nat
         /\ UsersIn(chain) \in Seq(Nat) /\ Lists(UsersIn(chain), UsersOf(ToSet(chain)), Less)
         /\ \A p : /\ MessagesIn(chain, p) \in Seq(Nat)
                   /\ Lists(MessagesIn(chain, p), MessagesOf(ToSet(chain), p), Less)
<1>1. Numbered(chain) /\ Formed(ToSet(chain))
  BY DEF ChainNow, ChainOK
<1>2. ASSUME NEW types, types \subseteq OneDatum, NEW p
      PROVE  /\ DataOf(chain, types, p) \in Seq(Nat)
             /\ Lists(DataOf(chain, types, p), Numbers(Of(ToSet(chain), types, p)), Less)
  <2> DEFINE S == Numbers(Of(ToSet(chain), types, p))
             s == DataOf(chain, types, p)
  <2>1. Lists(s, S, Less)
    BY <1>1, <1>2, DataLists
  <2>2. S \subseteq Nat
    BY <1>1, Numbering DEF Numbers, Of, Events
  <2> HIDE DEF s, S
  <2>3. s \in Seq(Nat)
    BY <2>1, <2>2, SeqMonotonic DEF Lists
  <2> QED
    BY <2>1, <2>3 DEF s, S
<1>3. {"SignUp"} \subseteq OneDatum /\ MessageTypes \subseteq OneDatum
  BY DEF OneDatum
<1> QED
  BY <1>1, <1>2, <1>3, Numbering DEF UsersIn, UsersOf, MessagesIn, MessagesOf

\* The number of the event that is emitted is the list of the new numbers.
LEMMA NewNumber ==
  ASSUME NEW e, NEW types, NEW p, e.type \in types, e.poll = p
  PROVE  Lists(<<e.n>>, Numbers(Of({e}, types, p)), Less)
<1>1. Numbers(Of({e}, types, p)) = {e.n}
  BY DEF Numbers, Of
<1> QED
  BY <1>1, OneListed

LEMMA SignUpGrows ==
  ASSUME ChainNow, QueuesOK, signUp
  PROVE  \E N : GrownBy(N) /\ QueuesOK'
<1> DEFINE n == Len(chain) + 1
           e == Event(1, "SignUp", Everybody, <<n>>)
           s == <<Blank>> \o UsersIn(chain)
           d == chain'
<1>1. n \in Nat /\ <<n>> \in Seq(Nat) /\ "SignUp" \in EventTypes /\ Everybody \in Nat \cup {Everybody}
  BY Listings DEF EventTypes
<1>2. e.type = "SignUp" /\ e.poll = Everybody /\ e.n = n
  <2>1. EventIs(e, 1, "SignUp", Everybody, <<n>>)
    BY <1>1, EventTyped, 1 \in Nat, 2 \in Nat
  <2> HIDE DEF e
  <2> QED
    BY <2>1 DEF EventIs
<1>3. NewMerge(ToSet(chain), {e})
  BY <1>2 DEF NewMerge, MergeTypes
<1>4. GrownBy({e})
  BY <1>1, <1>3, OneEvent DEF signUp
<1> HIDE DEF e, d, n
<1>5. Extends(chain, d, {e})
  BY <1>4, GrownExtends DEF d
<1>6. /\ stateAq' = enqueue(stateAq, n) /\ messageAq' = messageAq
      /\ 1 + Len(UsersIn(chain)) < hashLength ^ stateTreeDepth
  BY DEF signUp, n, numSignUps
<1>7. UsersIn(d) = UsersIn(chain) \o <<n>>
  <2>1. Lists(<<n>>, Numbers(Of({e}, {"SignUp"}, Everybody)), Less)
    BY <1>2, NewNumber
  <2> DEFINE xs == <<n>>
             types == {"SignUp"}
             N == {e}
             c == chain
  <2>2. types \subseteq OneDatum
    BY DEF OneDatum
  <2>3. Extends(c, d, N) /\ Lists(xs, Numbers(Of(N, types, Everybody)), Less)
    BY <1>5, <2>1
  <2> HIDE DEF xs, types, N, c
  <2>4. GoesOn(DataOf(c, types, Everybody), DataOf(d, types, Everybody), xs)
    BY <2>2, <2>3, DataGrows
  <2> QED
    BY <2>4 DEF UsersIn, xs, types, c, GoesOn
<1>8. StatePhase(ToSet(d)) = AfterLeaf(StatePhase(ToSet(chain)))
  <2> DEFINE S == {x \in ToSet(chain) : x.type = "MergeMaciStateAqSubRoots"}
             T == Of(ToSet(chain), {"SignUp"}, Everybody)
  <2>1. {x \in ToSet(d) : x.type = "MergeMaciStateAqSubRoots"} = S
    BY <1>2, <1>5 DEF Extends
  <2>2. Of(ToSet(d), {"SignUp"}, Everybody) = T \cup {e}
    BY <1>2, <1>5 DEF Extends, Of
  <2>3. Newer(S, {e}) /\ {e} # {}
    BY <1>5 DEF Extends, Newer
  <2> HIDE DEF S, T
  <2>4. Phase(S, T \cup {e}) = AfterLeaf(Phase(S, T))
    BY <2>3, PhaseAfterLeaves
  <2> QED
    BY <2>1, <2>2, <2>4 DEF StatePhase, S, T
<1>9. <<Blank>> \in Seq(Nat) /\ UsersIn(chain) \in Seq(Nat)
  BY BlankIsNumber, Listings
<1>10. s \o <<n>> = <<Blank>> \o UsersIn(d) /\ Len(UsersIn(d)) = Len(UsersIn(chain)) + 1
  <2> DEFINE a == <<Blank>>
             b == UsersIn(chain)
             w == <<n>>
  <2>1. a \in Seq(Nat) /\ b \in Seq(Nat) /\ w \in Seq(Nat) /\ Len(w) = 1 /\ UsersIn(d) = b \o w
    BY <1>1, <1>7, <1>9
  <2> HIDE DEF a, b, w
  <2>2. \A x, y, z \in Seq(Nat) : x \o (y \o z) = (x \o y) \o z
    BY Associates
  <2>3. a \o (b \o w) = (a \o b) \o w
    BY <2>1, <2>2
  <2>4. Len(b \o w) = Len(b) + 1
    <3>1. Len(b \o w) = Len(b) + Len(w)
      BY <2>1, ConcatProperties
    <3> QED
      BY <2>1, <3>1
  <2> QED
    BY <2>1, <2>3, <2>4 DEF a, b, w
<1>11. StateQueueOK(stateAq', d)
  <2>1. QueueOf(stateAq, s, StatePhase(ToSet(chain)))
    BY DEF QueuesOK, StateQueueOK
  <2> HIDE DEF s
  <2>2. QueueOf(enqueue(stateAq, n), s \o <<n>>, AfterLeaf(StatePhase(ToSet(chain))))
    BY <1>1, <2>1, LeafQueued
  <2>3. 1 + Len(UsersIn(d)) <= hashLength ^ stateTreeDepth
    <3>1. hashLength ^ stateTreeDepth \in Nat /\ Len(UsersIn(chain)) \in Nat
      BY <1>9, TreeSizes, LenProperties
    <3> QED
      BY <1>6, <1>10, <3>1
  <2> QED
    BY <1>6, <1>8, <1>10, <2>2, <2>3 DEF StateQueueOK
<1>12. QueuesOK'
  <2>1. \A x \in {e} : x.poll # Everybody => x.type \notin PollQueueTypes
    BY <1>2
  <2>2. Everybody \notin 0..(MaxPolls - 1)
    BY DEF Everybody
  <2> QED
    BY <1>5, <1>6, <1>11, <2>1, <2>2, PollsFrame DEF d
<1> QED
  BY <1>4, <1>12


\* Messages after those in the queue.
LEMMA MessagesQueued ==
  ASSUME NEW c, NEW d, NEW N, Extends(c, d, N), NEW p,
         \A x \in N : x.type # "MergeMessageAqSubRoots",
         NEW xs \in Seq(Nat), Lists(xs, MessagesOf(N, p), Less),
         NEW aq, MessageQueueOK(aq, c, p),
         Len(MessagesIn(c, p)) + Len(xs) <= hashLength ^ messageTreeDepth
  PROVE  MessageQueueOK(EnqueueAll(aq, xs), d, p)
<1> DEFINE s == MessagesIn(c, p)
           phase == MessagePhase(ToSet(c), p)
           S == Of(ToSet(c), {"MergeMessageAqSubRoots"}, p)
           T == Of(ToSet(c), MessageTypes, p)
           X == Of(N, MessageTypes, p)
<1>1. MessagesIn(d, p) = s \o xs
  <2> DEFINE types == MessageTypes
  <2>1. types \subseteq OneDatum /\ Lists(xs, Numbers(Of(N, types, p)), Less)
    BY DEF OneDatum, MessagesOf
  <2> HIDE DEF types
  <2>2. GoesOn(DataOf(c, types, p), DataOf(d, types, p), xs)
    BY <2>1, DataGrows
  <2> QED
    BY <2>2 DEF GoesOn, MessagesIn, types
<1>2. MessagePhase(ToSet(d), p) = IF xs = << >> THEN phase ELSE AfterLeaf(phase)
  <2>1. Of(ToSet(d), {"MergeMessageAqSubRoots"}, p) = S /\ Of(ToSet(d), MessageTypes, p) = T \cup X
    BY DEF Extends, Of
  <2>2. Newer(S, X)
    BY DEF Extends, Newer, Of
  <2>3. xs = << >> <=> X = {}
    <3>1. Len(xs) \in Nat /\ (\A i \in 1..Len(xs) : xs[i] \in Numbers(X))
          /\ \A x \in Numbers(X) : \E i \in 1..Len(xs) : x = xs[i]
      BY ListsDef DEF MessagesOf
    <3>2. Numbers(X) = {} <=> X = {}
      BY DEF Numbers
    <3>3. xs = << >> <=> Len(xs) = 0
      BY EmptySeq
    <3> HIDE DEF X
    <3>4. CASE Len(xs) = 0
      BY <3>1, <3>2, <3>3, <3>4
    <3>5. CASE Len(xs) # 0
      <4>1. 1 \in 1..Len(xs)
        BY <3>1, <3>5
      <4> QED
        BY <3>1, <3>2, <3>3, <3>5, <4>1
    <3> QED
      BY <3>4, <3>5
  <2> HIDE DEF S, T, X
  <2>4. X # {} => Phase(S, T \cup X) = AfterLeaf(Phase(S, T))
    BY <2>2, PhaseAfterLeaves
  <2>5. T \cup {} = T
    OBVIOUS
  <2> QED
    BY <2>1, <2>3, <2>4, <2>5 DEF MessagePhase, S, T
<1>3. QueueOf(aq, s, phase) /\ s \in Seq(Nat)
  BY DEF MessageQueueOK, QueueOf
<1> HIDE DEF s, phase
<1>4. QueueOf(EnqueueAll(aq, xs), s \o xs, IF xs = << >> THEN phase ELSE AfterLeaf(phase))
  BY <1>3, LeavesQueued
<1>5. Len(s \o xs) = Len(s) + Len(xs)
  BY <1>3, ConcatProperties
<1> QED
  BY <1>1, <1>2, <1>4, <1>5 DEF MessageQueueOK, s

LEMMA PublishGrows ==
  ASSUME ChainNow, QueuesOK, NEW p \in 0..(MaxPolls - 1), NEW types \in MessageLists, publish(p, types)
  PROVE  \E N : GrownBy(N) /\ QueuesOK'
<1> DEFINE evs == [k \in DOMAIN types |-> Event(k, types[k], p, <<Len(chain) + k>>)]
           xs == [k \in DOMAIN types |-> Len(chain) + k]
           L == Len(types)
           N == ToSet(evs)
<1>0. p \in Nat
  BY GenMaciStateConstants
<1>1. types \in Seq(MessageTypes) /\ L \in Nat /\ DOMAIN types = 1..L
      /\ \A k \in 1..L : types[k] \in MessageTypes
  <2>1. types \in Seq(MessageTypes)
    BY GenMaciStateConstants
  <2> QED
    BY <2>1, ElementOfSeq
<1>2. Numbered(chain) /\ PollsCount(chain) /\ Len(chain) \in Nat
  BY Numbering DEF ChainNow, ChainOK
<1>3. MessageTypes \subseteq EventTypes /\ p \in Nat \cup {Everybody} /\ p # Everybody
      /\ "SignUp" \notin MessageTypes /\ "DeployPoll" \notin MessageTypes
      /\ \A t \in MergeTypes : t \notin MessageTypes
  BY <1>0 DEF MessageTypes, EventTypes, Everybody, MergeTypes
<1> HIDE DEF L
<1>4. ASSUME NEW k \in 1..L
      PROVE  /\ evs[k] \in Events /\ evs[k].n = Len(chain) + k /\ evs[k].block = head + 1
             /\ evs[k].tx = transactions + 1 /\ evs[k].type \in MessageTypes /\ evs[k].poll = p
             /\ evs[k].data = <<Len(chain) + k>>
  <2>1. k \in Nat /\ types[k] \in EventTypes /\ <<Len(chain) + k>> \in Seq(Nat)
    BY <1>1, <1>2, <1>3
  <2>2. evs[k] = Event(k, types[k], p, <<Len(chain) + k>>)
    BY <1>1
  <2> HIDE DEF evs
  <2>3. EventIs(Event(k, types[k], p, <<Len(chain) + k>>), k, types[k], p, <<Len(chain) + k>>)
    BY <1>3, <2>1, EventTyped
  <2>4. EventIs(evs[k], k, types[k], p, <<Len(chain) + k>>)
    BY <2>2, <2>3
  <2> QED
    BY <1>1, <2>4 DEF EventIs
<1>5. DOMAIN evs = 1..L
  BY <1>1
<1> HIDE DEF evs
<1>6. evs \in Seq(Events) /\ Len(evs) = L
  <2>1. evs \in [1..L -> Events]
    <3>1. evs = [k \in 1..L |-> evs[k]]
      BY <1>1 DEF evs
    <3> QED
      BY <1>4, <3>1
  <2> QED
    BY <1>1, <2>1, Listed
<1>7. NewEvents(evs)
  BY <1>4, <1>6 DEF NewEvents
<1>8. \A x \in N : x.type \in MessageTypes /\ x.poll = p /\ x.data = <<x.n>>
  BY <1>4, <1>5 DEF ToSet
<1>9. N = {evs[k] : k \in 1..L}
  BY <1>5 DEF ToSet
<1> HIDE DEF N
<1>10. NewMerge(ToSet(chain), N) /\ Formed(N)
  BY <1>3, <1>8 DEF NewMerge, Formed
<1>11. DeployedBy(ToSet(chain), N)
  <2>1. PICK k \in DOMAIN chain : chain[k].type = "DeployPoll" /\ chain[k].poll = p
    BY DEF publish, Has
  <2>2. chain[k] \in ToSet(chain)
    BY DEF ToSet
  <2> QED
    BY <1>8, <2>1, <2>2 DEF DeployedBy
<1>12. PollsCount(chain \o evs)
  <2>1. Numbered(chain \o evs) /\ ToSet(chain \o evs) = ToSet(chain) \cup N
    BY <1>2, <1>7, Longer DEF NewEvents, N
  <2>2. \A x \in N : x.type # "DeployPoll"
    BY <1>3, <1>8
  <2>3. OfType(chain \o evs, "DeployPoll") = OfType(chain, "DeployPoll")
    BY <1>2, <2>1, <2>2, PollsKept
  <2> QED
    BY <1>2, <2>3 DEF PollsCount
<1>13. Emit(evs)
  BY DEF publish, evs
<1>14. GrownBy(N)
  BY <1>7, <1>10, <1>11, <1>12, <1>13, ChainGrows DEF N
<1> DEFINE d == chain'
<1>15. Extends(chain, d, N)
  BY <1>14, GrownExtends
<1>16. xs \in Seq(Nat) /\ Len(xs) = L /\ DOMAIN xs = 1..L /\ \A k \in 1..L : xs[k] = Len(chain) + k
  <2>1. xs = [k \in 1..L |-> Len(chain) + k]
    BY <1>1
  <2>2. xs \in [1..L -> Nat]
    BY <1>2, <2>1
  <2> QED
    BY <1>1, <2>1, <2>2, Listed
<1> HIDE DEF xs, d
<1>17. Lists(xs, MessagesOf(N, p), Less)
  <2> DEFINE M == MessagesOf(N, p)
  <2>1. M = {xs[k] : k \in 1..L}
    BY <1>4, <1>8, <1>9, <1>16 DEF MessagesOf, Numbers, Of
  <2> HIDE DEF M
  <2>2. xs \in Seq(M)
    <3>1. xs \in [1..L -> M]
      BY <1>16, <2>1
    <3> QED
      BY <1>1, <3>1, Listed
  <2>3. \A i, j \in 1..L : i < j => <<xs[i], xs[j]>> \in Less
    BY <1>1, <1>2, <1>16 DEF Less
  <2>4. Lists(xs, M, Less)
    BY <1>1, <1>16, <2>1, <2>2, <2>3, ListsDef
  <2> QED
    BY <2>4 DEF M
<1>18. /\ messageAq' = [messageAq EXCEPT ![p] = EnqueueAll(@, xs)] /\ stateAq' = stateAq
       /\ Has(chain, "DeployPoll", p)
       /\ Len(MessagesIn(chain, p)) + Len(xs) <= hashLength ^ messageTreeDepth
  BY <1>16 DEF publish, xs, L
<1>19. MessageQueueOK(messageAq'[p], d, p)
  <2>1. MessageQueueOK(messageAq[p], chain, p) /\ messageAq'[p] = EnqueueAll(messageAq[p], xs)
    BY <1>18 DEF QueuesOK
  <2>2. \A x \in N : x.type # "MergeMessageAqSubRoots"
    BY <1>8 DEF MessageTypes
  <2> DEFINE c == chain
             aq == messageAq[p]
  <2>3. /\ Extends(c, d, N) /\ MessageQueueOK(aq, c, p)
        /\ Len(MessagesIn(c, p)) + Len(xs) <= hashLength ^ messageTreeDepth
    BY <1>15, <1>18, <2>1
  <2> HIDE DEF c, aq
  <2>4. MessageQueueOK(EnqueueAll(aq, xs), d, p)
    BY <1>16, <1>17, <2>2, <2>3, MessagesQueued
  <2> QED
    BY <2>1, <2>4 DEF aq
<1>20. StateQueueOK(stateAq', d)
  <2> DEFINE c == chain
             aq == stateAq
  <2>1. \A x \in N : x.type \notin StateQueueTypes
    BY <1>8 DEF MessageTypes, StateQueueTypes
  <2>2. Extends(c, d, N) /\ StateQueueOK(aq, c)
    BY <1>15 DEF QueuesOK
  <2> HIDE DEF c, aq
  <2>3. StateQueueOK(aq, d)
    BY <2>1, <2>2, StateFrame DEF StateQueueOK
  <2> QED
    BY <1>18, <2>3 DEF aq
<1>21. QueuesOK'
  <2>1. /\ \A x \in N : x.poll # p => x.type \notin PollQueueTypes
        /\ DOMAIN messageAq' = DOMAIN messageAq
        /\ \A q \in 0..(MaxPolls - 1) : q # p => messageAq'[q] = messageAq[q]
    BY <1>8, <1>18 DEF QueuesOK
  <2> QED
    BY <1>15, <1>19, <1>20, <2>1, PollsFrame DEF d
<1> QED
  BY <1>14, <1>21

\* Nothing has happened to a poll that is not deployed yet.
LEMMA NoPollYet ==
  ASSUME ChainNow
  PROVE  nextPollId \in Nat /\ \A x \in ToSet(chain) : x.poll # nextPollId
<1> DEFINE s == OfType(chain, "DeployPoll")
           S == {e \in ToSet(chain) : e.type = "DeployPoll"}
<1>1. Numbered(chain) /\ PollsCount(chain) /\ Deployed(ToSet(chain))
  BY DEF ChainNow, ChainOK
<1>2. Lists(s, S, Earlier)
  BY <1>1, ChainInKind, KindLists
<1>3. /\ Len(s) \in Nat /\ DOMAIN s = 1..Len(s) /\ nextPollId = Len(s)
      /\ \A x \in S : \E i \in 1..Len(s) : x = s[i]
  BY <1>2, ListsDef DEF nextPollId
<1>4. \A k \in 1..Len(s) : s[k].poll = k - 1
  BY <1>1, <1>3 DEF PollsCount
<1>5. ASSUME NEW x \in ToSet(chain), x.poll = nextPollId PROVE FALSE
  <2>1. x.poll # Everybody
    BY <1>3, <1>5 DEF Everybody
  <2>2. PICK y \in S : y.poll = x.poll
    BY <1>1, <2>1 DEF Deployed
  <2> HIDE DEF S, s
  <2>3. PICK i \in 1..Len(s) : y = s[i]
    BY <1>3, <2>2
  <2>4. i - 1 = Len(s)
    BY <1>3, <1>4, <1>5, <2>2, <2>3
  <2> QED
    BY <1>3, <2>4
<1> QED
  BY <1>3, <1>5

\* A leaf is enqueued as a list of one.
LEMMA OneEnqueued ==
  ASSUME NEW aq, Stored(Nat, aq), NEW x \in Nat
  PROVE  EnqueueAll(aq, <<x>>) = enqueue(aq, x)
<1> DEFINE xs == <<x>>
<1>1. xs \in Seq(Nat) /\ Len(xs) = 1 /\ xs[1] = x
  OBVIOUS
<1> HIDE DEF xs
<1>2. /\ Queueing(aq, xs)[0] = aq /\ EnqueueAll(aq, xs) = Queueing(aq, xs)[1]
      /\ \A i \in 0..(Len(xs) - 1) : Queueing(aq, xs)[i + 1] = enqueue(Queueing(aq, xs)[i], xs[i + 1])
  BY <1>1, QueueingDef
<1>3. 0 \in 0..(Len(xs) - 1) /\ 0 + 1 = 1
  BY <1>1
<1>4. EnqueueAll(aq, xs) = enqueue(aq, x)
  BY <1>1, <1>2, <1>3
<1> QED
  BY <1>4 DEF xs

LEMMA DeployGrows ==
  ASSUME ChainNow, QueuesOK, deployPoll
  PROVE  \E N : GrownBy(N) /\ QueuesOK'
<1> DEFINE p == nextPollId
           n == Len(chain) + 1
           a == Event(1, "PublishMessage", p, <<n>>)
           b == Event(2, "DeployPoll", p, << >>)
           evs == <<a, b>>
           N == ToSet(evs)
<1>1. Numbered(chain) /\ PollsCount(chain) /\ Len(chain) \in Nat /\ n \in Nat
  BY Numbering DEF ChainNow, ChainOK
<1>2. p \in Nat /\ p = Len(OfType(chain, "DeployPoll")) /\ \A x \in ToSet(chain) : x.poll # p
  BY NoPollYet DEF nextPollId
<1>0. /\ p \in 0..(MaxPolls - 1) /\ stateAq' = stateAq
      /\ messageAq' = [messageAq EXCEPT ![p] = enqueue(NewAccQueue, n)]
  BY <1>2, GenMaciStateConstants DEF deployPoll
<1>6. Emit(evs)
  BY DEF deployPoll
<1> HIDE DEF p, n
<1>3. p \in Nat \cup {Everybody} /\ p # Everybody /\ "PublishMessage" \in EventTypes
      /\ "DeployPoll" \in EventTypes /\ << >> \in Seq(Nat) /\ <<n>> \in Seq(Nat)
  BY <1>1, <1>2 DEF EventTypes, Everybody
<1>4. /\ a \in Events /\ a.n = n /\ a.block = head + 1 /\ a.tx = transactions + 1
      /\ a.type = "PublishMessage" /\ a.poll = p /\ a.data = <<n>>
  <2>1. EventIs(a, 1, "PublishMessage", p, <<n>>)
    BY <1>3, EventTyped, 1 \in Nat, 2 \in Nat
  <2> HIDE DEF a
  <2> QED
    BY <2>1 DEF EventIs, n
<1>5. /\ b \in Events /\ b.n = Len(chain) + 2 /\ b.block = head + 1 /\ b.tx = transactions + 1
      /\ b.type = "DeployPoll" /\ b.poll = p
  <2>1. EventIs(b, 2, "DeployPoll", p, << >>)
    BY <1>3, EventTyped, 1 \in Nat, 2 \in Nat
  <2> HIDE DEF b
  <2> QED
    BY <2>1 DEF EventIs
<1> HIDE DEF a, b
<1>7. evs \in Seq(Events) /\ Len(evs) = 2 /\ evs[1] = a /\ evs[2] = b /\ N = {a, b}
      /\ \A k \in 1..Len(evs) : k = 1 \/ k = 2
  <2>1. DOMAIN evs = {1, 2}
    OBVIOUS
  <2>2. N = {a, b}
    BY <2>1 DEF ToSet
  <2> QED
    BY <1>4, <1>5, <2>2
<1> HIDE DEF evs, N
<1>8. NewEvents(evs)
  BY <1>4, <1>5, <1>7 DEF NewEvents, n
<1>9. Formed(N)
  BY <1>3, <1>4, <1>5, <1>7 DEF Formed, OneDatum, MessageTypes
<1>10. NewMerge(ToSet(chain), N)
  BY <1>4, <1>5, <1>7 DEF NewMerge, MergeTypes
<1>11. DeployedBy(ToSet(chain), N)
  BY <1>4, <1>5, <1>7 DEF DeployedBy
<1>12. PollsCount(chain \o evs)
  <2>1. Numbered(chain \o evs) /\ ToSet(chain \o evs) = ToSet(chain) \cup N
        /\ Newer(ToSet(chain), N) /\ N \subseteq Events
    BY <1>1, <1>8, Longer DEF NewEvents, N
  <2>2. b \in N /\ \A x \in N : x.type = "DeployPoll" <=> x = b
    BY <1>4, <1>5, <1>7
  <2>3. OfType(chain \o evs, "DeployPoll") = Append(OfType(chain, "DeployPoll"), b)
    BY <1>1, <2>1, <2>2, PollAppended
  <2> QED
    BY <1>1, <1>2, <1>5, <2>3, PollsCountAfter
<1>13. GrownBy(N)
  BY <1>6, <1>8, <1>9, <1>10, <1>11, <1>12, ChainGrows DEF N
<1> DEFINE c == chain
           d == chain'
           xs == <<n>>
<1>14. Extends(c, d, N) /\ Numbered(c)
  BY <1>1, <1>13, GrownExtends
<1>15. \A x \in ToSet(c) : x.poll # p
  BY <1>2
<1> HIDE DEF c, d
<1>16. MessageQueueOK(NewAccQueue, c, p) /\ MessagesIn(c, p) = << >>
  <2>1. Of(ToSet(c), MessageTypes, p) = {} /\ Of(ToSet(c), {"MergeMessageAqSubRoots"}, p) = {}
    BY <1>15 DEF Of
  <2>2. MessagePhase(ToSet(c), p) = "no"
    BY <2>1 DEF MessagePhase, Phase
  <2>3. MessagesIn(c, p) = << >>
    <3> DEFINE types == MessageTypes
               s == DataOf(c, types, p)
               none == << >>
    <3>1. types \subseteq OneDatum /\ Formed(ToSet(c)) /\ Numbers(Of(ToSet(c), types, p)) = {}
      BY <1>14, <2>1 DEF OneDatum, Extends, Numbers
    <3> HIDE DEF types
    <3>2. Lists(s, Numbers(Of(ToSet(c), types, p)), Less)
      BY <1>14, <3>1, DataLists
    <3>3. Lists(s, {}, Less) /\ Lists(none, {}, Less)
      BY <3>1, <3>2, NothingListed
    <3> HIDE DEF s, none
    <3>4. s = none
      BY <3>3, Orders, OneList
    <3> QED
      BY <3>4 DEF MessagesIn, s, none, types
  <2>4. Len(<< >>) <= hashLength ^ messageTreeDepth
    <3>1. hashLength ^ messageTreeDepth \in Nat
      BY TreeSizes
    <3> QED
      BY <3>1
  <2> QED
    BY <2>2, <2>3, <2>4, NewQueueOf DEF MessageQueueOK
<1>17. xs \in Seq(Nat) /\ Len(xs) = 1 /\ Lists(xs, MessagesOf(N, p), Less)
  <2>1. MessagesOf(N, p) = {n}
    BY <1>4, <1>5, <1>7 DEF MessagesOf, Numbers, Of, MessageTypes
  <2> QED
    BY <1>1, <2>1, OneListed
<1> HIDE DEF xs
<1>18. MessageQueueOK(messageAq'[p], d, p)
  <2>1. \A x \in N : x.type # "MergeMessageAqSubRoots"
    BY <1>4, <1>5, <1>7
  <2>2. Len(MessagesIn(c, p)) + Len(xs) <= hashLength ^ messageTreeDepth
    <3>1. hashLength ^ messageTreeDepth \in Nat /\ 2 <= hashLength ^ messageTreeDepth
      BY TreeSizes
    <3>2. Len(MessagesIn(c, p)) = 0
      BY <1>16
    <3> QED
      BY <1>17, <3>1, <3>2
  <2> DEFINE aq == NewAccQueue
  <2>3. MessageQueueOK(aq, c, p)
    BY <1>16
  <2> HIDE DEF aq
  <2>4. MessageQueueOK(EnqueueAll(aq, xs), d, p)
    BY <1>14, <1>17, <2>1, <2>2, <2>3, MessagesQueued
  <2>5. EnqueueAll(aq, xs) = enqueue(NewAccQueue, n)
    BY <1>1, NewQueueOf, OneEnqueued DEF QueueOf, xs, aq
  <2>6. messageAq'[p] = enqueue(NewAccQueue, n)
    BY <1>0 DEF QueuesOK
  <2> QED
    BY <2>4, <2>5, <2>6
<1>19. StateQueueOK(stateAq', d)
  <2> DEFINE aq == stateAq
  <2>1. \A x \in N : x.type \notin StateQueueTypes
    BY <1>4, <1>5, <1>7 DEF StateQueueTypes
  <2>2. StateQueueOK(aq, c)
    BY DEF QueuesOK, c
  <2> HIDE DEF aq
  <2>3. StateQueueOK(aq, d)
    BY <1>14, <2>1, <2>2, StateFrame DEF StateQueueOK
  <2> QED
    BY <1>0, <2>3 DEF aq
<1>20. QueuesOK'
  <2>1. /\ \A x \in N : x.poll # p => x.type \notin PollQueueTypes
        /\ DOMAIN messageAq' = DOMAIN messageAq
        /\ \A q \in 0..(MaxPolls - 1) : q # p => messageAq'[q] = messageAq[q]
    BY <1>0, <1>4, <1>5, <1>7 DEF QueuesOK
  <2> QED
    BY <1>14, <1>18, <1>19, <2>1, PollsFrame DEF c, d
<1> QED
  BY <1>13, <1>20

\* A merge of subroots has no data.
LEMMA SubRootsEvent ==
  ASSUME ChainNow, NEW p \in Nat, NEW type \in {"MergeMessageAqSubRoots", "MergeMaciStateAqSubRoots"},
         Has(chain, "DeployPoll", p), NEW e, e = Event(1, type, p, << >>), Emit(<<e>>)
  PROVE  e.type = type /\ e.poll = p /\ e.n = Len(chain) + 1 /\ GrownBy({e})
<1>1. /\ type \in EventTypes /\ p \in Nat \cup {Everybody} /\ p # Everybody /\ type \notin OneDatum
      /\ type # "DeployPoll" /\ type # "SignUp" /\ type \notin MergeTypes /\ << >> \in Seq(Nat)
  BY DEF EventTypes, Everybody, OneDatum, MessageTypes, MergeTypes
<1>2. EventIs(e, 1, type, p, << >>)
  BY <1>1, EventTyped, 1 \in Nat
<1>3. e.type = type /\ e.poll = p /\ e.n = Len(chain) + 1
  BY <1>2 DEF EventIs
<1>4. NewMerge(ToSet(chain), {e})
  BY <1>1, <1>3 DEF NewMerge
<1>5. GrownBy({e})
  BY <1>1, <1>4, OneEvent
<1> QED
  BY <1>3, <1>5

LEMMA MessageSubRootsGrows ==
  ASSUME ChainNow, QueuesOK, NEW p \in 0..(MaxPolls - 1), NEW lim \in NumSrQueueOps,
         mergeMessageAqSubRoots(p, lim)
  PROVE  \E N : GrownBy(N) /\ QueuesOK'
<1> DEFINE e == Event(1, "MergeMessageAqSubRoots", p, << >>)
           c == chain
           d == chain'
           aq == messageAq[p]
           s == MessagesIn(c, p)
           phase == MessagePhase(ToSet(c), p)
<1>1. /\ Has(chain, "DeployPoll", p) /\ CanMergeSubRoots(aq) /\ stateAq' = stateAq /\ Emit(<<e>>)
      /\ messageAq' = [messageAq EXCEPT ![p] = mergeSubRoots(@, lim)] /\ p \in Nat /\ lim \in Nat
  BY GenMaciStateConstants DEF mergeMessageAqSubRoots
<1> HIDE DEF e
<1>2. e.type = "MergeMessageAqSubRoots" /\ e.poll = p /\ GrownBy({e})
  BY <1>1, SubRootsEvent DEF e
<1>3. Extends(c, d, {e})
  BY <1>2, GrownExtends
<1>4. MessageQueueOK(aq, c, p) /\ StateQueueOK(stateAq, c) /\ messageAq'[p] = mergeSubRoots(aq, lim)
  BY <1>1 DEF QueuesOK
<1> HIDE DEF c, d, aq
<1>5. QueueOf(mergeSubRoots(aq, lim), s, AfterMerge(phase))
  <2>1. QueueOf(aq, s, phase) /\ Len(s) <= hashLength ^ messageTreeDepth /\ s \in Seq(Nat)
    BY <1>4 DEF MessageQueueOK, QueueOf
  <2> HIDE DEF s, phase
  <2>2. Len(s) \in Nat /\ Len(s) <= hashLength ^ MAX_DEPTH
    <3>1. messageTreeDepth \in Levels /\ hashLength ^ messageTreeDepth \in Nat
          /\ hashLength ^ messageTreeDepth <= hashLength ^ MAX_DEPTH
      BY TreeSizes
    <3>2. hashLength ^ MAX_DEPTH \in Nat
      BY AccQueueConstants, PowerFacts
    <3> QED
      BY <2>1, <3>1, <3>2, LenProperties
  <2> QED
    BY <1>1, <2>1, <2>2, SubRootsQueued
<1>6. MessagesIn(d, p) = s
  <2> DEFINE types == MessageTypes
             N == {e}
  <2>1. types \subseteq OneDatum /\ (\A x \in N : x.type \in types => x.poll # p) /\ Extends(c, d, N)
    BY <1>2, <1>3 DEF OneDatum, MessageTypes
  <2> HIDE DEF types, N
  <2>2. DataOf(d, types, p) = DataOf(c, types, p)
    BY <2>1, DataKept
  <2> QED
    BY <2>2 DEF MessagesIn, types
<1>7. MessagePhase(ToSet(d), p) = AfterMerge(phase)
  <2> DEFINE S == Of(ToSet(c), {"MergeMessageAqSubRoots"}, p)
             T == Of(ToSet(c), MessageTypes, p)
  <2>1. Of(ToSet(d), {"MergeMessageAqSubRoots"}, p) = S \cup {e} /\ Of(ToSet(d), MessageTypes, p) = T
    BY <1>2, <1>3 DEF Extends, Of, MessageTypes
  <2>2. \A x \in T : ~ (e.n < x.n)
    <3> SUFFICES ASSUME NEW x \in ToSet(c) PROVE ~ (e.n < x.n)
      BY DEF Of
    <3>1. x.n < e.n /\ x.n \in Nat /\ e.n \in Nat
      BY <1>3 DEF Extends, Newer, Events
    <3> QED
      BY <3>1
  <2> HIDE DEF S, T
  <2>3. Phase(S \cup {e}, T) = AfterMerge(Phase(S, T))
    BY <2>2, PhaseAfterMerge
  <2> QED
    BY <2>1, <2>3 DEF MessagePhase, S, T
<1>8. MessageQueueOK(messageAq'[p], d, p)
  BY <1>4, <1>5, <1>6, <1>7 DEF MessageQueueOK
<1>9. StateQueueOK(stateAq', d)
  <2> DEFINE bq == stateAq
             N == {e}
  <2>1. (\A x \in N : x.type \notin StateQueueTypes) /\ Extends(c, d, N) /\ StateQueueOK(bq, c)
    BY <1>2, <1>3, <1>4 DEF StateQueueTypes
  <2> HIDE DEF bq, N
  <2>2. StateQueueOK(bq, d)
    BY <2>1, StateFrame DEF StateQueueOK
  <2> QED
    BY <1>1, <2>2 DEF bq
<1>10. QueuesOK'
  <2> DEFINE N == {e}
  <2>1. /\ \A x \in N : x.poll # p => x.type \notin PollQueueTypes
        /\ DOMAIN messageAq' = DOMAIN messageAq
        /\ \A q \in 0..(MaxPolls - 1) : q # p => messageAq'[q] = messageAq[q]
    BY <1>1, <1>2 DEF QueuesOK
  <2> HIDE DEF N
  <2> QED
    BY <1>3, <1>8, <1>9, <2>1, PollsFrame DEF c, d, N
<1> QED
  BY <1>2, <1>10

LEMMA StateSubRootsGrows ==
  ASSUME ChainNow, QueuesOK, NEW p \in 0..(MaxPolls - 1), NEW lim \in NumSrQueueOps,
         mergeMaciStateAqSubRoots(p, lim)
  PROVE  \E N : GrownBy(N) /\ QueuesOK'
<1> DEFINE e == Event(1, "MergeMaciStateAqSubRoots", p, << >>)
           c == chain
           d == chain'
           aq == stateAq
           users == UsersIn(c)
           s == <<Blank>> \o users
           phase == StatePhase(ToSet(c))
<1>1. /\ Has(chain, "DeployPoll", p) /\ CanMergeSubRoots(aq) /\ messageAq' = messageAq /\ Emit(<<e>>)
      /\ stateAq' = mergeSubRoots(aq, lim) /\ p \in Nat /\ lim \in Nat
  BY GenMaciStateConstants DEF mergeMaciStateAqSubRoots
<1> HIDE DEF e
<1>2. e.type = "MergeMaciStateAqSubRoots" /\ e.poll = p /\ GrownBy({e})
  BY <1>1, SubRootsEvent DEF e
<1>3. Extends(c, d, {e})
  BY <1>2, GrownExtends
<1>4. StateQueueOK(aq, c) /\ users \in Seq(Nat)
  BY Listings DEF QueuesOK
<1> HIDE DEF c, d, aq
<1>5. QueueOf(mergeSubRoots(aq, lim), s, AfterMerge(phase))
  <2>1. QueueOf(aq, s, phase) /\ 1 + Len(users) <= hashLength ^ stateTreeDepth /\ s \in Seq(Nat)
    BY <1>4 DEF StateQueueOK, QueueOf
  <2>2. Len(s) = 1 + Len(users)
    <3> DEFINE a == <<Blank>>
    <3>1. a \in Seq(Nat) /\ Len(a) = 1
      BY BlankIsNumber
    <3> HIDE DEF a, users
    <3>2. Len(a \o users) = Len(a) + Len(users)
      BY <1>4, <3>1, ConcatProperties
    <3> QED
      BY <3>1, <3>2 DEF a
  <2> HIDE DEF s, phase, users
  <2>3. Len(s) \in Nat /\ Len(s) <= hashLength ^ MAX_DEPTH
    <3>1. stateTreeDepth \in Levels /\ hashLength ^ stateTreeDepth \in Nat
          /\ hashLength ^ stateTreeDepth <= hashLength ^ MAX_DEPTH
      BY TreeSizes
    <3>2. hashLength ^ MAX_DEPTH \in Nat
      BY AccQueueConstants, PowerFacts
    <3> QED
      BY <2>1, <2>2, <3>1, <3>2, LenProperties
  <2> QED
    BY <1>1, <2>1, <2>3, SubRootsQueued
<1>6. UsersIn(d) = users
  <2> DEFINE types == {"SignUp"}
             N == {e}
  <2>1. /\ types \subseteq OneDatum /\ (\A x \in N : x.type \in types => x.poll # Everybody)
        /\ Extends(c, d, N)
    BY <1>2, <1>3 DEF OneDatum
  <2> HIDE DEF types, N
  <2>2. DataOf(d, types, Everybody) = DataOf(c, types, Everybody)
    BY <2>1, DataKept
  <2> QED
    BY <2>2 DEF UsersIn, types
<1>7. StatePhase(ToSet(d)) = AfterMerge(phase)
  <2> DEFINE S == {x \in ToSet(c) : x.type = "MergeMaciStateAqSubRoots"}
             T == Of(ToSet(c), {"SignUp"}, Everybody)
  <2>1. /\ {x \in ToSet(d) : x.type = "MergeMaciStateAqSubRoots"} = S \cup {e}
        /\ Of(ToSet(d), {"SignUp"}, Everybody) = T
    BY <1>2, <1>3 DEF Extends, Of
  <2>2. \A x \in T : ~ (e.n < x.n)
    <3> SUFFICES ASSUME NEW x \in ToSet(c) PROVE ~ (e.n < x.n)
      BY DEF Of
    <3>1. x.n < e.n /\ x.n \in Nat /\ e.n \in Nat
      BY <1>3 DEF Extends, Newer, Events
    <3> QED
      BY <3>1
  <2> HIDE DEF S, T
  <2>3. Phase(S \cup {e}, T) = AfterMerge(Phase(S, T))
    BY <2>2, PhaseAfterMerge
  <2> QED
    BY <2>1, <2>3 DEF StatePhase, S, T
<1>8. StateQueueOK(stateAq', d)
  BY <1>1, <1>4, <1>5, <1>6, <1>7 DEF StateQueueOK
<1>9. QueuesOK'
  <2> DEFINE N == {e}
  <2>1. /\ \A x \in N : x.poll # Everybody => x.type \notin PollQueueTypes
        /\ DOMAIN messageAq' = DOMAIN messageAq /\ Everybody \notin 0..(MaxPolls - 1)
        /\ \A q \in 0..(MaxPolls - 1) : q # Everybody => messageAq'[q] = messageAq[q]
    BY <1>1, <1>2 DEF PollQueueTypes, MessageTypes, Everybody
  <2> HIDE DEF N
  <2> QED
    BY <1>3, <1>8, <2>1, PollsFrame DEF c, d, N
<1> QED
  BY <1>2, <1>9

LEMMA MergeMessagesGrows ==
  ASSUME ChainNow, QueuesOK, NEW p \in 0..(MaxPolls - 1), mergeMessageAq(p)
  PROVE  \E N : GrownBy(N) /\ QueuesOK'
<1> DEFINE aq == messageAq[p]
           root == MergedRoot(aq, messageTreeDepth)
           e == Event(1, "MergeMessageAq", p, root)
           c == chain
           d == chain'
           s == MessagesIn(c, p)
           phase == MessagePhase(ToSet(c), p)
<1>1. /\ Has(chain, "DeployPoll", p) /\ CanMerge(aq, messageTreeDepth) /\ stateAq' = stateAq
      /\ messageAq' = [messageAq EXCEPT ![p] = merge(@, messageTreeDepth)] /\ p \in Nat
      /\ Emit(<<e>>)
  BY GenMaciStateConstants DEF mergeMessageAq
<1>2. MessageQueueOK(aq, c, p) /\ StateQueueOK(stateAq, c) /\ messageAq'[p] = merge(aq, messageTreeDepth)
  BY <1>1 DEF QueuesOK
<1> HIDE DEF aq
<1>3. /\ QueueOf(merge(aq, messageTreeDepth), s, phase) /\ root \in Seq(Nat)
      /\ phase # "late" => root = RootOf(s, messageTreeDepth)
  <2>1. QueueOf(aq, s, phase) /\ messageTreeDepth \in Levels
    BY <1>2, TreeSizes DEF MessageQueueOK
  <2> HIDE DEF s, phase
  <2> QED
    BY <1>1, <2>1, RootMerged
<1> HIDE DEF root
<1>4. /\ "MergeMessageAq" \in EventTypes /\ p \in Nat \cup {Everybody} /\ p # Everybody
      /\ "MergeMessageAq" \notin OneDatum
  BY <1>1 DEF EventTypes, Everybody, OneDatum, MessageTypes
<1>5. e.type = "MergeMessageAq" /\ e.poll = p /\ e.data = root
  <2>1. EventIs(e, 1, "MergeMessageAq", p, root)
    BY <1>3, <1>4, EventTyped, 1 \in Nat
  <2> HIDE DEF e
  <2> QED
    BY <2>1 DEF EventIs
<1>6. NewMerge(ToSet(chain), {e})
  <2>1. Lists(s, MessagesOf(ToSet(c), p), Less)
    BY Listings
  <2>2. MessagesMerged(ToSet(c), p, root)
    BY <1>3, <2>1 DEF MessagesMerged
  <2> HIDE DEF e
  <2> QED
    BY <1>5, <2>2 DEF NewMerge
<1>7. GrownBy({e})
  BY <1>1, <1>3, <1>4, <1>6, OneEvent
<1> HIDE DEF e, c, d
<1>8. Extends(c, d, {e})
  BY <1>7, GrownExtends DEF c, d
<1>9. MessageQueueOK(messageAq'[p], d, p)
  <2> DEFINE N == {e}
             bq == merge(aq, messageTreeDepth)
  <2>1. (\A x \in N : x.poll = p => x.type \notin PollQueueTypes) /\ Extends(c, d, N)
    BY <1>5, <1>8 DEF PollQueueTypes, MessageTypes
  <2>2. QueueOf(bq, MessagesIn(c, p), MessagePhase(ToSet(c), p))
    BY <1>3
  <2> HIDE DEF N, bq, s, phase
  <2>3. MessageQueueOK(bq, d, p)
    BY <1>2, <2>1, <2>2, MessageFrame
  <2> QED
    BY <1>2, <2>3 DEF bq
<1>10. StateQueueOK(stateAq', d)
  <2> DEFINE bq == stateAq
             N == {e}
  <2>1. (\A x \in N : x.type \notin StateQueueTypes) /\ Extends(c, d, N) /\ StateQueueOK(bq, c)
    BY <1>2, <1>5, <1>8 DEF StateQueueTypes
  <2> HIDE DEF bq, N
  <2>2. StateQueueOK(bq, d)
    BY <2>1, StateFrame DEF StateQueueOK
  <2> QED
    BY <1>1, <2>2 DEF bq
<1>11. QueuesOK'
  <2> DEFINE N == {e}
  <2>1. /\ \A x \in N : x.poll # p => x.type \notin PollQueueTypes
        /\ DOMAIN messageAq' = DOMAIN messageAq
        /\ \A q \in 0..(MaxPolls - 1) : q # p => messageAq'[q] = messageAq[q]
    BY <1>1, <1>5 DEF QueuesOK
  <2> HIDE DEF N
  <2> QED
    BY <1>8, <1>9, <1>10, <2>1, PollsFrame DEF c, d, N
<1> QED
  BY <1>7, <1>11

\* The users of the chain after the blank leaf.
LEMMA StateListed ==
  ASSUME ChainNow
  PROVE  LET s == <<Blank>> \o UsersIn(chain)
         IN  /\ s \in Seq(Nat) /\ Len(s) = numSignUps
             /\ Lists(s, {Blank} \cup UsersOf(ToSet(chain)), Less)
<1> DEFINE b == <<Blank>>
           u == UsersIn(chain)
           U == UsersOf(ToSet(chain))
<1>1. b \in Seq(Nat) /\ Len(b) = 1 /\ u \in Seq(Nat) /\ Lists(u, U, Less)
  BY BlankIsNumber, Listings
<1>2. U \subseteq Nat \ {0} /\ \A x \in U : x > 0
  <2>1. Numbered(chain)
    BY Listings
  <2> QED
    BY <2>1, Numbering DEF UsersOf, Numbers, Of
<1>3. Lists(b, {Blank}, Less) /\ AllBefore({Blank}, U, Less)
  BY <1>2, BlankIsNumber, OneListed DEF AllBefore, Less
<1>4. numSignUps = 1 + Len(u)
  BY DEF numSignUps
<1> HIDE DEF b, u, U
<1>5. b \o u \in Seq(Nat) /\ Len(b \o u) = Len(b) + Len(u)
  BY <1>1, ConcatProperties
<1>6. Lists(b \o u, {Blank} \cup U, Less)
  BY <1>1, <1>3, JoinedLists
<1> QED
  BY <1>1, <1>4, <1>5, <1>6 DEF b, u, U

LEMMA MergeStateGrows ==
  ASSUME ChainNow, QueuesOK, NEW p \in 0..(MaxPolls - 1), mergeMaciStateAq(p)
  PROVE  \E N : GrownBy(N) /\ QueuesOK'
<1> DEFINE aq == stateAq
           root == MergedRoot(aq, stateTreeDepth)
           data == <<numSignUps>> \o root
           e == Event(1, "MergeMaciStateAq", p, data)
           c == chain
           d == chain'
           s == <<Blank>> \o UsersIn(c)
           phase == StatePhase(ToSet(c))
<1>1. /\ Has(chain, "DeployPoll", p) /\ CanMerge(aq, stateTreeDepth) /\ messageAq' = messageAq
      /\ stateAq' = merge(aq, stateTreeDepth) /\ p \in Nat
      /\ Emit(<<e>>) /\ ~Has(chain, "MergeMaciStateAq", p)
  BY GenMaciStateConstants DEF mergeMaciStateAq
<1>2. StateQueueOK(aq, c)
  BY DEF QueuesOK
<1> HIDE DEF aq
<1>3. /\ QueueOf(merge(aq, stateTreeDepth), s, phase) /\ root \in Seq(Nat)
      /\ phase # "late" => root = RootOf(s, stateTreeDepth)
  <2>1. QueueOf(aq, s, phase) /\ stateTreeDepth \in Levels
    BY <1>2, TreeSizes DEF StateQueueOK
  <2> HIDE DEF s, phase
  <2> QED
    BY <1>1, <2>1, RootMerged
<1> HIDE DEF root
<1>4. Len(s) = numSignUps /\ s \in Seq(Nat) /\ Lists(s, {Blank} \cup UsersOf(ToSet(c)), Less)
  BY StateListed
<1>5. data \in Seq(Nat) /\ data # << >> /\ Head(data) = Len(s) /\ Tail(data) = root
  <2>1. numSignUps \in Nat
    BY <1>4, LenProperties
  <2> HIDE DEF s
  <2> QED
    BY <1>3, <1>4, <2>1
<1> HIDE DEF data
<1>6. /\ "MergeMaciStateAq" \in EventTypes /\ p \in Nat \cup {Everybody} /\ p # Everybody
      /\ "MergeMaciStateAq" \notin OneDatum
  BY <1>1 DEF EventTypes, Everybody, OneDatum, MessageTypes
<1>7. e.type = "MergeMaciStateAq" /\ e.poll = p /\ e.data = data
  <2>1. EventIs(e, 1, "MergeMaciStateAq", p, data)
    BY <1>5, <1>6, EventTyped, 1 \in Nat
  <2> HIDE DEF e
  <2> QED
    BY <2>1 DEF EventIs
<1>8. NewMerge(ToSet(chain), {e})
  <2>1. \A x \in ToSet(chain) : ~ (x.type = "MergeMaciStateAq" /\ x.poll = p)
    BY <1>1, NotHas
  <2>2. StateMerged(ToSet(c), data)
    <3> HIDE DEF s
    <3> QED
      BY <1>3, <1>4, <1>5 DEF StateMerged
  <2> HIDE DEF e
  <2> QED
    BY <1>7, <2>1, <2>2 DEF NewMerge
<1>9. GrownBy({e})
  BY <1>1, <1>5, <1>6, <1>8, OneEvent
<1> HIDE DEF e, c, d
<1>10. Extends(c, d, {e})
  BY <1>9, GrownExtends DEF c, d
<1>11. StateQueueOK(stateAq', d)
  <2> DEFINE bq == merge(aq, stateTreeDepth)
             N == {e}
  <2>1. (\A x \in N : x.type \notin StateQueueTypes) /\ Extends(c, d, N)
    BY <1>7, <1>10 DEF StateQueueTypes
  <2>2. QueueOf(bq, <<Blank>> \o UsersIn(c), StatePhase(ToSet(c)))
    BY <1>3
  <2> HIDE DEF bq, N, s, phase
  <2>3. StateQueueOK(bq, d)
    BY <1>2, <2>1, <2>2, StateFrame
  <2> QED
    BY <1>1, <2>3 DEF bq
<1>12. QueuesOK'
  <2> DEFINE N == {e}
  <2>1. /\ \A x \in N : x.poll # Everybody => x.type \notin PollQueueTypes
        /\ DOMAIN messageAq' = DOMAIN messageAq /\ Everybody \notin 0..(MaxPolls - 1)
        /\ \A q \in 0..(MaxPolls - 1) : q # Everybody => messageAq'[q] = messageAq[q]
    BY <1>1, <1>7 DEF PollQueueTypes, MessageTypes, Everybody
  <2> HIDE DEF N
  <2> QED
    BY <1>10, <1>11, <2>1, PollsFrame DEF c, d, N
<1> QED
  BY <1>9, <1>12

-----------------------------------------------------------------------------
(***************************************************************************)
(* The call.                                                               *)
(***************************************************************************)
Phases == {"maciLogs", "pollLogs", "counts", "root", "returned", "threw"}

Fields ==
  {"at", "pollId", "fromBlock", "lastBlock", "i", "logs", "polls", "leaves", "messages",
   "stateLeaves"}

Known == ToSet(chain)

MixedIn(E, p) ==
  \E e, x \in E : /\ e.tx = x.tx /\ e.poll = p /\ x.poll = p
                  /\ e.type = "PublishMessage" /\ x.type = "TopupMessage"

\* No root of the poll p, and no root of the users that it has, came late.
Prompt(E, p) ==
  \A e \in E : e.poll = p =>
    /\ e.type = "MergeMessageAq" => MessagePhase(Until(E, e), p) # "late"
    /\ e.type = "MergeMaciStateAq" => StatePhase(Until(E, e)) # "late"

\* A call that is given all events of a chain at rest, for a poll that is
\* merged in time.
QuietCall ==
  /\ gen.fromBlock <= 1 /\ gen.lastBlock >= head
  /\ \E e \in Known : e.type = "MergeMaciStateAq" /\ e.poll = gen.pollId
  /\ Prompt(Known, gen.pollId) /\ ~MixedIn(Known, gen.pollId)

CallOK ==
  /\ DOMAIN gen = Fields /\ gen.at \in Phases
  /\ gen.pollId \in Nat /\ gen.fromBlock \in Nat /\ gen.lastBlock \in Nat /\ gen.i \in Nat
  /\ \A e \in Known : e.block <= head
  /\ ~excused => QuietCall

\* What was fetched is events of the chain, those of each type in their order.
LogsOf(L, E, p) ==
  /\ Lists(L, ToSet(L), InKind)
  /\ ToSet(L) \subseteq E
  /\ \A e \in ToSet(L) : e.type \in MaciTypes \/ (e.type \in PollTypes /\ e.poll = p)

\* The events of the types in the blocks before b, of poll p or of all.
Fetched(T, E, types, p, b) ==
  \A e \in E : e.type \in types /\ (p = Everybody \/ e.poll = p) /\ e.block < b => e \in T

MaciLogsOK ==
  gen.at = "maciLogs" =>
    /\ \A e \in ToSet(gen.logs) : e.type \in MaciTypes /\ e.block < gen.i
    /\ ~excused => Fetched(ToSet(gen.logs), Known, MaciTypes, Everybody, gen.i)

PollLogsOK ==
  gen.at = "pollLogs" =>
    /\ \A e \in ToSet(gen.logs) : e.type \in PollTypes => e.block < gen.i
    /\ PollsFound
    /\ ~excused => /\ Fetched(ToSet(gen.logs), Known, MaciTypes, Everybody, head + 1)
                   /\ Fetched(ToSet(gen.logs), Known, PollTypes, gen.pollId, gen.i)

\* The root is of a beginning of the messages.
Commits(root, messages) ==
  \E u \in Seq(Nat \ {0}) : RootOf(u, messageTreeDepth) = root /\ IsStart(u, messages)

\* The state that was rebuilt: in every case some users after the blank leaf,
\* some messages, and what every root of messages among the events is of.
ReplayOK ==
  gen.at \in {"counts", "root", "returned"} =>
    /\ gen.polls[gen.pollId + 1] = gen.pollId
    /\ Lists(gen.leaves, ToSet(gen.leaves), Less) /\ Blank \in ToSet(gen.leaves)
    /\ ToSet(gen.leaves) \subseteq {Blank} \cup UsersOf(Known)
    /\ gen.messages \in Seq(Nat)
    /\ \A e \in ToSet(gen.logs) : e.type = "MergeMessageAq" => Commits(e.data, gen.messages)
    /\ ~MixedIn(Known, gen.pollId) =>
         /\ Lists(gen.messages, ToSet(gen.messages), Less)
         /\ ToSet(gen.messages) \subseteq MessagesOf(Known, gen.pollId)
    /\ ~excused => /\ ToSet(gen.messages) = MessagesOf(Known, gen.pollId)
                   /\ ToSet(gen.leaves) = {Blank} \cup UsersOf(Known)

\* Only the first leaf is blank.
BlankThenUsers(leaves) ==
  /\ leaves \in Seq(Nat)
  /\ \A i \in 1..Len(leaves) : leaves[i] = Blank <=> i = 1

CountsOK ==
  gen.at \in {"root", "returned"} =>
    /\ ~MixedIn(Known, gen.pollId) =>
         AllBefore(ToSet(gen.messages), MessagesOf(Known, gen.pollId) \ ToSet(gen.messages), Less)
    /\ BlankThenUsers(gen.stateLeaves)
    /\ ~excused => StateRootAgrees

CallInv ==
  /\ CallOK /\ LogsOf(gen.logs, Known, gen.pollId)
  /\ MaciLogsOK /\ PollLogsOK /\ ReplayOK /\ CountsOK
  /\ gen.at = "returned" => StateRootAgrees
  /\ gen.at = "threw" => excused

GenInv ==
  /\ ChainNow /\ QueuesOK /\ excused \in BOOLEAN
  /\ gen.at = "idle" => gen = NoCall
  /\ gen.at # "idle" => CallInv

-----------------------------------------------------------------------------
\* The invariant holds at the start: the chain has a poll and no call runs.
LEMMA Idle == NoCall.at = "idle"
BY DEF NoCall

\* The queues hold the leaves of the first poll and of the first user.
LEMMA StartingQueues ==
  ASSUME Init, ChainNow, NEW a, NEW b, NEW u, ToSet(chain) \in {{a, b}, {a, b, u}},
         a.type = "PublishMessage" /\ a.poll = 0 /\ a.n = 1, b.type = "DeployPoll" /\ b.poll = 0,
         u.type = "SignUp"
  PROVE  QueuesOK
<1> DEFINE users == UsersIn(chain)
           U == UsersOf(ToSet(chain))
           b0 == <<Blank>>
           none == << >>
<1>1. /\ stateAq = EnqueueAll(FirstAq, users) /\ FirstAq = enqueue(NewAccQueue, Blank)
      /\ messageAq = [p \in 0..(MaxPolls - 1) |-> IF p = 0 THEN enqueue(NewAccQueue, 1) ELSE NewAccQueue]
  BY DEF Init, FirstAq
<1>2. users \in Seq(Nat) /\ Lists(users, U, Less) /\ U \subseteq {u.n}
  BY Listings DEF UsersOf, Numbers, Of
<1>3. Len(users) \in Nat /\ Len(users) <= 1
  <2>1. IsFiniteSet(U) /\ Cardinality(U) = Len(users)
    BY <1>2, Orders, ListLength
  <2> HIDE DEF U
  <2>2. IsFiniteSet({u.n}) /\ Cardinality({u.n}) = 1
    BY FS_Singleton
  <2>3. Cardinality(U) <= 1
    BY <1>2, <2>2, FS_Subset
  <2> QED
    BY <1>2, <2>1, <2>3, LenProperties
<1>4. StatePhase(ToSet(chain)) = "no" /\ \A p : MessagePhase(ToSet(chain), p) = "no"
  <2>1. \A x \in ToSet(chain) : x.type # "MergeMaciStateAqSubRoots" /\ x.type # "MergeMessageAqSubRoots"
    OBVIOUS
  <2> QED
    BY <2>1 DEF StatePhase, MessagePhase, Phase, Of
<1>5. /\ none \in Seq(Nat) /\ \A x \in Nat : none \o <<x>> = <<x>>
      /\ QueueOf(NewAccQueue, none, "no") /\ AfterLeaf("no") = "no"
  BY NewQueueOf DEF AfterLeaf
<1> HIDE DEF none
<1>6. \A x \in Nat : QueueOf(enqueue(NewAccQueue, x), <<x>>, "no")
  <2> SUFFICES ASSUME NEW x \in Nat PROVE QueueOf(enqueue(NewAccQueue, x), <<x>>, "no")
    OBVIOUS
  <2>1. QueueOf(enqueue(NewAccQueue, x), none \o <<x>>, AfterLeaf("no"))
    BY <1>5, LeafQueued
  <2> QED
    BY <1>5, <2>1
<1>7. StateQueueOK(stateAq, chain)
  <2> DEFINE phase == "no"
  <2>1. QueueOf(FirstAq, b0, phase)
    BY <1>1, <1>6, BlankIsNumber
  <2>2. AfterLeaf(phase) = phase
    BY <1>5
  <2> HIDE DEF b0, users, phase
  <2>3. QueueOf(EnqueueAll(FirstAq, users), b0 \o users, IF users = << >> THEN phase ELSE AfterLeaf(phase))
    BY <1>2, <2>1, LeavesQueued
  <2>4. QueueOf(stateAq, b0 \o users, phase)
    BY <1>1, <2>2, <2>3
  <2>5. 1 + Len(users) <= hashLength ^ stateTreeDepth
    <3>1. hashLength ^ stateTreeDepth \in Nat /\ 2 <= hashLength ^ stateTreeDepth
      BY TreeSizes
    <3> QED
      BY <1>3, <3>1
  <2> QED
    BY <1>4, <2>4, <2>5 DEF StateQueueOK, users, b0, phase
<1>8. ASSUME NEW p \in 0..(MaxPolls - 1), Has(chain, "DeployPoll", p)
      PROVE  MessageQueueOK(messageAq[p], chain, p)
  <2>1. p = 0
    <3>1. \E x \in ToSet(chain) : x.type = "DeployPoll" /\ x.poll = p
      BY <1>8 DEF Has, ToSet
    <3> QED
      BY <3>1
  <2> DEFINE s == MessagesIn(chain, 0)
             t == <<1>>
  <2>2. s = t
    <3>1. MessagesOf(ToSet(chain), 0) = {1}
      BY DEF MessagesOf, Numbers, Of, MessageTypes
    <3>2. Lists(s, {1}, Less)
      BY <3>1, Listings
    <3>3. Lists(t, {1}, Less)
      BY OneListed
    <3> HIDE DEF s, t
    <3> QED
      BY <3>2, <3>3, Orders, OneList
  <2>3. Len(t) <= hashLength ^ messageTreeDepth
    <3>1. hashLength ^ messageTreeDepth \in Nat /\ 2 <= hashLength ^ messageTreeDepth
      BY TreeSizes
    <3> QED
      BY <3>1
  <2>4. messageAq[p] = enqueue(NewAccQueue, 1)
    BY <1>1, <2>1
  <2>5. QueueOf(messageAq[p], t, "no")
    BY <1>6, <2>4
  <2> HIDE DEF s, t
  <2> QED
    BY <1>4, <2>1, <2>2, <2>3, <2>5 DEF MessageQueueOK, s
<1>9. DOMAIN messageAq = 0..(MaxPolls - 1)
  BY <1>1
<1> QED
  BY <1>7, <1>8, <1>9 DEF QueuesOK

LEMMA Starts == Init => GenInv
<1> SUFFICES ASSUME Init PROVE GenInv
  OBVIOUS
<1> DEFINE a == FirstEvent(1, 1, "PublishMessage", 0, <<1>>)
           b == FirstEvent(2, 1, "DeployPoll", 0, << >>)
           u == FirstUser
<1>1. /\ a.n = 1 /\ a.block = 1 /\ a.tx = 1 /\ a.type = "PublishMessage" /\ a.poll = 0 /\ a.data = <<1>>
      /\ b.n = 2 /\ b.block = 1 /\ b.tx = 1 /\ b.type = "DeployPoll" /\ b.poll = 0
      /\ u.n = 3 /\ u.block = 1 /\ u.tx = 2 /\ u.type = "SignUp" /\ u.poll = Everybody /\ u.data = <<3>>
  BY DEF FirstEvent, FirstUser
<1>2. a \in Events /\ b \in Events /\ u \in Events
  BY DEF FirstEvent, FirstUser, Events, EventTypes
<1>3. FirstPoll = <<a, b>>
  BY DEF FirstPoll
<1>4. chain \in {<<a, b>>, <<a, b, u>>} /\ head = 1 /\ transactions = 2 /\ gen = NoCall /\ excused = FALSE
  <2> HIDE DEF a, b, u
  <2>1. Append(<<a, b>>, u) = <<a, b, u>>
    <3> DEFINE S == {a, b, u}
               s == Append(<<a, b>>, u)
               t == <<a, b, u>>
    <3>1. s \in Seq(S) /\ Len(s) = 3 /\ s[1] = a /\ s[2] = b /\ s[3] = u
      OBVIOUS
    <3>2. t \in Seq(S) /\ Len(t) = 3 /\ t[1] = a /\ t[2] = b /\ t[3] = u
      OBVIOUS
    <3> HIDE DEF s, t
    <3>3. \A i \in 1..3 : s[i] = t[i]
      BY <3>1, <3>2
    <3>4. s = t
      BY <3>1, <3>2, <3>3, SeqEqual
    <3> QED
      BY <3>4 DEF s, t
  <2> QED
    BY <1>3, <2>1 DEF Init, u
<1> HIDE DEF a, b, u
<1>5. ToSet(<<a, b>>) = {a, b} /\ ToSet(<<a, b, u>>) = {a, b, u}
  <2>1. DOMAIN <<a, b>> = {1, 2} /\ DOMAIN <<a, b, u>> = {1, 2, 3}
    OBVIOUS
  <2> QED
    BY <2>1 DEF ToSet
<1>6. Numbered(<<a, b>>) /\ Numbered(<<a, b, u>>)
  BY <1>1, <1>2 DEF Numbered
<1>7. PollsCount(<<a, b>>) /\ PollsCount(<<a, b, u>>)
  <2> DEFINE c == <<a, b>>
             d == <<a, b, u>>
             S == {e \in ToSet(c) : e.type = "DeployPoll"}
  <2>1. S = {b}
    BY <1>1, <1>5
  <2>2. Lists(OfType(c, "DeployPoll"), S, Earlier)
    BY <1>6, ChainInKind, KindLists
  <2>3. Lists(<<b>>, {b}, Earlier)
    BY OneListed
  <2>4. OfType(c, "DeployPoll") = <<b>>
    BY <2>1, <2>2, <2>3, Orders, OneList
  <2>5. \A x \in {u} : x.type # "DeployPoll"
    BY <1>1
  <2>6. ToSet(d) = ToSet(c) \cup {u}
    BY <1>5
  <2> HIDE DEF c, d
  <2>7. OfType(d, "DeployPoll") = <<b>>
    BY <1>6, <2>4, <2>5, <2>6, PollsKept DEF c, d
  <2>8. \A k \in DOMAIN <<b>> : <<b>>[k].poll = k - 1
    BY <1>1
  <2>9. PollsCount(c) /\ PollsCount(d)
    BY <2>4, <2>7, <2>8 DEF PollsCount
  <2> QED
    BY <2>9 DEF c, d
<1>8. ASSUME NEW E \in {{a, b}, {a, b, u}}
      PROVE  Timed(E, 1, 2) /\ Formed(E) /\ Deployed(E) /\ Merged(E)
  <2>1. Timed(E, 1, 2)
    BY <1>1 DEF Timed
  <2>2. Formed(E)
    BY <1>1 DEF Formed, OneDatum, MessageTypes, Everybody
  <2>3. Deployed(E)
    BY <1>1 DEF Deployed
  <2>4. Merged(E)
    BY <1>1 DEF Merged, MergeTypes
  <2> QED
    BY <2>1, <2>2, <2>3, <2>4
<1>9. Numbered(chain) /\ PollsCount(chain) /\ ToSet(chain) \in {{a, b}, {a, b, u}}
  BY <1>4, <1>5, <1>6, <1>7
<1>10. ChainOK(chain, 1, 2)
  BY <1>8, <1>9 DEF ChainOK
<1>11. ChainNow
  BY <1>4, <1>10 DEF ChainNow
<1>12. QueuesOK
  BY <1>1, <1>9, <1>11, StartingQueues
<1> QED
  BY <1>4, <1>11, <1>12, Idle DEF GenInv

-----------------------------------------------------------------------------
\* What holds of the events of the chain.
LEMMA KnownFacts ==
  ASSUME ChainNow
  PROVE  /\ Known \subseteq Events
         /\ Timed(Known, head, transactions) /\ Formed(Known) /\ Deployed(Known) /\ Merged(Known)
         /\ \A e, x \in Known : e.n = x.n => e = x
         /\ Lists(chain, Known, Earlier) /\ Lists(chain, Known, InKind)
         /\ Numbered(chain) /\ PollsCount(chain) /\ head \in Nat /\ transactions \in Nat
BY Numbering, ChainInKind DEF ChainNow, ChainOK, Known

LEMMA MixedKnown ==
  ASSUME NEW p
  PROVE  Mixed(p) <=> MixedIn(Known, p)
BY DEF Mixed, MixedIn, Known, ToSet

\* What the contracts do while the call runs leaves it as it was.
LEMMA GrowthKeeps ==
  ASSUME GenInv, NEW N, GrownBy(N), QueuesOK', gen.at \notin {"returned", "threw"}
  PROVE  GenInv'
<1>1. /\ ChainNow' /\ QueuesOK' /\ Known' = Known \cup N /\ N \subseteq Events /\ Newer(Known, N)
      /\ Stamped(N, head, transactions) /\ Emitted
  BY DEF GrownBy, Known
<1>2. excused \in BOOLEAN /\ excused' \in BOOLEAN /\ gen' = gen /\ head \in Nat
      /\ (gen.at # "idle" => excused' /\ head' = head + 1)
  BY <1>1 DEF Emitted, GenInv, ChainNow
<1>3. CASE gen.at = "idle"
  BY <1>1, <1>2, <1>3 DEF GenInv
<1>4. CASE gen.at # "idle"
  <2>1. CallInv /\ excused' /\ head' = head + 1 /\ gen' = gen
    BY <1>2, <1>4 DEF GenInv
  <2> DEFINE p == gen.pollId
  <2>2. CallOK'
    <3>1. ASSUME NEW e \in Known' PROVE e.block <= head'
      <4>1. CASE e \in Known
        <5>1. e.block \in Nat /\ e.block <= head
          BY <1>1, <2>1, <4>1, KnownFacts DEF GenInv, Events, CallInv, CallOK
        <5> QED
          BY <1>2, <2>1, <5>1
      <4>2. CASE e \in N
        BY <1>1, <1>2, <2>1, <4>2 DEF Stamped
      <4> QED
        BY <1>1, <4>1, <4>2
    <3> QED
      BY <2>1, <3>1 DEF CallInv, CallOK
  <2>3. LogsOf(gen.logs, Known, p)'
    BY <1>1, <2>1 DEF CallInv, LogsOf
  <2>4. MaciLogsOK' /\ PollLogsOK'
    BY <2>1 DEF CallInv, MaciLogsOK, PollLogsOK, PollsFound
  <2>5. MixedIn(Known, p) => MixedIn(Known', p)
    BY <1>1 DEF MixedIn
  <2>6. UsersOf(Known) \subseteq UsersOf(Known') /\ MessagesOf(Known, p) \subseteq MessagesOf(Known', p)
    BY <1>1, MoreNumbers DEF UsersOf, MessagesOf
  <2>7. ReplayOK'
    <3> SUFFICES ASSUME gen.at \in {"counts", "root", "returned"} PROVE ReplayOK'
      BY <2>1 DEF ReplayOK
    <3>1. ReplayOK
      BY <2>1 DEF CallInv
    <3> HIDE DEF p
    <3>2. /\ gen.polls[gen.pollId + 1] = gen.pollId
          /\ Lists(gen.leaves, ToSet(gen.leaves), Less) /\ Blank \in ToSet(gen.leaves)
          /\ ToSet(gen.leaves) \subseteq {Blank} \cup UsersOf(Known')
          /\ gen.messages \in Seq(Nat)
          /\ \A e \in ToSet(gen.logs) : e.type = "MergeMessageAq" => Commits(e.data, gen.messages)
      BY <2>6, <3>1 DEF ReplayOK
    <3>3. ~MixedIn(Known', p) => /\ Lists(gen.messages, ToSet(gen.messages), Less)
                                 /\ ToSet(gen.messages) \subseteq MessagesOf(Known', p)
      BY <2>5, <2>6, <3>1 DEF ReplayOK, p
    <3> QED
      BY <2>1, <3>2, <3>3 DEF ReplayOK, p
  <2>8. CountsOK'
    <3> SUFFICES ASSUME gen.at \in {"root", "returned"} PROVE CountsOK'
      BY <2>1 DEF CountsOK
    <3> DEFINE S == ToSet(gen.messages)
               M == MessagesOf(Known, p)
               Q == MessagesOf(Known', p)
    <3>1. CountsOK /\ ReplayOK
      BY <2>1 DEF CallInv
    <3>2. ASSUME ~MixedIn(Known', p) PROVE AllBefore(S, Q \ S, Less)
      <4>1. ~MixedIn(Known, p)
        BY <2>5, <3>2
      <4>2. AllBefore(S, M \ S, Less) /\ S \subseteq M
        BY <3>1, <4>1 DEF CountsOK, ReplayOK
      <4>3. Q = M \cup MessagesOf(N, p)
        BY <1>1, MoreNumbers DEF MessagesOf
      <4>4. AllBefore(M, MessagesOf(N, p), Less)
        <5>1. Known \subseteq Events
          BY KnownFacts DEF GenInv
        <5> SUFFICES ASSUME NEW e \in Known, NEW x \in N PROVE <<e.n, x.n>> \in Less
          BY DEF AllBefore, MessagesOf, Numbers, Of
        <5> QED
          BY <1>1, <5>1 DEF Newer, Less, Events
      <4> HIDE DEF S, M, Q
      <4> QED
        BY <4>2, <4>3, <4>4 DEF AllBefore
    <3>3. BlankThenUsers(gen.stateLeaves)
      BY <3>1 DEF CountsOK
    <3> QED
      BY <2>1, <3>2, <3>3 DEF CountsOK
  <2>9. (gen.at = "returned" => StateRootAgrees)' /\ (gen.at = "threw" => excused)'
    BY <2>1
  <2>10. CallInv'
    BY <2>1, <2>2, <2>3, <2>4, <2>7, <2>8, <2>9 DEF CallInv
  <2> QED
    BY <1>1, <1>2, <1>4, <2>10 DEF GenInv
<1> QED
  BY <1>3, <1>4

\* The contracts may do anything while the call runs.
LEMMA ContractStep ==
  ASSUME GenInv, Running,
         \/ signUp \/ deployPoll
         \/ \E p \in 0..(MaxPolls - 1) :
              \/ \E types \in MessageLists : publish(p, types)
              \/ \E n \in NumSrQueueOps : mergeMessageAqSubRoots(p, n)
              \/ mergeMessageAq(p)
              \/ \E n \in NumSrQueueOps : mergeMaciStateAqSubRoots(p, n)
              \/ mergeMaciStateAq(p)
  PROVE  GenInv'
<1>1. ChainNow /\ QueuesOK /\ gen.at \notin {"returned", "threw"}
  BY DEF GenInv, Running
<1>2. \E N : GrownBy(N) /\ QueuesOK'
  <2>1. CASE signUp \/ deployPoll
    BY <1>1, <2>1, SignUpGrows, DeployGrows
  <2>2. ASSUME NEW p \in 0..(MaxPolls - 1),
               \/ \E types \in MessageLists : publish(p, types)
               \/ mergeMessageAq(p) \/ mergeMaciStateAq(p)
        PROVE  \E N : GrownBy(N) /\ QueuesOK'
    BY <1>1, <2>2, PublishGrows, MergeMessagesGrows, MergeStateGrows
  <2>3. ASSUME NEW p \in 0..(MaxPolls - 1), NEW n \in NumSrQueueOps,
               mergeMessageAqSubRoots(p, n) \/ mergeMaciStateAqSubRoots(p, n)
        PROVE  \E N : GrownBy(N) /\ QueuesOK'
    BY <1>1, <2>3, MessageSubRootsGrows, StateSubRootsGrows
  <2> QED
    BY <2>1, <2>2, <2>3
<1> QED
  BY <1>1, <1>2, GrowthKeeps

\* The queues are as they were.
LEMMA QueuesKept ==
  ASSUME QueuesOK, UNCHANGED <<chain, queues>>
  PROVE  QueuesOK'
BY DEF QueuesOK, queues

\* A block is mined, with no call running.
LEMMA MineStep ==
  ASSUME GenInv, mine
  PROVE  GenInv'
<1>1. gen.at = "idle" /\ head' = head + 1 /\ UNCHANGED <<chain, transactions, queues, gen, excused>>
  BY DEF mine
<1>2. ChainNow /\ head \in Nat /\ transactions \in Nat /\ ChainOK(chain, head, transactions)
  BY DEF GenInv, ChainNow
<1>3. Timed(ToSet(chain), head + 1, transactions)
  <2>1. Timed(ToSet(chain), head, transactions)
    BY <1>2 DEF ChainOK
  <2>2. \A e \in ToSet(chain) : e.block \in 1..(head + 1) => e.block \in 1..((head + 1) + 1)
    BY <1>2
  <2> QED
    BY <2>1, <2>2 DEF Timed
<1>4. ChainOK(chain, head + 1, transactions)
  BY <1>2, <1>3 DEF ChainOK
<1>5. ChainNow' /\ QueuesOK'
  BY <1>1, <1>2, <1>4, QueuesKept DEF ChainNow, GenInv
<1> QED
  BY <1>1, <1>5 DEF GenInv

-----------------------------------------------------------------------------
\* Every event is mined while the call runs.
LEMMA MinedNow ==
  ASSUME ChainNow, \A e \in Known : e.block <= head
  PROVE  Mined = chain
BY AllMined DEF Mined, Known, ChainNow, ChainOK

LEMMA HasKnown ==
  ASSUME NEW type, NEW p
  PROVE  Has(chain, type, p) <=> \E e \in Known : e.type = type /\ e.poll = p
BY DEF Has, Known, ToSet

\* A position of the chain that is late, told by the events before it.
LEMMA LateKnown ==
  ASSUME ChainNow, NEW m \in DOMAIN chain
  PROVE  /\ chain[m] \in Known
         /\ \A p : LateMessage(p, m) <=> MessagePhase(Until(Known, chain[m]), p) = "late"
         /\ LateSignUp(m) <=> StatePhase(Until(Known, chain[m])) = "late"
<1> DEFINE E == Until(Known, chain[m])
<1>1. /\ DOMAIN chain = 1..Len(chain) /\ Len(chain) \in Nat
      /\ \A e \in Known : e.n \in 1..Len(chain) /\ chain[e.n] = e
      /\ \A k \in 1..Len(chain) : chain[k] \in Known /\ chain[k].n = k
  BY Numbering DEF Known, ChainNow, ChainOK
<1>2. /\ \A e \in E : e \in Known /\ e.n < m
      /\ \A k \in 1..Len(chain) : k < m => chain[k] \in E
  BY <1>1 DEF Until
<1> HIDE DEF E
<1>3. \A S, T : Phase(S, T) = "late" <=> \E y \in S, x \in T : y.n < x.n
  BY DEF Phase
<1>4. ASSUME NEW p
      PROVE  LateMessage(p, m) <=> MessagePhase(E, p) = "late"
  <2> DEFINE S == Of(E, {"MergeMessageAqSubRoots"}, p)
             T == Of(E, MessageTypes, p)
  <2>1. ASSUME NEW k \in At(MessageTypes, p), NEW j \in At({"MergeMessageAqSubRoots"}, p), j < k, k < m
        PROVE  \E y \in S, x \in T : y.n < x.n
    <3>1. j < m /\ j \in 1..Len(chain) /\ k \in 1..Len(chain)
      BY <1>1, <2>1 DEF At
    <3>2. chain[j] \in S /\ chain[k] \in T
      BY <1>2, <2>1, <3>1 DEF At, Of
    <3>3. chain[j].n < chain[k].n
      BY <1>1, <2>1, <3>1
    <3> QED
      BY <3>2, <3>3
  <2>2. ASSUME NEW y \in S, NEW x \in T, y.n < x.n
        PROVE  LateMessage(p, m)
    <3>1. x.n \in At(MessageTypes, p) /\ y.n \in At({"MergeMessageAqSubRoots"}, p) /\ x.n < m
      BY <1>1, <1>2 DEF At, Of
    <3> QED
      BY <2>2, <3>1 DEF LateMessage
  <2> HIDE DEF S, T
  <2> QED
    BY <1>3, <2>1, <2>2 DEF LateMessage, MessagePhase, S, T
<1>5. LateSignUp(m) <=> StatePhase(E) = "late"
  <2> DEFINE S == {x \in E : x.type = "MergeMaciStateAqSubRoots"}
             T == Of(E, {"SignUp"}, Everybody)
  <2>1. ASSUME NEW k \in At({"SignUp"}, Everybody), NEW j \in DOMAIN chain,
               chain[j].type = "MergeMaciStateAqSubRoots", j < k, k < m
        PROVE  \E y \in S, x \in T : y.n < x.n
    <3>1. j < m /\ j \in 1..Len(chain) /\ k \in 1..Len(chain)
      BY <1>1, <2>1 DEF At
    <3>2. chain[j] \in S /\ chain[k] \in T
      BY <1>2, <2>1, <3>1 DEF At, Of
    <3>3. chain[j].n < chain[k].n
      BY <1>1, <2>1, <3>1
    <3> QED
      BY <3>2, <3>3
  <2>2. ASSUME NEW y \in S, NEW x \in T, y.n < x.n
        PROVE  LateSignUp(m)
    <3>1. /\ x.n \in At({"SignUp"}, Everybody) /\ y.n \in DOMAIN chain /\ x.n < m
          /\ chain[y.n].type = "MergeMaciStateAqSubRoots"
      BY <1>1, <1>2 DEF At, Of
    <3> QED
      BY <2>2, <3>1 DEF LateSignUp
  <2> HIDE DEF S, T
  <2> QED
    BY <1>3, <2>1, <2>2 DEF LateSignUp, StatePhase, S, T
<1> QED
  BY <1>1, <1>4, <1>5 DEF E

LEMMA PromptIfNotLate ==
  ASSUME ChainNow, NEW p, ~LateMerge(p)
  PROVE  Prompt(Known, p)
<1> SUFFICES ASSUME NEW e \in Known, e.poll = p
             PROVE  /\ e.type = "MergeMessageAq" => MessagePhase(Until(Known, e), p) # "late"
                    /\ e.type = "MergeMaciStateAq" => StatePhase(Until(Known, e)) # "late"
  BY DEF Prompt
<1>1. e.n \in DOMAIN chain /\ chain[e.n] = e
  BY Numbering DEF Known, ChainNow, ChainOK
<1>2. /\ e.type = "MergeMessageAq" => ~LateMessage(p, e.n)
      /\ e.type = "MergeMaciStateAq" => ~LateSignUp(e.n)
  BY <1>1 DEF LateMerge, At
<1> QED
  BY <1>1, <1>2, LateKnown

\* The call begins: an excuse is noted, if its arguments or the chain give one.
LEMMA BeginStep ==
  ASSUME GenInv, NEW p \in 0..(MaxPolls - 1), NEW range \in Ranges, begin(p, range[1], range[2])
  PROVE  GenInv'
<1> DEFINE from == range[1]
           end == range[2]
<1>1. /\ gen.at = "idle" /\ ~Pending
      /\ gen' = [NoCall EXCEPT !.at = "maciLogs", !.pollId = p, !.fromBlock = from, !.i = from,
                               !.lastBlock = lastBlock(end)]
      /\ excused' = (from > 1 \/ lastBlock(end) < head \/ mergedStateRoot(p) = NoRoot
                      \/ LateMerge(p) \/ Mixed(p))
      /\ UNCHANGED env
  BY DEF begin
<1>2. ChainNow /\ head \in Nat /\ Known' = Known /\ ChainNow' /\ QueuesOK' /\ head' = head
  BY <1>1, QueuesKept DEF GenInv, ChainNow, env, Known
<1>3. from \in Nat /\ end \in Nat /\ p \in Nat /\ lastBlock(end) \in Nat
  BY <1>2, GenMaciStateConstants DEF lastBlock
<1>4. /\ gen'.at = "maciLogs" /\ gen'.pollId = p /\ gen'.fromBlock = from /\ gen'.i = from
      /\ gen'.lastBlock = lastBlock(end) /\ gen'.logs = << >> /\ DOMAIN gen' = Fields
  BY <1>1 DEF NoCall, Fields
<1> HIDE DEF from, end
<1>5. \A e \in Known : e.block <= head
  <2> SUFFICES ASSUME NEW e \in Known PROVE e.block <= head
    OBVIOUS
  <2>1. ~ (e.block > head)
    BY <1>1 DEF Pending, Known, ToSet
  <2>2. e.block \in Nat
    BY <1>2, KnownFacts DEF Events
  <2> QED
    BY <1>2, <2>1, <2>2
<1>6. ASSUME ~excused' PROVE QuietCall'
  <2>1. /\ from <= 1 /\ lastBlock(end) >= head /\ mergedStateRoot(p) # NoRoot /\ ~LateMerge(p)
        /\ ~Mixed(p)
    <3>1. /\ ~ (from > 1) /\ ~ (lastBlock(end) < head) /\ mergedStateRoot(p) # NoRoot
          /\ ~LateMerge(p) /\ ~Mixed(p)
      BY <1>1, <1>6
    <3> HIDE DEF lastBlock
    <3> QED
      BY <1>2, <1>3, <3>1
  <2>2. Has(Mined, "MergeMaciStateAq", p)
    BY <2>1 DEF mergedStateRoot
  <2>3. Mined = chain
    BY <1>2, <1>5, MinedNow
  <2>4. Has(chain, "MergeMaciStateAq", p)
    BY <2>2, <2>3
  <2>5. \E e \in Known : e.type = "MergeMaciStateAq" /\ e.poll = p
    BY <2>4, HasKnown
  <2>6. ~MixedIn(Known, p) /\ Prompt(Known, p)
    BY <1>2, <2>1, MixedKnown, PromptIfNotLate
  <2> QED
    BY <1>2, <1>4, <2>1, <2>5, <2>6 DEF QuietCall
<1>7. CallOK'
  BY <1>2, <1>3, <1>4, <1>5, <1>6 DEF CallOK, Phases
<1>8. ToSet(<< >>) = {}
  BY DEF ToSet
<1>9. LogsOf(gen.logs, Known, gen.pollId)'
  <2>1. Lists(<< >>, ToSet(<< >>), InKind)
    BY <1>8, NothingListed
  <2> QED
    BY <1>4, <1>8, <2>1 DEF LogsOf
<1>10. MaciLogsOK'
  <2>1. ASSUME ~excused' PROVE Fetched({}, Known, MaciTypes, Everybody, from)
    <3>1. from <= 1
      BY <1>4, <1>6, <2>1 DEF QuietCall
    <3>2. ASSUME NEW e \in Known PROVE ~ (e.block < from)
      <4>1. e.block \in 1..(head + 1)
        BY <1>2, KnownFacts DEF Timed
      <4> QED
        BY <1>2, <1>3, <3>1, <4>1
    <3> QED
      BY <3>2 DEF Fetched
  <2> QED
    BY <1>2, <1>4, <1>8, <2>1 DEF MaciLogsOK
<1>11. PollLogsOK' /\ ReplayOK' /\ CountsOK'
  BY <1>4 DEF PollLogsOK, ReplayOK, CountsOK
<1>12. CallInv'
  BY <1>4, <1>7, <1>9, <1>10, <1>11 DEF CallInv
<1>13. excused' \in BOOLEAN
  BY <1>1
<1> QED
  BY <1>2, <1>4, <1>12, <1>13 DEF GenInv

-----------------------------------------------------------------------------
(***************************************************************************)
(* One request.                                                            *)
(***************************************************************************)
Answer(types, p, a, b) ==
  {e \in Known : e.block <= head /\ e.block \in a..b /\ e.type \in types
                 /\ (p = Everybody \/ e.poll = p)}

\* What a request returns, in the order of the chain.
LEMMA QueryLists ==
  ASSUME ChainNow, NEW types, NEW p, NEW a, NEW b
  PROVE  Lists(queryFilter(types, p, a, b), Answer(types, p, a, b), InKind)
<1> DEFINE K == {k \in DOMAIN chain :
                  /\ chain[k].block <= head /\ chain[k].block \in a..b
                  /\ chain[k].type \in types /\ (p = Everybody \/ chain[k].poll = p)}
<1>1. Lists(chain, Known, InKind)
  BY KnownFacts
<1>2. Chosen(chain, K) = Answer(types, p, a, b)
  BY DEF Chosen, Answer, Known, ToSet
<1>3. queryFilter(types, p, a, b) = Those(chain, K)
  BY DEF queryFilter
<1> HIDE DEF K
<1> QED
  BY <1>1, <1>2, <1>3, ThoseLists

\* What a request adds comes after what is there, and misses nothing.
Added(L, T, types, p) ==
  /\ LogsOf(L, Known, gen.pollId)
  /\ \A e \in ToSet(L) : e \in T \/ e.type \in types
  /\ \A e \in T : e \in ToSet(L)
  /\ \A e \in ToSet(L) : e.type \in types => e.block < NextRequest(gen.i)
  /\ ~excused /\ Fetched(T, Known, types, p, gen.i)
       => Fetched(ToSet(L), Known, types, p, NextRequest(gen.i))

\* The requests cover the blocks one after the other and none twice.
LEMMA RequestStep ==
  ASSUME ChainNow, CallOK, LogsOf(gen.logs, Known, gen.pollId), gen.i <= gen.lastBlock,
         NEW types, NEW p, p \in {Everybody, gen.pollId},
         (types = MaciTypes) \/ (types = PollTypes /\ p # Everybody),
         \A e \in ToSet(gen.logs) : e.type \in types => e.block < gen.i
  PROVE  Added(gen.logs \o queryFilter(types, p, gen.i, toBlock), ToSet(gen.logs), types, p)
<1> DEFINE a == gen.i
           b == toBlock
           n == NextRequest(a)
           Q == queryFilter(types, p, a, b)
           A == Answer(types, p, a, b)
           L == gen.logs
           T == ToSet(L)
<1>1. /\ a \in Nat /\ b \in Nat /\ n \in Nat /\ b <= gen.lastBlock /\ b < n /\ a <= n /\ head \in Nat
      /\ b = gen.lastBlock \/ b + 1 = n
  BY GenMaciStateConstants DEF CallOK, NextRequest, toBlock, ChainNow
<1>2. /\ Known \subseteq Events /\ Timed(Known, head, transactions)
      /\ \A e, x \in Known : e.n = x.n => e = x
  BY KnownFacts
<1>3. Lists(Q, A, InKind) /\ Lists(L, T, InKind) /\ T \subseteq Known
  BY QueryLists DEF LogsOf
<1> HIDE DEF a, b, n
<1>4. \A e \in A : e \in Known /\ a <= e.block /\ e.block < n /\ e.type \in types /\ (p = Everybody \/ e.poll = p)
  <2> SUFFICES ASSUME NEW e \in A
               PROVE  e \in Known /\ a <= e.block /\ e.block < n /\ e.type \in types
                      /\ (p = Everybody \/ e.poll = p)
    OBVIOUS
  <2>1. e \in Known /\ e.block \in a..b /\ e.type \in types /\ (p = Everybody \/ e.poll = p)
    BY DEF Answer
  <2> QED
    BY <1>1, <2>1
<1>5. \A e \in T : e.type \in types => e.block < a
  BY DEF a
<1> HIDE DEF A, T, L, Q
<1>6. AllBefore(T, A, InKind)
  <2> SUFFICES ASSUME NEW e \in T, NEW x \in A PROVE <<e, x>> \in InKind
    BY DEF AllBefore
  <2>1. e \in Known /\ x \in Known /\ e \in Events /\ x \in Events /\ x.type \in types /\ a <= x.block
    BY <1>2, <1>3, <1>4
  <2>2. SUFFICES ASSUME e.type = x.type PROVE e.n < x.n
    BY <2>1 DEF InKind
  <2>3. e.block < a
    BY <1>5, <2>1, <2>2
  <2>4. e.n \in Nat /\ x.n \in Nat /\ e.block \in Nat /\ x.block \in Nat
    BY <2>1 DEF Events
  <2>5. e.block < x.block
    BY <1>1, <2>1, <2>3, <2>4
  <2>6. e.n # x.n
    BY <1>2, <2>1, <2>4, <2>5
  <2>7. ~ (x.n < e.n)
    BY <1>2, <2>1, <2>4, <2>5 DEF Timed
  <2> QED
    BY <2>4, <2>6, <2>7
<1>7. Lists(L \o Q, T \cup A, InKind)
  BY <1>3, <1>6, JoinedLists
<1>8. ToSet(L \o Q) = T \cup A
  BY <1>7 DEF Lists
<1>9. LogsOf(L \o Q, Known, gen.pollId)
  <2>1. \A e \in T : e.type \in MaciTypes \/ (e.type \in PollTypes /\ e.poll = gen.pollId)
    BY DEF LogsOf, T, L
  <2>2. \A e \in A : e.type \in MaciTypes \/ (e.type \in PollTypes /\ e.poll = gen.pollId)
    BY <1>4
  <2> QED
    BY <1>3, <1>4, <1>7, <1>8, <2>1, <2>2 DEF LogsOf
<1>10. \A e \in T \cup A : e.type \in types => e.block < n
  <2>1. ASSUME NEW e \in T, e.type \in types PROVE e.block < n
    <3>1. e.block < a /\ e.block \in Nat
      BY <1>2, <1>3, <1>5, <2>1 DEF Events
    <3> QED
      BY <1>1, <3>1
  <2> QED
    BY <1>4, <2>1
<1>11. ASSUME ~excused, Fetched(T, Known, types, p, a) PROVE Fetched(T \cup A, Known, types, p, n)
  <2> SUFFICES ASSUME NEW e \in Known, e.type \in types, p = Everybody \/ e.poll = p, e.block < n
               PROVE  e \in T \cup A
    BY DEF Fetched
  <2>1. e.block \in Nat /\ e.block <= head /\ gen.lastBlock >= head /\ gen.lastBlock \in Nat
    BY <1>2, <1>11 DEF Events, CallOK, QuietCall
  <2>2. CASE e.block < a
    BY <1>11, <2>2 DEF Fetched
  <2>3. CASE ~ (e.block < a)
    <3>1. e.block \in a..b
      BY <1>1, <2>1, <2>3
    <3> QED
      BY <2>1, <3>1 DEF A, Answer
  <2> QED
    BY <2>2, <2>3
<1>12. Added(L \o Q, T, types, p)
  BY <1>4, <1>8, <1>9, <1>10, <1>11 DEF Added, a, n
<1> QED
  BY <1>12 DEF L, Q, T, a, b

\* What a request changes.
LEMMA RequestFields ==
  ASSUME CallOK, NEW at, NEW types, NEW p, Requests(at, types, p)
  PROVE  /\ gen.at = at /\ gen.i <= gen.lastBlock /\ UNCHANGED <<env, excused>>
         /\ gen'.logs = gen.logs \o queryFilter(types, p, gen.i, toBlock)
         /\ gen'.i = NextRequest(gen.i) /\ gen'.at = gen.at /\ gen'.pollId = gen.pollId
         /\ gen'.fromBlock = gen.fromBlock /\ gen'.lastBlock = gen.lastBlock /\ DOMAIN gen' = Fields
<1> DEFINE Q == queryFilter(types, p, gen.i, toBlock)
           n == NextRequest(gen.i)
<1>1. /\ gen.at = at /\ gen.i <= gen.lastBlock /\ UNCHANGED <<env, excused>>
      /\ gen' = [gen EXCEPT !.logs = @ \o Q, !.i = n]
  BY DEF Requests
<1>2. DOMAIN gen = Fields
  BY DEF CallOK
<1> HIDE DEF Q, n
<1>3. /\ gen'.logs = gen.logs \o Q /\ gen'.i = n /\ gen'.at = gen.at /\ gen'.pollId = gen.pollId
      /\ gen'.fromBlock = gen.fromBlock /\ gen'.lastBlock = gen.lastBlock /\ DOMAIN gen' = Fields
  BY <1>1, <1>2 DEF Fields
<1> QED
  BY <1>1, <1>3 DEF Q, n

\* The chain and the history are as they were.
LEMMA QuietFrame ==
  ASSUME GenInv, UNCHANGED <<env, excused>>
  PROVE  ChainNow' /\ Known' = Known /\ head' = head /\ excused' = excused /\ excused \in BOOLEAN
         /\ ChainNow /\ chain' = chain /\ transactions' = transactions /\ QueuesOK'
BY QueuesKept DEF GenInv, ChainNow, env, Known

\* The call goes on with the arguments it was given.
LEMMA SameCall ==
  ASSUME GenInv, CallOK, UNCHANGED <<env, excused>>, DOMAIN gen' = Fields, gen'.at \in Phases,
         gen'.pollId = gen.pollId, gen'.fromBlock = gen.fromBlock, gen'.lastBlock = gen.lastBlock,
         gen'.i \in Nat
  PROVE  CallOK'
<1>1. Known' = Known /\ head' = head /\ excused' = excused
  BY QuietFrame
<1> QED
  BY <1>1 DEF CallOK, QuietCall

\* A request for MACI's events.
LEMMA MaciLogsStep ==
  ASSUME GenInv, fetchMaciLogs
  PROVE  GenInv'
<1>1. Requests("maciLogs", MaciTypes, Everybody)
  BY DEF fetchMaciLogs
<1>2. gen.at = "maciLogs"
  BY <1>1 DEF Requests
<1>3. CallInv /\ CallOK /\ MaciLogsOK /\ LogsOf(gen.logs, Known, gen.pollId) /\ ChainNow
  BY <1>2 DEF GenInv, CallInv
<1> DEFINE L == gen.logs \o queryFilter(MaciTypes, Everybody, gen.i, toBlock)
           n == NextRequest(gen.i)
<1>4. /\ gen.i <= gen.lastBlock /\ UNCHANGED <<env, excused>>
      /\ gen'.logs = L /\ gen'.i = n /\ gen'.at = "maciLogs" /\ gen'.pollId = gen.pollId
      /\ gen'.fromBlock = gen.fromBlock /\ gen'.lastBlock = gen.lastBlock /\ DOMAIN gen' = Fields
  BY <1>1, <1>2, <1>3, RequestFields
<1>5. Added(L, ToSet(gen.logs), MaciTypes, Everybody)
  <2>1. \A e \in ToSet(gen.logs) : e.type \in MaciTypes => e.block < gen.i
    BY <1>2, <1>3 DEF MaciLogsOK
  <2> QED
    BY <1>3, <1>4, <2>1, RequestStep
<1>6. n \in Nat
  BY <1>3, GenMaciStateConstants DEF CallOK, NextRequest
<1> HIDE DEF L, n
<1>7. /\ ChainNow' /\ QueuesOK' /\ Known' = Known /\ head' = head
      /\ excused' = excused /\ excused \in BOOLEAN
  BY <1>4, QuietFrame
<1>8. CallOK'
  BY <1>3, <1>4, <1>6, SameCall DEF Phases
<1>9. LogsOf(gen.logs, Known, gen.pollId)'
  BY <1>4, <1>5, <1>7 DEF Added
<1>10. MaciLogsOK'
  BY <1>2, <1>3, <1>4, <1>5, <1>7 DEF Added, MaciLogsOK, n
<1>11. PollLogsOK' /\ ReplayOK' /\ CountsOK'
  BY <1>4 DEF PollLogsOK, ReplayOK, CountsOK
<1>12. CallInv'
  BY <1>4, <1>8, <1>9, <1>10, <1>11 DEF CallInv
<1> QED
  BY <1>4, <1>7, <1>12 DEF GenInv

\* A request for the poll's events.
LEMMA PollLogsStep ==
  ASSUME GenInv, fetchPollLogs
  PROVE  GenInv'
<1>1. Requests("pollLogs", PollTypes, gen.pollId)
  BY DEF fetchPollLogs
<1>2. gen.at = "pollLogs"
  BY <1>1 DEF Requests
<1>3. CallInv /\ CallOK /\ PollLogsOK /\ LogsOf(gen.logs, Known, gen.pollId) /\ ChainNow
  BY <1>2 DEF GenInv, CallInv
<1> DEFINE L == gen.logs \o queryFilter(PollTypes, gen.pollId, gen.i, toBlock)
           n == NextRequest(gen.i)
           T == ToSet(gen.logs)
<1>4. /\ gen.i <= gen.lastBlock /\ UNCHANGED <<env, excused>>
      /\ gen'.logs = L /\ gen'.i = n /\ gen'.at = "pollLogs" /\ gen'.pollId = gen.pollId
      /\ gen'.fromBlock = gen.fromBlock /\ gen'.lastBlock = gen.lastBlock /\ DOMAIN gen' = Fields
  BY <1>1, <1>2, <1>3, RequestFields
<1>5. Added(L, T, PollTypes, gen.pollId)
  <2>1. \A e \in ToSet(gen.logs) : e.type \in PollTypes => e.block < gen.i
    BY <1>2, <1>3 DEF PollLogsOK
  <2>2. gen.pollId # Everybody
    BY <1>3 DEF CallOK, Everybody
  <2> QED
    BY <1>3, <1>4, <2>1, <2>2, RequestStep
<1>6. n \in Nat
  BY <1>3, GenMaciStateConstants DEF CallOK, NextRequest
<1> HIDE DEF L, n, T
<1>7. /\ ChainNow' /\ QueuesOK' /\ Known' = Known /\ head' = head
      /\ excused' = excused /\ excused \in BOOLEAN
  BY <1>4, QuietFrame
<1>8. CallOK'
  BY <1>3, <1>4, <1>6, SameCall DEF Phases
<1>9. LogsOf(gen.logs, Known, gen.pollId)'
  BY <1>4, <1>5, <1>7 DEF Added
<1>10. OfType(L, "DeployPoll") = OfType(gen.logs, "DeployPoll")
  <2> DEFINE S == {e \in T : e.type = "DeployPoll"}
             U == {e \in ToSet(L) : e.type = "DeployPoll"}
  <2>1. Lists(OfType(gen.logs, "DeployPoll"), S, Earlier) /\ Lists(OfType(L, "DeployPoll"), U, Earlier)
    BY <1>3, <1>5, KindLists DEF LogsOf, Added, T
  <2>2. S = U
    BY <1>5 DEF Added, PollTypes, MessageTypes
  <2> HIDE DEF S, U
  <2> QED
    BY <2>1, <2>2, Orders, OneList
<1>11. PollsFound'
  BY <1>2, <1>3, <1>4, <1>10 DEF PollLogsOK, PollsFound
<1>12. ASSUME ~excused
       PROVE  /\ Fetched(ToSet(L), Known, MaciTypes, Everybody, head + 1)
              /\ Fetched(ToSet(L), Known, PollTypes, gen.pollId, n)
  <2>1. /\ Fetched(T, Known, MaciTypes, Everybody, head + 1)
        /\ Fetched(T, Known, PollTypes, gen.pollId, gen.i)
    BY <1>2, <1>3, <1>12 DEF PollLogsOK, T
  <2>2. T \subseteq ToSet(L)
    BY <1>5 DEF Added
  <2>3. Fetched(ToSet(L), Known, PollTypes, gen.pollId, n)
    BY <1>5, <1>12, <2>1 DEF Added, n
  <2> QED
    BY <2>1, <2>2, <2>3 DEF Fetched
<1>13. \A e \in ToSet(L) : e.type \in PollTypes => e.block < n
  BY <1>5 DEF Added, n
<1>14. PollLogsOK'
  BY <1>4, <1>7, <1>11, <1>12, <1>13 DEF PollLogsOK
<1>15. MaciLogsOK' /\ ReplayOK' /\ CountsOK'
  BY <1>4 DEF MaciLogsOK, ReplayOK, CountsOK
<1>16. CallInv'
  BY <1>4, <1>8, <1>9, <1>14, <1>15 DEF CallInv
<1> QED
  BY <1>4, <1>7, <1>16 DEF GenInv

-----------------------------------------------------------------------------
\* The polls are checked: those of a quiet chain are all there.
LEMMA CheckPollsStep ==
  ASSUME GenInv, checkPolls
  PROVE  GenInv'
<1>1. /\ gen.at = "maciLogs" /\ gen.i > gen.lastBlock /\ UNCHANGED <<env, excused>>
      /\ gen' = [gen EXCEPT !.at = IF PollsFound THEN "pollLogs" ELSE "threw", !.i = gen.fromBlock]
  BY DEF checkPolls
<1>2. CallInv /\ CallOK /\ MaciLogsOK /\ LogsOf(gen.logs, Known, gen.pollId) /\ ChainNow
  BY <1>1 DEF GenInv, CallInv
<1>3. /\ gen'.at = (IF PollsFound THEN "pollLogs" ELSE "threw") /\ gen'.i = gen.fromBlock
      /\ gen'.logs = gen.logs /\ gen'.pollId = gen.pollId /\ DOMAIN gen' = Fields
      /\ gen'.fromBlock = gen.fromBlock /\ gen'.lastBlock = gen.lastBlock
  <2>1. DOMAIN gen = Fields
    BY <1>2 DEF CallOK
  <2> HIDE DEF PollsFound
  <2> QED
    BY <1>1, <2>1 DEF Fields
<1>4. /\ ChainNow' /\ QueuesOK' /\ Known' = Known /\ head' = head
      /\ excused' = excused /\ excused \in BOOLEAN
  BY <1>1, QuietFrame
<1>5. CallOK'
  <2>1. gen'.at \in Phases /\ gen'.i \in Nat
    BY <1>2, <1>3 DEF Phases, CallOK
  <2> QED
    BY <1>1, <1>2, <1>3, <2>1, SameCall
<1>6. LogsOf(gen.logs, Known, gen.pollId)'
  BY <1>2, <1>3, <1>4
<1> DEFINE T == ToSet(gen.logs)
           p == gen.pollId
<1>7. ASSUME ~excused
      PROVE  /\ Fetched(T, Known, MaciTypes, Everybody, head + 1)
             /\ gen.fromBlock <= 1 /\ PollsFound
  <2>1. QuietCall /\ Fetched(T, Known, MaciTypes, Everybody, gen.i)
    BY <1>1, <1>2, <1>7 DEF CallOK, MaciLogsOK
  <2>2. \A e \in Known : e.block < gen.i
    <3> SUFFICES ASSUME NEW e \in Known PROVE e.block < gen.i
      OBVIOUS
    <3>1. /\ e.block \in Nat /\ e.block <= head /\ head <= gen.lastBlock /\ gen.lastBlock < gen.i
          /\ gen.lastBlock \in Nat /\ gen.i \in Nat /\ head \in Nat
      BY <1>1, <1>2, <2>1, KnownFacts DEF CallOK, QuietCall, Events
    <3> QED
      BY <3>1
  <2>3. \A e \in Known : e.type \in MaciTypes => e \in T
    BY <2>1, <2>2 DEF Fetched
  <2> DEFINE S == {e \in T : e.type = "DeployPoll"}
             U == {e \in Known : e.type = "DeployPoll"}
             ids == OfType(chain, "DeployPoll")
  <2>4. S = U
    BY <1>2, <2>3 DEF LogsOf, MaciTypes
  <2>5. Lists(ids, U, Earlier) /\ Lists(OfType(gen.logs, "DeployPoll"), S, Earlier)
    BY <1>2, KnownFacts, KindLists DEF LogsOf
  <2> HIDE DEF S
  <2>6. OfType(gen.logs, "DeployPoll") = ids
    BY <2>4, <2>5, Orders, OneList
  <2>7. \A k \in DOMAIN ids : ids[k].poll = k - 1
    BY <1>2, KnownFacts DEF PollsCount
  <2>8. PICK d \in U : d.poll = p
    <3>1. PICK e \in Known : e.poll = p
      BY <2>1 DEF QuietCall
    <3>2. p # Everybody
      BY <1>2 DEF CallOK, Everybody
    <3> QED
      BY <1>2, <3>1, <3>2, KnownFacts DEF Deployed
  <2>9. p < Len(ids)
    <3> HIDE DEF ids, U
    <3>1. PICK k \in 1..Len(ids) : d = ids[k]
      BY <2>5, <2>8, ListsDef
    <3>2. Len(ids) \in Nat /\ DOMAIN ids = 1..Len(ids)
      BY <2>5, ListsDef
    <3>3. p = k - 1
      BY <2>7, <2>8, <3>1, <3>2
    <3> QED
      BY <3>1, <3>2, <3>3
  <2>10. PollsFound
    BY <2>6, <2>7, <2>9 DEF PollsFound
  <2> QED
    BY <2>1, <2>3, <2>10 DEF Fetched, QuietCall
<1>8. \A e \in T : e.type \notin PollTypes
  BY <1>1, <1>2 DEF MaciLogsOK, MaciTypes, PollTypes, MessageTypes
<1>9. MaciLogsOK' /\ ReplayOK' /\ CountsOK'
  BY <1>3 DEF MaciLogsOK, ReplayOK, CountsOK
<1>10. PollLogsOK'
  <2> SUFFICES ASSUME PollsFound PROVE PollLogsOK'
    BY <1>3 DEF PollLogsOK
  <2>1. PollsFound'
    BY <1>3 DEF PollsFound
  <2>2. ASSUME ~excused PROVE Fetched(T, Known, PollTypes, p, gen.fromBlock)
    <3>1. \A e \in Known : ~ (e.block < gen.fromBlock)
      <4> SUFFICES ASSUME NEW e \in Known PROVE ~ (e.block < gen.fromBlock)
        OBVIOUS
      <4>1. e.block \in 1..(head + 1) /\ gen.fromBlock \in Nat /\ gen.fromBlock <= 1 /\ head \in Nat
        BY <1>2, <1>7, <2>2, KnownFacts DEF Timed, CallOK
      <4> QED
        BY <4>1
    <3> QED
      BY <3>1 DEF Fetched
  <2> HIDE DEF T
  <2>3. ToSet(gen.logs)' = T
    BY <1>3 DEF T
  <2> QED
    BY <1>3, <1>4, <1>7, <1>8, <2>1, <2>2, <2>3 DEF PollLogsOK
<1>11. gen'.at = "threw" => excused'
  BY <1>3, <1>4, <1>7
<1>12. CallInv'
  BY <1>3, <1>5, <1>6, <1>9, <1>10, <1>11 DEF CallInv
<1> QED
  BY <1>3, <1>4, <1>12 DEF GenInv

-----------------------------------------------------------------------------
(***************************************************************************)
(* Sorting: by transaction, within one by type, and each type in its order *)
(* on the chain.                                                           *)
(***************************************************************************)
Ranked ==
  {x \in Events \X Events :
     \/ x[1].type = x[2].type /\ x[1].n < x[2].n
     \/ \E i, j \in 1..5 : i < j /\ x[1].type = ActionOrder[i] /\ x[2].type = ActionOrder[j]}
Sorted ==
  {x \in Events \X Events :
     \/ x[1].tx < x[2].tx
     \/ x[1].tx = x[2].tx /\ x \in Ranked}

\* The types of the actions are told apart by their rank.
LEMMA Actions ==
  /\ DOMAIN ActionOrder = 1..5
  /\ \A t \in MaciTypes \cup PollTypes : \E i \in 1..5 : t = ActionOrder[i]
  /\ \A i, j \in 1..5 : ActionOrder[i] = ActionOrder[j] => i = j
  /\ ActionOrder[1] = "SignUp" /\ ActionOrder[2] = "DeployPoll" /\ ActionOrder[3] = "PublishMessage"
  /\ ActionOrder[4] = "TopupMessage" /\ ActionOrder[5] = "MergeMessageAq"
<1>1. DOMAIN ActionOrder = 1..5
  BY DEF ActionOrder
<1>2. /\ ActionOrder[1] = "SignUp" /\ ActionOrder[2] = "DeployPoll" /\ ActionOrder[3] = "PublishMessage"
      /\ ActionOrder[4] = "TopupMessage" /\ ActionOrder[5] = "MergeMessageAq"
  BY DEF ActionOrder
<1>3. \A i \in 1..5 : i = 1 \/ i = 2 \/ i = 3 \/ i = 4 \/ i = 5
  OBVIOUS
<1>4. {1, 2, 3, 4, 5} \subseteq 1..5
  OBVIOUS
<1>5. \A t \in MaciTypes \cup PollTypes : \E i \in 1..5 : t = ActionOrder[i]
  BY <1>2, <1>4 DEF MaciTypes, PollTypes, MessageTypes
<1>6. ASSUME NEW i \in 1..5, NEW j \in 1..5, ActionOrder[i] = ActionOrder[j] PROVE i = j
  BY <1>2, <1>3, <1>6
<1> QED
  BY <1>1, <1>2, <1>5, <1>6

\* The actions are the events that were fetched, sorted.
LEMMA ActionsSorted ==
  ASSUME ChainNow, LogsOf(gen.logs, Known, gen.pollId)
  PROVE  Lists(sortActions, ToSet(gen.logs), Sorted)
<1> DEFINE L == gen.logs
           T == ToSet(L)
           f == [k \in DOMAIN ActionOrder |-> OfType(L, ActionOrder[k])]
           A == [k \in 1..5 |-> {e \in T : e.type = ActionOrder[k]}]
           byType == FlattenSeq(f)
           n == transactions
           g == [t \in 1..n |-> Those(byType, {k \in DOMAIN byType : byType[k].tx = t})]
           B == [t \in 1..n |-> {e \in T : e.tx = t}]
<1>1. /\ Lists(L, T, InKind) /\ T \subseteq Known /\ T \subseteq Events
      /\ \A e \in T : e.type \in MaciTypes \cup PollTypes /\ e.tx \in 1..n
  BY KnownFacts DEF LogsOf, Timed
<1>2. n \in Nat
  BY DEF ChainNow
<1>3. sortActions = FlattenSeq(g)
  BY DEF sortActions
<1> HIDE DEF L, T, n
<1>4. \A k \in 1..5 : Lists(f[k], A[k], Ranked) /\ f[k] \in Seq(Events)
  <2> SUFFICES ASSUME NEW k \in 1..5 PROVE Lists(f[k], A[k], Ranked) /\ f[k] \in Seq(Events)
    OBVIOUS
  <2> DEFINE S == {e \in T : e.type = ActionOrder[k]}
             s == OfType(L, ActionOrder[k])
  <2>1. f[k] = s /\ A[k] = S
    BY Actions
  <2>2. Lists(s, S, Earlier)
    BY <1>1, KindLists
  <2>3. \A x, y \in S : <<x, y>> \in Earlier => <<x, y>> \in Ranked
    BY DEF Earlier, Ranked
  <2>4. S \subseteq Events
    BY <1>1
  <2> HIDE DEF s, S, f, A
  <2>5. Lists(s, S, Ranked)
    BY <2>2, <2>3, Weaker
  <2>6. s \in Seq(Events)
    BY <2>4, <2>5, SeqMonotonic DEF Lists
  <2> QED
    BY <2>1, <2>5, <2>6
<1>5. f \in Seq(Seq(Events)) /\ Len(f) = 5
  <2>1. f = [k \in 1..5 |-> f[k]]
    BY Actions
  <2> HIDE DEF f
  <2>2. f \in [1..5 -> Seq(Events)]
    BY <1>4, <2>1
  <2> QED
    BY <2>2, Listed, 5 \in Nat
<1>6. InTurn(A, 5, Ranked)
  <2> SUFFICES ASSUME NEW i \in 1..5, NEW k \in 1..5, i < k, NEW x \in A[i], NEW y \in A[k]
               PROVE  <<x, y>> \in Ranked
    BY DEF InTurn, AllBefore
  <2>1. x \in Events /\ y \in Events /\ x.type = ActionOrder[i] /\ y.type = ActionOrder[k]
    BY <1>1
  <2> QED
    BY <2>1 DEF Ranked
<1>7. Parts(A, 5) = T
  <2>1. \A e \in T : \E k \in 1..5 : e \in A[k]
    BY <1>1, Actions
  <2> QED
    BY <2>1 DEF Parts
<1> HIDE DEF f, A
<1>8. Lists(byType, T, Ranked)
  <2>1. Lists(FlattenSeq(f), Parts(A, Len(f)), Ranked)
    BY <1>4, <1>5, <1>6, FlatLists
  <2> QED
    BY <1>5, <1>7, <2>1
<1> HIDE DEF byType
<1>9. \A t \in 1..n : Lists(g[t], B[t], Sorted) /\ g[t] \in Seq(Events)
  <2> SUFFICES ASSUME NEW t \in 1..n PROVE Lists(g[t], B[t], Sorted) /\ g[t] \in Seq(Events)
    OBVIOUS
  <2> DEFINE K == {k \in DOMAIN byType : byType[k].tx = t}
             S == {e \in T : e.tx = t}
             s == Those(byType, K)
  <2>1. g[t] = s /\ B[t] = S
    OBVIOUS
  <2>2. Chosen(byType, K) = S
    <3>1. T = {byType[k] : k \in DOMAIN byType}
      BY <1>8 DEF Lists, ToSet
    <3> QED
      BY <3>1 DEF Chosen
  <2> HIDE DEF K
  <2>3. Lists(s, S, Ranked)
    BY <1>8, <2>2, ThoseLists
  <2>4. \A x, y \in S : <<x, y>> \in Ranked => <<x, y>> \in Sorted
    BY <1>1 DEF Sorted
  <2>5. S \subseteq Events
    BY <1>1
  <2> HIDE DEF s, S, g, B
  <2>6. Lists(s, S, Sorted)
    BY <2>3, <2>4, Weaker
  <2>7. s \in Seq(Events)
    BY <2>5, <2>6, SeqMonotonic DEF Lists
  <2> QED
    BY <2>1, <2>6, <2>7
<1>10. g \in Seq(Seq(Events)) /\ Len(g) = n
  <2>1. g = [t \in 1..n |-> g[t]]
    OBVIOUS
  <2> HIDE DEF g
  <2>2. g \in [1..n -> Seq(Events)]
    BY <1>9, <2>1
  <2> QED
    BY <1>2, <2>2, Listed
<1>11. InTurn(B, n, Sorted)
  <2> SUFFICES ASSUME NEW i \in 1..n, NEW k \in 1..n, i < k, NEW x \in B[i], NEW y \in B[k]
               PROVE  <<x, y>> \in Sorted
    BY DEF InTurn, AllBefore
  <2>1. x \in Events /\ y \in Events /\ x.tx = i /\ y.tx = k
    BY <1>1
  <2> QED
    BY <2>1 DEF Sorted
<1>12. Parts(B, n) = T
  <2>1. \A e \in T : \E k \in 1..n : e \in B[k]
    BY <1>1
  <2> QED
    BY <2>1 DEF Parts
<1> HIDE DEF g, B
<1>13. Lists(FlattenSeq(g), Parts(B, Len(g)), Sorted)
  BY <1>9, <1>10, <1>11, FlatLists
<1> QED
  BY <1>3, <1>10, <1>12, <1>13 DEF T, L

\* Sorting keeps the events of a type in their order.
LEMMA SortedKind ==
  ASSUME ChainNow, NEW e \in Known, NEW x \in Known, <<e, x>> \in Sorted, e.type = x.type
  PROVE  e.n < x.n
<1>1. e.n \in Nat /\ x.n \in Nat /\ e.tx \in Nat /\ x.tx \in Nat
  BY KnownFacts DEF Events
<1>2. CASE e.tx < x.tx
  <2>1. e.n # x.n
    BY <1>1, <1>2, KnownFacts
  <2>2. ~ (x.n < e.n)
    BY <1>1, <1>2, KnownFacts DEF Timed
  <2> QED
    BY <1>1, <2>1, <2>2
<1>3. CASE <<e, x>> \in Ranked
  <2> SUFFICES ASSUME NEW i \in 1..5, NEW j \in 1..5, i < j, e.type = ActionOrder[i],
                      x.type = ActionOrder[j]
               PROVE  FALSE
    BY <1>3 DEF Ranked
  <2>1. i = j
    BY Actions
  <2> QED
    BY <2>1
<1> QED
  BY <1>2, <1>3 DEF Sorted

\* Unless both kinds share a transaction, it keeps all messages in theirs.
LEMMA SortedMessages ==
  ASSUME ChainNow, NEW p, ~MixedIn(Known, p), NEW e \in Of(Known, MessageTypes, p),
         NEW x \in Of(Known, MessageTypes, p), <<e, x>> \in Sorted
  PROVE  e.n < x.n
<1>1. e \in Known /\ x \in Known /\ e.poll = p /\ x.poll = p
      /\ e.type \in {"PublishMessage", "TopupMessage"} /\ x.type \in {"PublishMessage", "TopupMessage"}
  BY DEF Of, MessageTypes
<1>2. CASE e.type = x.type
  BY <1>1, <1>2, SortedKind
<1>3. CASE e.type # x.type
  <2>1. e.n \in Nat /\ x.n \in Nat /\ e.tx \in Nat /\ x.tx \in Nat
    BY <1>1, KnownFacts DEF Events
  <2>2. e.tx # x.tx
    BY <1>1, <1>3 DEF MixedIn
  <2>3. e.tx < x.tx
    BY <2>2 DEF Sorted
  <2>4. e.n # x.n
    BY <1>1, <2>1, <2>3, KnownFacts
  <2>5. ~ (x.n < e.n)
    BY <1>1, <2>1, <2>3, KnownFacts DEF Timed
  <2> QED
    BY <2>1, <2>4, <2>5
<1> QED
  BY <1>2, <1>3

\* No message is sorted before the poll it is for.
LEMMA DeployedFirst ==
  ASSUME ChainNow, NEW d \in Known, NEW m \in Known, d.type = "DeployPoll", m.type \in MessageTypes,
         d.tx <= m.tx
  PROVE  <<m, d>> \notin Sorted
<1> SUFFICES ASSUME <<m, d>> \in Sorted PROVE FALSE
  OBVIOUS
<1>1. d.tx \in Nat /\ m.tx \in Nat
  BY KnownFacts DEF Events
<1>2. <<m, d>> \in Ranked
  BY <1>1 DEF Sorted
<1>3. m.type # d.type
  BY DEF MessageTypes
<1>4. PICK i \in 1..5, j \in 1..5 : i < j /\ m.type = ActionOrder[i] /\ d.type = ActionOrder[j]
  BY <1>2, <1>3 DEF Ranked
<1>5. j = 2
  BY <1>4, Actions
<1>6. i = 1
  BY <1>4, <1>5
<1> QED
  BY <1>4, <1>6, Actions DEF MessageTypes

\* A merge of the messages is sorted after those it is of and before the rest.
LEMMA MergedInTurn ==
  ASSUME ChainNow, NEW e \in Known, e.type = "MergeMessageAq", NEW m \in Known, m # e
  PROVE  /\ <<m, e>> \in Sorted => m.n < e.n
         /\ <<e, m>> \in Sorted => e.n < m.n
<1>1. e.n \in Nat /\ m.n \in Nat /\ e.tx \in Nat /\ m.tx \in Nat
  BY KnownFacts DEF Events
<1>2. e.tx # m.tx
  BY KnownFacts DEF Merged
<1>3. e.n # m.n
  BY KnownFacts
<1>4. ASSUME <<m, e>> \in Sorted PROVE m.n < e.n
  <2>1. m.tx < e.tx
    BY <1>2, <1>4 DEF Sorted
  <2>2. ~ (e.n < m.n)
    BY <1>1, <2>1, KnownFacts DEF Timed
  <2> QED
    BY <1>1, <1>3, <2>2
<1>5. ASSUME <<e, m>> \in Sorted PROVE e.n < m.n
  <2>1. e.tx < m.tx
    BY <1>2, <1>5 DEF Sorted
  <2>2. ~ (m.n < e.n)
    BY <1>1, <2>1, KnownFacts DEF Timed
  <2> QED
    BY <1>1, <1>3, <2>2
<1> QED
  BY <1>4, <1>5

-----------------------------------------------------------------------------
(***************************************************************************)
(* The replay.                                                             *)
(***************************************************************************)
Actable == {e \in Events : e.type \in MaciTypes \cup PollTypes}
Rebuilt ==
  [leaves : Seq(Nat), polls : Seq(Nat \cup {NullPoll}), messages : Seq(Nat), ok : BOOLEAN]

\* The states after each of the actions.
ReplayTo(actions, p) ==
  LET after[k \in 0..Len(actions)] ==
        IF k = 0 THEN NothingYet ELSE Replayed(after[k - 1], actions[k], p)
  IN  after

\* What one action does to the state being rebuilt.
LEMMA OneAction ==
  ASSUME NEW s \in Rebuilt, NEW e \in Actable, NEW p \in Nat
  PROVE  /\ Replayed(s, e, p) \in Rebuilt
         /\ Replayed(s, e, p).leaves = IF e.type = "SignUp" THEN s.leaves \o e.data ELSE s.leaves
         /\ Replayed(s, e, p).polls =
              IF e.type = "DeployPoll" THEN Append(s.polls, IF e.poll = p THEN e.poll ELSE NullPoll)
              ELSE s.polls
         /\ Replayed(s, e, p).messages =
              IF e.type \in MessageTypes /\ p \in ToSet(s.polls) THEN s.messages \o e.data
              ELSE s.messages
         /\ Replayed(s, e, p).ok =
              IF e.type = "MergeMessageAq" THEN s.ok /\ RootOf(s.messages, messageTreeDepth) = e.data
              ELSE s.ok
<1>1. e.data \in Seq(Nat) /\ e.type \in MaciTypes \cup PollTypes
  BY DEF Actable, Events
<1>2. /\ s.leaves \in Seq(Nat) /\ s.messages \in Seq(Nat) /\ s.ok \in BOOLEAN
      /\ s.polls \in Seq(Nat \cup {NullPoll})
  BY DEF Rebuilt
<1>3. CASE e.type = "SignUp"
  <2>1. Replayed(s, e, p) = [s EXCEPT !.leaves = @ \o e.data]
    BY <1>3 DEF Replayed, MessageTypes
  <2>2. s.leaves \o e.data \in Seq(Nat)
    BY <1>1, <1>2
  <2> QED
    BY <1>1, <1>2, <1>3, <2>1, <2>2 DEF Rebuilt, MessageTypes
<1>4. CASE e.type = "DeployPoll"
  <2> DEFINE x == IF e.poll = p THEN e.poll ELSE NullPoll
  <2>1. Replayed(s, e, p) = [s EXCEPT !.polls = Append(@, x)]
    BY <1>4 DEF Replayed, MessageTypes
  <2>2. x \in Nat \cup {NullPoll}
    OBVIOUS
  <2> HIDE DEF x
  <2>3. Append(s.polls, x) \in Seq(Nat \cup {NullPoll})
    BY <1>2, <2>2
  <2>4. /\ Replayed(s, e, p) \in Rebuilt /\ Replayed(s, e, p).polls = Append(s.polls, x)
        /\ Replayed(s, e, p).leaves = s.leaves /\ Replayed(s, e, p).messages = s.messages
        /\ Replayed(s, e, p).ok = s.ok
    BY <1>2, <2>1, <2>3 DEF Rebuilt
  <2> QED
    BY <1>4, <2>4 DEF MessageTypes, x
<1>5. CASE e.type \in MessageTypes
  <2>1. Replayed(s, e, p) = IF p \in ToSet(s.polls) THEN [s EXCEPT !.messages = @ \o e.data] ELSE s
    BY <1>5 DEF Replayed, MessageTypes
  <2>2. s.messages \o e.data \in Seq(Nat)
    BY <1>1, <1>2
  <2> QED
    BY <1>1, <1>2, <1>5, <2>1, <2>2 DEF Rebuilt, MessageTypes
<1>6. CASE e.type = "MergeMessageAq"
  <2> DEFINE o == s.ok /\ RootOf(s.messages, messageTreeDepth) = e.data
  <2>1. Replayed(s, e, p) = [s EXCEPT !.ok = o]
    <3>1. (s.ok /\ RootOf(s.messages, messageTreeDepth) = e.data) = o
      OBVIOUS
    <3> QED
      BY <1>6 DEF Replayed, MessageTypes
  <2>2. o \in BOOLEAN
    BY <1>2
  <2> HIDE DEF o
  <2>3. /\ Replayed(s, e, p) \in Rebuilt /\ Replayed(s, e, p).ok = o
        /\ Replayed(s, e, p).leaves = s.leaves /\ Replayed(s, e, p).messages = s.messages
        /\ Replayed(s, e, p).polls = s.polls
    BY <1>2, <2>1, <2>2 DEF Rebuilt
  <2> QED
    BY <1>6, <2>3 DEF MessageTypes, o
<1> QED
  BY <1>1, <1>3, <1>4, <1>5, <1>6 DEF MaciTypes, PollTypes

\* The replay, as a recursion.
LEMMA ReplayDef ==
  ASSUME NEW actions \in Seq(Actable), NEW p \in Nat
  PROVE  /\ ReplayTo(actions, p) \in [0..Len(actions) -> Rebuilt]
         /\ ReplayTo(actions, p)[0] = NothingYet
         /\ \A k \in 1..Len(actions) :
              ReplayTo(actions, p)[k] = Replayed(ReplayTo(actions, p)[k - 1], actions[k], p)
         /\ AfterAll(actions, p) = ReplayTo(actions, p)[Len(actions)]
<1> DEFINE L == Len(actions)
           V == Rebuilt
           g == [k \in 0..L |-> [v \in V |-> IF k = 0 THEN NothingYet ELSE Replayed(v, actions[k], p)]]
           f == ReplayTo(actions, p)
<1>1. L \in Nat /\ \A k \in 1..L : actions[k] \in Actable
  BY ElementOfSeq
<1>2. NothingYet \in V
  BY BlankIsNumber DEF NothingYet, Rebuilt
<1>3. \A k \in 1..L : \A v \in V : Replayed(v, actions[k], p) \in V
  BY <1>1, OneAction
<1>4. g \in [0..L -> [V -> V]]
  <2> HIDE DEF V, L
  <2> QED
    BY <1>1, <1>2, <1>3
<1>5. HasRecursion(V, NothingYet, 0, L, g)
  <2> HIDE DEF g, V, L
  <2> QED
    BY <1>1, <1>2, <1>4, RangeRecursion
<1>6. PICK h \in [0..L -> V] : \A k \in 0..L : h[k] = IF k = 0 THEN NothingYet ELSE g[k][h[k - 1]]
  <2> HIDE DEF g, V, L
  <2> QED
    BY <1>5 DEF HasRecursion
<1>7. \A k \in 0..L : h[k] = IF k = 0 THEN NothingYet ELSE Replayed(h[k - 1], actions[k], p)
  <2> HIDE DEF V, L
  <2> SUFFICES ASSUME NEW k \in 0..L, k # 0 PROVE h[k] = Replayed(h[k - 1], actions[k], p)
    BY <1>6
  <2>1. k - 1 \in 0..L /\ h[k - 1] \in V
    BY <1>1, <1>6
  <2> QED
    BY <1>6, <2>1
<1>8. h = [k \in 0..L |-> IF k = 0 THEN NothingYet ELSE Replayed(h[k - 1], actions[k], p)]
  BY <1>6, <1>7
<1>9. f = [k \in 0..L |-> IF k = 0 THEN NothingYet ELSE Replayed(f[k - 1], actions[k], p)]
  BY <1>8 DEF ReplayTo
<1>10. AfterAll(actions, p) = f[L]
  BY DEF AfterAll, ReplayTo
<1>11. f = h
  <2> DEFINE P == {k \in 0..L : f[k] = h[k]}
  <2>1. 0 \in P
    BY <1>1, <1>7, <1>9
  <2>2. ASSUME NEW k \in 0..(L - 1), k \in P PROVE k + 1 \in P
    <3>1. k + 1 \in 0..L /\ k + 1 # 0 /\ (k + 1) - 1 = k
      BY <1>1
    <3> QED
      BY <1>7, <1>9, <2>2, <3>1
  <2> HIDE DEF P, L, f
  <2>3. 0..L \subseteq P
    BY <1>1, <2>1, <2>2, RangeInduction
  <2> QED
    BY <1>6, <1>9, <2>3 DEF P
<1> HIDE DEF f
<1>12. f \in [0..L -> V] /\ f[0] = NothingYet
  BY <1>1, <1>6, <1>7, <1>11
<1>13. \A k \in 1..L : f[k] = Replayed(f[k - 1], actions[k], p)
  <2> SUFFICES ASSUME NEW k \in 1..L PROVE f[k] = Replayed(f[k - 1], actions[k], p)
    OBVIOUS
  <2>1. k \in 0..L /\ k # 0
    BY <1>1
  <2> QED
    BY <1>7, <1>11, <2>1
<1> QED
  BY <1>10, <1>12, <1>13 DEF f

-----------------------------------------------------------------------------
(***************************************************************************)
(* What the replay rebuilds: the users, the polls, the messages.           *)
(***************************************************************************)
\* The actions A are the logs L of the poll p, sorted.
Replays(A, L, p) ==
  ChainNow /\ p \in Nat /\ LogsOf(L, Known, p) /\ Lists(A, ToSet(L), Sorted)

Prefix(A, k) == {A[j] : j \in 1..k}

\* An action takes the state s to t.
Acted(s, e, p, t) ==
  /\ s \in Rebuilt /\ t \in Rebuilt
  /\ t.leaves = IF e.type = "SignUp" THEN s.leaves \o e.data ELSE s.leaves
  /\ t.polls = IF e.type = "DeployPoll" THEN Append(s.polls, IF e.poll = p THEN e.poll ELSE NullPoll)
               ELSE s.polls
  /\ t.messages = IF e.type \in MessageTypes /\ p \in ToSet(s.polls) THEN s.messages \o e.data
                  ELSE s.messages
  /\ t.ok = IF e.type = "MergeMessageAq" THEN s.ok /\ RootOf(s.messages, messageTreeDepth) = e.data
            ELSE s.ok

\* The action after k of them.
NextIs(A, T, p, k, e) ==
  /\ k + 1 \in 1..Len(A) /\ k + 1 \in 0..Len(A) /\ e = A[k + 1]
  /\ e \in T /\ e \in Actable /\ e \in Known
  /\ (e.type \in PollTypes => e.poll = p)
  /\ Prefix(A, k) \subseteq T /\ Prefix(A, k) \subseteq Known
  /\ Prefix(A, k + 1) = Prefix(A, k) \cup {e}
  /\ \A x \in Prefix(A, k) : <<x, e>> \in Sorted
  /\ \A x \in T \ Prefix(A, k + 1) : <<e, x>> \in Sorted
  /\ Acted(ReplayTo(A, p)[k], e, p, ReplayTo(A, p)[k + 1])

\* The actions of a replay, and the first and the last beginning of them.
LEMMA ActionsTyped ==
  ASSUME NEW A, NEW L, NEW p, Replays(A, L, p)
  PROVE  /\ A \in Seq(Actable) /\ Len(A) \in Nat /\ DOMAIN A = 1..Len(A)
         /\ ToSet(L) \subseteq Known /\ ToSet(L) \subseteq Actable
         /\ Prefix(A, 0) = {} /\ Prefix(A, Len(A)) = ToSet(L)
<1>1. Lists(A, ToSet(L), Sorted) /\ LogsOf(L, Known, p) /\ ChainNow
  BY DEF Replays
<1>2. ToSet(L) \subseteq Known /\ ToSet(L) \subseteq Actable
  BY <1>1, KnownFacts DEF LogsOf, Actable
<1>3. A \in Seq(Actable)
  BY <1>1, <1>2, SeqMonotonic DEF Lists
<1>4. Len(A) \in Nat /\ DOMAIN A = 1..Len(A) /\ \A i \in 1..Len(A) : A[i] \in ToSet(L)
  BY <1>1, ListsDef
<1>5. \A x \in ToSet(L) : \E i \in 1..Len(A) : x = A[i]
  BY <1>1, ListsDef
<1>6. Prefix(A, 0) = {}
  BY DEF Prefix
<1>7. Prefix(A, Len(A)) = ToSet(L)
  BY <1>4, <1>5 DEF Prefix
<1> QED
  BY <1>2, <1>3, <1>4, <1>6, <1>7

\* The next action and how it stands to those before and after it.
LEMMA NextAction ==
  ASSUME NEW A, NEW L, NEW p, Replays(A, L, p), NEW k \in 0..(Len(A) - 1)
  PROVE  NextIs(A, ToSet(L), p, k, A[k + 1])
<1> DEFINE T == ToSet(L)
           l == k + 1
<1>1. /\ A \in Seq(Actable) /\ Len(A) \in Nat /\ T \subseteq Known /\ T \subseteq Actable
  BY ActionsTyped
<1>2. Lists(A, T, Sorted) /\ LogsOf(L, Known, p) /\ p \in Nat
  BY DEF Replays
<1>3. /\ l \in 1..Len(A) /\ l \in 0..Len(A) /\ k \in 0..Len(A) /\ l - 1 = k /\ 1..l = (1..k) \cup {l}
      /\ \A j \in 1..k : j \in 1..Len(A) /\ j < l
  BY <1>1
<1> HIDE DEF l
<1>4. /\ \A i \in 1..Len(A) : A[i] \in T
      /\ \A i, j \in 1..Len(A) : i < j => <<A[i], A[j]>> \in Sorted
  BY <1>2, ListsDef
<1>5. Acted(ReplayTo(A, p)[k], A[l], p, ReplayTo(A, p)[l])
  <2> DEFINE s == ReplayTo(A, p)[k]
             t == ReplayTo(A, p)[l]
             e == A[l]
  <2>1. s \in Rebuilt /\ t = Replayed(s, e, p) /\ e \in Actable
    BY <1>1, <1>2, <1>3, ReplayDef, ElementOfSeq
  <2> HIDE DEF s, t, e
  <2>2. Acted(s, e, p, t)
    BY <1>2, <2>1, OneAction DEF Acted
  <2> QED
    BY <2>2 DEF s, t, e
<1>6. Prefix(A, k) \subseteq T /\ Prefix(A, l) = Prefix(A, k) \cup {A[l]}
      /\ \A x \in Prefix(A, k) : <<x, A[l]>> \in Sorted
  BY <1>3, <1>4 DEF Prefix
<1>7. A[l] \in T /\ (A[l].type \in PollTypes => A[l].poll = p)
  <2>1. \A t \in MaciTypes : t \notin PollTypes
    BY DEF MaciTypes, PollTypes, MessageTypes
  <2> QED
    BY <1>2, <1>3, <1>4, <2>1 DEF LogsOf
<1>8. \A x \in T \ Prefix(A, l) : <<A[l], x>> \in Sorted
  <2> SUFFICES ASSUME NEW x \in T \ Prefix(A, l) PROVE <<A[l], x>> \in Sorted
    OBVIOUS
  <2>1. PICK j \in 1..Len(A) : x = A[j]
    BY <1>2, ListsDef
  <2>2. j \notin 1..l
    BY <2>1 DEF Prefix
  <2>3. l < j
    BY <1>1, <1>3, <2>1, <2>2
  <2> QED
    BY <1>3, <1>4, <2>1, <2>3
<1>9. NextIs(A, T, p, k, A[l])
  BY <1>1, <1>3, <1>5, <1>6, <1>7, <1>8 DEF NextIs, l
<1> QED
  BY <1>9 DEF l

AddsNumber(E, e, types, p) ==
  Numbers(Of(E \cup {e}, types, p)) =
    IF e.type \in types /\ e.poll = p THEN Numbers(Of(E, types, p)) \cup {e.n}
    ELSE Numbers(Of(E, types, p))

\* One event more.
LEMMA AddedNumber ==
  ASSUME NEW E, NEW e, NEW types, NEW p
  PROVE  AddsNumber(E, e, types, p)
BY DEF Numbers, Of, AddsNumber

\* The users replayed are those of the events.
LEMMA LeavesReplayed ==
  ASSUME NEW A, NEW L, NEW p, Replays(A, L, p)
  PROVE  Lists(AfterAll(A, p).leaves, {Blank} \cup UsersOf(ToSet(L)), Less)
<1> DEFINE f == ReplayTo(A, p)
           P == {k \in 0..Len(A) : Lists(f[k].leaves, {Blank} \cup UsersOf(Prefix(A, k)), Less)}
<1>1. /\ A \in Seq(Actable) /\ Len(A) \in Nat /\ Prefix(A, 0) = {} /\ Prefix(A, Len(A)) = ToSet(L)
  BY ActionsTyped
<1>2. p \in Nat /\ ChainNow
  BY DEF Replays
<1>3. f[0] = NothingYet /\ AfterAll(A, p) = f[Len(A)]
  BY <1>1, <1>2, ReplayDef
<1>4. 0 \in P
  <2>1. Lists(<<Blank>>, {Blank}, Less)
    BY OneListed
  <2>2. UsersOf({}) = {}
    BY DEF UsersOf, Numbers, Of
  <2>3. f[0].leaves = <<Blank>>
    BY <1>3 DEF NothingYet
  <2> HIDE DEF f
  <2>4. Lists(f[0].leaves, {Blank} \cup UsersOf(Prefix(A, 0)), Less)
    BY <1>1, <2>1, <2>2, <2>3
  <2> QED
    BY <1>1, <2>4
<1>5. ASSUME NEW k \in 0..(Len(A) - 1), k \in P PROVE k + 1 \in P
  <2> DEFINE e == A[k + 1]
             l == k + 1
             E == Prefix(A, k)
             S == {Blank} \cup UsersOf(E)
  <2>1. NextIs(A, ToSet(L), p, k, e)
    BY NextAction
  <2> HIDE DEF e
  <2>2. /\ l \in 0..Len(A) /\ e \in Actable /\ e \in Known /\ E \subseteq Known
        /\ Prefix(A, l) = E \cup {e} /\ \A x \in E : <<x, e>> \in Sorted
        /\ Acted(f[k], e, p, f[l])
    BY <2>1 DEF NextIs
  <2> HIDE DEF l, E, f
  <2>3. Lists(f[k].leaves, S, Less)
    BY <1>5 DEF E
  <2>4. f[l].leaves = IF e.type = "SignUp" THEN f[k].leaves \o e.data ELSE f[k].leaves
    BY <2>2 DEF Acted
  <2>5. UsersOf(Prefix(A, l)) =
          IF e.type = "SignUp" /\ e.poll = Everybody THEN UsersOf(E) \cup {e.n} ELSE UsersOf(E)
    <3>1. AddsNumber(E, e, {"SignUp"}, Everybody)
      BY AddedNumber
    <3>2. Prefix(A, l) = E \cup {e} /\ (e.type \in {"SignUp"} <=> e.type = "SignUp")
      BY <2>2
    <3> QED
      BY <3>1, <3>2 DEF UsersOf, AddsNumber
  <2>6. e.type = "SignUp" => e.poll = Everybody /\ e.data = <<e.n>>
    BY <1>2, <2>2, KnownFacts DEF Formed, OneDatum
  <2>7. Lists(f[l].leaves, {Blank} \cup UsersOf(Prefix(A, l)), Less)
    <3>1. CASE e.type = "SignUp"
      <4>1. Lists(<<e.n>>, {e.n}, Less)
        BY OneListed
      <4>2. AllBefore(S, {e.n}, Less)
        <5>1. e.n \in Nat /\ e.n > 0
          <6>1. Numbered(chain) /\ e \in ToSet(chain)
            BY <1>2, <2>2, KnownFacts DEF Known
          <6>2. e.n \in 1..Len(chain) /\ Len(chain) \in Nat
            BY <6>1, Numbering
          <6> QED
            BY <6>2
        <5>2. <<Blank, e.n>> \in Less
          BY <5>1, BlankIsNumber DEF Less
        <5>3. ASSUME NEW x \in Of(E, {"SignUp"}, Everybody) PROVE <<x.n, e.n>> \in Less
          <6>1. x \in Known /\ x.type = e.type /\ <<x, e>> \in Sorted
            BY <2>2, <3>1, <5>3 DEF Of
          <6>2. x.n < e.n /\ x.n \in Nat
            BY <1>2, <2>2, <6>1, SortedKind, KnownFacts DEF Events
          <6> QED
            BY <5>1, <6>2 DEF Less
        <5> QED
          BY <5>2, <5>3 DEF AllBefore, UsersOf, Numbers
      <4> HIDE DEF S
      <4>3. Lists(f[k].leaves \o <<e.n>>, S \cup {e.n}, Less)
        BY <2>3, <4>1, <4>2, JoinedLists
      <4>4. S \cup {e.n} = {Blank} \cup UsersOf(Prefix(A, l))
        BY <2>5, <2>6, <3>1 DEF S
      <4>5. f[l].leaves = f[k].leaves \o <<e.n>>
        BY <2>4, <2>6, <3>1
      <4> QED
        BY <4>3, <4>4, <4>5
    <3>2. CASE e.type # "SignUp"
      BY <2>3, <2>4, <2>5, <3>2
    <3> QED
      BY <3>1, <3>2
  <2>8. l \in P
    BY <2>2, <2>7
  <2> QED
    BY <2>8 DEF l
<1> HIDE DEF P
<1>6. 0..Len(A) \subseteq P
  BY <1>1, <1>4, <1>5, RangeInduction
<1>7. Len(A) \in P
  BY <1>1, <1>6
<1> QED
  BY <1>1, <1>3, <1>7 DEF P

\* The poll is among the polls once it has been deployed.
LEMMA PollsReplayed ==
  ASSUME NEW A, NEW L, NEW p, Replays(A, L, p), NEW n \in 0..Len(A)
  PROVE  p \in ToSet(ReplayTo(A, p)[n].polls)
           <=> \E d \in Prefix(A, n) : d.type = "DeployPoll" /\ d.poll = p
<1> DEFINE f == ReplayTo(A, p)
           Is(k) == \E d \in Prefix(A, k) : d.type = "DeployPoll" /\ d.poll = p
           P == {k \in 0..Len(A) : p \in ToSet(f[k].polls) <=> Is(k)}
<1>1. /\ A \in Seq(Actable) /\ Len(A) \in Nat /\ Prefix(A, 0) = {}
  BY ActionsTyped
<1>2. p \in Nat /\ ChainNow
  BY DEF Replays
<1>3. f[0] = NothingYet
  BY <1>1, <1>2, ReplayDef
<1>4. 0 \in P
  <2>1. f[0].polls = << >> /\ ToSet(<< >>) = {}
    BY <1>3 DEF NothingYet, ToSet
  <2>2. ~ Is(0)
    BY <1>1
  <2> HIDE DEF f
  <2> QED
    BY <1>1, <2>1, <2>2
<1>5. ASSUME NEW k \in 0..(Len(A) - 1), k \in P PROVE k + 1 \in P
  <2> DEFINE e == A[k + 1]
             l == k + 1
  <2>1. NextIs(A, ToSet(L), p, k, e)
    BY NextAction
  <2> HIDE DEF e
  <2>2. /\ l \in 0..Len(A) /\ e \in Actable /\ Prefix(A, l) = Prefix(A, k) \cup {e}
        /\ Acted(f[k], e, p, f[l])
    BY <2>1 DEF NextIs
  <2> HIDE DEF l, f
  <2>3. p \in ToSet(f[k].polls) <=> Is(k)
    BY <1>5
  <2>4. f[l].polls = IF e.type = "DeployPoll"
                     THEN Append(f[k].polls, IF e.poll = p THEN e.poll ELSE NullPoll)
                     ELSE f[k].polls
    BY <2>2 DEF Acted
  <2>5. Is(l) <=> Is(k) \/ (e.type = "DeployPoll" /\ e.poll = p)
    BY <2>2
  <2> HIDE DEF Is
  <2>6. p \in ToSet(f[l].polls) <=> Is(l)
    <3>1. CASE e.type = "DeployPoll"
      <4> DEFINE x == IF e.poll = p THEN e.poll ELSE NullPoll
                 s == f[k].polls
      <4>1. x = p <=> e.poll = p
        BY <1>2 DEF NullPoll, Everybody
      <4>2. s \in Seq(Nat \cup {NullPoll})
        BY <2>2 DEF Rebuilt, Acted
      <4> HIDE DEF x, s
      <4>3. ToSet(Append(s, x)) = ToSet(s) \cup {x}
        <5>1. DOMAIN Append(s, x) = (DOMAIN s) \cup {Len(s) + 1}
              /\ Append(s, x)[Len(s) + 1] = x /\ \A i \in DOMAIN s : Append(s, x)[i] = s[i]
          BY <4>2
        <5> QED
          BY <5>1 DEF ToSet
      <4>4. f[l].polls = Append(s, x)
        BY <2>4, <3>1 DEF s, x
      <4>5. p \in ToSet(f[l].polls) <=> (p \in ToSet(s) \/ x = p)
        BY <4>3, <4>4
      <4> QED
        BY <2>3, <2>5, <3>1, <4>1, <4>5 DEF s
    <3>2. CASE e.type # "DeployPoll"
      BY <2>3, <2>4, <2>5, <3>2
    <3> QED
      BY <3>1, <3>2
  <2>7. l \in P
    BY <2>2, <2>6
  <2> QED
    BY <2>7 DEF l
<1> HIDE DEF P
<1>6. 0..Len(A) \subseteq P
  BY <1>1, <1>4, <1>5, RangeInduction
<1>7. n \in P
  BY <1>6
<1> QED
  BY <1>7 DEF P

\* The logs hold every poll and every message of p, none of them mixed, and
\* no merge of it was late.
Whole(L, p) ==
  /\ ~MixedIn(Known, p) /\ Prompt(Known, p)
  /\ \A e \in Known : e.type = "DeployPoll" \/ (e.type \in MessageTypes /\ e.poll = p) => e \in ToSet(L)

\* The messages so far are some of those among the actions, in their order
\* unless they are mixed, and all of them if no event is missing.
Heard(m, E, L, p) ==
  /\ m \in Seq(Nat)
  /\ ToSet(m) \subseteq MessagesOf(E, p)
  /\ ~MixedIn(Known, p) => Lists(m, ToSet(m), Less)
  /\ Whole(L, p) => ToSet(m) = MessagesOf(E, p)

\* A message for the poll follows the poll.
LEMMA PollThere ==
  ASSUME NEW A, NEW L, NEW p, Replays(A, L, p), Whole(L, p), NEW k \in 0..(Len(A) - 1),
         A[k + 1].type \in MessageTypes
  PROVE  p \in ToSet(ReplayTo(A, p)[k].polls)
<1> DEFINE e == A[k + 1]
           T == ToSet(L)
<1>1. NextIs(A, T, p, k, e)
  BY NextAction
<1>2. k \in 0..Len(A) /\ p \in Nat /\ ChainNow
  <2>1. Len(A) \in Nat
    BY ActionsTyped
  <2> QED
    BY <2>1 DEF Replays
<1>3. e.type \in MessageTypes
  OBVIOUS
<1> HIDE DEF e, T
<1>4. /\ e \in Known /\ e.poll = p /\ Prefix(A, k + 1) = Prefix(A, k) \cup {e}
      /\ \A x \in T \ Prefix(A, k + 1) : <<e, x>> \in Sorted
  BY <1>1, <1>3 DEF NextIs, PollTypes
<1>5. PICK d \in Known : d.type = "DeployPoll" /\ d.poll = p /\ d.tx <= e.tx
  BY <1>2, <1>4, KnownFacts DEF Deployed, Everybody
<1>6. d \in T /\ d # e
  BY <1>3, <1>5 DEF Whole, MessageTypes, T
<1>7. d \in Prefix(A, k)
  <2>1. <<e, d>> \notin Sorted
    BY <1>2, <1>3, <1>4, <1>5, DeployedFirst
  <2> QED
    BY <1>4, <1>6, <2>1
<1> QED
  BY <1>2, <1>5, <1>7, PollsReplayed

\* One element more.
LEMMA JoinedSets ==
  ASSUME NEW X, NEW s \in Seq(X), NEW x \in X
  PROVE  ToSet(s \o <<x>>) = ToSet(s) \cup ToSet(<<x>>)
<1> DEFINE R == {<<y, z>> : y \in X, z \in X}
<1>1. Lists(s, ToSet(s), R) /\ Lists(<<x>>, {x}, R)
  <2>1. s \in Seq(ToSet(s))
    BY Elements, SeqDef
  <2>2. \A i, j \in DOMAIN s : <<s[i], s[j]>> \in R
    BY Elements
  <2> QED
    BY <2>1, <2>2, OneListed DEF Lists, Ordered
<1>2. AllBefore(ToSet(s), {x}, R)
  BY Elements DEF AllBefore
<1> HIDE DEF R
<1>3. Lists(s \o <<x>>, ToSet(s) \cup {x}, R)
  BY <1>1, <1>2, JoinedLists
<1> QED
  BY <1>1, <1>3 DEF Lists

\* One action and the messages heard so far.
LEMMA OneHeard ==
  ASSUME NEW A, NEW L, NEW p, Replays(A, L, p), NEW k \in 0..(Len(A) - 1),
         Heard(ReplayTo(A, p)[k].messages, Prefix(A, k), L, p)
  PROVE  Heard(ReplayTo(A, p)[k + 1].messages, Prefix(A, k + 1), L, p)
<1> DEFINE e == A[k + 1]
           T == ToSet(L)
           E == Prefix(A, k)
           F == Prefix(A, k + 1)
           s == ReplayTo(A, p)[k]
           t == ReplayTo(A, p)[k + 1]
           m == s.messages
<1>1. NextIs(A, T, p, k, e) /\ Heard(m, E, L, p) /\ p \in Nat /\ ChainNow
  BY NextAction DEF Replays
<1>2. Whole(L, p) /\ e.type \in MessageTypes => p \in ToSet(s.polls)
  BY PollThere
<1> HIDE DEF e, T
<1>3. /\ e \in Actable /\ e \in Known /\ (e.type \in PollTypes => e.poll = p)
      /\ E \subseteq Known /\ F = E \cup {e} /\ (\A x \in E : <<x, e>> \in Sorted)
      /\ Acted(s, e, p, t)
  BY <1>1 DEF NextIs
<1> HIDE DEF E, F, s, t
<1>4. t.messages \in Seq(Nat)
      /\ t.messages = IF e.type \in MessageTypes /\ p \in ToSet(s.polls) THEN m \o e.data ELSE m
  BY <1>3 DEF Acted, Rebuilt
<1>5. MessagesOf(F, p) = IF e.type \in MessageTypes /\ e.poll = p THEN MessagesOf(E, p) \cup {e.n}
                         ELSE MessagesOf(E, p)
  <2>1. AddsNumber(E, e, MessageTypes, p)
    BY AddedNumber
  <2> QED
    BY <1>3, <2>1 DEF AddsNumber, MessagesOf
<1> HIDE DEF m
<1> SUFFICES Heard(t.messages, F, L, p)
  BY DEF t, F
<1>6. CASE e.type \notin MessageTypes
  <2>1. t.messages = m /\ MessagesOf(F, p) = MessagesOf(E, p)
    BY <1>4, <1>5, <1>6
  <2> QED
    BY <1>1, <2>1 DEF Heard
<1>7. CASE e.type \in MessageTypes /\ p \notin ToSet(s.polls)
  <2>1. t.messages = m /\ MessagesOf(E, p) \subseteq MessagesOf(F, p)
    BY <1>4, <1>5, <1>7
  <2>2. ~Whole(L, p)
    BY <1>2, <1>7
  <2> QED
    BY <1>1, <2>1, <2>2 DEF Heard
<1>8. CASE e.type \in MessageTypes /\ p \in ToSet(s.polls)
  <2>1. e.poll = p /\ e.data = <<e.n>>
    BY <1>1, <1>3, <1>8, KnownFacts DEF PollTypes, Formed, OneDatum
  <2>2. t.messages = m \o <<e.n>> /\ MessagesOf(F, p) = MessagesOf(E, p) \cup {e.n}
    BY <1>4, <1>5, <1>8, <2>1
  <2>3. ToSet(t.messages) = ToSet(m) \cup {e.n}
    <3>1. e.n \in Nat /\ m \in Seq(Nat)
      BY <1>1, <1>3, KnownFacts DEF Events, Heard
    <3>2. ToSet(m \o <<e.n>>) = ToSet(m) \cup ToSet(<<e.n>>)
      BY <3>1, JoinedSets
    <3>3. ToSet(<<e.n>>) = {e.n}
      BY OneListed DEF Lists
    <3> QED
      BY <2>2, <3>2, <3>3
  <2>4. ASSUME ~MixedIn(Known, p) PROVE Lists(t.messages, ToSet(t.messages), Less)
    <3> DEFINE S == ToSet(m)
    <3>1. Lists(m, S, Less) /\ S \subseteq MessagesOf(E, p)
      BY <1>1, <2>4 DEF Heard
    <3>2. Lists(<<e.n>>, {e.n}, Less)
      BY OneListed
    <3>3. AllBefore(MessagesOf(E, p), {e.n}, Less)
      <4> SUFFICES ASSUME NEW x \in Of(E, MessageTypes, p) PROVE <<x.n, e.n>> \in Less
        BY DEF AllBefore, MessagesOf, Numbers
      <4>1. x \in Of(Known, MessageTypes, p) /\ e \in Of(Known, MessageTypes, p) /\ <<x, e>> \in Sorted
        BY <1>3, <1>8, <2>1 DEF Of
      <4>2. x.n < e.n
        BY <1>1, <2>4, <4>1, SortedMessages
      <4>3. x.n \in Nat /\ e.n \in Nat
        BY <1>1, <4>1, KnownFacts DEF Of, Events
      <4> QED
        BY <4>2, <4>3 DEF Less
    <3>4. AllBefore(S, {e.n}, Less)
      BY <3>1, <3>3 DEF AllBefore
    <3> HIDE DEF S
    <3>5. Lists(m \o <<e.n>>, S \cup {e.n}, Less)
      BY <3>1, <3>2, <3>4, JoinedLists
    <3> QED
      BY <2>2, <2>3, <3>5 DEF S
  <2> QED
    BY <1>1, <1>4, <2>2, <2>3, <2>4 DEF Heard
<1> QED
  BY <1>6, <1>7, <1>8

\* The messages rebuilt, after any number of actions.
LEMMA MessagesReplayed ==
  ASSUME NEW A, NEW L, NEW p, Replays(A, L, p), NEW n \in 0..Len(A)
  PROVE  Heard(ReplayTo(A, p)[n].messages, Prefix(A, n), L, p)
<1> DEFINE f == ReplayTo(A, p)
           P == {k \in 0..Len(A) : Heard(f[k].messages, Prefix(A, k), L, p)}
<1>1. /\ A \in Seq(Actable) /\ Len(A) \in Nat /\ Prefix(A, 0) = {} /\ p \in Nat
  BY ActionsTyped DEF Replays
<1>2. f[0].messages = << >>
  BY <1>1, ReplayDef DEF NothingYet
<1> HIDE DEF f
<1>3. 0 \in P
  <2>1. Lists(<< >>, {}, Less) /\ << >> \in Seq(Nat) /\ ToSet(<< >>) = {}
    BY NothingListed DEF ToSet
  <2>2. MessagesOf({}, p) = {}
    BY DEF MessagesOf, Numbers, Of
  <2>3. Heard(<< >>, {}, L, p)
    BY <2>1, <2>2 DEF Heard
  <2>4. Heard(f[0].messages, Prefix(A, 0), L, p)
    BY <1>1, <1>2, <2>3
  <2>5. 0 \in 0..Len(A)
    BY <1>1
  <2> QED
    BY <2>4, <2>5
<1>4. ASSUME NEW k \in 0..(Len(A) - 1), k \in P PROVE k + 1 \in P
  <2>1. k + 1 \in 0..Len(A)
    BY <1>1
  <2>2. Heard(f[k].messages, Prefix(A, k), L, p)
    BY <1>4
  <2>3. Heard(f[k + 1].messages, Prefix(A, k + 1), L, p)
    BY <2>2, OneHeard DEF f
  <2> QED
    BY <2>1, <2>3
<1> HIDE DEF P
<1>5. 0..Len(A) \subseteq P
  BY <1>1, <1>3, <1>4, RangeInduction
<1>6. n \in P
  BY <1>5
<1> QED
  BY <1>6 DEF P, f

\* What was heard are the numbers of events.
LEMMA HeardTyped ==
  ASSUME ChainNow, NEW m, NEW E, E \subseteq Known, NEW L, NEW p, Heard(m, E, L, p)
  PROVE  m \in Seq(Nat \ {0})
<1>1. /\ m \in Seq(Nat) /\ Len(m) \in Nat /\ DOMAIN m = 1..Len(m)
      /\ \A i \in 1..Len(m) : m[i] \in Nat /\ m[i] \in MessagesOf(E, p)
  BY Elements DEF Heard
<1>2. \A e \in Known : e.n \in 1..Len(chain) /\ Len(chain) \in Nat
  BY Numbering DEF Known, ChainNow, ChainOK
<1>3. \A i \in 1..Len(m) : m[i] \in Nat \ {0}
  <2> SUFFICES ASSUME NEW i \in 1..Len(m) PROVE m[i] # 0
    BY <1>1
  <2>1. PICK e \in Known : m[i] = e.n
    BY <1>1 DEF MessagesOf, Numbers, Of
  <2> QED
    BY <1>2, <2>1
<1> QED
  BY <1>1, <1>3, SeqDef

\* Every merge among the actions found messages with its root.
Accepted(t, E) == t.ok => \A x \in E : x.type = "MergeMessageAq" => Commits(x.data, t.messages)

\* A sequence begins with itself, and so does a longer one.
LEMMA StartsOfItself ==
  ASSUME NEW s \in Seq(Nat)
  PROVE  IsStart(s, s)
BY DEF IsStart

LEMMA StartsLonger ==
  ASSUME NEW x \in Seq(Nat), NEW s \in Seq(Nat), NEW y \in Seq(Nat), IsStart(x, s)
  PROVE  IsStart(x, s \o y)
<1>1. Len(s \o y) = Len(s) + Len(y) /\ \A i \in 1..Len(s) : (s \o y)[i] = s[i]
  OBVIOUS
<1>2. Len(x) \in Nat /\ Len(s) \in Nat /\ Len(y) \in Nat /\ Len(x) <= Len(s)
      /\ \A i \in 1..Len(x) : x[i] = s[i]
  BY DEF IsStart
<1>3. Len(x) <= Len(s) + Len(y) /\ \A i \in 1..Len(x) : i \in 1..Len(s)
  BY <1>2
<1> HIDE DEF IsStart
<1> QED
  BY <1>1, <1>2, <1>3 DEF IsStart

\* One action and the merges accepted so far.
LEMMA OneAccepted ==
  ASSUME NEW s, NEW t, NEW e \in Actable, NEW p, NEW E, Acted(s, e, p, t), Accepted(s, E),
         s.messages \in Seq(Nat \ {0})
  PROVE  Accepted(t, E \cup {e})
<1>1. e.data \in Seq(Nat) /\ s.ok \in BOOLEAN
  BY DEF Acted, Rebuilt, Actable, Events
<1>2. /\ t.messages = IF e.type \in MessageTypes /\ p \in ToSet(s.polls) THEN s.messages \o e.data
                      ELSE s.messages
      /\ t.ok = IF e.type = "MergeMessageAq" THEN s.ok /\ RootOf(s.messages, messageTreeDepth) = e.data
                ELSE s.ok
  BY DEF Acted
<1> SUFFICES ASSUME t.ok, NEW x \in E \cup {e}, x.type = "MergeMessageAq"
             PROVE  Commits(x.data, t.messages)
  BY DEF Accepted
<1> DEFINE m == s.messages
<1>3. s.ok
  BY <1>2
<1>4. Nat \ {0} \subseteq Nat /\ m \in Seq(Nat)
  BY SeqMonotonic
<1>5. CASE x \in E
  <2>1. PICK u \in Seq(Nat \ {0}) : RootOf(u, messageTreeDepth) = x.data /\ IsStart(u, m)
    BY <1>3, <1>5 DEF Accepted, Commits
  <2>2. t.messages = m \o e.data \/ t.messages = m
    BY <1>2
  <2>3. u \in Seq(Nat)
    BY SeqMonotonic, <1>4
  <2> HIDE DEF m
  <2>4. IsStart(u, m \o e.data)
    BY <1>1, <1>4, <2>1, <2>3, StartsLonger
  <2> QED
    BY <2>1, <2>2, <2>4 DEF Commits
<1>6. CASE x = e
  <2>1. e.type \notin MessageTypes
    BY <1>6 DEF MessageTypes
  <2>2. t.messages = m /\ RootOf(m, messageTreeDepth) = e.data /\ m \in Seq(Nat \ {0})
    BY <1>2, <1>6, <2>1
  <2> HIDE DEF m
  <2>3. IsStart(m, m)
    BY <1>4, StartsOfItself
  <2> QED
    BY <1>6, <2>2, <2>3 DEF Commits
<1> QED
  BY <1>5, <1>6

\* If the replay ends well, all merges found what they are of.
LEMMA MergesAccepted ==
  ASSUME NEW A, NEW L, NEW p, Replays(A, L, p)
  PROVE  Accepted(AfterAll(A, p), ToSet(L))
<1> DEFINE f == ReplayTo(A, p)
           P == {k \in 0..Len(A) : Accepted(f[k], Prefix(A, k))}
<1>1. /\ A \in Seq(Actable) /\ Len(A) \in Nat /\ Prefix(A, 0) = {} /\ p \in Nat
      /\ Prefix(A, Len(A)) = ToSet(L) /\ ChainNow
  BY ActionsTyped DEF Replays
<1>2. AfterAll(A, p) = f[Len(A)]
  BY <1>1, ReplayDef
<1> HIDE DEF f
<1>3. 0 \in P
  <2>1. Accepted(f[0], Prefix(A, 0))
    BY <1>1 DEF Accepted
  <2>2. 0 \in 0..Len(A)
    BY <1>1
  <2> QED
    BY <2>1, <2>2
<1>4. ASSUME NEW k \in 0..(Len(A) - 1), k \in P PROVE k + 1 \in P
  <2> DEFINE e == A[k + 1]
             E == Prefix(A, k)
             F == Prefix(A, k + 1)
             s == f[k]
             t == f[k + 1]
  <2>1. NextIs(A, ToSet(L), p, k, e) /\ Accepted(s, E)
    BY <1>4, NextAction
  <2> HIDE DEF e
  <2>2. k + 1 \in 0..Len(A) /\ e \in Actable /\ E \subseteq Known /\ F = E \cup {e} /\ Acted(s, e, p, t)
    BY <2>1 DEF NextIs, f
  <2> HIDE DEF E, F, s, t
  <2>3. s.messages \in Seq(Nat \ {0})
    <3>1. k \in 0..Len(A)
      BY <1>1
    <3>2. Heard(s.messages, E, L, p)
      BY <3>1, MessagesReplayed DEF E, s, f
    <3> QED
      BY <1>1, <2>2, <3>2, HeardTyped
  <2>4. Accepted(t, E \cup {e})
    BY <2>1, <2>2, <2>3, OneAccepted
  <2>5. Accepted(t, F)
    BY <2>2, <2>4
  <2> QED
    BY <2>2, <2>5 DEF t, F
<1> HIDE DEF P
<1>5. 0..Len(A) \subseteq P
  BY <1>1, <1>3, <1>4, RangeInduction
<1>6. Len(A) \in P
  BY <1>1, <1>5
<1> QED
  BY <1>1, <1>2, <1>6 DEF P

\* With no event missing and no merge late, every merge finds its messages.
LEMMA MergeFinds ==
  ASSUME NEW A, NEW L, NEW p, Replays(A, L, p), Whole(L, p), NEW k \in 0..(Len(A) - 1),
         A[k + 1].type = "MergeMessageAq"
  PROVE  RootOf(ReplayTo(A, p)[k].messages, messageTreeDepth) = A[k + 1].data
<1> DEFINE e == A[k + 1]
           T == ToSet(L)
           E == Prefix(A, k)
           m == ReplayTo(A, p)[k].messages
           U == Until(Known, e)
<1>1. NextIs(A, T, p, k, e) /\ p \in Nat /\ ChainNow /\ e.type = "MergeMessageAq"
  BY NextAction DEF Replays
<1>2. k \in 0..Len(A)
  <2>1. Len(A) \in Nat
    BY ActionsTyped
  <2> QED
    BY <2>1
<1>3. Heard(m, E, L, p)
  BY <1>2, MessagesReplayed
<1> HIDE DEF e, m, E, T
<1>4. /\ e \in Known /\ e.poll = p /\ E \subseteq Known
      /\ (\A x \in E : <<x, e>> \in Sorted) /\ Prefix(A, k + 1) = E \cup {e}
      /\ (\A x \in T \ (E \cup {e}) : <<e, x>> \in Sorted)
  BY <1>1 DEF NextIs, PollTypes, E
<1>5. Lists(m, MessagesOf(E, p), Less)
  BY <1>3 DEF Heard, Whole
<1>6. PICK s : Lists(s, MessagesOf(U, p), Less) /\ e.data = RootOf(s, messageTreeDepth)
  <2>1. MessagesMerged(U, p, e.data)
    BY <1>1, <1>4, KnownFacts DEF Merged
  <2>2. MessagePhase(U, p) # "late"
    BY <1>1, <1>4 DEF Whole, Prompt
  <2> QED
    BY <2>1, <2>2 DEF MessagesMerged
<1>7. Of(E, MessageTypes, p) = Of(U, MessageTypes, p)
  <2>1. ASSUME NEW x \in Known, x.type \in MessageTypes, x.poll = p
        PROVE  x \in E <=> x.n < e.n
    <3>1. x # e
      BY <1>1, <2>1 DEF MessageTypes
    <3>2. x \in T
      BY <2>1 DEF Whole, T
    <3>3. x.n \in Nat /\ e.n \in Nat
      BY <1>1, <1>4, <2>1, KnownFacts DEF Events
    <3>4. (<<x, e>> \in Sorted => x.n < e.n) /\ (<<e, x>> \in Sorted => e.n < x.n)
      BY <1>1, <1>4, <2>1, <3>1, MergedInTurn
    <3>5. <<x, e>> \in Sorted <=> x \in E
      BY <1>4, <3>1, <3>2, <3>3, <3>4
    <3> QED
      BY <1>4, <3>1, <3>2, <3>3, <3>4, <3>5
  <2> QED
    BY <1>4, <2>1 DEF Of, Until
<1>8. MessagesOf(E, p) = MessagesOf(U, p)
  BY <1>7 DEF MessagesOf
<1> HIDE DEF U
<1>9. m = s
  BY <1>5, <1>6, <1>8, OneList, Orders
<1> QED
  BY <1>6, <1>9 DEF m, e

\* With no event missing and no merge late, the replay ends well.
LEMMA WholeAccepted ==
  ASSUME NEW A, NEW L, NEW p, Replays(A, L, p), Whole(L, p)
  PROVE  AfterAll(A, p).ok
<1> DEFINE f == ReplayTo(A, p)
           P == {k \in 0..Len(A) : f[k].ok = TRUE}
<1>1. /\ A \in Seq(Actable) /\ Len(A) \in Nat /\ p \in Nat
  BY ActionsTyped DEF Replays
<1>2. AfterAll(A, p) = f[Len(A)] /\ f[0].ok = TRUE
  BY <1>1, ReplayDef DEF NothingYet
<1> HIDE DEF f
<1>3. 0 \in P
  BY <1>1, <1>2
<1>4. ASSUME NEW k \in 0..(Len(A) - 1), k \in P PROVE k + 1 \in P
  <2> DEFINE e == A[k + 1]
             s == f[k]
             t == f[k + 1]
  <2>1. NextIs(A, ToSet(L), p, k, e) /\ s.ok = TRUE
    BY <1>4, NextAction
  <2>2. e.type = "MergeMessageAq" => RootOf(s.messages, messageTreeDepth) = e.data
    BY MergeFinds DEF f
  <2> HIDE DEF e
  <2>3. k + 1 \in 0..Len(A) /\ Acted(s, e, p, t)
    BY <2>1 DEF NextIs, f
  <2> HIDE DEF s, t
  <2>4. t.ok = TRUE
    <3>1. t.ok = IF e.type = "MergeMessageAq" THEN s.ok /\ RootOf(s.messages, messageTreeDepth) = e.data
                 ELSE s.ok
      BY <2>3 DEF Acted
    <3> QED
      BY <2>1, <2>2, <3>1
  <2> QED
    BY <2>3, <2>4 DEF t
<1> HIDE DEF P
<1>5. 0..Len(A) \subseteq P
  BY <1>1, <1>3, <1>4, RangeInduction
<1>6. Len(A) \in P
  BY <1>1, <1>5
<1> QED
  BY <1>2, <1>6 DEF P

\* The polls rebuilt are those of the DeployPoll actions q.
SamePolls(polls, q, p) ==
  /\ Len(polls) = Len(q)
  /\ \A i \in 1..Len(q) : polls[i] = IF q[i].poll = p THEN p ELSE NullPoll

\* One poll more.
LEMMA OneMorePoll ==
  ASSUME NEW polls \in Seq(Nat \cup {NullPoll}), NEW q \in Seq(Actable), NEW p \in Nat,
         NEW e \in Actable, SamePolls(polls, q, p)
  PROVE  SamePolls(Append(polls, IF e.poll = p THEN e.poll ELSE NullPoll), Append(q, e), p)
<1> DEFINE x == IF e.poll = p THEN e.poll ELSE NullPoll
           P == Append(polls, x)
           Q == Append(q, e)
           n == Len(q)
<1>1. x \in Nat \cup {NullPoll} /\ x = IF e.poll = p THEN p ELSE NullPoll
  OBVIOUS
<1> HIDE DEF x
<1>2. n \in Nat /\ Len(polls) = n /\ \A i \in 1..n : polls[i] = IF q[i].poll = p THEN p ELSE NullPoll
  BY DEF SamePolls
<1>3. Len(P) = n + 1 /\ P[n + 1] = x /\ \A i \in 1..n : P[i] = polls[i]
  BY <1>1, <1>2
<1>4. Len(Q) = n + 1 /\ Q[n + 1] = e /\ \A i \in 1..n : Q[i] = q[i]
  OBVIOUS
<1> HIDE DEF P, Q, n
<1>5. 1..(n + 1) = (1..n) \cup {n + 1}
  BY <1>2
<1>6. SamePolls(P, Q, p)
  BY <1>1, <1>2, <1>3, <1>4, <1>5 DEF SamePolls
<1> QED
  BY <1>6 DEF P, Q, x

\* The polls rebuilt are those of the DeployPoll actions, in that order.
LEMMA PollsPicked ==
  ASSUME NEW A, NEW L, NEW p, Replays(A, L, p)
  PROVE  SamePolls(AfterAll(A, p).polls, OfType(A, "DeployPoll"), p)
<1> DEFINE f == ReplayTo(A, p)
           K == {k \in DOMAIN A : A[k].type = "DeployPoll"}
           g == PickedTo(A, K)
           P == {k \in 0..Len(A) : SamePolls(f[k].polls, g[k], p)}
<1>1. /\ A \in Seq(Actable) /\ Len(A) \in Nat /\ p \in Nat /\ DOMAIN A = 1..Len(A)
  BY ActionsTyped DEF Replays
<1>2. AfterAll(A, p) = f[Len(A)] /\ f[0].polls = << >>
  BY <1>1, ReplayDef DEF NothingYet
<1>3. /\ g \in [0..Len(A) -> Seq(Actable)] /\ g[0] = << >>
      /\ \A k \in 1..Len(A) : g[k] = IF k \in K THEN Append(g[k - 1], A[k]) ELSE g[k - 1]
      /\ OfType(A, "DeployPoll") = g[Len(A)]
  <2> HIDE DEF K
  <2>1. /\ PickedTo(A, K) \in [0..Len(A) -> Seq(Actable)] /\ PickedTo(A, K)[0] = << >>
        /\ \A k \in 1..Len(A) : PickedTo(A, K)[k] = IF k \in K THEN Append(PickedTo(A, K)[k - 1], A[k])
                                                     ELSE PickedTo(A, K)[k - 1]
        /\ Those(A, K) = PickedTo(A, K)[Len(A)]
    BY <1>1, PickedDef
  <2>2. OfType(A, "DeployPoll") = Those(A, K)
    BY DEF OfType, K
  <2> QED
    BY <2>1, <2>2
<1>4. \A k \in 1..Len(A) : k \in K <=> A[k].type = "DeployPoll"
  BY <1>1
<1> HIDE DEF f, g, K
<1>5. 0 \in P
  <2>1. SamePolls(f[0].polls, g[0], p)
    BY <1>2, <1>3 DEF SamePolls
  <2>2. 0 \in 0..Len(A)
    BY <1>1
  <2> QED
    BY <2>1, <2>2
<1>6. ASSUME NEW k \in 0..(Len(A) - 1), k \in P PROVE k + 1 \in P
  <2> DEFINE e == A[k + 1]
             l == k + 1
             s == f[k]
             t == f[l]
             q == g[k]
             r == g[l]
  <2>1. NextIs(A, ToSet(L), p, k, e) /\ SamePolls(s.polls, q, p)
    BY <1>6, NextAction
  <2>2. k \in 0..Len(A) /\ l - 1 = k /\ l \in 1..Len(A)
    BY <1>1
  <2> HIDE DEF e
  <2>3. l \in 0..Len(A) /\ e \in Actable /\ Acted(s, e, p, t)
    BY <2>1 DEF NextIs, f
  <2>4. q \in Seq(Actable) /\ r = IF e.type = "DeployPoll" THEN Append(q, e) ELSE q
    <3> HIDE DEF l
    <3>1. g[l] = IF l \in K THEN Append(g[l - 1], A[l]) ELSE g[l - 1]
      BY <1>3, <2>2
    <3>2. l \in K <=> A[l].type = "DeployPoll"
      BY <1>4, <2>2
    <3>3. A[l] = e /\ g[l - 1] = g[k] /\ g[k] \in Seq(Actable)
      BY <1>3, <2>2 DEF e, l
    <3> QED
      BY <3>1, <3>2, <3>3
  <2> HIDE DEF l, s, t, q, r
  <2>5. /\ t.polls = IF e.type = "DeployPoll"
                     THEN Append(s.polls, IF e.poll = p THEN e.poll ELSE NullPoll) ELSE s.polls
        /\ s.polls \in Seq(Nat \cup {NullPoll})
    BY <2>3 DEF Acted, Rebuilt
  <2>6. SamePolls(t.polls, r, p)
    <3>1. CASE e.type = "DeployPoll"
      <4> DEFINE o == s.polls
      <4>1. o \in Seq(Nat \cup {NullPoll}) /\ SamePolls(o, q, p)
        BY <2>1, <2>5 DEF s, q
      <4> HIDE DEF o
      <4>2. SamePolls(Append(o, IF e.poll = p THEN e.poll ELSE NullPoll), Append(q, e), p)
        BY <1>1, <2>3, <2>4, <4>1, OneMorePoll
      <4> QED
        BY <2>4, <2>5, <3>1, <4>2 DEF o
    <3>2. CASE e.type # "DeployPoll"
      BY <2>1, <2>4, <2>5, <3>2
    <3> QED
      BY <3>1, <3>2
  <2> QED
    BY <2>3, <2>6 DEF l, t, r
<1> HIDE DEF P
<1>7. 0..Len(A) \subseteq P
  BY <1>1, <1>5, <1>6, RangeInduction
<1>8. Len(A) \in P
  BY <1>1, <1>7
<1> QED
  BY <1>2, <1>3, <1>8 DEF P

\* The events are found in the order of the polls they deploy, sorted or not.
LEMMA SameDeployments ==
  ASSUME NEW A, NEW L, NEW p, Replays(A, L, p), NEW type
  PROVE  OfType(A, type) = OfType(L, type)
<1> DEFINE T == ToSet(L)
           S == {e \in T : e.type = type}
<1>1. Lists(A, T, Sorted) /\ Lists(L, T, InKind) /\ T \subseteq Known /\ ChainNow
  BY DEF Replays, LogsOf
<1>2. \A e, x \in T : <<e, x>> \in Sorted => <<e, x>> \in InKind
  <2> SUFFICES ASSUME NEW e \in T, NEW x \in T, <<e, x>> \in Sorted, e.type = x.type
               PROVE  e.n < x.n
    BY DEF Sorted, InKind
  <2> QED
    BY <1>1, SortedKind
<1> HIDE DEF T
<1>3. Lists(A, T, InKind)
  BY <1>1, <1>2, Weaker
<1>4. Lists(OfType(A, type), S, Earlier) /\ Lists(OfType(L, type), S, Earlier)
  BY <1>1, <1>3, KindLists
<1> HIDE DEF S
<1> QED
  BY <1>4, OneList, Orders

\* The poll sits at its own ID.
LEMMA PollInPlace ==
  ASSUME NEW A, NEW p, p = gen.pollId, Replays(A, gen.logs, p), PollsFound
  PROVE  AfterAll(A, p).polls[p + 1] = p
<1> DEFINE q == OfType(A, "DeployPoll")
<1>1. SamePolls(AfterAll(A, p).polls, q, p)
  BY PollsPicked
<1>2. q = OfType(gen.logs, "DeployPoll")
  BY SameDeployments
<1>3. p \in Nat /\ Lists(gen.logs, ToSet(gen.logs), InKind)
  BY DEF Replays, LogsOf
<1>4. Len(q) \in Nat /\ DOMAIN q = 1..Len(q)
  <2>1. Lists(OfType(gen.logs, "DeployPoll"), {e \in ToSet(gen.logs) : e.type = "DeployPoll"}, Earlier)
    BY <1>3, KindLists
  <2> QED
    BY <1>2, <2>1, ListsDef
<1>5. (\A k \in DOMAIN q : q[k].poll = k - 1) /\ p < Len(q)
  BY <1>2 DEF PollsFound
<1> HIDE DEF q
<1>6. p + 1 \in 1..Len(q) /\ q[p + 1].poll = p
  <2>1. p + 1 \in 1..Len(q) /\ (p + 1) - 1 = p
    BY <1>3, <1>4, <1>5
  <2> QED
    BY <1>4, <1>5, <2>1
<1> QED
  BY <1>1, <1>6 DEF SamePolls

-----------------------------------------------------------------------------
(***************************************************************************)
(* The steps of the call after the events are fetched.                     *)
(***************************************************************************)
\* The replay rebuilds the state, or throws for a reason.
LEMMA ReplayStep ==
  ASSUME GenInv, replay
  PROVE  GenInv'
<1> DEFINE p == gen.pollId
           L == gen.logs
           T == ToSet(L)
           A == sortActions
           s == AfterAll(A, p)
<1>1. /\ gen.at = "pollLogs" /\ gen.i > gen.lastBlock /\ UNCHANGED <<env, excused>>
      /\ gen' = [gen EXCEPT !.at = IF s.ok THEN "counts" ELSE "threw",
                            !.leaves = s.leaves, !.polls = s.polls, !.messages = s.messages]
  BY DEF replay
<1>2. CallInv /\ CallOK /\ PollLogsOK /\ LogsOf(L, Known, p) /\ ChainNow
  BY <1>1 DEF GenInv, CallInv
<1>3. /\ ChainNow' /\ QueuesOK' /\ Known' = Known /\ head' = head
      /\ excused' = excused /\ excused \in BOOLEAN
  BY <1>1, QuietFrame
<1>4. Replays(A, L, p)
  <2>1. p \in Nat
    BY <1>2 DEF CallOK
  <2> QED
    BY <1>2, <2>1, ActionsSorted DEF Replays
<1>5. /\ Lists(s.leaves, {Blank} \cup UsersOf(T), Less)
      /\ s.polls[p + 1] = p
      /\ Heard(s.messages, T, L, p) /\ Accepted(s, T)
      /\ Whole(L, p) => s.ok
  <2> HIDE DEF A, L, p
  <2>1. /\ A \in Seq(Actable) /\ Len(A) \in Nat /\ Prefix(A, Len(A)) = T /\ p \in Nat
    BY <1>4, ActionsTyped DEF Replays
  <2>2. s = ReplayTo(A, p)[Len(A)]
    BY <2>1, ReplayDef
  <2>3. Heard(ReplayTo(A, p)[Len(A)].messages, Prefix(A, Len(A)), L, p)
    <3>1. Len(A) \in 0..Len(A)
      BY <2>1
    <3> QED
      BY <1>4, <3>1, MessagesReplayed
  <2>4. s.polls[p + 1] = p
    <3>1. PollsFound
      BY <1>1, <1>2 DEF PollLogsOK
    <3> QED
      BY <1>4, <3>1, PollInPlace DEF p, L
  <2> QED
    BY <1>4, <2>1, <2>2, <2>3, <2>4, LeavesReplayed, MergesAccepted, WholeAccepted
<1> HIDE DEF A, s
<1>6. /\ gen'.at = (IF s.ok THEN "counts" ELSE "threw") /\ gen'.i = gen.i
      /\ gen'.leaves = s.leaves /\ gen'.polls = s.polls /\ gen'.messages = s.messages
      /\ gen'.logs = gen.logs /\ gen'.pollId = gen.pollId /\ DOMAIN gen' = Fields
      /\ gen'.fromBlock = gen.fromBlock /\ gen'.lastBlock = gen.lastBlock
  <2>1. DOMAIN gen = Fields
    BY <1>2 DEF CallOK
  <2> DEFINE at == IF s.ok THEN "counts" ELSE "threw"
             x == s.leaves
             y == s.polls
             z == s.messages
  <2>2. gen' = [gen EXCEPT !.at = at, !.leaves = x, !.polls = y, !.messages = z]
    BY <1>1
  <2> HIDE DEF at, x, y, z
  <2>3. /\ gen'.at = at /\ gen'.i = gen.i /\ gen'.leaves = x /\ gen'.polls = y /\ gen'.messages = z
        /\ gen'.logs = gen.logs /\ gen'.pollId = gen.pollId /\ DOMAIN gen' = Fields
        /\ gen'.fromBlock = gen.fromBlock /\ gen'.lastBlock = gen.lastBlock
    BY <2>1, <2>2 DEF Fields
  <2> QED
    BY <2>3 DEF at, x, y, z
<1>7. CallOK'
  <2>1. gen'.at \in Phases /\ gen'.i \in Nat
    BY <1>2, <1>6 DEF Phases, CallOK
  <2> QED
    BY <1>1, <1>2, <1>6, <2>1, SameCall
<1>8. LogsOf(gen.logs, Known, gen.pollId)'
  BY <1>2, <1>3, <1>6
<1>9. MaciLogsOK' /\ PollLogsOK' /\ CountsOK' /\ gen'.at # "returned"
  BY <1>6 DEF MaciLogsOK, PollLogsOK, CountsOK
<1>10. ASSUME ~excused
       PROVE  Whole(L, p) /\ UsersOf(T) = UsersOf(Known) /\ MessagesOf(T, p) = MessagesOf(Known, p)
  <2>1. QuietCall /\ Fetched(T, Known, MaciTypes, Everybody, head + 1)
        /\ Fetched(T, Known, PollTypes, p, gen.i)
    BY <1>1, <1>2, <1>10 DEF CallOK, PollLogsOK
  <2>2. \A e \in Known : e.block < head + 1 /\ e.block < gen.i
    <3> SUFFICES ASSUME NEW e \in Known PROVE e.block < head + 1 /\ e.block < gen.i
      OBVIOUS
    <3>1. /\ e.block \in Nat /\ e.block <= head /\ head <= gen.lastBlock /\ gen.lastBlock < gen.i
          /\ head \in Nat /\ gen.lastBlock \in Nat /\ gen.i \in Nat
      BY <1>1, <1>2, <2>1, KnownFacts DEF CallOK, QuietCall, Events
    <3> QED
      BY <3>1
  <2>3. \A e \in Known : e.type \in MaciTypes \/ (e.type \in PollTypes /\ e.poll = p) => e \in T
    BY <2>1, <2>2 DEF Fetched
  <2>4. T \subseteq Known
    BY <1>2 DEF LogsOf
  <2> HIDE DEF T
  <2>5. Whole(L, p)
    BY <2>1, <2>3 DEF Whole, QuietCall, MaciTypes, PollTypes, T
  <2>6. Of(T, {"SignUp"}, Everybody) = Of(Known, {"SignUp"}, Everybody)
    BY <2>3, <2>4 DEF Of, MaciTypes
  <2>7. Of(T, MessageTypes, p) = Of(Known, MessageTypes, p)
    BY <2>3, <2>4 DEF Of, PollTypes
  <2> QED
    BY <2>5, <2>6, <2>7 DEF UsersOf, MessagesOf
<1>11. gen'.at = "threw" => excused'
  BY <1>3, <1>5, <1>6, <1>10
<1>12. ReplayOK'
  <2> SUFFICES ASSUME s.ok PROVE ReplayOK'
    BY <1>6 DEF ReplayOK
  <2>1. T \subseteq Known
    BY <1>2 DEF LogsOf
  <2>2. ToSet(s.leaves) = {Blank} \cup UsersOf(T)
    BY <1>5 DEF Lists
  <2>3. UsersOf(T) \subseteq UsersOf(Known) /\ MessagesOf(T, p) \subseteq MessagesOf(Known, p)
    BY <2>1 DEF UsersOf, MessagesOf, Numbers, Of
  <2>4. /\ s.messages \in Seq(Nat) /\ ToSet(s.messages) \subseteq MessagesOf(T, p)
        /\ (~MixedIn(Known, p) => Lists(s.messages, ToSet(s.messages), Less))
        /\ (Whole(L, p) => ToSet(s.messages) = MessagesOf(T, p))
    BY <1>5 DEF Heard
  <2>5. \A e \in T : e.type = "MergeMessageAq" => Commits(e.data, s.messages)
    BY <1>5 DEF Accepted
  <2> HIDE DEF T, L, p
  <2>6. /\ s.polls[p + 1] = p
        /\ Lists(s.leaves, ToSet(s.leaves), Less) /\ Blank \in ToSet(s.leaves)
        /\ ToSet(s.leaves) \subseteq {Blank} \cup UsersOf(Known)
        /\ s.messages \in Seq(Nat)
        /\ ToSet(s.messages) \subseteq MessagesOf(Known, p)
    BY <1>5, <2>2, <2>3, <2>4
  <2>7. ~excused => ToSet(s.messages) = MessagesOf(Known, p) /\ ToSet(s.leaves) = {Blank} \cup UsersOf(Known)
    BY <1>10, <2>2, <2>4
  <2>8. /\ gen'.leaves = s.leaves /\ gen'.polls = s.polls /\ gen'.messages = s.messages
        /\ gen'.pollId = p /\ ToSet(gen.logs)' = T
    BY <1>6 DEF p, T, L
  <2> QED
    BY <1>3, <2>4, <2>5, <2>6, <2>7, <2>8 DEF ReplayOK
<1>13. CallInv'
  BY <1>7, <1>8, <1>9, <1>11, <1>12 DEF CallInv
<1> QED
  BY <1>3, <1>6, <1>13 DEF GenInv

\* The data of the one merge of the poll's state.
LEMMA OneMerge ==
  ASSUME ChainNow, NEW L \in Seq(Events), ToSet(L) \subseteq Known,
         \A i, j \in 1..Len(L) : L[i] = L[j] => i = j,
         NEW p, NEW e \in ToSet(L), e.type = "MergeMaciStateAq", e.poll = p
  PROVE  DataOf(L, {"MergeMaciStateAq"}, p) = e.data
<1>1. Of(ToSet(L), {"MergeMaciStateAq"}, p) = {e}
  BY KnownFacts DEF Of, Merged
<1> QED
  BY <1>1, DataOfOne

\* The users of a snapshot come before those who sign up after it, and the
\* messages merged before those that follow.
LEMMA SnapshotFirst ==
  ASSUME ChainNow, NEW e \in Known
  PROVE  /\ {Blank} \cup UsersOf(Until(Known, e)) \subseteq {Blank} \cup UsersOf(Known)
         /\ AllBefore({Blank} \cup UsersOf(Until(Known, e)),
                      ({Blank} \cup UsersOf(Known)) \ ({Blank} \cup UsersOf(Until(Known, e))), Less)
         /\ \A p : /\ MessagesOf(Until(Known, e), p) \subseteq MessagesOf(Known, p)
                   /\ AllBefore(MessagesOf(Until(Known, e), p),
                                MessagesOf(Known, p) \ MessagesOf(Until(Known, e), p), Less)
<1> DEFINE U == Until(Known, e)
<1>1. U \subseteq Known /\ Known \subseteq Events
  BY KnownFacts DEF Until
<1>2. ASSUME NEW types, NEW p
      PROVE  /\ Numbers(Of(U, types, p)) \subseteq Numbers(Of(Known, types, p))
             /\ AllBefore(Numbers(Of(U, types, p)),
                          Numbers(Of(Known, types, p)) \ Numbers(Of(U, types, p)), Less)
  <2>1. Numbers(Of(U, types, p)) \subseteq Numbers(Of(Known, types, p))
    BY <1>1 DEF Numbers, Of
  <2>2. ASSUME NEW x \in Of(U, types, p), NEW y \in Of(Known, types, p), y.n \notin Numbers(Of(U, types, p))
        PROVE  <<x.n, y.n>> \in Less
    <3>1. x.n < e.n /\ x.n \in Nat /\ y.n \in Nat /\ e.n \in Nat
      BY <1>1, <2>2 DEF Of, Until, Events
    <3>2. ~ (y.n < e.n)
      BY <2>2 DEF Of, Until, Numbers
    <3> QED
      BY <3>1, <3>2 DEF Less
  <2> QED
    BY <2>1, <2>2 DEF AllBefore, Numbers
<1>3. ASSUME NEW x \in Known PROVE <<Blank, x.n>> \in Less
  <2>1. x.n \in 1..Len(chain) /\ Len(chain) \in Nat
    BY <1>3, KnownFacts, Numbering DEF Known
  <2> QED
    BY <2>1, BlankIsNumber DEF Less
<1>4. \A y \in UsersOf(Known) : <<Blank, y>> \in Less
  BY <1>3 DEF UsersOf, Numbers, Of
<1>5. UsersOf(U) \subseteq UsersOf(Known) /\ AllBefore(UsersOf(U), UsersOf(Known) \ UsersOf(U), Less)
  BY <1>2 DEF UsersOf
<1>6. \A p : /\ MessagesOf(U, p) \subseteq MessagesOf(Known, p)
             /\ AllBefore(MessagesOf(U, p), MessagesOf(Known, p) \ MessagesOf(U, p), Less)
  BY <1>2 DEF MessagesOf
<1> HIDE DEF U
<1>7. AllBefore({Blank} \cup UsersOf(U), ({Blank} \cup UsersOf(Known)) \ ({Blank} \cup UsersOf(U)), Less)
  BY <1>4, <1>5 DEF AllBefore
<1> QED
  BY <1>5, <1>6, <1>7 DEF U

\* No event is on the chain twice, and its messages are in its order.
LEMMA ChainOnce ==
  ASSUME ChainNow
  PROVE  /\ chain \in Seq(Events) /\ \A i, j \in 1..Len(chain) : chain[i] = chain[j] => i = j
         /\ \A p : Lists(MessagesIn(chain, p), MessagesOf(Known, p), Less)
<1>1. Numbered(chain) /\ Formed(Known)
  BY KnownFacts
<1>2. chain \in Seq(Events) /\ \A i, j \in 1..Len(chain) : chain[i] = chain[j] => i = j
  BY <1>1, Numbering
<1>3. ASSUME NEW p PROVE Lists(MessagesIn(chain, p), MessagesOf(Known, p), Less)
  <2>1. MessageTypes \subseteq OneDatum
    BY DEF OneDatum
  <2>2. Lists(DataOf(chain, MessageTypes, p), Numbers(Of(ToSet(chain), MessageTypes, p)), Less)
    BY <1>1, <2>1, DataLists DEF Known
  <2> QED
    BY <2>2 DEF MessagesIn, MessagesOf, Known
<1> QED
  BY <1>2, <1>3

\* The leaves rebuilt begin with the blank one.
LEMMA BlankFirst ==
  ASSUME NEW s, Lists(s, ToSet(s), Less), Blank \in ToSet(s)
  PROVE  /\ s \in Seq(Nat) /\ Len(s) > 0 /\ Len(s) \in Nat /\ s[1] = Blank
<1>1. /\ s \in Seq(ToSet(s)) /\ Len(s) \in Nat /\ DOMAIN s = 1..Len(s)
      /\ \A x \in ToSet(s) : \E i \in 1..Len(s) : x = s[i]
      /\ \A i, j \in 1..Len(s) : i < j => <<s[i], s[j]>> \in Less
  BY ListsDef
<1>2. PICK i \in 1..Len(s) : s[i] = Blank
  BY <1>1
<1>3. i = 1
  <2> SUFFICES ASSUME i > 1 PROVE FALSE
    BY <1>1
  <2>1. <<s[1], Blank>> \in Less
    BY <1>1, <1>2
  <2> QED
    BY <2>1, BlankIsNumber DEF Less
<1>4. \A j \in 1..Len(s) : s[j] \in Nat
  <2> SUFFICES ASSUME NEW j \in 1..Len(s), j # 1 PROVE s[j] \in Nat
    BY <1>2, <1>3, BlankIsNumber
  <2>1. 1 < j
    BY <1>1
  <2>2. <<s[1], s[j]>> \in Less
    BY <1>1, <1>2, <1>3, <2>1
  <2> QED
    BY <2>2 DEF Less
<1>5. s \in Seq(Nat)
  BY <1>1, <1>4, SeqDef
<1> QED
  BY <1>1, <1>2, <1>3, <1>5

\* The beginning of a sequence is its first part.
LEMMA StartPart ==
  ASSUME NEW s \in Seq(Nat), NEW t \in Seq(Nat), IsStart(t, s)
  PROVE  Len(t) <= Len(s) /\ SubSeq(s, 1, Len(t)) = t
<1>1. Len(t) \in Nat /\ Len(s) \in Nat /\ Len(t) <= Len(s) /\ \A i \in 1..Len(t) : t[i] = s[i]
  BY DEF IsStart
<1> DEFINE n == Len(t)
           u == SubSeq(s, 1, n)
<1>2. u \in Seq(Nat) /\ Len(u) = n /\ \A i \in 1..n : u[i] = s[i]
  <2> HIDE DEF n
  <2>1. 1..n \subseteq 1..Len(s)
    BY <1>1 DEF n
  <2>2. u \in Seq(Nat) /\ Len(u) = n /\ \A i \in 1..n : u[i] = s[i]
    BY <1>1, <2>1, SubSeqProperties DEF n
  <2> QED
    BY <2>2
<1> HIDE DEF u
<1>3. u = t
  BY <1>1, <1>2, SeqEqual
<1> QED
  BY <1>1, <1>3 DEF u

\* With no event of the types there is no data.
LEMMA NoData ==
  ASSUME NEW s \in Seq(Events), NEW types, NEW p, Of(ToSet(s), types, p) = {}
  PROVE  DataOf(s, types, p) = << >>
<1> DEFINE n == Len(s)
           f == [k \in DOMAIN s |-> IF s[k].type \in types /\ s[k].poll = p THEN s[k].data ELSE << >>]
           A == [k \in 1..n |-> {}]
<1>1. n \in Nat /\ DOMAIN s = 1..n /\ \A k \in 1..n : s[k] \in ToSet(s)
  BY Elements
<1>2. \A k \in 1..n : f[k] = << >>
  BY <1>1 DEF Of
<1>3. f \in [1..n -> Seq(Nat)]
  <2>1. DOMAIN f = 1..n /\ << >> \in Seq(Nat)
    BY <1>1
  <2> QED
    BY <1>1, <1>2, <2>1
<1> HIDE DEF f, n
<1>4. f \in Seq(Seq(Nat)) /\ Len(f) = n
  BY <1>1, <1>3, Listed
<1>5. (\A k \in 1..n : Lists(f[k], A[k], Less)) /\ InTurn(A, n, Less) /\ Parts(A, n) = {}
  BY <1>2, NothingListed DEF InTurn, AllBefore, Parts
<1> HIDE DEF A
<1>6. Lists(FlattenSeq(f), Parts(A, Len(f)), Less)
  BY <1>4, <1>5, FlatLists
<1>7. Lists(FlattenSeq(f), {}, Less)
  BY <1>4, <1>5, <1>6
<1>8. FlattenSeq(f) = << >>
  BY <1>7, NothingListed, OneList, Orders
<1> QED
  BY <1>8 DEF DataOf, f

\* What the poll contract answers once it has merged MACI's queue.
LEMMA SnapshotData ==
  ASSUME ChainNow, \A x \in Known : x.block <= head,
         NEW p, NEW e \in Known, e.type = "MergeMaciStateAq", e.poll = p
  PROVE  \E s : /\ Lists(s, {Blank} \cup UsersOf(Until(Known, e)), Less) /\ s \in Seq(Nat)
                /\ numSignups(p) = Len(s)
                /\ StatePhase(Until(Known, e)) # "late" => mergedStateRoot(p) = RootOf(s, stateTreeDepth)
<1> DEFINE U == {Blank} \cup UsersOf(Until(Known, e))
<1>1. Mined = chain /\ Has(chain, "MergeMaciStateAq", p)
  BY MinedNow, HasKnown
<1>2. DataOf(chain, {"MergeMaciStateAq"}, p) = e.data
  BY ChainOnce, OneMerge DEF Known
<1>3. numSignups(p) = Head(e.data) /\ mergedStateRoot(p) = Tail(e.data)
  BY <1>1, <1>2 DEF numSignups, mergedStateRoot, Snapshot
<1>4. PICK s : /\ Lists(s, U, Less) /\ e.data # << >> /\ Head(e.data) = Len(s)
               /\ StatePhase(Until(Known, e)) # "late" => Tail(e.data) = RootOf(s, stateTreeDepth)
  <2>1. StateMerged(Until(Known, e), e.data)
    BY KnownFacts DEF Merged
  <2> QED
    BY <2>1 DEF StateMerged
<1>5. U \subseteq Nat
  BY KnownFacts, BlankIsNumber DEF UsersOf, Numbers, Of, Until, Events
<1>6. s \in Seq(Nat)
  <2> HIDE DEF U
  <2>1. s \in Seq(U)
    BY <1>4 DEF Lists
  <2> QED
    BY <1>5, <2>1, SeqMonotonic
<1> QED
  BY <1>3, <1>4, <1>6

\* The leaves rebuilt are the blank one and those of the users.
LEMMA BlanksFirst ==
  ASSUME NEW s, Lists(s, ToSet(s), Less), Blank \in ToSet(s)
  PROVE  BlankThenUsers(s) /\ Len(s) > 0 /\ Len(s) \in Nat
<1>1. s \in Seq(Nat) /\ Len(s) > 0 /\ Len(s) \in Nat /\ s[1] = Blank
  BY BlankFirst
<1>2. \A i, j \in 1..Len(s) : i < j => <<s[i], s[j]>> \in Less
  BY ListsDef
<1>3. ASSUME NEW i \in 1..Len(s), i # 1 PROVE s[i] # Blank
  <2>1. 1 < i /\ 1 \in 1..Len(s)
    BY <1>1, <1>3
  <2>2. <<Blank, s[i]>> \in Less
    BY <1>1, <1>2, <2>1
  <2> QED
    BY <2>2, BlankIsNumber DEF Less
<1> QED
  BY <1>1, <1>3 DEF BlankThenUsers

LEMMA BlanksPart ==
  ASSUME NEW s, BlankThenUsers(s), NEW k \in Nat, k <= Len(s)
  PROVE  BlankThenUsers(SubSeq(s, 1, k))
<1>1. s \in Seq(Nat) /\ Len(s) \in Nat /\ \A i \in 1..Len(s) : s[i] = Blank <=> i = 1
  BY DEF BlankThenUsers
<1> DEFINE t == SubSeq(s, 1, k)
<1>2. t \in Seq(Nat) /\ Len(t) = k /\ \A i \in 1..k : t[i] = s[i]
  <2>1. 1..k \subseteq 1..Len(s)
    BY <1>1
  <2> QED
    BY <1>1, <2>1, SubSeqProperties
<1>3. \A i \in 1..k : i \in 1..Len(s)
  BY <1>1
<1> HIDE DEF t
<1>4. BlankThenUsers(t)
  BY <1>1, <1>2, <1>3 DEF BlankThenUsers
<1> QED
  BY <1>4 DEF t

\* What the poll contract says, when all events are mined.
LEMMA QuietCounts ==
  ASSUME CallInv, ChainNow, ~excused, gen.at = "counts"
  PROVE  /\ numMessages(gen.pollId) = Len(gen.messages)
         /\ \E s \in Seq(Nat) : /\ IsStart(s, gen.leaves) /\ numSignups(gen.pollId) = Len(s)
                                /\ mergedStateRoot(gen.pollId) = RootOf(s, stateTreeDepth)
<1> DEFINE p == gen.pollId
           M == MessagesOf(Known, p)
<1>1. CallOK /\ QuietCall /\ ReplayOK
  BY DEF CallInv, CallOK
<1>2. Mined = chain
  BY <1>1, MinedNow DEF CallOK
<1>3. numMessages(p) = Len(gen.messages)
  <2>1. Lists(MessagesIn(chain, p), M, Less)
    BY ChainOnce
  <2>2. Lists(gen.messages, M, Less)
    BY <1>1 DEF ReplayOK, QuietCall
  <2> HIDE DEF M
  <2>3. gen.messages = MessagesIn(chain, p)
    BY <2>1, <2>2, OneList, Orders
  <2> QED
    BY <1>2, <2>3 DEF numMessages
<1>4. PICK e \in Known : e.type = "MergeMaciStateAq" /\ e.poll = p
  BY <1>1 DEF QuietCall
<1>5. StatePhase(Until(Known, e)) # "late"
  BY <1>1, <1>4 DEF QuietCall, Prompt
<1> DEFINE S == {Blank} \cup UsersOf(Known)
           U == {Blank} \cup UsersOf(Until(Known, e))
<1>6. PICK s \in Seq(Nat) : /\ Lists(s, U, Less) /\ numSignups(p) = Len(s)
                            /\ mergedStateRoot(p) = RootOf(s, stateTreeDepth)
  <2>1. \A x \in Known : x.block <= head
    BY <1>1 DEF CallOK
  <2> QED
    BY <1>4, <1>5, <2>1, SnapshotData
<1>7. IsStart(s, gen.leaves)
  <2>1. Lists(gen.leaves, S, Less)
    BY <1>1 DEF ReplayOK
  <2>2. U \subseteq S /\ AllBefore(U, S \ U, Less)
    BY SnapshotFirst
  <2> HIDE DEF S, U
  <2> QED
    BY <1>6, <2>1, <2>2, FirstPart, Orders
<1> QED
  BY <1>3, <1>6, <1>7

\* The number of sign-ups is one.
LEMMA CountTyped ==
  ASSUME ChainNow, \A x \in Known : x.block <= head, NEW p
  PROVE  numSignups(p) \in Nat
<1>1. CASE Has(Mined, "MergeMaciStateAq", p)
  <2>1. PICK e \in Known : e.type = "MergeMaciStateAq" /\ e.poll = p
    BY <1>1, MinedNow, HasKnown
  <2>2. PICK s : s \in Seq(Nat) /\ numSignups(p) = Len(s)
    BY <2>1, SnapshotData
  <2> QED
    BY <2>2
<1>2. CASE ~Has(Mined, "MergeMaciStateAq", p)
  BY <1>2 DEF numSignups
<1> QED
  BY <1>1, <1>2

\* The counts are compared: equal ones mean that no message is missing.
LEMMA CountsStep ==
  ASSUME GenInv, readCounts
  PROVE  GenInv'
<1> DEFINE p == gen.pollId
           n == numSignups(p)
           len == Len(gen.leaves)
           k == IF n < len THEN n ELSE len
           same == numMessages(p) = Len(gen.messages)
           at == IF same THEN "root" ELSE "threw"
           s == SubSeq(gen.leaves, 1, k)
<1>1. /\ gen.at = "counts" /\ UNCHANGED <<env, excused>>
      /\ gen' = [gen EXCEPT !.at = at, !.stateLeaves = s]
  BY DEF readCounts
<1>2. CallInv /\ CallOK /\ ReplayOK /\ LogsOf(gen.logs, Known, p) /\ ChainNow
  BY <1>1 DEF GenInv, CallInv
<1>3. /\ ChainNow' /\ QueuesOK' /\ Known' = Known /\ head' = head
      /\ excused' = excused /\ excused \in BOOLEAN
      /\ chain' = chain
  BY <1>1, QuietFrame
<1>4. Mined = chain /\ Mined' = Mined
  BY <1>2, <1>3, MinedNow DEF CallOK, Mined
<1>5. n \in Nat
  <2>1. \A x \in Known : x.block <= head
    BY <1>2 DEF CallOK
  <2> QED
    BY <1>2, <2>1, CountTyped
<1>6. BlankThenUsers(gen.leaves) /\ gen.leaves \in Seq(Nat) /\ len > 0 /\ len \in Nat
  <2>1. Lists(gen.leaves, ToSet(gen.leaves), Less) /\ Blank \in ToSet(gen.leaves)
    BY <1>1, <1>2 DEF ReplayOK
  <2> QED
    BY <2>1, BlanksFirst DEF BlankThenUsers
<1>7. BlankThenUsers(s)
  <2>1. k \in Nat /\ k <= len
    BY <1>5, <1>6
  <2> HIDE DEF k
  <2> QED
    BY <1>6, <2>1, BlanksPart
<1>8. ASSUME ~excused PROVE same /\ RootOf(s, stateTreeDepth) = mergedStateRoot(p)
  <2>1. PICK t \in Seq(Nat) : IsStart(t, gen.leaves) /\ n = Len(t) /\ mergedStateRoot(p) = RootOf(t, stateTreeDepth)
    BY <1>1, <1>2, <1>8, QuietCounts
  <2>2. same
    BY <1>1, <1>2, <1>8, QuietCounts
  <2>3. Len(t) <= len /\ SubSeq(gen.leaves, 1, Len(t)) = t /\ Len(t) \in Nat
    BY <1>6, <2>1, StartPart
  <2>4. k = Len(t)
    BY <1>6, <2>1, <2>3
  <2> QED
    BY <2>1, <2>2, <2>3, <2>4
<1> HIDE DEF k, same
<1>9. /\ gen'.at = at /\ gen'.stateLeaves = s /\ gen'.i = gen.i
      /\ gen'.leaves = gen.leaves /\ gen'.polls = gen.polls /\ gen'.messages = gen.messages
      /\ gen'.logs = gen.logs /\ gen'.pollId = gen.pollId /\ DOMAIN gen' = Fields
      /\ gen'.fromBlock = gen.fromBlock /\ gen'.lastBlock = gen.lastBlock
  <2>1. DOMAIN gen = Fields
    BY <1>2 DEF CallOK
  <2> HIDE DEF at, s
  <2> QED
    BY <1>1, <2>1 DEF Fields
<1> HIDE DEF s
<1>10. CallOK'
  <2>1. gen'.at \in Phases /\ gen'.i \in Nat
    BY <1>2, <1>9 DEF Phases, CallOK
  <2> QED
    BY <1>1, <1>2, <1>9, <2>1, SameCall
<1>11. LogsOf(gen.logs, Known, gen.pollId)'
  BY <1>2, <1>3, <1>9
<1>12. MaciLogsOK' /\ PollLogsOK' /\ gen'.at # "returned"
  BY <1>9 DEF MaciLogsOK, PollLogsOK
<1>13. ReplayOK'
  BY <1>1, <1>2, <1>3, <1>9 DEF ReplayOK
<1>14. gen'.at = "threw" => excused'
  BY <1>3, <1>8, <1>9
<1>15. CountsOK'
  <2> SUFFICES ASSUME same PROVE CountsOK'
    BY <1>9 DEF CountsOK
  <2>1. ASSUME ~MixedIn(Known, p)
        PROVE  AllBefore(ToSet(gen.messages), MessagesOf(Known, p) \ ToSet(gen.messages), Less)
    <3> DEFINE m == gen.messages
               T == ToSet(m)
               M == MessagesOf(Known, p)
    <3>1. Lists(m, T, Less) /\ T \subseteq M
      BY <1>1, <1>2, <2>1 DEF ReplayOK
    <3>2. Lists(MessagesIn(chain, p), M, Less)
      BY <1>2, ChainOnce
    <3>3. Len(MessagesIn(chain, p)) = Len(m)
      BY <1>4 DEF same, numMessages
    <3> HIDE DEF m, T, M
    <3>4. T = M
      BY <3>1, <3>2, <3>3, WholeList, Orders
    <3>5. AllBefore(T, M \ T, Less)
      BY <3>4 DEF AllBefore
    <3> QED
      BY <3>5 DEF m, T, M
  <2>2. (~MixedIn(Known, p) =>
           AllBefore(ToSet(gen.messages), MessagesOf(Known, p) \ ToSet(gen.messages), Less))'
    BY <1>3, <1>9, <2>1
  <2>3. BlankThenUsers(gen.stateLeaves)'
    BY <1>7, <1>9
  <2>4. (~excused => StateRootAgrees)'
    <3>1. mergedStateRoot(p)' = mergedStateRoot(p)
      BY <1>4, <1>9 DEF mergedStateRoot, Snapshot
    <3> QED
      BY <1>3, <1>8, <1>9, <3>1 DEF StateRootAgrees
  <2> QED
    BY <2>2, <2>3, <2>4 DEF CountsOK
<1>16. CallInv'
  BY <1>10, <1>11, <1>12, <1>13, <1>14, <1>15 DEF CallInv
<1> QED
  BY <1>3, <1>9, <1>16 DEF GenInv

\* The state roots are compared.
LEMMA RootStep ==
  ASSUME GenInv, readRoot
  PROVE  GenInv'
<1> DEFINE p == gen.pollId
           at == IF StateRootAgrees THEN "returned" ELSE "threw"
<1>1. gen.at = "root" /\ UNCHANGED <<env, excused>> /\ gen' = [gen EXCEPT !.at = at]
  BY DEF readRoot
<1>2. CallInv /\ CallOK /\ ReplayOK /\ CountsOK /\ LogsOf(gen.logs, Known, p) /\ ChainNow
  BY <1>1 DEF GenInv, CallInv
<1>3. /\ ChainNow' /\ QueuesOK' /\ Known' = Known /\ head' = head
      /\ excused' = excused /\ excused \in BOOLEAN
      /\ chain' = chain
  BY <1>1, QuietFrame
<1>4. /\ gen'.at = at /\ gen'.stateLeaves = gen.stateLeaves /\ gen'.i = gen.i
      /\ gen'.leaves = gen.leaves /\ gen'.polls = gen.polls /\ gen'.messages = gen.messages
      /\ gen'.logs = gen.logs /\ gen'.pollId = gen.pollId /\ DOMAIN gen' = Fields
      /\ gen'.fromBlock = gen.fromBlock /\ gen'.lastBlock = gen.lastBlock
  <2>1. DOMAIN gen = Fields
    BY <1>2 DEF CallOK
  <2> HIDE DEF at
  <2> QED
    BY <1>1, <2>1 DEF Fields
<1>5. CallOK'
  <2>1. gen'.at \in Phases /\ gen'.i \in Nat
    BY <1>2, <1>4 DEF Phases, CallOK
  <2> QED
    BY <1>1, <1>2, <1>4, <2>1, SameCall
<1>6. LogsOf(gen.logs, Known, gen.pollId)'
  BY <1>2, <1>3, <1>4
<1>7. MaciLogsOK' /\ PollLogsOK'
  BY <1>4 DEF MaciLogsOK, PollLogsOK
<1>8. StateRootAgrees' <=> StateRootAgrees
  <2>1. Mined' = Mined
    BY <1>3 DEF Mined
  <2>2. mergedStateRoot(p)' = mergedStateRoot(p)
    BY <1>4, <2>1 DEF mergedStateRoot, Snapshot
  <2> QED
    BY <1>4, <2>2 DEF StateRootAgrees
<1>9. ReplayOK' /\ CountsOK'
  BY <1>1, <1>2, <1>3, <1>4, <1>8 DEF ReplayOK, CountsOK
<1>10. ~excused => StateRootAgrees
  BY <1>1, <1>2 DEF CountsOK
<1>11. /\ gen'.at = "returned" => StateRootAgrees'
       /\ gen'.at = "threw" => excused'
  BY <1>3, <1>4, <1>8, <1>10
<1>12. CallInv'
  BY <1>5, <1>6, <1>7, <1>9, <1>11 DEF CallInv
<1> QED
  BY <1>3, <1>4, <1>12 DEF GenInv

\* Every step keeps the invariant.
LEMMA GenInductive == GenInv /\ [Next]_vars => GenInv'
<1> SUFFICES ASSUME GenInv, [Next]_vars PROVE GenInv'
  OBVIOUS
<1>1. CASE Running /\ (signUp \/ deployPoll)
  BY <1>1, ContractStep
<1>2. CASE mine
  BY <1>2, MineStep
<1>3. ASSUME NEW p \in 0..(MaxPolls - 1), Running,
             \/ \E types \in MessageLists : publish(p, types)
             \/ \E n \in NumSrQueueOps : mergeMessageAqSubRoots(p, n)
             \/ mergeMessageAq(p)
             \/ \E n \in NumSrQueueOps : mergeMaciStateAqSubRoots(p, n)
             \/ mergeMaciStateAq(p)
      PROVE  GenInv'
  BY <1>3, ContractStep
<1>4. ASSUME NEW p \in 0..(MaxPolls - 1), NEW range \in Ranges, begin(p, range[1], range[2])
      PROVE  GenInv'
  BY <1>4, BeginStep
<1>5. CASE fetchMaciLogs
  BY <1>5, MaciLogsStep
<1>6. CASE checkPolls
  BY <1>6, CheckPollsStep
<1>7. CASE fetchPollLogs
  BY <1>7, PollLogsStep
<1>8. CASE replay
  BY <1>8, ReplayStep
<1>9. CASE readCounts
  BY <1>9, CountsStep
<1>10. CASE readRoot
  BY <1>10, RootStep
<1>11. CASE UNCHANGED vars
  <2>1. UNCHANGED <<chain, head, transactions, gen, excused, queues>>
    BY <1>11 DEF vars, env
  <2>2. Known' = Known /\ ChainNow' = ChainNow /\ QueuesOK'
    BY <2>1, QueuesKept DEF Known, ChainNow, GenInv
  <2>3. StateRootAgrees' = StateRootAgrees
    BY <2>1 DEF StateRootAgrees, mergedStateRoot, Snapshot, Mined
  <2>4. CallOK' = CallOK /\ MaciLogsOK' = MaciLogsOK /\ PollLogsOK' = PollLogsOK
        /\ ReplayOK' = ReplayOK /\ CountsOK' = CountsOK
    BY <2>1, <2>2, <2>3 DEF CallOK, QuietCall, MaciLogsOK, PollLogsOK, PollsFound, ReplayOK, CountsOK
  <2>5. CallInv' = CallInv
    BY <2>1, <2>2, <2>3, <2>4 DEF CallInv
  <2> QED
    BY <2>1, <2>2, <2>5 DEF GenInv
<1> QED
  BY <1>1, <1>2, <1>3, <1>4, <1>5, <1>6, <1>7, <1>8, <1>9, <1>10, <1>11 DEF Next

-----------------------------------------------------------------------------
\* Two lists of leaves with one root are the same but for blanks at the end of
\* the longer one.
LEMMA Zeros ==
  ASSUME NEW n \in Int
  PROVE  ZeroLeaves(n) \in Seq(Nat) /\ \A i \in 1..Len(ZeroLeaves(n)) : ZeroLeaves(n)[i] = Blank
<1>1. CASE n \in Nat
  BY <1>1, BlankIsNumber, ZerosTyped DEF Blank
<1>2. CASE n \notin Nat
  <2>1. 1..n = 1..0
    BY <1>2
  <2>2. ZeroLeaves(n) = ZeroLeaves(0)
    BY <2>1 DEF ZeroLeaves
  <2> QED
    BY <2>2, BlankIsNumber, ZerosTyped DEF Blank
<1> QED
  BY <1>1, <1>2

LEMMA RootPrefix ==
  ASSUME NEW d \in {stateTreeDepth, messageTreeDepth}, NEW a \in Seq(Nat), NEW b \in Seq(Nat),
         RootOf(a, d) = RootOf(b, d), Len(a) <= Len(b)
  PROVE  \A i \in 1..Len(b) : b[i] = IF i <= Len(a) THEN a[i] ELSE Blank
<1> DEFINE H == hashLength ^ d
           y == ZeroLeaves(H - Len(a))
           z == ZeroLeaves(H - Len(b))
<1>1. H \in Nat /\ Len(a) \in Nat /\ Len(b) \in Nat
  BY TreeSizes
<1>2. /\ y \in Seq(Nat) /\ \A i \in 1..Len(y) : y[i] = Blank
      /\ z \in Seq(Nat)
  <2> HIDE DEF H
  <2>1. H - Len(a) \in Int /\ H - Len(b) \in Int
    BY <1>1
  <2> QED
    BY <2>1, Zeros
<1>3. a \o y = b \o z
  BY DEF RootOf
<1> HIDE DEF y, z
<1>4. /\ Len(y) \in Nat /\ Len(z) \in Nat
      /\ Len(a \o y) = Len(a) + Len(y) /\ Len(b \o z) = Len(b) + Len(z)
      /\ \A i \in 1..(Len(a) + Len(y)) : (a \o y)[i] = IF i <= Len(a) THEN a[i] ELSE y[i - Len(a)]
      /\ \A i \in 1..(Len(b) + Len(z)) : (b \o z)[i] = IF i <= Len(b) THEN b[i] ELSE z[i - Len(b)]
  BY <1>2, ConcatProperties, LenProperties
<1>5. Len(a) + Len(y) = Len(b) + Len(z)
  BY <1>3, <1>4
<1>6. ASSUME NEW i \in 1..Len(b) PROVE b[i] = IF i <= Len(a) THEN a[i] ELSE Blank
  <2>1. i \in 1..(Len(b) + Len(z)) /\ i \in 1..(Len(a) + Len(y)) /\ i <= Len(b)
    BY <1>1, <1>4, <1>5
  <2>2. b[i] = IF i <= Len(a) THEN a[i] ELSE y[i - Len(a)]
    BY <1>3, <1>4, <2>1
  <2>3. ~(i <= Len(a)) => i - Len(a) \in 1..Len(y)
    BY <1>1, <1>4, <2>1
  <2> QED
    BY <1>2, <2>2, <2>3
<1> QED
  BY <1>6

\* The root of messages tells them.
LEMMA RootTells ==
  ASSUME NEW d \in {stateTreeDepth, messageTreeDepth}, NEW a \in Seq(Nat \ {0}), NEW b \in Seq(Nat \ {0}),
         RootOf(a, d) = RootOf(b, d)
  PROVE  a = b
<1>1. /\ a \in Seq(Nat) /\ b \in Seq(Nat) /\ Len(a) \in Nat /\ Len(b) \in Nat
      /\ \A i \in 1..Len(a) : a[i] \in Nat \ {0}
      /\ \A i \in 1..Len(b) : b[i] \in Nat \ {0}
  <2>1. Nat \ {0} \subseteq Nat
    OBVIOUS
  <2> QED
    BY <2>1, SeqMonotonic, ElementOfSeq, LenProperties
<1>2. ASSUME NEW x \in Seq(Nat), NEW y \in Seq(Nat), RootOf(x, d) = RootOf(y, d), Len(x) <= Len(y),
             \A i \in 1..Len(y) : y[i] \in Nat \ {0}
      PROVE  x = y
  <2>1. \A i \in 1..Len(y) : y[i] = IF i <= Len(x) THEN x[i] ELSE Blank
    BY <1>2, RootPrefix
  <2>2. Len(x) \in Nat /\ Len(y) \in Nat
    BY LenProperties
  <2>3. Len(x) = Len(y)
    <3> SUFFICES ASSUME Len(x) < Len(y) PROVE FALSE
      BY <1>2, <2>2
    <3>1. Len(y) \in 1..Len(y) /\ ~(Len(y) <= Len(x))
      BY <2>2
    <3>2. y[Len(y)] = Blank
      BY <2>1, <3>1
    <3> QED
      BY <1>2, <3>1, <3>2, BlankIsNumber
  <2>4. \A i \in 1..Len(x) : x[i] = y[i]
    BY <2>1, <2>2, <2>3
  <2> QED
    BY <2>3, <2>4, SeqEqual
<1>3. Len(a) <= Len(b) \/ Len(b) <= Len(a)
  BY <1>1
<1> QED
  BY <1>1, <1>2, <1>3

\* So does the root of state leaves, but for the one blank leaf.
LEMMA BlanksTell ==
  ASSUME NEW a, NEW b, BlankThenUsers(a), BlankThenUsers(b), Len(b) > 0,
         RootOf(a, stateTreeDepth) = RootOf(b, stateTreeDepth)
  PROVE  a = b \/ (a = << >> /\ Len(b) = 1)
<1>1. /\ a \in Seq(Nat) /\ b \in Seq(Nat) /\ Len(a) \in Nat /\ Len(b) \in Nat
      /\ \A i \in 1..Len(a) : a[i] = Blank <=> i = 1
      /\ \A i \in 1..Len(b) : b[i] = Blank <=> i = 1
  BY LenProperties DEF BlankThenUsers
<1>2. CASE Len(a) = Len(b)
  <2>1. \A i \in 1..Len(b) : b[i] = IF i <= Len(a) THEN a[i] ELSE Blank
    BY <1>1, <1>2, RootPrefix
  <2>2. \A i \in 1..Len(a) : a[i] = b[i]
    BY <1>1, <1>2, <2>1
  <2> QED
    BY <1>1, <1>2, <2>2, SeqEqual
<1>3. CASE Len(a) < Len(b)
  <2>1. \A i \in 1..Len(b) : b[i] = IF i <= Len(a) THEN a[i] ELSE Blank
    BY <1>1, <1>3, RootPrefix
  <2>2. Len(b) \in 1..Len(b) /\ ~(Len(b) <= Len(a))
    BY <1>1, <1>3
  <2>3. Len(b) = 1
    BY <1>1, <2>1, <2>2
  <2>4. Len(a) = 0
    BY <1>1, <1>3, <2>3
  <2> QED
    BY <1>1, <2>3, <2>4, EmptySeq
<1>4. CASE Len(b) < Len(a)
  <2>1. \A i \in 1..Len(a) : a[i] = IF i <= Len(b) THEN b[i] ELSE Blank
    BY <1>1, <1>4, RootPrefix
  <2>2. Len(a) \in 1..Len(a) /\ ~(Len(a) <= Len(b)) /\ Len(a) # 1
    BY <1>1, <1>4
  <2> QED
    BY <1>1, <2>1, <2>2
<1> QED
  BY <1>1, <1>2, <1>3, <1>4

\* The chain up to a merge: the messages and the users in it are those that
\* the merge is of.
LEMMA ChainUntil ==
  ASSUME ChainNow, NEW m \in DOMAIN chain, chain[m].type \in MergeTypes
  PROVE  LET c == SubSeq(chain, 1, m)
             E == Until(Known, chain[m])
             w == <<Blank>> \o UsersIn(c)
         IN  /\ \A p : /\ MessagesIn(c, p) \in Seq(Nat \ {0})
                       /\ Lists(MessagesIn(c, p), MessagesOf(E, p), Less)
             /\ UsersIn(c) \in Seq(Nat) /\ w \in Seq(Nat) /\ Len(w) = 1 + Len(UsersIn(c))
             /\ Lists(w, {Blank} \cup UsersOf(E), Less)
<1> DEFINE c == SubSeq(chain, 1, m)
           e == chain[m]
           E == Until(Known, e)
<1>1. /\ chain \in Seq(Events) /\ DOMAIN chain = 1..Len(chain) /\ Len(chain) \in Nat
      /\ Known \subseteq Events /\ Formed(Known)
      /\ \A x \in Known : x.n \in 1..Len(chain) /\ chain[x.n] = x
      /\ \A k \in 1..Len(chain) : chain[k] \in Known /\ chain[k].n = k
  BY Numbering, KnownFacts DEF Known
<1>2. m \in Nat /\ 1..m \subseteq 1..Len(chain)
  BY <1>1
<1>3. c \in Seq(Events) /\ Len(c) = m /\ \A k \in 1..m : c[k] = chain[k]
  BY <1>1, <1>2, SubSeqProperties
<1>4. e \in Known /\ e.n = m
  BY <1>1
<1> HIDE DEF c
<1>5. Numbered(c)
  BY <1>1, <1>2, <1>3, ElementOfSeq DEF Numbered
<1>6. ToSet(c) = E \cup {e}
  <2>1. ASSUME NEW k \in 1..m PROVE c[k] \in E \cup {e}
    <3>1. c[k] = chain[k] /\ chain[k] \in Known /\ chain[k].n = k
      BY <1>1, <1>2, <1>3
    <3>2. k < m \/ k = m
      BY <1>2
    <3> QED
      BY <1>4, <3>1, <3>2 DEF Until
  <2>2. ASSUME NEW x \in E \cup {e} PROVE x.n \in 1..m /\ c[x.n] = x
    <3>1. x \in Known /\ (x.n < m \/ x.n = m)
      BY <1>4 DEF Until
    <3>2. x.n \in 1..Len(chain) /\ chain[x.n] = x
      BY <1>1, <3>1
    <3>3. x.n \in 1..m
      BY <1>2, <3>1, <3>2
    <3> QED
      BY <1>3, <3>2, <3>3
  <2>3. DOMAIN c = 1..m
    BY <1>3, ElementOfSeq
  <2> QED
    BY <2>1, <2>2, <2>3 DEF ToSet
<1>7. Formed(ToSet(c))
  <2>1. ToSet(c) \subseteq Known
    BY <1>4, <1>6 DEF Until
  <2> QED
    BY <1>1, <2>1 DEF Formed
<1>8. ASSUME NEW types, types \subseteq OneDatum, NEW p
      PROVE  /\ Lists(DataOf(c, types, p), Numbers(Of(E, types, p)), Less)
             /\ Numbers(Of(E, types, p)) \subseteq Nat \ {0}
  <2>1. e.type \notin types
    BY <1>8 DEF MergeTypes, OneDatum, MessageTypes
  <2>2. Of(ToSet(c), types, p) = Of(E, types, p)
    BY <1>6, <2>1 DEF Of
  <2>3. Lists(DataOf(c, types, p), Numbers(Of(ToSet(c), types, p)), Less)
    BY <1>5, <1>7, <1>8, DataLists
  <2>4. \A x \in Known : x.n \in Nat \ {0}
    BY <1>1
  <2>5. Numbers(Of(E, types, p)) \subseteq Nat \ {0}
    BY <2>4 DEF Numbers, Of, Until
  <2> QED
    BY <2>2, <2>3, <2>5
<1>9. ASSUME NEW p
      PROVE  MessagesIn(c, p) \in Seq(Nat \ {0}) /\ Lists(MessagesIn(c, p), MessagesOf(E, p), Less)
  <2>1. MessageTypes \subseteq OneDatum
    BY DEF OneDatum
  <2>2. Lists(MessagesIn(c, p), MessagesOf(E, p), Less) /\ MessagesOf(E, p) \subseteq Nat \ {0}
    BY <1>8, <2>1 DEF MessagesIn, MessagesOf
  <2> HIDE DEF E
  <2> QED
    BY <2>2, SeqMonotonic DEF Lists
<1> DEFINE u == UsersIn(c)
           U == UsersOf(E)
           b == <<Blank>>
<1>10. Lists(u, U, Less) /\ U \subseteq Nat \ {0}
  <2>1. {"SignUp"} \subseteq OneDatum
    BY DEF OneDatum
  <2> QED
    BY <1>8, <2>1 DEF UsersIn, UsersOf
<1> HIDE DEF u, U
<1>11. u \in Seq(Nat)
  <2>1. u \in Seq(U) /\ U \subseteq Nat
    BY <1>10 DEF Lists
  <2> QED
    BY <2>1, SeqMonotonic
<1>12. /\ b \in Seq(Nat) /\ Len(b) = 1 /\ Lists(b, {Blank}, Less)
       /\ AllBefore({Blank}, U, Less)
  <2>1. \A x \in U : <<Blank, x>> \in Less
    BY <1>10, BlankIsNumber DEF Less
  <2> QED
    BY <2>1, BlankIsNumber, OneListed DEF AllBefore
<1> HIDE DEF b
<1>13. b \o u \in Seq(Nat) /\ Len(b \o u) = 1 + Len(u)
  BY <1>11, <1>12, ConcatProperties
<1>14. Lists(b \o u, {Blank} \cup U, Less)
  BY <1>10, <1>12, JoinedLists
<1> QED
  BY <1>9, <1>11, <1>13, <1>14 DEF c, e, E, b, u, U

\* The contract's messages are numbers.
LEMMA ContractMessages ==
  ASSUME ChainNow, NEW p
  PROVE  MessagesIn(chain, p) \in Seq(Nat)
<1>1. Lists(MessagesIn(chain, p), MessagesOf(Known, p), Less)
  BY ChainOnce
<1>2. MessagesOf(Known, p) \subseteq Nat
  BY KnownFacts DEF MessagesOf, Numbers, Of, Events
<1> QED
  BY <1>1, <1>2, SeqMonotonic DEF Lists

\* A root of messages among the events says what the first messages are.
LEMMA MergedMessages ==
  ASSUME ChainNow, ReplayOK, gen.at = "returned", NEW m \in At({"MergeMessageAq"}, gen.pollId),
         chain[m] \in ToSet(gen.logs), ~LateMessage(gen.pollId, m)
  PROVE  LET v == MessagesIn(SubSeq(chain, 1, m), gen.pollId)
         IN  SubSeq(gen.messages, 1, Len(v)) = v
<1> DEFINE p == gen.pollId
           e == chain[m]
           E == Until(Known, e)
           v == MessagesIn(SubSeq(chain, 1, m), p)
<1>1. m \in DOMAIN chain /\ e.type = "MergeMessageAq" /\ e.poll = p /\ e \in Known
  BY DEF At, Known, ToSet
<1>2. MessagePhase(E, p) # "late" /\ v \in Seq(Nat \ {0}) /\ Lists(v, MessagesOf(E, p), Less)
  BY <1>1, LateKnown, ChainUntil DEF MergeTypes
<1>3. e.data = RootOf(v, messageTreeDepth)
  <2>1. MessagesMerged(E, p, e.data)
    BY <1>1, KnownFacts DEF Merged
  <2> HIDE DEF v, E
  <2>2. PICK s : Lists(s, MessagesOf(E, p), Less) /\ e.data = RootOf(s, messageTreeDepth)
    BY <1>2, <2>1 DEF MessagesMerged
  <2>3. s = v
    BY <1>2, <2>2, OneList, Orders
  <2> QED
    BY <2>2, <2>3
<1>4. PICK u \in Seq(Nat \ {0}) : RootOf(u, messageTreeDepth) = e.data /\ IsStart(u, gen.messages)
  BY <1>1 DEF ReplayOK, Commits
<1> HIDE DEF v
<1>5. u = v
  BY <1>2, <1>3, <1>4, RootTells
<1>6. gen.messages \in Seq(Nat) /\ v \in Seq(Nat)
  <2>1. Nat \ {0} \subseteq Nat
    OBVIOUS
  <2> QED
    BY <1>2, <2>1, SeqMonotonic DEF ReplayOK
<1>7. SubSeq(gen.messages, 1, Len(v)) = v
  BY <1>4, <1>5, <1>6, StartPart
<1> QED
  BY <1>7 DEF v

\* So does the root of the state leaves.
LEMMA MergedUsers ==
  ASSUME ChainNow, CallOK, CountsOK, StateRootAgrees, gen.at = "returned",
         NEW m \in At({"MergeMaciStateAq"}, gen.pollId), ~LateSignUp(m)
  PROVE  LET users == UsersIn(SubSeq(chain, 1, m))
         IN  gen.stateLeaves = <<Blank>> \o users \/ (gen.stateLeaves = << >> /\ users = << >>)
<1> DEFINE p == gen.pollId
           e == chain[m]
           U == {Blank} \cup UsersOf(Until(Known, e))
           users == UsersIn(SubSeq(chain, 1, m))
           w == <<Blank>> \o users
<1>1. m \in DOMAIN chain /\ e.type = "MergeMaciStateAq" /\ e.poll = p /\ e \in Known
  BY DEF At, Known, ToSet
<1>2. /\ StatePhase(Until(Known, e)) # "late" /\ users \in Seq(Nat) /\ w \in Seq(Nat)
      /\ Len(w) = 1 + Len(users) /\ Lists(w, U, Less)
  BY <1>1, LateKnown, ChainUntil DEF MergeTypes
<1>3. PICK s : Lists(s, U, Less) /\ mergedStateRoot(p) = RootOf(s, stateTreeDepth)
  <2>1. \A x \in Known : x.block <= head
    BY DEF CallOK
  <2> QED
    BY <1>1, <1>2, <2>1, SnapshotData
<1> HIDE DEF w, U
<1>4. s = w
  BY <1>2, <1>3, OneList, Orders
<1>5. BlankThenUsers(w) /\ Len(w) > 0
  <2>1. ToSet(w) = U /\ Blank \in U
    BY <1>2 DEF Lists, U
  <2> QED
    BY <1>2, <2>1, BlanksFirst
<1>6. BlankThenUsers(gen.stateLeaves) /\ RootOf(gen.stateLeaves, stateTreeDepth) = RootOf(w, stateTreeDepth)
  BY <1>3, <1>4 DEF CountsOK, StateRootAgrees
<1>7. gen.stateLeaves = w \/ (gen.stateLeaves = << >> /\ Len(w) = 1)
  BY <1>5, <1>6, BlanksTell
<1> HIDE DEF users
<1>8. Len(w) = 1 => users = << >>
  <2>1. Len(users) \in Nat
    BY <1>2, LenProperties
  <2> QED
    BY <1>2, <2>1, EmptySeq
<1> QED
  BY <1>7, <1>8 DEF w, users

\* The invariant implies both properties.
LEMMA ReturnsAgreeing == GenInv => ReturnsContractState
<1> SUFFICES ASSUME GenInv, gen.at = "returned" PROVE ReturnsContractState
  BY DEF ReturnsContractState
<1> DEFINE p == gen.pollId
           m == gen.messages
           c == MessagesIn(chain, p)
           v == SubSeq(c, 1, Len(m))
<1>1. CallOK /\ ReplayOK /\ CountsOK /\ ChainNow /\ StateRootAgrees
  BY DEF GenInv, CallInv
<1>2. gen.polls[p + 1] = p
  BY <1>1 DEF ReplayOK
<1>3. ASSUME ~Mixed(p) PROVE SubSeq(m, 1, Len(v)) = v
  <2> DEFINE T == ToSet(m)
             M == MessagesOf(Known, p)
  <2>1. ~MixedIn(Known, p)
    BY <1>3, MixedKnown
  <2>2. Lists(m, T, Less) /\ T \subseteq M /\ AllBefore(T, M \ T, Less) /\ Lists(c, M, Less)
    BY <1>1, <2>1, ChainOnce DEF ReplayOK, CountsOK
  <2>3. m \in Seq(Nat) /\ c \in Seq(Nat)
    BY <1>1, ContractMessages DEF ReplayOK
  <2> HIDE DEF m, c, T, M
  <2>4. IsStart(m, c)
    BY <2>2, FirstPart, Orders
  <2>5. v = m
    BY <2>3, <2>4, StartPart
  <2>6. SubSeq(m, 1, Len(m)) = m
    BY <2>3, StartsOfItself, StartPart
  <2> QED
    BY <2>5, <2>6
<1>4. ASSUME NEW k \in At({"MergeMessageAq"}, p), chain[k] \in ToSet(gen.logs), ~LateMessage(p, k)
      PROVE  LET w == MessagesIn(SubSeq(chain, 1, k), p)
             IN  SubSeq(m, 1, Len(w)) = w
  BY <1>1, <1>4, MergedMessages
<1>5. ASSUME NEW k \in At({"MergeMaciStateAq"}, p)
      PROVE  LET users == UsersIn(SubSeq(chain, 1, k))
             IN  \/ LateSignUp(k)
                 \/ gen.stateLeaves = <<Blank>> \o users
                 \/ gen.stateLeaves = << >> /\ users = << >>
  BY <1>1, <1>5, MergedUsers
<1> QED
  BY <1>2, <1>3, <1>4, <1>5 DEF ReturnsContractState

LEMMA QuietReturns == GenInv => QuietCallReturns
<1> SUFFICES ASSUME GenInv, gen.at = "threw" PROVE excused
  BY DEF QuietCallReturns
<1> QED
  BY DEF GenInv, CallInv

\* Whatever a call returns is the state of the contract.
THEOREM ReturnedIsContractState == Spec => []ReturnsContractState
<1>1. Init => GenInv
  BY Starts
<1>2. GenInv /\ [Next]_vars => GenInv'
  BY GenInductive
<1>3. GenInv => ReturnsContractState
  BY ReturnsAgreeing
<1> QED
  BY <1>1, <1>2, <1>3, PTL DEF Spec

\* A call given every block of a quiet chain with a merged poll returns.
THEOREM QuietCallsReturn == Spec => []QuietCallReturns
<1>1. Init => GenInv
  BY Starts
<1>2. GenInv /\ [Next]_vars => GenInv'
  BY GenInductive
<1>3. GenInv => QuietCallReturns
  BY QuietReturns
<1> QED
  BY <1>1, <1>2, <1>3, PTL DEF Spec
=============================================================================
