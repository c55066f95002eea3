----------------------------- MODULE Recursion ------------------------------
(***************************************************************************)
(* Functions defined by recursion over a range of numbers: that there is   *)
(* one (RangeRecursion), and that what holds at the beginning and is kept  *)
(* from each number to the next holds everywhere (RangeInduction).  Both   *)
(* speak of sets and functions only, the set of the numbers for which a    *)
(* statement is true in the place of the statement.                        *)
(***************************************************************************)
EXTENDS WellFoundedInduction, TLAPS

\* A set with 0 that every number of it continues is all of Nat.
LEMMA SetInduction ==
  ASSUME NEW S \in SUBSET Nat, 0 \in S, \A n \in S : n + 1 \in S
  PROVE  S = Nat
<1> DEFINE Missing == Nat \ S
           Below == OpToRel(<, Nat)
<1> SUFFICES ASSUME Missing # {} PROVE FALSE
  OBVIOUS
<1> HIDE DEF Missing, Below
<1>1. IsWellFoundedOn(Below, Nat) /\ Missing \subseteq Nat
  BY NatLessThanWellFounded DEF Missing, Below
<1>2. PICK m \in Missing : \A n \in Missing : ~ (<<n, m>> \in Below)
  BY <1>1, WFMin
<1>3. m - 1 \in Nat /\ m - 1 \notin S
  BY <1>2 DEF Missing
<1>4. <<m - 1, m>> \in Below
  BY <1>1, <1>2, <1>3 DEF Below, OpToRel
<1> QED
  BY <1>2, <1>3, <1>4 DEF Missing

HasRecursion(V, v, a, n, g) ==
  \E f \in [a..n -> V] : \A i \in a..n : f[i] = IF i = a THEN v ELSE g[i][f[i - 1]]

\* A function may be defined by recursion over a range.
LEMMA RangeRecursion ==
  ASSUME NEW V, NEW v \in V, NEW a \in Nat, NEW n \in Nat, NEW g \in [a..n -> [V -> V]]
  PROVE  HasRecursion(V, v, a, n, g)
<1> DEFINE Rec(m, f) == \A i \in a..m : f[i] = IF i = a THEN v ELSE g[i][f[i - 1]]
           S == {k \in Nat : a + k <= n => \E f \in [a..(a + k) -> V] : Rec(a + k, f)}
<1>1. 0 \in S
  <2>1. [i \in a..a |-> v] \in [a..(a + 0) -> V] /\ Rec(a + 0, [i \in a..a |-> v])
    BY a + 0 = a
  <2> QED
    BY <2>1
<1>2. ASSUME NEW k \in S PROVE k + 1 \in S
  <2>0. k \in Nat /\ k + 1 \in Nat
    BY <1>2
  <2>1. SUFFICES ASSUME a + (k + 1) <= n
                 PROVE  \E f \in [a..(a + (k + 1)) -> V] : Rec(a + (k + 1), f)
    BY <2>0
  <2>2. PICK f \in [a..(a + k) -> V] : Rec(a + k, f)
    BY <1>2, <2>0, <2>1
  <2> DEFINE m == a + (k + 1)
             h == [i \in a..m |-> IF i = m THEN g[m][f[m - 1]] ELSE f[i]]
  <2>3. m \in Nat /\ m <= n /\ m # a /\ m - 1 \in a..(a + k) /\ a..(a + k) = a..(m - 1) /\ m \in a..n
    BY <2>0, <2>1
  <2> HIDE DEF m
  <2>4. h \in [a..m -> V]
    BY <2>2, <2>3
  <2>5. ASSUME NEW i \in a..m PROVE h[i] = IF i = a THEN v ELSE g[i][h[i - 1]]
    <3>1. \A j \in a..(m - 1) : f[j] = IF j = a THEN v ELSE g[j][f[j - 1]]
      BY <2>2, <2>3
    <3>2. h[m] = g[m][f[m - 1]] /\ \A j \in a..(m - 1) : h[j] = f[j]
      BY <2>3
    <3> HIDE DEF h
    <3>3. CASE i = m
      BY <2>3, <3>2, <3>3
    <3>4. CASE i \in a..(m - 1)
      BY <2>3, <3>1, <3>2, <3>4
    <3> QED
      BY <2>3, <3>3, <3>4
  <2>6. Rec(m, h)
    BY <2>5
  <2> QED
    BY <2>4, <2>6 DEF m
<1> HIDE DEF S
<1>3. S = Nat
  BY <1>1, <1>2, SetInduction DEF S
<1>4. CASE n < a
  <2>1. a..n = {}
    BY <1>4
  <2>2. [i \in a..n |-> v] \in [a..n -> V] /\ Rec(n, [i \in a..n |-> v])
    BY <2>1
  <2> QED
    BY <2>2 DEF HasRecursion
<1>5. CASE n >= a
  <2>1. n - a \in S /\ a + (n - a) = n
    BY <1>3, <1>5
  <2> QED
    BY <2>1 DEF S, HasRecursion
<1> QED
  BY <1>4, <1>5

\* The same induction over a range of numbers.
LEMMA RangeInduction ==
  ASSUME NEW a \in Nat, NEW n \in Nat, NEW S, a \in S,
         \A i \in a..(n - 1) : i \in S => i + 1 \in S
  PROVE  a..n \subseteq S
<1> DEFINE T == {k \in Nat : a + k <= n => a + k \in S}
<1>1. 0 \in T
  OBVIOUS
<1>2. ASSUME NEW k \in T PROVE k + 1 \in T
  BY a + (k + 1) = (a + k) + 1
<1> HIDE DEF T
<1>3. T = Nat
  BY <1>1, <1>2, SetInduction DEF T
<1>4. ASSUME NEW i \in a..n PROVE i \in S
  <2>1. i - a \in T /\ a + (i - a) = i
    BY <1>3
  <2> QED
    BY <2>1 DEF T
<1> QED
  BY <1>4
=============================================================================
