----------------------------- MODULE FoldLemmas -----------------------------
(***************************************************************************)
(* Facts about numbers, finite sets of them and folds on which the other   *)
(* proofs rest.  Induction is over a set of numbers, which needs no        *)
(* operator as a parameter: the set has no least gap, because < is         *)
(* well-founded.                                                           *)
(***************************************************************************)
EXTENDS Integers, SequencesExt, FiniteSetTheorems, TLAPS

LEMMA SetInduction ==
  ASSUME NEW T, T \subseteq Nat, 0 \in T, \A n \in T : n + 1 \in T
  PROVE  T = Nat
<1> DEFINE less == {ss \in Nat \X Nat : ss[1] < ss[2]}
<1>1. less = OpToRel(<, Nat)
  BY DEF OpToRel
<1>2. IsWellFoundedOn(less, Nat)
  BY <1>1, NatLessThanWellFounded
<1>3. SUFFICES ASSUME Nat \ T # {}
               PROVE  FALSE
  OBVIOUS
<1>4. PICK x \in Nat \ T : \A y \in Nat \ T : <<y, x>> \notin less
  BY <1>2, <1>3, WFMin
<1>5. x - 1 \in Nat /\ x - 1 \in T
  <2>1. x - 1 \in Nat
    BY <1>4
  <2>2. <<x - 1, x>> \in less
    BY <2>1, <1>4
  <2> QED
    BY <2>1, <2>2, <1>4
<1> QED
  BY <1>4, <1>5

LEMMA MaxOf ==
  ASSUME NEW n \in Nat, NEW s \in SUBSET (1 .. n), s # {}
  PROVE  Max(s) \in s /\ \A y \in s : y <= Max(s)
<1> DEFINE P(k) == \A t \in SUBSET (1 .. k) :
                     t # {} => \E x \in t : \A y \in t : x >= y
           T == {k \in Nat : P(k)}
<1>1. P(0)
  <2>1. 1 .. 0 = {}
    OBVIOUS
  <2> QED
    BY <2>1
<1>2. ASSUME NEW k \in Nat, P(k)
      PROVE  P(k + 1)
  <2>1. SUFFICES ASSUME NEW t \in SUBSET (1 .. k + 1), t # {}
                 PROVE  \E x \in t : \A y \in t : x >= y
    OBVIOUS
  <2>2. CASE k + 1 \in t
    <3>1. \A y \in t : k + 1 >= y
      OBVIOUS
    <3> QED
      BY <2>2, <3>1
  <2>3. CASE k + 1 \notin t
    <3>1. t \in SUBSET (1 .. k)
      BY <2>3
    <3> QED
      BY <1>2, <2>1, <3>1
  <2> QED
    BY <2>2, <2>3
<1> HIDE DEF P
<1>3. T = Nat
  <2>1. /\ T \subseteq Nat /\ 0 \in T
        /\ \A k \in T : k + 1 \in T
    BY <1>1, <1>2
  <2> QED
    BY <2>1, SetInduction
<1>4. P(n)
  BY <1>3
<1>5. \E x \in s : \A y \in s : x >= y
  BY <1>4 DEF P
<1>6. Max(s) \in s /\ \A y \in s : Max(s) >= y
  BY <1>5, Zenon DEF Max
<1> QED
  BY <1>6

LEMMA MinOf ==
  ASSUME NEW n \in Nat, NEW s \in SUBSET (1 .. n), s # {}
  PROVE  Min(s) \in s /\ \A y \in s : Min(s) <= y
<1> DEFINE t == {n + 1 - x : x \in s}
<1>1. t \in SUBSET (1 .. n) /\ t # {}
  <2>1. \A x \in s : n + 1 - x \in 1 .. n
    OBVIOUS
  <2> QED
    BY <2>1
<1>2. Max(t) \in t /\ \A y \in t : y <= Max(t)
  <2> HIDE DEF t
  <2> QED
    BY <1>1, MaxOf
<1>3. PICK x \in s : Max(t) = n + 1 - x
  BY <1>2
<1>4. ASSUME NEW y \in s
      PROVE  x <= y
  <2>1. n + 1 - y \in t
    OBVIOUS
  <2>2. n + 1 - y <= n + 1 - x
    BY <1>2, <1>3, <2>1
  <2> QED
    BY <2>2
<1>5. Min(s) \in s /\ \A y \in s : Min(s) =< y
  BY <1>4, Zenon DEF Min
<1> QED
  BY <1>5

\* A fold over the subsets of 1 .. n that takes the greatest number first.
IsFold(g, n, T, base, F) ==
  /\ g \in [SUBSET (1 .. n) -> T]
  /\ \A s \in SUBSET (1 .. n) :
       g[s] = IF s = {} THEN base ELSE F[<<Max(s), g[s \ {Max(s)}]>>]

LEMMA FoldExists ==
  ASSUME NEW n \in Nat, NEW T, NEW base \in T, NEW F \in [(1 .. n) \X T -> T]
  PROVE  \E g : IsFold(g, n, T, base, F)
<1> DEFINE Folds(g, k) ==
             \A s \in SUBSET (1 .. k) :
               g[s] = IF s = {} THEN base ELSE F[<<Max(s), g[s \ {Max(s)}]>>]
           P(k) == k <= n => \E g \in [SUBSET (1 .. k) -> T] : Folds(g, k)
           K == {k \in Nat : P(k)}
<1>1. P(0)
  <2>1. \A s \in SUBSET (1 .. 0) : s = {}
    OBVIOUS
  <2> DEFINE g == [s \in SUBSET (1 .. 0) |-> base]
  <2>2. g \in [SUBSET (1 .. 0) -> T] /\ \A s \in SUBSET (1 .. 0) : g[s] = base
    OBVIOUS
  <2> HIDE DEF g
  <2>3. Folds(g, 0)
    BY <2>1, <2>2
  <2> HIDE DEF Folds
  <2> QED
    BY <2>2, <2>3
<1>2. ASSUME NEW k \in Nat, P(k)
      PROVE  P(k + 1)
  <2>1. SUFFICES ASSUME k + 1 <= n
                 PROVE  \E g \in [SUBSET (1 .. k + 1) -> T] : Folds(g, k + 1)
    BY Zenon
  <2>2. PICK g \in [SUBSET (1 .. k) -> T] : Folds(g, k)
    <3>1. k <= n
      BY <2>1
    <3> QED
      BY <1>2, <3>1, Zenon
  <2> DEFINE h == [s \in SUBSET (1 .. k + 1) |->
                     IF k + 1 \in s THEN F[<<k + 1, g[s \ {k + 1}]>>] ELSE g[s]]
  <2>3. ASSUME NEW s \in SUBSET (1 .. k + 1)
        PROVE  /\ s \ {k + 1} \in SUBSET (1 .. k)
               /\ k + 1 \notin s => s \in SUBSET (1 .. k)
    OBVIOUS
  <2>4. /\ \A s \in SUBSET (1 .. k + 1) :
             h[s] = IF k + 1 \in s THEN F[<<k + 1, g[s \ {k + 1}]>>] ELSE g[s]
        /\ DOMAIN h = SUBSET (1 .. k + 1)
        /\ h = [s \in SUBSET (1 .. k + 1) |-> h[s]]
    OBVIOUS
  <2> HIDE DEF h
  <2>5. h \in [SUBSET (1 .. k + 1) -> T]
    <3>1. ASSUME NEW s \in SUBSET (1 .. k + 1)
          PROVE  h[s] \in T
      <4>1. CASE k + 1 \in s
        <5>1. g[s \ {k + 1}] \in T
          BY <2>2, <2>3
        <5>2. <<k + 1, g[s \ {k + 1}]>> \in (1 .. n) \X T
          BY <2>1, <5>1
        <5> QED
          BY <2>4, <4>1, <5>2
      <4>2. CASE k + 1 \notin s
        BY <2>2, <2>3, <2>4, <4>2
      <4> QED
        BY <4>1, <4>2
    <3> QED
      BY <2>4, <3>1
  <2>6. ASSUME NEW s \in SUBSET (1 .. k + 1)
        PROVE  h[s] = IF s = {} THEN base ELSE F[<<Max(s), h[s \ {Max(s)}]>>]
    <3>1. CASE k + 1 \in s
      <4>1. Max(s) \in s /\ \A y \in s : y <= Max(s)
        <5>1. k + 1 \in Nat /\ s # {}
          BY <3>1
        <5> QED
          BY <5>1, MaxOf
      <4>2. Max(s) = k + 1
        <5>1. Max(s) \in 1 .. k + 1 /\ k + 1 <= Max(s)
          BY <3>1, <4>1
        <5> QED
          BY <5>1
      <4>3. h[s] = F[<<k + 1, g[s \ {k + 1}]>>]
        BY <2>4, <3>1
      <4>4. h[s \ {k + 1}] = g[s \ {k + 1}]
        <5>1. s \ {k + 1} \in SUBSET (1 .. k + 1) /\ k + 1 \notin s \ {k + 1}
          OBVIOUS
        <5> QED
          BY <2>4, <5>1
      <4> QED
        BY <3>1, <4>2, <4>3, <4>4
    <3>2. CASE k + 1 \notin s
      <4>1. h[s] = g[s] /\ s \in SUBSET (1 .. k)
        BY <2>3, <2>4, <3>2
      <4>2. g[s] = IF s = {} THEN base ELSE F[<<Max(s), g[s \ {Max(s)}]>>]
        BY <2>2, <4>1
      <4>3. h[s \ {Max(s)}] = g[s \ {Max(s)}]
        <5>1. s \ {Max(s)} \in SUBSET (1 .. k + 1) /\ k + 1 \notin s \ {Max(s)}
          BY <3>2
        <5> QED
          BY <2>4, <5>1
      <4> QED
        BY <4>1, <4>2, <4>3
    <3> QED
      BY <3>1, <3>2
  <2>7. Folds(h, k + 1)
    BY <2>6
  <2> HIDE DEF Folds
  <2> QED
    BY <2>5, <2>7
<1> HIDE DEF P
<1>3. K = Nat
  <2>1. /\ K \subseteq Nat /\ 0 \in K
        /\ \A k \in K : k + 1 \in K
    BY <1>1, <1>2
  <2> QED
    BY <2>1, SetInduction
<1>4. P(n)
  BY <1>3
<1>5. n <= n
  OBVIOUS
<1> QED
  BY <1>4, <1>5, Zenon DEF P, IsFold

\* The sum of a list of natural numbers is one.
LEMMA SumIsNatural ==
  ASSUME NEW list \in Seq(Nat), NEW base \in Nat
  PROVE  FoldLeft(+, base, list) \in Nat
<1> DEFINE n == Len(list)
           Step(g, s) == IF s = {} THEN base
                         ELSE g[s \ {Max(s)}] + list[Max(s)]
           F == [x \in (1 .. n) \X Nat |-> x[2] + list[x[1]]]
           iter == CHOOSE g : g = [s \in SUBSET (1 .. n) |-> Step(g, s)]
<1>1. FoldLeft(+, base, list) = iter[1 .. n]
  <2>1. DOMAIN list = 1 .. n
    OBVIOUS
  <2>2. FoldLeft(+, base, list) =
          LET it == CHOOSE g : g = [s \in SUBSET DOMAIN list |-> Step(g, s)]
          IN it[DOMAIN list]
    BY DEF FoldLeft, MapThenFoldSet
  <2> QED
    BY <2>1, <2>2, Zenon
<1>2. n \in Nat
  OBVIOUS
<1>3. F \in [(1 .. n) \X Nat -> Nat]
  <2>1. \A x \in (1 .. n) \X Nat : x[2] \in Nat /\ list[x[1]] \in Nat
    OBVIOUS
  <2> QED
    BY <2>1
<1>4. \E g : IsFold(g, n, Nat, base, F)
  <2> HIDE DEF F, n
  <2> QED
    BY <1>2, <1>3, FoldExists
<1>5. PICK g \in [SUBSET (1 .. n) -> Nat] : \A s \in SUBSET (1 .. n) :
        g[s] = IF s = {} THEN base ELSE F[<<Max(s), g[s \ {Max(s)}]>>]
  BY <1>4, Zenon DEF IsFold
<1>6. ASSUME NEW s \in SUBSET (1 .. n)
      PROVE  g[s] = Step(g, s)
  <2>1. CASE s = {}
    BY <1>5, <2>1
  <2>2. CASE s # {}
    <3>1. Max(s) \in 1 .. n
      BY <1>2, <2>2, MaxOf
    <3>2. <<Max(s), g[s \ {Max(s)}]>> \in (1 .. n) \X Nat
      BY <1>5, <3>1
    <3> QED
      BY <1>5, <2>2, <3>2
  <2> QED
    BY <2>1, <2>2
<1>7. g = [s \in SUBSET (1 .. n) |-> Step(g, s)]
  <2> HIDE DEF Step
  <2> QED
    BY <1>5, <1>6
<1>8. iter = [s \in SUBSET (1 .. n) |-> Step(iter, s)]
  <2> HIDE DEF Step
  <2> QED
    BY <1>7, Zenon
<1>9. \A s \in SUBSET (1 .. n) : iter[s] = Step(iter, s)
  <2> HIDE DEF Step, iter
  <2> QED
    BY <1>8, Zenon
<1> DEFINE P(k) == k <= n => iter[1 .. k] \in Nat
           T == {k \in Nat : P(k)}
<1>10. P(0)
  <2>1. 1 .. 0 = {}
    OBVIOUS
  <2>2. iter[{}] = base
    BY <1>9
  <2> HIDE DEF iter
  <2> QED
    BY <2>1, <2>2
<1>11. ASSUME NEW k \in Nat, P(k)
       PROVE  P(k + 1)
  <2> SUFFICES ASSUME k + 1 <= n
               PROVE  iter[1 .. k + 1] \in Nat
    OBVIOUS
  <2> DEFINE s == 1 .. k + 1
  <2>1. s \in SUBSET (1 .. n) /\ s # {} /\ k + 1 \in s
    OBVIOUS
  <2>2. Max(s) \in s /\ \A y \in s : y <= Max(s)
    <3> HIDE DEF s
    <3> QED
      BY <1>2, <2>1, MaxOf
  <2>3. Max(s) = k + 1 /\ s \ {Max(s)} = 1 .. k
    <3>1. Max(s) \in 1 .. k + 1 /\ k + 1 <= Max(s)
      BY <2>1, <2>2
    <3>2. Max(s) = k + 1
      BY <3>1
    <3>3. (1 .. k + 1) \ {k + 1} = 1 .. k
      OBVIOUS
    <3> QED
      BY <3>2, <3>3
  <2>4. iter[s] = iter[1 .. k] + list[k + 1]
    <3> HIDE DEF s, iter
    <3> QED
      BY <1>9, <2>1, <2>3
  <2>5. iter[1 .. k] \in Nat /\ list[k + 1] \in Nat
    <3> HIDE DEF iter
    <3> QED
      BY <1>11
  <2> HIDE DEF iter
  <2> QED
    BY <2>4, <2>5
<1> HIDE DEF P
<1>12. T = Nat
  <2>1. /\ T \subseteq Nat /\ 0 \in T
        /\ \A k \in T : k + 1 \in T
    BY <1>10, <1>11
  <2> QED
    BY <2>1, SetInduction
<1>13. P(n) /\ n <= n
  BY <1>2, <1>12
<1> QED
  BY <1>1, <1>13, Zenon DEF P
=============================================================================
