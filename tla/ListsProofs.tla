------------------------------ MODULE ListsProofs ------------------------------
(***************************************************************************)
(* What the operators on lists return, for lists of any length.  The       *)
(* induction theorems of the library take a predicate as a parameter,      *)
(* which no installed prover can instantiate; that every set of naturals   *)
(* has a least element (WFMin) speaks of sets only and does the same.      *)
(***************************************************************************)
EXTENDS Lists, SequenceTheorems, FiniteSetTheorems, WellFoundedInduction, TLAPS

\* Every set of naturals has a least element.
LEMMA LeastNatural ==
  ASSUME NEW S \in SUBSET Nat, S # {}
  PROVE  \E x \in S : \A y \in S : x <= y
<1> DEFINE R == OpToRel(<, Nat)
<1>1. IsWellFoundedOn(R, Nat) BY NatLessThanWellFounded
<1>2. PICK x \in S : \A y \in S : <<y, x>> \notin R BY <1>1, WFMin
<1>3. \A y \in S : <<y, x>> \in R <=> y < x BY DEF OpToRel
<1>4. \A y \in S : ~(y < x) BY <1>2, <1>3
<1>5. x \in Nat /\ \A y \in S : y \in Nat OBVIOUS
<1> HIDE DEF R
<1> QED BY <1>4, <1>5

\* Induction over a set of naturals.
LEMMA SetInduction ==
  ASSUME NEW S, 0 \in S, \A n \in Nat : n \in S => n + 1 \in S
  PROVE  Nat \subseteq S
<1> SUFFICES ASSUME Nat \ S # {} PROVE FALSE OBVIOUS
<1>1. PICK x \in Nat \ S : \A y \in Nat \ S : x <= y BY LeastNatural
<1>2. x # 0 /\ x - 1 \in Nat /\ ~(x <= x - 1) BY <1>1
<1>3. x - 1 \in S BY <1>1, <1>2
<1>4. (x - 1) + 1 \in S BY <1>2, <1>3
<1> QED BY <1>1, <1>2, <1>4

-----------------------------------------------------------------------------
(* Chosen                                                                  *)

\* One more entry, if its place is chosen.
Longer(list, s, K, n) == IF n \in K THEN Append(list, s[n]) ELSE list
IsUpTo(f, s, K, m) == f = [n \in 0..m |-> IF n = 0 THEN <<>> ELSE Longer(f[n - 1], s, K, n)]

\* The function that Chosen recurses with exists.
LEMMA UpToExists ==
  ASSUME NEW s, NEW K
  PROVE  \A m \in Nat : \E f : IsUpTo(f, s, K, m)
<1> DEFINE S == {m \in Nat : \E f : IsUpTo(f, s, K, m)}
<1>1. 0 \in S
  <2>1. IsUpTo([n \in 0..0 |-> <<>>], s, K, 0) BY DEF IsUpTo
  <2> QED BY <2>1
<1>2. ASSUME NEW m \in Nat, m \in S PROVE m + 1 \in S
  <2>1. PICK f : IsUpTo(f, s, K, m) BY <1>2
  <2> DEFINE g == [n \in 0..(m + 1) |-> IF n <= m THEN f[n] ELSE Longer(f[m], s, K, m + 1)]
             h == [n \in 0..(m + 1) |-> IF n = 0 THEN <<>> ELSE Longer(g[n - 1], s, K, n)]
  <2>2. ASSUME NEW n \in 0..(m + 1) PROVE g[n] = h[n]
    <3>1. CASE n = 0 BY <2>1, <3>1 DEF IsUpTo
    <3>2. CASE n # 0 /\ n <= m
      <4>1. n \in 0..m /\ n - 1 \in 0..m /\ n - 1 \in 0..(m + 1) /\ n - 1 <= m BY <3>2
      <4>2. f[n] = Longer(f[n - 1], s, K, n) BY <2>1, <3>2, <4>1 DEF IsUpTo
      <4>3. g[n] = f[n] /\ g[n - 1] = f[n - 1] BY <3>2, <4>1
      <4> QED BY <3>2, <4>2, <4>3
    <3>3. CASE n = m + 1
      <4>1. n - 1 = m /\ m \in 0..(m + 1) /\ n # 0 /\ ~(n <= m) BY <3>3
      <4>2. g[m] = f[m] BY <4>1
      <4> QED BY <3>3, <4>1, <4>2
    <3> QED BY <3>1, <3>2, <3>3
  <2>3. g = h
    <3> HIDE DEF g, h
    <3>1. g = [n \in 0..(m + 1) |-> g[n]] /\ h = [n \in 0..(m + 1) |-> h[n]] BY DEF g, h
    <3> QED BY <2>2, <3>1
  <2>4. IsUpTo(g, s, K, m + 1) BY <2>3 DEF IsUpTo
  <2> QED BY <2>4
<1> HIDE DEF S
<1>3. Nat \subseteq S BY <1>1, <1>2, SetInduction
<1> QED BY <1>3 DEF S

\* What is chosen are the entries at the places, all of them, in their order.
Picks(c, s, K, p) ==
  /\ p \in [1..Len(c) -> K]
  /\ \A i \in 1..Len(c) : c[i] = s[p[i]]
  /\ \A k \in K : \E i \in 1..Len(c) : p[i] = k
  /\ \A i, j \in 1..Len(c) : i < j => p[i] < p[j]

UpToPicks(f, T, s, K, m) == f[m] \in Seq(T) /\ \E p : Picks(f[m], s, {k \in K : k <= m}, p)

LEMMA PicksStep ==
  ASSUME NEW T, NEW s \in Seq(T), NEW K \in SUBSET (1..Len(s)), NEW m \in Nat, m < Len(s),
         NEW c \in Seq(T), NEW p, Picks(c, s, {k \in K : k <= m}, p)
  PROVE  /\ Longer(c, s, K, m + 1) \in Seq(T)
         /\ \E q : Picks(Longer(c, s, K, m + 1), s, {k \in K : k <= m + 1}, q)
<1>0. Len(s) \in Nat /\ Len(c) \in Nat /\ \A k \in K : k \in Nat
  BY LenProperties
<1>1. CASE m + 1 \notin K
  <2>0. \A k \in K : k <= m + 1 <=> k <= m
    <3> TAKE k \in K
    <3>1. k \in Nat /\ k # m + 1 BY <1>0, <1>1
    <3> QED BY <3>1
  <2>1. {k \in K : k <= m + 1} = {k \in K : k <= m} BY <2>0
  <2> QED BY <1>1, <2>1 DEF Longer
<1>2. CASE m + 1 \in K
  <2> DEFINE d == Append(c, s[m + 1])  n == Len(c)
             q == [i \in 1..(n + 1) |-> IF i = n + 1 THEN m + 1 ELSE p[i]]
  <2>1. s[m + 1] \in T /\ m + 1 \in 1..Len(s) BY <1>0
  <2>2. d \in Seq(T) /\ Len(d) = n + 1 /\ d[n + 1] = s[m + 1] /\ \A i \in 1..n : d[i] = c[i]
    BY <1>0, <2>1, AppendProperties
  <2>3. ASSUME NEW i \in 1..n PROVE p[i] \in K /\ p[i] <= m /\ c[i] = s[p[i]] /\ q[i] = p[i]
    <3>1. p[i] \in {k \in K : k <= m} /\ c[i] = s[p[i]] BY DEF Picks
    <3>2. i \in 1..(n + 1) /\ i # n + 1 BY <1>0
    <3> QED BY <3>1, <3>2
  <2>4. q[n + 1] = m + 1 BY <1>0
  <2>5. \A i \in 1..(n + 1) : i \in 1..n \/ i = n + 1 BY <1>0
  <2>6. q \in [1..(n + 1) -> {k \in K : k <= m + 1}]
    <3>1. ASSUME NEW i \in 1..n PROVE q[i] \in K /\ q[i] <= m + 1
      <4>1. q[i] = p[i] /\ p[i] \in K /\ p[i] \in Nat /\ p[i] <= m BY <1>0, <2>3
      <4> QED BY <4>1
    <3>2. \A i \in 1..(n + 1) : q[i] \in K /\ q[i] <= m + 1
      <4>1. q[n + 1] \in K /\ q[n + 1] <= m + 1 BY <1>2, <2>4
      <4> HIDE DEF q
      <4> QED BY <2>5, <3>1, <4>1
    <3>3. q \in [1..(n + 1) -> {k \in K : k <= m + 1}]
      <4>1. q = [i \in 1..(n + 1) |-> q[i]] OBVIOUS
      <4> HIDE DEF q
      <4> QED BY <3>2, <4>1
    <3> QED BY <3>3
  <2>7. \A i \in 1..(n + 1) : d[i] = s[q[i]] BY <2>2, <2>3, <2>4, <2>5
  <2>8. ASSUME NEW k \in K, k <= m + 1 PROVE \E i \in 1..(n + 1) : q[i] = k
    <3>1. CASE k = m + 1 BY <1>0, <2>4, <3>1
    <3>2. CASE k <= m
      <4>1. PICK i \in 1..n : p[i] = k BY <3>2 DEF Picks
      <4> QED BY <1>0, <2>3, <4>1
    <3> QED BY <1>0, <2>8, <3>1, <3>2
  <2>9. ASSUME NEW i \in 1..(n + 1), NEW j \in 1..(n + 1), i < j PROVE q[i] < q[j]
    <3>1. i \in 1..n BY <1>0, <2>9
    <3>2. CASE j = n + 1
      <4>1. p[i] <= m /\ p[i] \in Nat BY <1>0, <2>3, <3>1
      <4> QED BY <2>3, <2>4, <3>1, <3>2, <4>1
    <3>3. CASE j \in 1..n BY <2>3, <2>9, <3>1, <3>3 DEF Picks
    <3> QED BY <2>5, <3>2, <3>3
  <2> HIDE DEF d, q, n
  <2>10. Picks(d, s, {k \in K : k <= m + 1}, q) BY <2>2, <2>6, <2>7, <2>8, <2>9 DEF Picks
  <2>11. Longer(c, s, K, m + 1) = d BY <1>2 DEF Longer, d
  <2> QED BY <2>2, <2>10, <2>11
<1> QED BY <1>1, <1>2

LEMMA ChosenFacts ==
  ASSUME NEW T, NEW s \in Seq(T), NEW K \in SUBSET (1..Len(s))
  PROVE  /\ Chosen(s, K) \in Seq(T)
         /\ \E p : Picks(Chosen(s, K), s, K, p)
<1> DEFINE B(g) == [n \in 0..Len(s) |->
              IF n = 0 THEN <<>> ELSE IF n \in K THEN Append(g[n - 1], s[n]) ELSE g[n - 1]]
           f == CHOOSE g : g = B(g)
<1>0. Len(s) \in Nat /\ \A k \in K : k \in Nat /\ 1 <= k /\ k <= Len(s) BY LenProperties
<1>1. IsUpTo(f, s, K, Len(s))
  <2>1. \E g : IsUpTo(g, s, K, Len(s)) BY <1>0, UpToExists
  <2>2. \E g : g = B(g) BY <2>1 DEF IsUpTo, Longer
  <2>3. f = B(f) BY <2>2
  <2> QED BY <2>3 DEF IsUpTo, Longer
<1>2. Chosen(s, K) = f[Len(s)] BY DEF Chosen
<1> HIDE DEF f
<1> DEFINE S == {m \in Nat : m <= Len(s) => UpToPicks(f, T, s, K, m)}
<1>3. 0 \in S
  <2>1. f[0] = <<>> BY <1>0, <1>1 DEF IsUpTo
  <2>2. {k \in K : k <= 0} = {}
    <3>1. \A k \in K : ~(k <= 0) BY <1>0
    <3> QED BY <3>1
  <2>3. Picks(<<>>, s, {}, <<>>) BY DEF Picks
  <2>4. UpToPicks(f, T, s, K, 0)
    <3>1. f[0] \in Seq(T) BY <2>1
    <3>2. Picks(f[0], s, {k \in K : k <= 0}, <<>>) BY <2>1, <2>2, <2>3
    <3> QED BY <3>1, <3>2 DEF UpToPicks
  <2> QED BY <2>4
<1>4. ASSUME NEW m \in Nat, m \in S PROVE m + 1 \in S
  <2>0. SUFFICES ASSUME m + 1 <= Len(s) PROVE UpToPicks(f, T, s, K, m + 1) OBVIOUS
  <2>1. m < Len(s) /\ m \in 0..Len(s) /\ m + 1 \in 0..Len(s) /\ m + 1 # 0 /\ (m + 1) - 1 = m BY <1>0, <2>0
  <2>2. UpToPicks(f, T, s, K, m) BY <1>0, <1>4, <2>1
  <2>3. f[m + 1] = Longer(f[m], s, K, m + 1) BY <1>1, <2>1 DEF IsUpTo
  <2>4. f[m] \in Seq(T) /\ \E p : Picks(f[m], s, {k \in K : k <= m}, p) BY <2>2 DEF UpToPicks
  <2>5. PICK p : Picks(f[m], s, {k \in K : k <= m}, p) BY <2>4
  <2>6. /\ Longer(f[m], s, K, m + 1) \in Seq(T)
        /\ \E q : Picks(Longer(f[m], s, K, m + 1), s, {k \in K : k <= m + 1}, q)
    BY <2>1, <2>4, <2>5, PicksStep
  <2> QED BY <2>3, <2>6 DEF UpToPicks
<1> HIDE DEF S
<1>5. Len(s) \in S BY <1>0, <1>3, <1>4, SetInduction
<1>6. UpToPicks(f, T, s, K, Len(s))
  <2>1. Len(s) <= Len(s) BY <1>0
  <2> QED BY <1>5, <2>1 DEF S
<1>7. {k \in K : k <= Len(s)} = K BY <1>0
<1> QED BY <1>2, <1>6, <1>7 DEF UpToPicks
=============================================================================
