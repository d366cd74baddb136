---------------------------- MODULE TotalsProofs ----------------------------
(***************************************************************************)
(* Facts about Totals: the recursion unfolds, and changing one summand     *)
(* changes the total by as much.  The library's induction theorems take an *)
(* operator as a parameter; induction is had here from the least element   *)
(* of a set of counterexamples instead.                                    *)
(***************************************************************************)
EXTENDS Totals, TLAPS, WellFoundedInduction

(* A set of naturals with 0 that is closed under successor is Nat.         *)
LEMMA SetInduction ==
    ASSUME NEW S, 0 \in S, \A n \in Nat : n \in S => n + 1 \in S
    PROVE  Nat \subseteq S
<1> DEFINE T == Nat \ S
           R == OpToRel(<, Nat)
<1>1. SUFFICES ASSUME T # {} PROVE FALSE
  OBVIOUS
<1>2. PICK m \in T : \A k \in T : <<k, m>> \notin R
  <2>1. IsWellFoundedOn(R, Nat)
    BY NatLessThanWellFounded
  <2>2. T \subseteq Nat
    OBVIOUS
  <2> HIDE DEF R, T
  <2>3. QED
    BY <1>1, <2>1, <2>2, WFMin
<1>3. m \in Nat /\ m # 0
  OBVIOUS
<1>4. m - 1 \in Nat /\ <<m - 1, m>> \in R
  BY <1>3 DEF OpToRel
<1>5. m - 1 \in S
  BY <1>2, <1>4
<1>6. (m - 1) + 1 \in S
  BY <1>4, <1>5
<1>7. QED
  BY <1>3, <1>6

(* The equation the partial sums solve.                                    *)
Solves(g, f, n) == g = [i \in 0..n |-> IF i = 0 THEN 0 ELSE g[i - 1] + f[i]]

LEMMA PartialSumsExist ==
    ASSUME NEW f, NEW count \in Nat
    PROVE  \E g : Solves(g, f, count)
<1> DEFINE S == {n \in Nat : \E g : Solves(g, f, n)}
<1>1. 0 \in S
  <2>1. Solves([i \in 0..0 |-> 0], f, 0)
    BY DEF Solves
  <2>2. QED
    BY <2>1
<1>2. ASSUME NEW n \in Nat, n \in S PROVE n + 1 \in S
  <2>1. PICK g : Solves(g, f, n)
    BY <1>2
  <2> DEFINE h == [i \in 0..(n + 1) |-> IF i = n + 1 THEN g[n] + f[n + 1] ELSE g[i]]
  <2>2. \A i \in 0..n : g[i] = IF i = 0 THEN 0 ELSE g[i - 1] + f[i]
    BY <2>1 DEF Solves
  <2>3. \A i \in 0..(n + 1) : h[i] = IF i = 0 THEN 0 ELSE h[i - 1] + f[i]
    BY <2>2
  <2>4. h = [i \in 0..(n + 1) |-> h[i]]
    OBVIOUS
  <2> HIDE DEF h
  <2>5. Solves(h, f, n + 1)
    BY <2>3, <2>4 DEF Solves
  <2>6. QED
    BY <2>5
<1> HIDE DEF S
<1>3. Nat \subseteq S
  BY <1>1, <1>2, SetInduction
<1>4. QED
  BY <1>3 DEF S

LEMMA PartialSumsSolve ==
    ASSUME NEW f, NEW count \in Nat
    PROVE  Solves(PartialSums(f, count), f, count)
  BY PartialSumsExist, Zenon DEF PartialSums, Solves

LEMMA PartialSumsUnfold ==
    ASSUME NEW count \in Nat, NEW f \in [1..count -> Int]
    PROVE  /\ PartialSums(f, count)[0] = 0
           /\ \A n \in 1..count :
                 PartialSums(f, count)[n] = PartialSums(f, count)[n - 1] + f[n]
<1> DEFINE p == PartialSums(f, count)
<1>1. p = [i \in 0..count |-> IF i = 0 THEN 0 ELSE p[i - 1] + f[i]]
  BY PartialSumsSolve DEF Solves
<1> HIDE DEF p
<1>2. p[0] = 0 /\ \A n \in 1..count : p[n] = p[n - 1] + f[n]
  BY <1>1
<1>3. QED
  BY <1>2 DEF p

LEMMA PartialSumsInt ==
    ASSUME NEW count \in Nat, NEW f \in [1..count -> Int], NEW n \in 0..count
    PROVE  PartialSums(f, count)[n] \in Int
<1> DEFINE p == PartialSums(f, count)
           S == {i \in Nat : i <= count => p[i] \in Int}
<1>1. p[0] = 0 /\ \A i \in 1..count : p[i] = p[i - 1] + f[i]
  BY PartialSumsUnfold
<1> HIDE DEF p
<1>2. 0 \in S
  BY <1>1
<1>3. ASSUME NEW i \in Nat, i \in S PROVE i + 1 \in S
  <2>1. CASE i + 1 <= count
    <3>1. p[i] \in Int
      BY <1>3, <2>1
    <3>2. p[i + 1] = p[i] + f[i + 1] /\ f[i + 1] \in Int
      BY <1>1, <2>1
    <3>3. QED
      BY <3>1, <3>2
  <2>2. CASE ~(i + 1 <= count)
    BY <2>2
  <2>3. QED
    BY <2>1, <2>2
<1> HIDE DEF S
<1>4. Nat \subseteq S
  BY <1>2, <1>3, SetInduction
<1>5. n \in S
  BY <1>4
<1>6. QED
  BY <1>5 DEF S, p

LEMMA TotalInt ==
    ASSUME NEW count \in Nat, NEW f \in [1..count -> Int]
    PROVE  Total(f, count) \in Int
  BY PartialSumsInt DEF Total

LEMMA TotalNat ==
    ASSUME NEW count \in Nat, NEW f \in [1..count -> Nat]
    PROVE  Total(f, count) \in Nat
<1> DEFINE p == PartialSums(f, count)
           S == {i \in Nat : i <= count => p[i] \in Nat}
<1>1. p[0] = 0 /\ \A i \in 1..count : p[i] = p[i - 1] + f[i]
  <2>1. f \in [1..count -> Int]
    OBVIOUS
  <2>2. QED
    BY <2>1, PartialSumsUnfold
<1> HIDE DEF p
<1>2. 0 \in S
  BY <1>1
<1>3. ASSUME NEW i \in Nat, i \in S PROVE i + 1 \in S
  <2>1. CASE i + 1 <= count
    <3>1. p[i] \in Nat
      BY <1>3, <2>1
    <3>2. p[i + 1] = p[i] + f[i + 1] /\ f[i + 1] \in Nat
      BY <1>1, <2>1
    <3>3. QED
      BY <3>1, <3>2
  <2>2. CASE ~(i + 1 <= count)
    BY <2>2
  <2>3. QED
    BY <2>1, <2>2
<1> HIDE DEF S
<1>4. Nat \subseteq S
  BY <1>2, <1>3, SetInduction
<1>5. count \in S
  BY <1>4
<1>6. QED
  BY <1>5 DEF S, p, Total

(* Changing summand k changes the total by the difference.                 *)
THEOREM TotalUpdate ==
    ASSUME NEW count \in Nat, NEW k \in 1..count,
           NEW f \in [1..count -> Int], NEW g \in [1..count -> Int],
           \A i \in 1..count : i # k => g[i] = f[i]
    PROVE  Total(g, count) = Total(f, count) + g[k] - f[k]
<1> DEFINE p == PartialSums(f, count)
           q == PartialSums(g, count)
           Shift(n) == IF n < k THEN 0 ELSE g[k] - f[k]
           S == {n \in Nat : n <= count => q[n] = p[n] + Shift(n)}
<1>1. p[0] = 0 /\ \A i \in 1..count : p[i] = p[i - 1] + f[i]
  BY PartialSumsUnfold
<1>2. q[0] = 0 /\ \A i \in 1..count : q[i] = q[i - 1] + g[i]
  BY PartialSumsUnfold
<1>3. \A n \in 0..count : p[n] \in Int /\ q[n] \in Int
  BY PartialSumsInt
<1> HIDE DEF p, q
<1>4. 0 \in S
  BY <1>1, <1>2
<1>5. ASSUME NEW n \in Nat, n \in S PROVE n + 1 \in S
  <2>1. CASE n + 1 <= count
    <3>1. q[n] = p[n] + Shift(n)
      BY <1>5, <2>1
    <3>2. /\ p[n + 1] = p[n] + f[n + 1]
          /\ q[n + 1] = q[n] + g[n + 1]
          /\ n + 1 # k => g[n + 1] = f[n + 1]
      BY <1>1, <1>2, <2>1
    <3>3. /\ p[n] \in Int /\ f[n + 1] \in Int /\ g[n + 1] \in Int
          /\ f[k] \in Int /\ g[k] \in Int
      BY <1>3, <2>1
    <3>4. ASSUME n + 1 < k PROVE q[n + 1] = p[n + 1] + Shift(n + 1)
      <4>1. Shift(n) = 0 /\ Shift(n + 1) = 0
        BY <3>4
      <4> HIDE DEF Shift, S
      <4>2. QED
        BY <3>1, <3>2, <3>3, <3>4, <4>1
    <3>5. ASSUME n + 1 = k PROVE q[n + 1] = p[n + 1] + Shift(n + 1)
      <4>1. Shift(n) = 0 /\ Shift(n + 1) = g[k] - f[k]
        BY <3>5
      <4>2. f[n + 1] = f[k] /\ g[n + 1] = g[k]
        BY <3>5
      <4>3. q[n] = p[n]
        BY <3>1, <3>3, <4>1
      <4> HIDE DEF Shift, S
      <4>4. QED
        BY <3>2, <3>3, <4>1, <4>2, <4>3
    <3>6. ASSUME n + 1 > k PROVE q[n + 1] = p[n + 1] + Shift(n + 1)
      <4>1. Shift(n) = g[k] - f[k] /\ Shift(n + 1) = g[k] - f[k]
        BY <3>6
      <4>2. g[n + 1] = f[n + 1]
        BY <3>2, <3>6
      <4>3. q[n + 1] = p[n] + (g[k] - f[k]) + f[n + 1]
        BY <3>1, <3>2, <4>1, <4>2
      <4> HIDE DEF Shift, S
      <4>4. QED
        BY <3>2, <3>3, <4>1, <4>3
    <3>7. q[n + 1] = p[n + 1] + Shift(n + 1)
      BY <3>4, <3>5, <3>6
    <3>8. QED
      BY <3>7
  <2>2. CASE ~(n + 1 <= count)
    BY <2>2
  <2>3. QED
    BY <2>1, <2>2
<1> HIDE DEF S
<1>6. Nat \subseteq S
  BY <1>4, <1>5, SetInduction
<1>7. count \in S
  BY <1>6
<1>8. q[count] = p[count] + g[k] - f[k]
  BY <1>3, <1>7 DEF S
<1>9. QED
  BY <1>8 DEF p, q, Total

(* A total of zeros is zero.                                               *)
LEMMA TotalZero ==
    ASSUME NEW count \in Nat, NEW f \in [1..count -> Int],
           \A i \in 1..count : f[i] = 0
    PROVE  Total(f, count) = 0
<1> DEFINE p == PartialSums(f, count)
           S == {n \in Nat : n <= count => p[n] = 0}
<1>1. p[0] = 0 /\ \A i \in 1..count : p[i] = p[i - 1] + f[i]
  BY PartialSumsUnfold
<1> HIDE DEF p
<1>2. 0 \in S
  BY <1>1
<1>3. ASSUME NEW n \in Nat, n \in S PROVE n + 1 \in S
  <2>1. CASE n + 1 <= count
    BY <1>1, <1>3, <2>1
  <2>2. CASE ~(n + 1 <= count)
    BY <2>2
  <2>3. QED
    BY <2>1, <2>2
<1> HIDE DEF S
<1>4. Nat \subseteq S
  BY <1>2, <1>3, SetInduction
<1>5. count \in S
  BY <1>4
<1>6. QED
  BY <1>5 DEF S, p, Total
=============================================================================
