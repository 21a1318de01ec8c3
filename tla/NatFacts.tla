------------------------------ MODULE NatFacts ------------------------------
(***************************************************************************)
(* Induction over the natural numbers, stated about sets: what the proofs  *)
(* use of it.                                                              *)
(***************************************************************************)
EXTENDS WellFoundedInduction, TLAPS

LEMMA LeastNat ==
  ASSUME NEW T \in SUBSET Nat, T # {}
  PROVE  \E x \in T : \A y \in T : x <= y
<1>1. \E x \in T : \A y \in T : ~(<<y, x>> \in OpToRel(<, Nat))
  BY NatLessThanWellFounded, WFMin, Zenon
<1>2. \A x, y \in Nat : x < y => <<x, y>> \in OpToRel(<, Nat)
  BY Zenon DEF OpToRel
<1>3. \E x \in T : \A y \in T : ~(y < x)
  BY <1>1, <1>2, Zenon
<1> QED
  BY <1>3

LEMMA NatInductive ==
  ASSUME NEW T \in SUBSET Nat, 0 \in T, \A n \in T : n + 1 \in T
  PROVE  T = Nat
<1> SUFFICES ASSUME Nat \ T # {}
             PROVE  FALSE
  OBVIOUS
<1>1. PICK x \in Nat \ T : \A y \in Nat \ T : x <= y
  BY LeastNat
<1>2. x # 0 /\ x - 1 \in Nat
  BY <1>1
<1>3. x - 1 \in T
  BY <1>1, <1>2
<1> QED
  BY <1>1, <1>2, <1>3

LEMMA GreatestBelow ==
  ASSUME NEW n \in Nat, NEW S \in SUBSET (1 .. n), S # {}
  PROVE  \E m \in S : \A k \in S : k <= m
<1> DEFINE T == {x \in Nat : \A k \in S : k <= x}
<1>1. n \in T
  OBVIOUS
<1>2. PICK m \in T : \A x \in T : m <= x
  BY <1>1, LeastNat
<1>3. m \in S
  <2> SUFFICES ASSUME m \notin S PROVE FALSE
    OBVIOUS
  <2>1. \A k \in S : k <= m - 1
    BY <1>2
  <2>2. PICK k \in S : k \in 1 .. n
    <3>1. PICK k : k \in S
      OBVIOUS
    <3> QED
      BY <3>1
  <2>3. m - 1 \in Nat
    BY <1>2, <2>1, <2>2
  <2> QED
    BY <1>2, <2>1, <2>3
<1> QED
  BY <1>2, <1>3

(* A function defined by recursion on its argument exists. *)
Iterates(f, N, V, s, step) ==
  f \in [0 .. N -> V] /\ f[0] = s /\ \A d \in 1 .. N : f[d] = step[d][f[d - 1]]

LEMMA RecursionExists ==
  ASSUME NEW N \in Nat, NEW V, NEW s \in V, NEW step \in [1 .. N -> [V -> V]]
  PROVE  \E f : Iterates(f, N, V, s, step)
<1> DEFINE Solves(f, n) == f \in [0 .. n -> V] /\ f = [d \in 0 .. n |-> IF d = 0 THEN s ELSE step[d][f[d - 1]]]
           T == {n \in Nat : n <= N => \E f : Solves(f, n)}
<1>1. Solves([d \in 0 .. 0 |-> s], 0)
  OBVIOUS
<1>2. ASSUME NEW n \in Nat, n + 1 <= N, NEW f, Solves(f, n)
      PROVE  \E g : Solves(g, n + 1)
  <2> DEFINE g == [d \in 0 .. n + 1 |-> IF d = n + 1 THEN step[n + 1][f[n]] ELSE f[d]]
  <2>1. f \in [0 .. n -> V] /\ \A d \in 0 .. n : f[d] = IF d = 0 THEN s ELSE step[d][f[d - 1]]
    BY <1>2
  <2>2. f[n] \in V /\ step[n + 1][f[n]] \in V
    BY <1>2, <2>1
  <2>3. g \in [0 .. n + 1 -> V]
    BY <2>1, <2>2
  <2>4. ASSUME NEW d \in 0 .. n + 1
        PROVE  g[d] = IF d = 0 THEN s ELSE step[d][g[d - 1]]
    <3>1. CASE d = n + 1
      BY <2>1, <3>1
    <3>2. CASE d \in 0 .. n
      <4>1. d # n + 1 /\ d - 1 # n + 1 /\ (d # 0 => d - 1 \in 0 .. n)
        BY <3>2
      <4>2. g[d] = f[d] /\ (d # 0 => g[d - 1] = f[d - 1])
        BY <3>2, <4>1
      <4> HIDE DEF g
      <4> QED
        BY <2>1, <3>2, <4>2
    <3> QED
      BY <3>1, <3>2
  <2> HIDE DEF g
  <2>5. g = [d \in 0 .. n + 1 |-> IF d = 0 THEN s ELSE step[d][g[d - 1]]]
    BY <2>3, <2>4
  <2> QED
    BY <2>3, <2>5
<1> HIDE DEF Solves
<1>3. 0 \in T
  BY <1>1
<1>4. ASSUME NEW n \in T
      PROVE  n + 1 \in T
  <2>1. n \in Nat /\ (n <= N => \E f : Solves(f, n))
    OBVIOUS
  <2>2. n + 1 \in Nat /\ (n + 1 <= N => n <= N)
    BY <2>1
  <2>3. n + 1 <= N => \E g : Solves(g, n + 1)
    BY <1>2, <2>1, <2>2
  <2> QED
    BY <2>2, <2>3
<1>5. T \subseteq Nat
  OBVIOUS
<1> HIDE DEF T
<1>6. N \in T
  BY <1>3, <1>4, <1>5, NatInductive
<1>7. PICK f : Solves(f, N)
  BY <1>6 DEF T
<1>8. f \in [0 .. N -> V] /\ \A d \in 0 .. N : f[d] = IF d = 0 THEN s ELSE step[d][f[d - 1]]
  BY <1>7 DEF Solves
<1>9. 0 \in 0 .. N /\ \A d \in 1 .. N : d \in 0 .. N /\ d # 0
  OBVIOUS
<1> QED
  BY <1>8, <1>9 DEF Iterates

(* The same for every natural number. *)
LEMMA RecursionsAgree ==
  ASSUME NEW V, NEW s \in V, NEW step, NEW N \in Nat, NEW M \in Nat, N <= M, NEW f, NEW g,
         Iterates(f, N, V, s, step), Iterates(g, M, V, s, step)
  PROVE  \A d \in 0 .. N : f[d] = g[d]
<1> DEFINE T == {d \in Nat : d <= N => f[d] = g[d]}
<1>1. 0 \in T
  BY DEF Iterates
<1>2. ASSUME NEW d \in T
      PROVE  d + 1 \in T
  <2> SUFFICES ASSUME d + 1 <= N
               PROVE  f[d + 1] = g[d + 1]
    OBVIOUS
  <2>1. d + 1 \in 1 .. N /\ d + 1 \in 1 .. M /\ d + 1 - 1 = d /\ f[d] = g[d]
    OBVIOUS
  <2> QED
    BY <2>1 DEF Iterates
<1>3. T \in SUBSET Nat
  OBVIOUS
<1> HIDE DEF T
<1>4. T = Nat
  BY <1>1, <1>2, <1>3, NatInductive
<1> QED
  BY <1>4 DEF T

Unfolds(f, V, s, step) ==
  f \in [Nat -> V] /\ f[0] = s /\ \A d \in Nat : f[d + 1] = step[d + 1][f[d]]

LEMMA EndlessRecursion ==
  ASSUME NEW V, NEW s \in V, NEW step \in [Nat \ {0} -> [V -> V]]
  PROVE  \E f : Unfolds(f, V, s, step)
<1>1. ASSUME NEW N \in Nat
      PROVE  \E f : Iterates(f, N, V, s, step)
  <2> DEFINE first == [d \in 1 .. N |-> step[d]]
  <2>1. first \in [1 .. N -> [V -> V]]
    OBVIOUS
  <2>2. PICK f : Iterates(f, N, V, s, first)
    <3> HIDE DEF first
    <3> QED
      BY <2>1, RecursionExists
  <2>3. Iterates(f, N, V, s, step)
    BY <2>2 DEF Iterates
  <2> QED
    BY <2>3
<1> DEFINE upto(n) == CHOOSE f : Iterates(f, n, V, s, step)
           F == [n \in Nat |-> upto(n)[n]]
<1>2. \A n \in Nat : Iterates(upto(n), n, V, s, step)
  BY <1>1
<1> HIDE DEF upto
<1>3. F \in [Nat -> V] /\ F[0] = s
  BY <1>2 DEF Iterates
<1>4. ASSUME NEW d \in Nat
      PROVE  F[d + 1] = step[d + 1][F[d]]
  <2>1. /\ Iterates(upto(d), d, V, s, step) /\ Iterates(upto(d + 1), d + 1, V, s, step)
        /\ d <= d + 1 /\ d \in 0 .. d /\ d + 1 \in 1 .. d + 1 /\ d + 1 - 1 = d /\ d + 1 \in Nat
    BY <1>2
  <2>2. PICK f, g, m : f = upto(d) /\ g = upto(d + 1) /\ m = d + 1
    OBVIOUS
  <2>3. Iterates(f, d, V, s, step) /\ Iterates(g, m, V, s, step) /\ m \in Nat /\ d <= m
    BY <2>1, <2>2
  <2>4. f[d] = g[d]
    BY <2>1, <2>3, RecursionsAgree
  <2>5. g[d + 1] = step[d + 1][g[d]]
    BY <2>1, <2>2, <2>3 DEF Iterates
  <2> QED
    BY <2>1, <2>2, <2>4, <2>5 DEF F
<1> HIDE DEF F
<1> QED
  BY <1>3, <1>4 DEF Unfolds
=============================================================================
