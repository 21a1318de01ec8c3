-------------------------- MODULE TalStrHtableProofs -------------------------
(***************************************************************************)
(* Proofs about parts that stand alone: TalStr and Htable.                 *)
(***************************************************************************)
EXTENDS TalStr, Htable, NatFacts, SequenceTheorems, FiniteSetTheorems, TLAPS

-----------------------------------------------------------------------------
(* TalStr: what is below a block, and the owners of blocks.                *)

(* The blocks that something in W owns. *)
Owned(own, W) == {b \in DOMAIN own : own[b] \in W}

Descends(f, own, p, N) ==
  /\ f \in [0 .. N -> SUBSET Block] /\ f[0] = {p}
  /\ \A i \in 1 .. N : f[i] = f[i - 1] \cup Owned(own, f[i - 1])

LEMMA DescentIs ==
  ASSUME NEW g, DOMAIN g.own \subseteq Block, NEW p \in Block, NEW N, N = Cardinality(Block)
  PROVE  N \in Nat /\ \E f : Descends(f, g.own, p, N) /\ Tree(g, p) = f[N]
<1>1. N \in Nat
  BY BlockAssumption, FS_CardinalityType
<1> DEFINE V == SUBSET Block
           step == [i \in 1 .. N |-> [S \in V |-> S \cup Owned(g.own, S)]]
           Tr(f) == f = [i \in 0 .. Cardinality(Block) |->
                           IF i = 0 THEN {p}
                           ELSE f[i - 1] \cup {b \in DOMAIN g.own : g.own[b] \in f[i - 1]}]
<1>2. {p} \in V /\ step \in [1 .. N -> [V -> V]]
  <2>1. \A S \in V : S \cup Owned(g.own, S) \in V
    BY DEF Owned
  <2> QED
    BY <2>1
<1>3. PICK f : Iterates(f, N, V, {p}, step)
  <2> HIDE DEF V, step
  <2> QED
    BY <1>1, <1>2, RecursionExists
<1>4. f \in [0 .. N -> V] /\ f[0] = {p} /\ \A i \in 1 .. N : f[i] = step[i][f[i - 1]]
  <2> HIDE DEF V, step
  <2> QED
    BY <1>3 DEF Iterates
<1>5. ASSUME NEW i \in 1 .. N
      PROVE  f[i] = f[i - 1] \cup Owned(g.own, f[i - 1])
  <2>1. i - 1 \in 0 .. N
    BY <1>1
  <2>2. f[i - 1] \in V
    BY <1>4, <2>1
  <2> QED
    BY <1>4, <2>2
<1>6. Descends(f, g.own, p, N)
  BY <1>4, <1>5 DEF Descends
<1>7. \A i \in 0 .. N : f[i] = IF i = 0 THEN {p}
                          ELSE f[i - 1] \cup {b \in DOMAIN g.own : g.own[b] \in f[i - 1]}
  <2>1. \A i \in 0 .. N : i = 0 \/ i \in 1 .. N
    OBVIOUS
  <2> QED
    BY <1>6, <2>1 DEF Descends, Owned
<1>8. Tr(f)
  BY <1>4, <1>7
<1> DEFINE below == CHOOSE x : Tr(x)
<1>9. Tr(below)
  <2> HIDE DEF Tr
  <2> QED
    BY <1>8
<1>10. Tree(g, p) = below[N]
  BY DEF Tree
<1>11. DOMAIN below = 0 .. N /\ \A i \in 0 .. N : below[i] = IF i = 0 THEN {p}
                          ELSE below[i - 1] \cup {b \in DOMAIN g.own : g.own[b] \in below[i - 1]}
  <2> HIDE DEF below
  <2> QED
    BY <1>9
<1> DEFINE T == {i \in Nat : i <= N => below[i] = f[i]}
<1> HIDE DEF below, step, Tr
<1>12. 0 \in T
  <2>1. 0 \in 0 .. N
    BY <1>1
  <2>2. below[0] = {p}
    BY <1>11, <2>1
  <2> QED
    BY <1>4, <2>2
<1>13. ASSUME NEW i \in T PROVE i + 1 \in T
  <2> SUFFICES ASSUME i + 1 <= N PROVE below[i + 1] = f[i + 1]
    OBVIOUS
  <2>1. i + 1 \in 0 .. N /\ i + 1 \in 1 .. N /\ i + 1 # 0 /\ i + 1 - 1 = i /\ below[i] = f[i]
    BY <1>1
  <2> QED
    <3>1. f[i + 1] = f[i] \cup Owned(g.own, f[i])
      BY <1>6, <2>1 DEF Descends
    <3>2. below[i + 1] = below[i] \cup Owned(g.own, below[i])
      BY <1>11, <2>1 DEF Owned
    <3> QED
      BY <2>1, <3>1, <3>2
<1>14. T \in SUBSET Nat
  OBVIOUS
<1> HIDE DEF T
<1>15. N \in T
  BY <1>1, <1>12, <1>13, <1>14, NatInductive
<1>16. below[N] = f[N]
  BY <1>15 DEF T
<1> QED
  BY <1>1, <1>6, <1>10, <1>16

LEMMA TreeIs ==
  ASSUME NEW g, DOMAIN g.own \subseteq Block, NEW p \in Block
  PROVE  /\ p \in Tree(g, p) /\ Tree(g, p) \subseteq Block
         /\ Owned(g.own, Tree(g, p)) \subseteq Tree(g, p)
         /\ \A W : p \in W /\ Owned(g.own, W) \subseteq W => Tree(g, p) \subseteq W
<1>1. PICK N : N = Cardinality(Block)
  OBVIOUS
<1>2. PICK f : N \in Nat /\ Descends(f, g.own, p, N) /\ Tree(g, p) = f[N]
  BY <1>1, DescentIs
<1>3. \A i \in 0 .. N : f[i] \subseteq Block /\ IsFiniteSet(f[i])
                        /\ Cardinality(f[i]) \in Nat /\ Cardinality(f[i]) <= N
  BY <1>1, <1>2, BlockAssumption, FS_Subset, FS_CardinalityType DEF Descends
<1> DEFINE Full(i) == Owned(g.own, f[i]) \subseteq f[i]
           T == {i \in Nat : i <= N => p \in f[i] /\ (Full(i) \/ Cardinality(f[i]) >= i + 1)}
<1>4. 0 \in T
  <2>1. f[0] = {p} /\ Cardinality({p}) = 1
    BY <1>2, FS_Singleton DEF Descends
  <2> QED
    BY <2>1
<1>5. ASSUME NEW i \in T PROVE i + 1 \in T
  <2> SUFFICES ASSUME i + 1 <= N
               PROVE  p \in f[i + 1] /\ (Full(i + 1) \/ Cardinality(f[i + 1]) >= i + 2)
    OBVIOUS
  <2>1. /\ i \in Nat /\ i \in 0 .. N /\ i + 1 \in 1 .. N /\ i + 1 \in 0 .. N /\ i + 1 - 1 = i
        /\ p \in f[i] /\ (Full(i) \/ Cardinality(f[i]) >= i + 1)
    BY <1>2
  <2>2. f[i + 1] = f[i] \cup Owned(g.own, f[i])
    BY <1>2, <2>1 DEF Descends
  <2>3. CASE Full(i)
    <3>1. f[i + 1] = f[i]
      BY <2>2, <2>3
    <3> QED
      BY <2>1, <2>3, <3>1
  <2>4. CASE ~Full(i)
    <3>1. PICK m : m \in f[i + 1] /\ m \notin f[i]
      BY <2>2, <2>4
    <3>2. /\ f[i] \cup {m} \subseteq f[i + 1]
          /\ Cardinality(f[i] \cup {m}) = Cardinality(f[i]) + 1
      BY <1>3, <2>1, <2>2, <3>1, FS_AddElement
    <3>3. Cardinality(f[i] \cup {m}) <= Cardinality(f[i + 1])
      BY <1>3, <2>1, <3>2, FS_Subset
    <3>4. p \in f[i + 1] /\ Cardinality(f[i]) >= i + 1
      BY <2>1, <2>2, <2>4
    <3>5. Cardinality(f[i]) \in Nat /\ Cardinality(f[i + 1]) \in Nat
      BY <1>3, <2>1
    <3>6. Cardinality(f[i + 1]) >= i + 2
      BY <2>1, <3>2, <3>3, <3>4, <3>5
    <3> QED
      BY <3>4, <3>6
  <2> QED
    BY <2>3, <2>4
<1>6. T \in SUBSET Nat
  OBVIOUS
<1> HIDE DEF T
<1>7. N \in T
  BY <1>2, <1>4, <1>5, <1>6, NatInductive
<1>8. N \in 0 .. N /\ p \in f[N] /\ Owned(g.own, f[N]) \subseteq f[N] /\ f[N] \subseteq Block
  BY <1>2, <1>3, <1>7 DEF T
<1>9. ASSUME NEW W, p \in W, Owned(g.own, W) \subseteq W
      PROVE  f[N] \subseteq W
  <2> DEFINE U == {i \in Nat : i <= N => f[i] \subseteq W}
  <2>1. 0 \in U
    BY <1>2, <1>9 DEF Descends
  <2>2. ASSUME NEW i \in U PROVE i + 1 \in U
    <3> SUFFICES ASSUME i + 1 <= N PROVE f[i + 1] \subseteq W
      OBVIOUS
    <3>1. i + 1 \in 1 .. N /\ i + 1 - 1 = i /\ f[i] \subseteq W
      BY <1>2
    <3>2. f[i + 1] = f[i] \cup Owned(g.own, f[i])
      BY <1>2, <3>1 DEF Descends
    <3> QED
      BY <1>9, <3>1, <3>2 DEF Owned
  <2>3. U \in SUBSET Nat
    OBVIOUS
  <2> HIDE DEF U
  <2>4. N \in U
    BY <1>2, <2>1, <2>2, <2>3, NatInductive
  <2> QED
    BY <2>4 DEF U
<1> QED
  BY <1>2, <1>8, <1>9

-----------------------------------------------------------------------------
(* TalStr: a forest, and what allocating and freeing do to it.             *)

Owners == UNION {[S -> Ctx \cup Block] : S \in SUBSET Block}
Rights == UNION {[S -> Ctx] : S \in SUBSET Block}

Covers(own, S) ==
  \A W \in SUBSET Block : S \subseteq W /\ Owned(own, W) \subseteq W => DOMAIN own \subseteq W

(* R has blocks at the top of own and the contexts that own them, and      *)
(* everything else is below these.                                         *)
Forest(own, R) ==
  /\ own \in Owners /\ R \in Rights
  /\ \A b \in DOMAIN R : b \in DOMAIN own /\ own[b] = R[b]
  /\ Covers(own, DOMAIN R)

Gain(R, P, c)   == [b \in P \cup DOMAIN R |-> IF b \in P THEN c ELSE R[b]]
Moved(R, p, q)  == Gain(Without(R, {p}), {q}, R[p])
Placed(R, p, c) == IF p = Null \/ c \notin Ctx THEN R ELSE Gain(R, {p}, c)

LEMMA OwnersAre ==
  /\ \A own : own \in Owners <=> DOMAIN own \subseteq Block /\ own \in [DOMAIN own -> Ctx \cup Block]
  /\ \A R : R \in Rights <=> DOMAIN R \subseteq Block /\ R \in [DOMAIN R -> Ctx]
<1>1. ASSUME NEW own, own \in Owners
      PROVE  DOMAIN own \subseteq Block /\ own \in [DOMAIN own -> Ctx \cup Block]
  <2>1. PICK S \in SUBSET Block : own \in [S -> Ctx \cup Block]
    BY <1>1 DEF Owners
  <2>2. DOMAIN own = S
    BY <2>1
  <2> QED
    BY <2>1, <2>2
<1>2. ASSUME NEW R, R \in Rights
      PROVE  DOMAIN R \subseteq Block /\ R \in [DOMAIN R -> Ctx]
  <2>1. PICK S \in SUBSET Block : R \in [S -> Ctx]
    BY <1>2 DEF Rights
  <2>2. DOMAIN R = S
    BY <2>1
  <2> QED
    BY <2>1, <2>2
<1>3. ASSUME NEW own, DOMAIN own \subseteq Block, own \in [DOMAIN own -> Ctx \cup Block]
      PROVE  own \in Owners
  <2>1. DOMAIN own \in SUBSET Block
    BY <1>3
  <2> QED
    BY <1>3, <2>1, Zenon DEF Owners
<1>4. ASSUME NEW R, DOMAIN R \subseteq Block, R \in [DOMAIN R -> Ctx]
      PROVE  R \in Rights
  <2>1. DOMAIN R \in SUBSET Block
    BY <1>4
  <2> QED
    BY <1>4, <2>1, Zenon DEF Rights
<1> QED
  BY <1>1, <1>2, <1>3, <1>4

LEMMA ForestIs ==
  ASSUME NEW own, NEW R, Forest(own, R)
  PROVE  /\ DOMAIN own \subseteq Block /\ own \in [DOMAIN own -> Ctx \cup Block]
         /\ DOMAIN R \subseteq DOMAIN own /\ R \in [DOMAIN R -> Ctx]
         /\ \A b \in DOMAIN R : own[b] = R[b] /\ own[b] \in Ctx /\ own[b] \notin Block
BY OwnersAre, StringAssumption DEF Forest

LEMMA FreedForest ==
  ASSUME NEW g, NEW R, Forest(g.own, R), NEW p \in DOMAIN R
  PROVE  Forest(Without(g.own, Tree(g, p)), Without(R, {p}))
<1> DEFINE T == Tree(g, p)
           own == Without(g.own, T)
<1>1. /\ DOMAIN g.own \subseteq Block /\ p \in Block
      /\ g.own \in [DOMAIN g.own -> Ctx \cup Block] /\ R \in [DOMAIN R -> Ctx] /\ DOMAIN R \subseteq DOMAIN g.own
      /\ \A b \in DOMAIN R : g.own[b] = R[b] /\ g.own[b] \notin Block
  BY ForestIs
<1>2. /\ p \in T /\ T \subseteq Block /\ Owned(g.own, T) \subseteq T
      /\ \A W : p \in W /\ Owned(g.own, W) \subseteq W => T \subseteq W
  BY <1>1, TreeIs
<1>3. T \cap DOMAIN R = {p}
  <2> DEFINE W == Block \ (DOMAIN R \ {p})
  <2>1. p \in W /\ Owned(g.own, W) \subseteq W
    BY <1>1 DEF Owned
  <2>2. T \subseteq W
    BY <1>2, <2>1
  <2> QED
    BY <1>2, <2>2
<1>4. DOMAIN own = DOMAIN g.own \ T /\ \A b \in DOMAIN own : own[b] = g.own[b]
  BY DEF Without
<1>5. DOMAIN Without(R, {p}) = DOMAIN R \ {p} /\ \A b \in DOMAIN R \ {p} : Without(R, {p})[b] = R[b]
  BY DEF Without
<1>6. own \in [DOMAIN own -> Ctx \cup Block] /\ Without(R, {p}) \in [DOMAIN R \ {p} -> Ctx]
  BY <1>1 DEF Without
<1> HIDE DEF T, own
<1>7. own \in Owners /\ Without(R, {p}) \in Rights
  BY <1>1, <1>4, <1>5, <1>6, OwnersAre
<1>8. Covers(own, DOMAIN R \ {p})
  <2> SUFFICES ASSUME NEW W \in SUBSET Block, DOMAIN R \ {p} \subseteq W, Owned(own, W) \subseteq W
               PROVE  DOMAIN own \subseteq W
    BY DEF Covers
  <2>1. DOMAIN R \subseteq W \cup T /\ W \cup T \in SUBSET Block
    BY <1>2
  <2>2. Owned(g.own, W \cup T) \subseteq W \cup T
    BY <1>2, <1>4 DEF Owned
  <2>3. DOMAIN g.own \subseteq W \cup T
    BY <2>1, <2>2 DEF Forest, Covers
  <2> QED
    BY <1>4, <2>3
<1> QED
  BY <1>1, <1>3, <1>4, <1>5, <1>7, <1>8 DEF Forest, own, T

Grown(own, b, c) == [x \in DOMAIN own \cup {b} |-> IF x = b THEN c ELSE own[x]]
Renamed(own, p, b) ==
  [x \in (DOMAIN own \ {p}) \cup {b} |->
     CASE x = b -> own[p] [] x # b /\ own[x] = p -> b [] OTHER -> own[x]]

LEMMA GrownForest ==
  ASSUME NEW own, NEW R, Forest(own, R), NEW b \in Block \ DOMAIN own, NEW c \in Ctx \cup DOMAIN R,
         NEW new, new = Grown(own, b, c)
  PROVE  /\ DOMAIN new = DOMAIN own \cup {b} /\ new[b] = c
         /\ Forest(new, Placed(R, b, c))
<1>1. /\ DOMAIN own \subseteq Block /\ own \in [DOMAIN own -> Ctx \cup Block]
      /\ DOMAIN R \subseteq DOMAIN own /\ R \in [DOMAIN R -> Ctx]
      /\ \A x \in DOMAIN R : own[x] = R[x]
  BY ForestIs
<1>2. /\ DOMAIN new = DOMAIN own \cup {b} /\ new[b] = c
      /\ \A x \in DOMAIN own : new[x] = own[x]
      /\ new \in [DOMAIN own \cup {b} -> Ctx \cup Block]
  BY <1>1 DEF Grown
<1>a. Placed(R, b, c) = IF c \in Ctx THEN Gain(R, {b}, c) ELSE R
  BY BlockAssumption DEF Placed
<1>3. new \in Owners
  BY <1>1, <1>2, OwnersAre
<1>4. Owned(own, {}) = {} /\ \A W : Owned(own, W) \subseteq Owned(new, W)
  BY <1>2 DEF Owned
<1>5. ASSUME c \in Ctx
      PROVE  Forest(new, Gain(R, {b}, c))
  <2>1. /\ DOMAIN Gain(R, {b}, c) = {b} \cup DOMAIN R
        /\ \A x \in DOMAIN R \cup {b} : new[x] = Gain(R, {b}, c)[x]
        /\ Gain(R, {b}, c) \in [{b} \cup DOMAIN R -> Ctx]
    BY <1>1, <1>2, <1>5 DEF Gain
  <2>2. Gain(R, {b}, c) \in Rights
    BY <1>1, <2>1, OwnersAre
  <2>3. Covers(new, {b} \cup DOMAIN R)
    <3> SUFFICES ASSUME NEW W \in SUBSET Block, {b} \cup DOMAIN R \subseteq W, Owned(new, W) \subseteq W
                 PROVE  DOMAIN new \subseteq W
      BY DEF Covers
    <3>1. DOMAIN own \subseteq W
      BY <1>4 DEF Forest, Covers
    <3> QED
      BY <1>2, <3>1
  <2> QED
    BY <1>1, <1>2, <1>3, <1>5, <2>1, <2>2, <2>3 DEF Forest
<1>6. ASSUME c \notin Ctx
      PROVE  Forest(new, R)
  <2>1. Covers(new, DOMAIN R)
    <3> SUFFICES ASSUME NEW W \in SUBSET Block, DOMAIN R \subseteq W, Owned(new, W) \subseteq W
                 PROVE  DOMAIN new \subseteq W
      BY DEF Covers
    <3>1. DOMAIN own \subseteq W
      BY <1>4 DEF Forest, Covers
    <3>2. b \in W
      BY <1>2, <1>6 DEF Owned
    <3> QED
      BY <1>2, <3>1, <3>2
  <2> QED
    BY <1>1, <1>2, <1>3, <1>6, <2>1 DEF Forest
<1> QED
  BY <1>2, <1>5, <1>6, <1>a

LEMMA MovedForest ==
  ASSUME NEW own, NEW R, Forest(own, R), NEW p \in DOMAIN R, NEW b \in Block \ DOMAIN own,
         NEW new, new = Renamed(own, p, b)
  PROVE  Forest(new, Moved(R, p, b))
<1> DEFINE Q == Moved(R, p, b)
<1>1. /\ DOMAIN own \subseteq Block /\ own \in [DOMAIN own -> Ctx \cup Block]
      /\ DOMAIN R \subseteq DOMAIN own /\ R \in [DOMAIN R -> Ctx]
      /\ \A x \in DOMAIN R : own[x] = R[x] /\ own[x] \in Ctx /\ own[x] \notin Block
  BY ForestIs
<1>2. /\ DOMAIN new = (DOMAIN own \ {p}) \cup {b} /\ new[b] = own[p]
      /\ \A x \in DOMAIN own \ {p} : new[x] = IF own[x] = p THEN b ELSE own[x]
  BY <1>1 DEF Renamed
<1>3. new \in [DOMAIN new -> Ctx \cup Block]
  <2>1. \A x \in DOMAIN new : new[x] \in Ctx \cup Block
    BY <1>1, <1>2
  <2>2. new = [x \in DOMAIN new |-> new[x]]
    BY <1>2 DEF Renamed
  <2> QED
    BY <2>1, <2>2
<1>4. /\ DOMAIN Q = {b} \cup (DOMAIN R \ {p}) /\ Q[b] = R[p]
      /\ \A x \in DOMAIN R \ {p} : Q[x] = R[x]
      /\ Q \in [DOMAIN Q -> Ctx]
  BY <1>1 DEF Moved, Gain, Without
<1> HIDE DEF Q
<1>5. new \in Owners /\ Q \in Rights
  BY <1>1, <1>2, <1>3, <1>4, OwnersAre
<1>6. \A x \in DOMAIN Q : x \in DOMAIN new /\ new[x] = Q[x]
  BY <1>1, <1>2, <1>4
<1>7. Covers(new, DOMAIN Q)
  <2> SUFFICES ASSUME NEW W \in SUBSET Block, DOMAIN Q \subseteq W, Owned(new, W) \subseteq W
               PROVE  DOMAIN new \subseteq W
    BY DEF Covers
  <2> DEFINE V == (W \ {b}) \cup {p}
  <2>1. V \in SUBSET Block /\ DOMAIN R \subseteq V /\ b \in W
    BY <1>1, <1>4
  <2>2. ASSUME NEW x \in DOMAIN own, own[x] \in V
        PROVE  x \in V
    <3>1. x # b
      OBVIOUS
    <3>2. CASE x = p
      BY <3>2
    <3>3. CASE x # p /\ own[x] = p
      BY <1>2, <2>1, <3>1, <3>3 DEF Owned
    <3>4. CASE x # p /\ own[x] # p
      BY <1>2, <2>2, <3>1, <3>4 DEF Owned
    <3> QED
      BY <3>2, <3>3, <3>4
  <2>3. DOMAIN own \subseteq V
    BY <2>1, <2>2 DEF Forest, Covers, Owned
  <2> QED
    BY <1>2, <2>1, <2>3
<1> QED
  BY <1>5, <1>6, <1>7 DEF Forest, Q

LEMMA GivenForest ==
  ASSUME NEW own, NEW R, Forest(own, R), NEW p \in DOMAIN R, NEW c \in Ctx \cup (DOMAIN R \ {p}),
         NEW new, new = [own EXCEPT ![p] = c]
  PROVE  Forest(new, IF c \in Ctx THEN Gain(R, {p}, c) ELSE Without(R, {p}))
<1>1. /\ DOMAIN own \subseteq Block /\ own \in [DOMAIN own -> Ctx \cup Block]
      /\ DOMAIN R \subseteq DOMAIN own /\ R \in [DOMAIN R -> Ctx]
      /\ \A x \in DOMAIN R : own[x] = R[x] /\ own[x] \in Ctx /\ own[x] \notin Block
  BY ForestIs
<1>2. /\ DOMAIN new = DOMAIN own /\ new[p] = c
      /\ \A x \in DOMAIN own \ {p} : new[x] = own[x]
      /\ new \in [DOMAIN own -> Ctx \cup Block]
  BY <1>1
<1>3. new \in Owners
  BY <1>1, <1>2, OwnersAre
<1>4. \A W \in SUBSET Block : Owned(own, W) \subseteq Owned(new, W)
  BY <1>1, <1>2 DEF Owned
<1>5. CASE c \in Ctx
  <2>1. /\ DOMAIN Gain(R, {p}, c) = DOMAIN R
        /\ \A x \in DOMAIN R : new[x] = Gain(R, {p}, c)[x]
        /\ Gain(R, {p}, c) \in [DOMAIN R -> Ctx]
    BY <1>1, <1>2, <1>5 DEF Gain
  <2>2. Gain(R, {p}, c) \in Rights
    BY <1>1, <2>1, OwnersAre
  <2>3. Covers(new, DOMAIN R)
    BY <1>2, <1>4 DEF Forest, Covers
  <2> QED
    BY <1>1, <1>2, <1>3, <1>5, <2>1, <2>2, <2>3 DEF Forest
<1>6. CASE c \notin Ctx
  <2>1. /\ DOMAIN Without(R, {p}) = DOMAIN R \ {p}
        /\ \A x \in DOMAIN R \ {p} : new[x] = Without(R, {p})[x]
        /\ Without(R, {p}) \in [DOMAIN R \ {p} -> Ctx]
    BY <1>1, <1>2 DEF Without
  <2>2. Without(R, {p}) \in Rights
    BY <1>1, <2>1, OwnersAre
  <2>3. Covers(new, DOMAIN R \ {p})
    <3> SUFFICES ASSUME NEW W \in SUBSET Block, DOMAIN R \ {p} \subseteq W, Owned(new, W) \subseteq W
                 PROVE  DOMAIN new \subseteq W
      BY DEF Covers
    <3>1. p \in W
      BY <1>1, <1>2, <1>6 DEF Owned
    <3> QED
      BY <1>2, <1>4, <3>1 DEF Forest, Covers
  <2> QED
    BY <1>1, <1>2, <1>3, <1>6, <2>1, <2>2, <2>3 DEF Forest
<1> QED
  BY <1>5, <1>6

-----------------------------------------------------------------------------
(* TalStr: the calls of take that wait to be consumed, at most two.        *)

Ptr  == Block \cup {Null, LITERAL}
Heap == [own : Owners, taken : Seq(Ptr), max_taken : Nat, allocfail : Nat, fault : BOOLEAN]

Times(g, q) ==
  (IF Len(g.taken) >= 1 /\ g.taken[1] = q THEN 1 ELSE 0)
    + (IF Len(g.taken) >= 2 /\ g.taken[2] = q THEN 1 ELSE 0)
    + (IF q = Null THEN g.allocfail ELSE 0)

(* The pointers x and y are to be consumed, where LITERAL stands for none. *)
Owes(g, x, y) ==
  /\ Len(g.taken) <= 2 /\ Times(g, LITERAL) = 0
  /\ \A q \in Block \cup {Null} : Times(g, q) = (IF q = x THEN 1 ELSE 0) + (IF q = y THEN 1 ELSE 0)

Calm(g, R, x, y) ==
  /\ g \in Heap /\ ~g.fault /\ Forest(g.own, R) /\ Owes(g, x, y)
  /\ {x, y} \subseteq DOMAIN R \cup {Null, LITERAL} /\ (x = y => x \notin Block)

(* What a function is passed: taken if it is x.                            *)
Passing(p, x, y) == p \in Ptr /\ x \in {p, LITERAL} /\ (p = Null => x = Null) /\ (p \in Block => p # y)

LEMMA CalmTurns ==
  ASSUME NEW g, NEW R, NEW x, NEW y, Calm(g, R, x, y)
  PROVE  Calm(g, R, y, x)
<1>1. \A q : (IF q = x THEN 1 ELSE 0) + (IF q = y THEN 1 ELSE 0) = (IF q = y THEN 1 ELSE 0) + (IF q = x THEN 1 ELSE 0)
  OBVIOUS
<1> QED
  BY <1>1 DEF Calm, Owes

(* Finding a pointer among two, and taking it out.                         *)
LEMMA TakenFound ==
  ASSUME NEW g, NEW s \in Seq(Ptr), s = g.taken, NEW n \in 0 .. 2, Len(s) = n, NEW p \in Ptr
  PROVE  find_taken(g, p) = IF n >= 1 /\ s[1] = p THEN 1 ELSE IF n = 2 /\ s[2] = p THEN 2 ELSE 0
<1> DEFINE at == {i \in 1 .. n : s[i] = p}
<1>1. find_taken(g, p) = IF at = {} THEN 0 ELSE CHOOSE i \in at : \A j \in at : i <= j
  BY DEF find_taken
<1>2. n = 0 \/ n = 1 \/ n = 2
  OBVIOUS
<1>3. CASE n = 0
  <2>1. at = {}
    BY <1>3
  <2> QED
    BY <1>1, <1>3, <2>1
<1>4. CASE n >= 1 /\ s[1] = p
  <2>1. 1 \in at /\ \A j \in at : 1 <= j
    BY <1>4
  <2>2. \A i \in at : (\A j \in at : i <= j) => i = 1
    BY <2>1
  <2> QED
    BY <1>1, <1>4, <2>1, <2>2
<1>5. CASE n = 1 /\ s[1] # p
  <2>1. at = {}
    BY <1>5
  <2> QED
    BY <1>1, <1>5, <2>1
<1>6. CASE n = 2 /\ s[1] # p
  <2>1. 1 .. n = {1, 2}
    BY <1>6
  <2>2. at = IF s[2] = p THEN {2} ELSE {}
    BY <1>6, <2>1
  <2> QED
    BY <1>1, <1>6, <2>2
<1> QED
  BY <1>2, <1>3, <1>4, <1>5, <1>6

LEMMA TakenOut ==
  ASSUME NEW s \in Seq(Ptr), Len(s) <= 2, NEW i \in DOMAIN s, NEW r, r = RemoveAt(s, i)
  PROVE  /\ r \in Seq(Ptr) /\ Len(r) = Len(s) - 1
         /\ Len(s) = 2 => r[1] = s[3 - i]
<1>1. Len(s) \in Nat /\ i \in 1 .. Len(s) /\ i - 1 \in Nat /\ i + 1 \in Int
  OBVIOUS
<1>2. PICK x, z : x = SubSeq(s, 1, i - 1) /\ z = SubSeq(s, i + 1, Len(s))
  OBVIOUS
<1>3. r = x \o z
  BY <1>2 DEF RemoveAt
<1>4. /\ x \in Seq(Ptr) /\ Len(x) = i - 1 /\ (i = 2 => x[1] = s[1])
  BY <1>1, <1>2, SubSeqProperties
<1>5. /\ z \in Seq(Ptr) /\ Len(z) = Len(s) - i /\ (i = 1 /\ Len(s) = 2 => z[1] = s[2])
  BY <1>1, <1>2, SubSeqProperties
<1>6. /\ r \in Seq(Ptr) /\ Len(r) = Len(x) + Len(z)
      /\ Len(x) = 1 => r[1] = x[1]
      /\ Len(x) = 0 /\ Len(z) = 1 => r[1] = z[1]
  BY <1>3, <1>4, <1>5, ConcatProperties
<1>7. Len(r) = Len(s) - 1
  BY <1>1, <1>4, <1>5, <1>6
<1>8. Len(s) = 2 => r[1] = s[3 - i]
  <2>1. CASE i = 1
    BY <1>4, <1>5, <1>6, <2>1
  <2>2. CASE i = 2
    BY <1>4, <1>5, <1>6, <2>2
  <2> QED
    BY <1>1, <2>1, <2>2
<1> QED
  BY <1>6, <1>7, <1>8

LEMMA TakenIs ==
  ASSUME NEW g, NEW R, NEW x, NEW y, Calm(g, R, x, y), NEW p, Passing(p, x, y)
  PROVE  /\ is_taken(g, p) <=> x # LITERAL
         /\ x # LITERAL => /\ Calm(Untaken(g, p), R, LITERAL, y)
                            /\ Untaken(g, p).own = g.own
<1>1. /\ g \in Heap /\ g.allocfail \in Nat
      /\ p \in Ptr /\ x \in {p, LITERAL} /\ (p = Null => x = Null) /\ (p \in Block => p # y)
  BY DEF Calm, Owes, Heap, Passing
<1> PICK s \in Seq(Ptr), n \in 0 .. 2 : s = g.taken /\ n = Len(s)
  <2>1. g.taken \in Seq(Ptr) /\ Len(g.taken) \in Nat /\ Len(g.taken) <= 2
    BY DEF Calm, Owes, Heap
  <2>2. PICK k : k = Len(g.taken)
    OBVIOUS
  <2>3. k \in Nat /\ k <= 2
    BY <2>1, <2>2, Zenon
  <2>4. k \in 0 .. 2
    BY ONLY <2>3
  <2> QED
    BY <2>1, <2>2, <2>4, Zenon
<1>a. n \in Nat /\ n <= 2
  <2>1. n \in 0 .. 2
    BY Zenon
  <2> QED
    BY ONLY <2>1
<1>b. DOMAIN s = 1 .. n /\ Len(s) <= 2 /\ Len(s) = n
  <2>1. s \in Seq(Ptr) /\ Len(s) = n
    OBVIOUS
  <2>2. DOMAIN s = 1 .. n
    BY ONLY <2>1
  <2> QED
    BY <1>a, <2>1, <2>2, Zenon
<1> DEFINE count(q) == (IF n >= 1 /\ s[1] = q THEN 1 ELSE 0) + (IF n >= 2 /\ s[2] = q THEN 1 ELSE 0)
                         + (IF q = Null THEN g.allocfail ELSE 0)
<1>2. /\ find_taken(g, p) = IF n >= 1 /\ s[1] = p THEN 1 ELSE IF n = 2 /\ s[2] = p THEN 2 ELSE 0
      /\ \A q : Times(g, q) = count(q)
  <2>1. find_taken(g, p) = IF n >= 1 /\ s[1] = p THEN 1 ELSE IF n = 2 /\ s[2] = p THEN 2 ELSE 0
    BY <1>1, TakenFound
  <2> QED
    BY <2>1 DEF Times
<1>3. is_taken(g, p) <=> Times(g, p) > 0
  <2>1. PICK a, b, c : /\ a = (IF n >= 1 /\ s[1] = p THEN 1 ELSE 0)
                       /\ b = (IF n >= 2 /\ s[2] = p THEN 1 ELSE 0)
                       /\ c = (IF p = Null THEN g.allocfail ELSE 0)
    OBVIOUS
  <2>2. /\ Times(g, p) = a + b + c /\ a \in {0, 1} /\ b \in {0, 1} /\ c \in Nat
        /\ p = Null /\ g.allocfail > 0 <=> c > 0
    BY <1>1, <1>2, <2>1
  <2>3. find_taken(g, p) # 0 <=> a = 1 \/ b = 1
    BY <1>2, <2>1
  <2>4. is_taken(g, p) <=> c > 0 \/ a = 1 \/ b = 1
    BY <2>2, <2>3 DEF is_taken
  <2> QED
    BY ONLY <2>2, <2>4
<1>4. Times(g, p) > 0 <=> x # LITERAL
  <2>1. CASE p = LITERAL
    BY <1>1, <2>1 DEF Calm, Owes
  <2>2. CASE p = Null
    BY <1>1, <2>2, StringAssumption DEF Calm, Owes
  <2>3. CASE p \in Block
    BY <1>1, <2>3, StringAssumption, BlockAssumption DEF Calm, Owes
  <2> QED
    BY <1>1, <2>1, <2>2, <2>3 DEF Ptr
<1> DEFINE u == Untaken(g, p)
<1>5. ASSUME x # LITERAL
      PROVE  /\ u \in Heap /\ u.own = g.own /\ u.fault = g.fault /\ Len(u.taken) <= 2
             /\ \A q : Times(u, q) = Times(g, q) - (IF q = p THEN 1 ELSE 0)
  <2>1. CASE p = Null /\ g.allocfail > 0
    <3>1. u = [g EXCEPT !.allocfail = @ - 1]
      BY <2>1 DEF Untaken
    <3>2. PICK m \in Nat : m = g.allocfail - 1
      BY <1>1, <2>1
    <3> HIDE DEF u
    <3>3. /\ u \in Heap /\ u.own = g.own /\ u.fault = g.fault /\ u.taken = s
          /\ u.allocfail = m
      BY <1>1, <3>1, <3>2 DEF Heap
    <3>4. \A q : Times(u, q) = (IF n >= 1 /\ s[1] = q THEN 1 ELSE 0) + (IF n >= 2 /\ s[2] = q THEN 1 ELSE 0)
                               + (IF q = Null THEN m ELSE 0)
      BY <3>3 DEF Times
    <3>5. ASSUME NEW q
          PROVE  Times(u, q) = Times(g, q) - (IF q = p THEN 1 ELSE 0)
      <4>1. PICK a, b : /\ a = (IF n >= 1 /\ s[1] = q THEN 1 ELSE 0)
                        /\ b = (IF n >= 2 /\ s[2] = q THEN 1 ELSE 0)
        OBVIOUS
      <4>2. a \in {0, 1} /\ b \in {0, 1}
        BY <4>1
      <4>3. Times(u, q) = a + b + (IF q = Null THEN m ELSE 0) /\ Times(g, q) = a + b + (IF q = Null THEN g.allocfail ELSE 0)
        BY <1>2, <3>4, <4>1
      <4> QED
        BY <1>1, <2>1, <3>2, <4>2, <4>3
    <3>6. Len(u.taken) <= 2
      BY <1>b, <3>3, Zenon
    <3> QED
      BY <3>3, <3>5, <3>6
  <2>2. CASE ~(p = Null /\ g.allocfail > 0)
    <3>1. PICK i, r : i = find_taken(g, p) /\ r = RemoveAt(s, i)
      OBVIOUS
    <3>2. u = [g EXCEPT !.taken = r]
      BY <2>2, <3>1 DEF Untaken
    <3>3. is_taken(g, p)
      BY <1>3, <1>4, <1>5
    <3>4. i # 0
      BY <2>2, <3>1, <3>3 DEF is_taken
    <3>5. \/ i = 1 /\ n >= 1 /\ s[1] = p
          \/ i = 2 /\ n = 2 /\ s[1] # p /\ s[2] = p
      <4>1. i = IF n >= 1 /\ s[1] = p THEN 1 ELSE IF n = 2 /\ s[2] = p THEN 2 ELSE 0
        BY <1>2, <3>1, Zenon
      <4>2. CASE n >= 1 /\ s[1] = p
        BY <4>1, <4>2, Zenon
      <4>3. CASE ~(n >= 1 /\ s[1] = p)
        <5>1. i = IF n = 2 /\ s[2] = p THEN 2 ELSE 0
          BY <4>1, <4>3, Zenon
        <5>2. n = 2 /\ s[2] = p /\ i = 2
          BY <3>4, <5>1, Zenon
        <5>3. n >= 1
          BY ONLY <5>2
        <5> QED
          BY <4>3, <5>2, <5>3, Zenon
      <4> QED
        BY <4>2, <4>3, Zenon
    <3>6. r \in Seq(Ptr) /\ Len(r) = n - 1 /\ (n = 2 => r[1] = s[3 - i])
      <4>1. i \in 1 .. n
        BY ONLY <3>5, <1>a
      <4>2. i \in DOMAIN s
        BY <1>b, <4>1, Zenon
      <4>3. r \in Seq(Ptr) /\ Len(r) = Len(s) - 1 /\ (Len(s) = 2 => r[1] = s[3 - i])
        BY <1>b, <3>1, <4>2, TakenOut
      <4> QED
        BY <1>b, <4>3
    <3> HIDE DEF u
    <3>7. /\ u \in Heap /\ u.own = g.own /\ u.fault = g.fault /\ u.taken = r
          /\ u.allocfail = g.allocfail
      BY <1>1, <3>2, <3>6 DEF Heap
    <3>8. n = 1 \/ n = 2
      BY <3>5
    <3>9. ASSUME NEW q
          PROVE  Times(u, q) = Times(g, q) - (IF q = p THEN 1 ELSE 0)
      <4>1. PICK c : c = (IF q = Null THEN g.allocfail ELSE 0)
        OBVIOUS
      <4>2. c \in Nat
        BY <1>1, <4>1
      <4>3. CASE n = 1
        <5>1. Len(r) = 0 /\ ~(Len(r) >= 1) /\ ~(Len(r) >= 2)
          BY <3>6, <4>3
        <5>2. Times(u, q) = (IF Len(r) >= 1 /\ r[1] = q THEN 1 ELSE 0) + (IF Len(r) >= 2 /\ r[2] = q THEN 1 ELSE 0) + c
          BY <3>7, <4>1, Zenon DEF Times
        <5>4. (IF Len(r) >= 1 /\ r[1] = q THEN 1 ELSE 0) = 0 /\ (IF Len(r) >= 2 /\ r[2] = q THEN 1 ELSE 0) = 0
          BY <5>1, Zenon
        <5>3. Times(g, q) = (IF q = p THEN 1 ELSE 0) + 0 + c
          BY <1>2, <3>5, <4>1, <4>3
        <5>5. Times(u, q) = 0 + 0 + c
          BY <5>2, <5>4, Zenon
        <5> QED
          BY <4>2, <5>5, <5>3
      <4>4. CASE n = 2
        <5>1. Len(r) = 1 /\ Len(r) >= 1 /\ ~(Len(r) >= 2) /\ r[1] = s[3 - i]
          BY <3>6, <4>4
        <5>2. Times(u, q) = (IF r[1] = q THEN 1 ELSE 0) + 0 + c
          BY <3>7, <4>1, <5>1 DEF Times
        <5>3. Times(g, q) = (IF s[1] = q THEN 1 ELSE 0) + (IF s[2] = q THEN 1 ELSE 0) + c
          BY <1>2, <4>1, <4>4
        <5>4. CASE i = 1
          <6>1. r[1] = s[2] /\ s[1] = p
            BY <3>5, <5>1, <5>4
          <6> QED
            BY <4>2, <5>2, <5>3, <6>1
        <5>5. CASE i = 2
          <6>1. r[1] = s[1] /\ s[2] = p
            BY <3>5, <5>1, <5>5
          <6> QED
            BY <4>2, <5>2, <5>3, <6>1
        <5> QED
          BY <3>5, <5>4, <5>5
      <4> QED
        BY <3>8, <4>3, <4>4
    <3>10. Len(u.taken) <= 2
      BY <3>6, <3>7
    <3> QED
      BY <3>7, <3>9, <3>10
  <2> QED
    BY <2>1, <2>2
<1> HIDE DEF u
<1>6. ASSUME x # LITERAL
      PROVE  Calm(u, R, LITERAL, y)
  <2>1. x = p
    BY <1>1, <1>6
  <2>2. \A q \in Block \cup {Null} : Times(u, q) = (IF q = LITERAL THEN 1 ELSE 0) + (IF q = y THEN 1 ELSE 0)
    <3> SUFFICES ASSUME NEW q \in Block \cup {Null}
                 PROVE  Times(u, q) = (IF q = LITERAL THEN 1 ELSE 0) + (IF q = y THEN 1 ELSE 0)
      OBVIOUS
    <3>1. /\ Times(g, q) = (IF q = x THEN 1 ELSE 0) + (IF q = y THEN 1 ELSE 0) /\ q # LITERAL
          /\ Times(u, q) = Times(g, q) - (IF q = p THEN 1 ELSE 0)
      BY <1>5, <1>6, StringAssumption DEF Calm, Owes
    <3> QED
      BY <2>1, <3>1
  <2>3. Times(u, LITERAL) = 0
    BY <1>5, <1>6, <2>1 DEF Calm, Owes
  <2> QED
    BY <1>5, <1>6, <2>2, <2>3, StringAssumption DEF Calm, Owes
<1> QED
  BY <1>3, <1>4, <1>5, <1>6 DEF u

LEMMA UntouchedCalm ==
  ASSUME NEW g, NEW R, NEW x, NEW y, Calm(g, R, x, y), NEW own, NEW Q, Forest(own, Q),
         {x, y} \subseteq DOMAIN Q \cup {Null, LITERAL},
         NEW u, u = [g EXCEPT !.own = own]
  PROVE  Calm(u, Q, x, y) /\ u.own = own
<1>1. u \in Heap /\ u.own = own /\ u.taken = g.taken /\ u.allocfail = g.allocfail /\ u.fault = g.fault
  BY DEF Calm, Heap, Forest
<1>2. \A q : Times(u, q) = Times(g, q)
  BY <1>1 DEF Times
<1> QED
  BY <1>1, <1>2 DEF Calm, Owes

-----------------------------------------------------------------------------
(* TalStr: what the client owns, after blocks are consumed, moved, placed. *)


LEMMA RightsAre ==
  ASSUME NEW g, NEW R, NEW x, NEW y, Calm(g, R, x, y)
  PROVE  /\ R \in [DOMAIN R -> Ctx] /\ DOMAIN R \subseteq Block /\ DOMAIN R \subseteq DOMAIN g.own
         /\ DOMAIN g.own \subseteq Block
         /\ LITERAL \notin Block /\ Null \notin Block /\ LITERAL # Null
         /\ LITERAL \notin DOMAIN R /\ Null \notin DOMAIN R
  BY ForestIs, BlockAssumption, StringAssumption DEF Calm

LEMMA WithoutNone ==
  ASSUME NEW R, R \in [DOMAIN R -> Ctx], NEW S, S \cap DOMAIN R = {}
  PROVE  Without(R, S) = R
  BY DEF Without

LEMMA WithoutBoth ==
  ASSUME NEW R, NEW S, NEW T
  PROVE  Without(Without(R, S), T) = Without(R, S \cup T)
  BY DEF Without

LEMMA MovedNowhere ==
  ASSUME NEW R, R \in [DOMAIN R -> Ctx], NEW p \in DOMAIN R
  PROVE  Moved(R, p, p) = R
  BY DEF Moved, Gain, Without

LEMMA MovedTwice ==
  ASSUME NEW R, NEW p \in DOMAIN R, NEW q, q \notin DOMAIN R \ {p}, NEW r, r \notin DOMAIN R \ {p}
  PROVE  Moved(Moved(R, p, q), q, r) = Moved(R, p, r)
  BY DEF Moved, Gain, Without

LEMMA MovedAway ==
  ASSUME NEW R, NEW p, NEW q, q \notin DOMAIN R \ {p}
  PROVE  /\ Without(Moved(R, p, q), {q}) = Without(R, {p})
         /\ \A c : Gain(Moved(R, p, q), {q}, c) = Gain(Without(R, {p}), {q}, c)
<1>1. Without(Moved(R, p, q), {q}) = Without(R, {p})
  BY DEF Moved, Gain, Without
<1>2. \A c : Gain(Moved(R, p, q), {q}, c) = Gain(Without(R, {p}), {q}, c)
  BY DEF Moved, Gain, Without
<1> QED
  BY <1>1, <1>2

LEMMA GainedAway ==
  ASSUME NEW R, R \in [DOMAIN R -> Ctx], NEW q, q \notin DOMAIN R, NEW c
  PROVE  /\ Without(Gain(R, {q}, c), {q}) = R
         /\ \A r : Moved(Gain(R, {q}, c), q, r) = Gain(R, {r}, c)
         /\ \A S : q \notin S => Without(Gain(R, {q}, c), S) = Gain(Without(R, S), {q}, c)
<1>1. Without(Gain(R, {q}, c), {q}) = R
  BY DEF Gain, Without
<1>2. \A r : Moved(Gain(R, {q}, c), q, r) = Gain(R, {r}, c)
  BY DEF Moved, Gain, Without
<1>3. \A S : q \notin S => Without(Gain(R, {q}, c), S) = Gain(Without(R, S), {q}, c)
  BY DEF Gain, Without
<1> QED
  BY <1>1, <1>2, <1>3

LEMMA DomainsAre ==
  ASSUME NEW R
  PROVE  /\ \A S : DOMAIN Without(R, S) = DOMAIN R \ S
         /\ \A S, c : DOMAIN Gain(R, S, c) = S \cup DOMAIN R
         /\ \A p, q : DOMAIN Moved(R, p, q) = {q} \cup (DOMAIN R \ {p})
  BY DEF Moved, Gain, Without

-----------------------------------------------------------------------------
(* TalStr: what each function leaves.                                      *)

(* The outcome is a block the client did not have, or NULL. *)
Left(o, R, c, x, y) ==
  o.p \in (Block \cup {Null}) \ DOMAIN R /\ Calm(o.h, Placed(R, o.p, c), x, y)

LEMMA FreeIs ==
  ASSUME NEW g, NEW R, NEW x, NEW y, Calm(g, R, x, y), NEW p \in DOMAIN R \cup {Null},
         p \in Block => p \notin {x, y}
  PROVE  Calm(tal_free(g, p), Without(R, {p}), x, y)
<1>1. /\ R \in [DOMAIN R -> Ctx] /\ DOMAIN R \subseteq Block /\ DOMAIN R \subseteq DOMAIN g.own
      /\ LITERAL \notin Block /\ Null \notin Block /\ Null \notin DOMAIN R
      /\ {x, y} \subseteq DOMAIN R \cup {Null, LITERAL}
  BY RightsAre DEF Calm
<1>2. CASE p = Null
  <2>1. tal_free(g, p) = g
    BY <1>2 DEF tal_free
  <2>2. Without(R, {p}) = R
    BY <1>1, <1>2, WithoutNone
  <2> QED
    BY <2>1, <2>2
<1>3. CASE p \in DOMAIN R
  <2>1. tal_free(g, p) = [g EXCEPT !.own = Without(g.own, Tree(g, p))]
    BY <1>1, <1>3 DEF tal_free
  <2>2. Forest(Without(g.own, Tree(g, p)), Without(R, {p}))
    BY <1>3, FreedForest DEF Calm
  <2>3. {x, y} \subseteq DOMAIN Without(R, {p}) \cup {Null, LITERAL}
    BY <1>1, <1>3, DomainsAre
  <2> QED
    BY <2>1, <2>2, <2>3, UntouchedCalm
<1> QED
  BY <1>2, <1>3

LEMMA FreeTakenIs ==
  ASSUME NEW g, NEW R, NEW x, NEW y, Calm(g, R, x, y), NEW p, Passing(p, x, y)
  PROVE  Calm(FreeTaken(g, p), Without(R, {x}), LITERAL, y)
<1>1. /\ R \in [DOMAIN R -> Ctx] /\ LITERAL \notin DOMAIN R /\ LITERAL \notin Block
      /\ {x, y} \subseteq DOMAIN R \cup {Null, LITERAL}
  BY RightsAre DEF Calm
<1>2. /\ is_taken(g, p) <=> x # LITERAL
      /\ x # LITERAL => Calm(Untaken(g, p), R, LITERAL, y)
  BY TakenIs
<1>3. CASE x = LITERAL
  <2>1. Without(R, {x}) = R
    BY <1>1, <1>3, WithoutNone
  <2>2. FreeTaken(g, p) = g
    BY <1>2, <1>3 DEF FreeTaken
  <2> QED
    BY <1>3, <2>1, <2>2
<1>4. CASE x # LITERAL
  <2>1. p = x /\ (p \in Block => p \notin {LITERAL, y}) /\ p \in DOMAIN R \cup {Null}
    BY <1>1, <1>4 DEF Passing
  <2>2. FreeTaken(g, p) = tal_free(Untaken(g, p), p)
    BY <1>2, <1>4 DEF FreeTaken
  <2>3. Calm(tal_free(Untaken(g, p), p), Without(R, {p}), LITERAL, y)
    BY <1>2, <1>4, <2>1, FreeIs
  <2> QED
    BY <2>1, <2>2, <2>3
<1> QED
  BY <1>3, <1>4

LEMMA ReadIs ==
  ASSUME NEW g, NEW R, NEW x, NEW y, Calm(g, R, x, y)
  PROVE  /\ \A p \in DOMAIN R \cup {LITERAL} : Read(g, p) = g
         /\ \A p \in DOMAIN g.own : Read(g, p) = g
  BY RightsAre DEF Read

LEMMA AllocIs ==
  ASSUME NEW g, NEW R, NEW x, NEW y, Calm(g, R, x, y), NEW c \in Ctx \cup DOMAIN R,
         NEW o \in alloc(g, c)
  PROVE  Left(o, R, c, x, y) /\ (o.p # Null => o.p \in DOMAIN o.h.own)
<1>1. /\ DOMAIN R \subseteq DOMAIN g.own /\ DOMAIN g.own \subseteq Block
      /\ Null \notin Block /\ Null \notin DOMAIN R
      /\ {x, y} \subseteq DOMAIN R \cup {Null, LITERAL} /\ Forest(g.own, R)
  BY RightsAre DEF Calm
<1>2. CASE o = Nil(g)
  <2>1. o.h = g /\ o.p = Null
    BY <1>2 DEF Nil
  <2> QED
    BY <1>1, <2>1 DEF Left, Placed
<1>3. CASE o # Nil(g)
  <2>1. PICK b, new : /\ b = FreeBlock(g) /\ b # Null
                      /\ new = Grown(g.own, b, c)
                      /\ o = [h |-> [g EXCEPT !.own = new], p |-> b]
    BY <1>3 DEF alloc, Grown
  <2>2. b \in Block \ DOMAIN g.own
    BY <2>1 DEF FreeBlock
  <2>3. PICK Q : Q = Placed(R, b, c)
    OBVIOUS
  <2>4. DOMAIN new = DOMAIN g.own \cup {b} /\ Forest(new, Q)
    <3>1. DOMAIN new = DOMAIN g.own \cup {b}
      BY <2>1 DEF Grown
    <3>2. new = Grown(g.own, b, c)
      BY <2>1, Zenon
    <3>3. Forest(new, Placed(R, b, c))
      BY <1>1, <2>2, <3>2, GrownForest, Zenon
    <3> QED
      BY <2>3, <3>1, <3>3, Zenon
  <2>5. {x, y} \subseteq DOMAIN Q \cup {Null, LITERAL}
    <3>1. Q = Gain(R, {b}, c) \/ Q = R
      BY <2>3 DEF Placed
    <3>2. DOMAIN Gain(R, {b}, c) = {b} \cup DOMAIN R
      BY DomainsAre
    <3>3. DOMAIN R \subseteq DOMAIN Q
      BY <3>1, <3>2
    <3> QED
      BY <1>1, <3>3
  <2>6. PICK u : u = [g EXCEPT !.own = new]
    OBVIOUS
  <2>7. Calm(u, Q, x, y) /\ u.own = new
    BY <2>4, <2>5, <2>6, UntouchedCalm
  <2>8. o.h = u /\ o.p = b
    BY <2>1, <2>6
  <2> QED
    BY <1>1, <2>2, <2>3, <2>4, <2>7, <2>8 DEF Left
<1> QED
  BY <1>2, <1>3

(* p or where it was moved to *)
Stayed(o, p) == IF o.p = Null THEN p ELSE o.p

LEMMA ResizeIs ==
  ASSUME NEW g, NEW R, NEW x, NEW y, Calm(g, R, x, y), NEW p \in DOMAIN R, p \notin {x, y},
         NEW o \in resize(g, p)
  PROVE  /\ o.p \in Block \cup {Null} /\ Stayed(o, p) \in Block \ (DOMAIN R \ {p})
         /\ Calm(o.h, Moved(R, p, Stayed(o, p)), x, y)
<1>1. /\ R \in [DOMAIN R -> Ctx] /\ DOMAIN R \subseteq DOMAIN g.own /\ DOMAIN g.own \subseteq Block
      /\ Null \notin Block
      /\ {x, y} \subseteq DOMAIN R \cup {Null, LITERAL} /\ Forest(g.own, R)
  BY RightsAre DEF Calm
<1>2. PICK b, new : /\ b = FreeBlock(g)
                    /\ new = Renamed(g.own, p, b)
  OBVIOUS
<1>3. \/ o = [h |-> g, p |-> p]
      \/ o = [h |-> g, p |-> Null]
      \/ b # Null /\ o = [h |-> [g EXCEPT !.own = new], p |-> b]
  BY <1>1, <1>2 DEF resize, Nil, Renamed
<1>4. CASE o = [h |-> g, p |-> p] \/ o = [h |-> g, p |-> Null]
  <2>1. o.h = g /\ o.p \in Block \cup {Null} /\ Stayed(o, p) = p
    BY <1>1, <1>4 DEF Stayed
  <2>2. Moved(R, p, p) = R
    BY <1>1, MovedNowhere
  <2> QED
    BY <1>1, <2>1, <2>2
<1>5. CASE b # Null /\ o = [h |-> [g EXCEPT !.own = new], p |-> b]
  <2>1. b \in Block \ DOMAIN g.own
    BY <1>2, <1>5 DEF FreeBlock
  <2>2. Forest(new, Moved(R, p, b))
    <3>1. new = Renamed(g.own, p, b)
      BY <1>2, Zenon
    <3> QED
      BY <1>1, <2>1, <3>1, MovedForest, Zenon
  <2>3. {x, y} \subseteq DOMAIN Moved(R, p, b) \cup {Null, LITERAL}
    <3>1. DOMAIN Moved(R, p, b) = {b} \cup (DOMAIN R \ {p})
      BY DomainsAre
    <3> QED
      BY <1>1, <3>1
  <2>4. PICK u : u = [g EXCEPT !.own = new]
    OBVIOUS
  <2>5. Calm(u, Moved(R, p, b), x, y)
    BY <2>2, <2>3, <2>4, UntouchedCalm
  <2>6. o.h = u /\ o.p = b /\ Stayed(o, p) = b
    BY <1>5, <2>4 DEF Stayed
  <2> QED
    BY <1>1, <2>1, <2>5, <2>6
<1> QED
  BY <1>3, <1>4, <1>5

LEMMA ResizeMakes ==
  ASSUME NEW g, NEW p, NEW o \in resize(g, p)
  PROVE  o = [h |-> o.h, p |-> o.p]
  BY DEF resize, Nil

LEMMA DupCases ==
  ASSUME NEW g, NEW c, NEW p, NEW o \in tal_dup_(g, c, p)
  PROVE  \/ o = Nil(FreeTaken(g, p))
         \/ ~is_taken(g, p) /\ o \in alloc(Read(g, p), c)
         \/ is_taken(g, p) /\ p = Null /\ o = Nil(Untaken(g, p))
         \/ /\ is_taken(g, p) /\ p # Null
            /\ \E r \in resize(Untaken(g, p), p) :
                 \/ r.p = Null /\ o = Nil(tal_free(r.h, p))
                 \/ r.p # Null /\ o = Nil(tal_free(r.h, r.p))
                 \/ r.p # Null /\ o = [r EXCEPT !.h.own[r.p] = c]
  BY DEF tal_dup_, Then

LEMMA DupIs ==
  ASSUME NEW g, NEW R, NEW x, NEW y, Calm(g, R, x, y), NEW p \in DOMAIN R \cup {Null, LITERAL},
         Passing(p, x, y), NEW c \in Ctx \cup (DOMAIN R \ {x}), NEW o \in tal_dup_(g, c, p)
  PROVE  Left(o, Without(R, {x}), c, LITERAL, y) /\ (o.p # Null => o.p \in DOMAIN o.h.own)
<1> DEFINE Q == Without(R, {x})
<1>1. /\ R \in [DOMAIN R -> Ctx] /\ DOMAIN R \subseteq DOMAIN g.own /\ DOMAIN g.own \subseteq Block
      /\ Null \notin Block /\ LITERAL \notin Block /\ Null \notin DOMAIN R /\ LITERAL # Null
      /\ {x, y} \subseteq DOMAIN R \cup {Null, LITERAL}
      /\ DOMAIN Q = DOMAIN R \ {x}
  BY RightsAre, DomainsAre DEF Calm
<1>2. /\ is_taken(g, p) <=> x # LITERAL
      /\ x # LITERAL => Calm(Untaken(g, p), R, LITERAL, y)
      /\ x # LITERAL => x = p
      /\ p = Null => x = Null
      /\ p \in Block => p # y
  BY TakenIs DEF Passing
<1>3. ASSUME NEW u, o = Nil(u), Calm(u, Q, LITERAL, y)
      PROVE  Left(o, Q, c, LITERAL, y) /\ o.p = Null
  <2>1. o.h = u /\ o.p = Null
    BY <1>3 DEF Nil
  <2>2. Placed(Q, Null, c) = Q
    BY DEF Placed
  <2> HIDE DEF Q
  <2> QED
    BY <1>1, <1>3, <2>1, <2>2 DEF Left
<1>4. CASE o = Nil(FreeTaken(g, p))
  <2>1. Calm(FreeTaken(g, p), Q, LITERAL, y)
    BY FreeTakenIs
  <2> QED
    BY <1>3, <1>4, <2>1
<1>5. CASE ~is_taken(g, p) /\ o \in alloc(Read(g, p), c)
  <2>1. x = LITERAL /\ p \in DOMAIN R \cup {LITERAL}
    BY <1>1, <1>2, <1>5
  <2>2. Read(g, p) = g
    BY <2>1, ReadIs
  <2>3. c \in Ctx \cup DOMAIN R /\ o \in alloc(g, c)
    BY <1>5, <2>2
  <2>4. Q = R
    BY <1>1, <2>1, WithoutNone
  <2>5. Left(o, R, c, x, y) /\ (o.p # Null => o.p \in DOMAIN o.h.own)
    BY <2>3, AllocIs
  <2> QED
    BY <2>1, <2>4, <2>5
<1>6. CASE is_taken(g, p) /\ p = Null /\ o = Nil(Untaken(g, p))
  <2>1. Q = R
    BY <1>1, <1>2, <1>6, WithoutNone
  <2> QED
    BY <1>2, <1>3, <1>6, <2>1
<1>7. CASE is_taken(g, p) /\ p # Null
  <2> SUFFICES ASSUME NEW r \in resize(Untaken(g, p), p),
                      \/ r.p = Null /\ o = Nil(tal_free(r.h, p))
                      \/ r.p # Null /\ o = Nil(tal_free(r.h, r.p))
                      \/ r.p # Null /\ o = [r EXCEPT !.h.own[r.p] = c]
               PROVE  Left(o, Q, c, LITERAL, y) /\ (o.p # Null => o.p \in DOMAIN o.h.own)
    BY <1>4, <1>5, <1>6, <1>7, DupCases
  <2>1. x = p /\ p \in DOMAIN R /\ p \notin {LITERAL, y}
    BY <1>1, <1>2, <1>7
  <2>2. PICK q : q = Stayed(r, p)
    OBVIOUS
  <2>3. /\ r.p \in Block \cup {Null} /\ q \in Block \ (DOMAIN R \ {p})
        /\ Calm(r.h, Moved(R, p, q), LITERAL, y)
    BY <1>2, <1>7, <2>1, <2>2, ResizeIs
  <2>4. q = IF r.p = Null THEN p ELSE r.p
    BY <2>2 DEF Stayed
  <2>5. DOMAIN Moved(R, p, q) = {q} \cup (DOMAIN R \ {p}) /\ Without(Moved(R, p, q), {q}) = Q
    BY <2>1, <2>3, DomainsAre, MovedAway
  <2>6. q \notin {LITERAL, y}
    BY <1>1, <2>1, <2>3
  <2>7. CASE o = Nil(tal_free(r.h, q))
    <3>1. Calm(tal_free(r.h, q), Without(Moved(R, p, q), {q}), LITERAL, y)
      BY <2>3, <2>5, <2>6, FreeIs
    <3> QED
      BY <1>3, <2>5, <2>7, <3>1
  <2>8. CASE r.p # Null /\ o = [r EXCEPT !.h.own[r.p] = c]
    <3>1. q = r.p
      BY <2>4, <2>8
    <3>2. PICK new : new = [r.h.own EXCEPT ![q] = c]
      OBVIOUS
    <3>3. PICK u : u = [r.h EXCEPT !.own = new]
      OBVIOUS
    <3>4. r.h \in Heap /\ r = [h |-> r.h, p |-> q] /\ Forest(r.h.own, Moved(R, p, q))
          /\ q \in DOMAIN r.h.own
      BY <2>3, <2>5, <3>1, ResizeMakes, RightsAre DEF Calm
    <3>5. o = [h |-> u, p |-> q]
      BY <2>8, <3>1, <3>2, <3>3, <3>4 DEF Heap
    <3>6. c \in Ctx \cup (DOMAIN Moved(R, p, q) \ {q})
      BY <2>1, <2>3, <2>5
    <3>7. Forest(new, IF c \in Ctx THEN Gain(Moved(R, p, q), {q}, c) ELSE Without(Moved(R, p, q), {q}))
      BY <2>5, <3>2, <3>4, <3>6, GivenForest
    <3>8. Forest(new, Placed(Q, q, c))
      <4>1. Gain(Moved(R, p, q), {q}, c) = Gain(Q, {q}, c)
        <5>1. q \notin DOMAIN R \ {p}
          BY <2>3
        <5>2. Gain(Moved(R, p, q), {q}, c) = Gain(Without(R, {p}), {q}, c)
          BY ONLY <5>1 DEF Moved, Gain, Without
        <5>3. Q = Without(R, {p})
          BY <2>1
        <5> HIDE DEF Q
        <5> QED
          BY <5>2, <5>3, Zenon
      <4>2. Placed(Q, q, c) = IF c \in Ctx THEN Gain(Q, {q}, c) ELSE Q
        BY <1>1, <2>3 DEF Placed
      <4>3. CASE c \in Ctx
        BY <3>7, <4>1, <4>2, <4>3, Zenon
      <4>4. CASE c \notin Ctx
        BY <2>5, <3>7, <4>2, <4>4, Zenon
      <4> QED
        BY <4>3, <4>4
    <3>9. {LITERAL, y} \subseteq DOMAIN Placed(Q, q, c) \cup {Null, LITERAL}
      <4>1. Placed(Q, q, c) = Q \/ Placed(Q, q, c) = Gain(Q, {q}, c)
        BY DEF Placed
      <4>2. DOMAIN Gain(Q, {q}, c) = {q} \cup DOMAIN Q
        BY DomainsAre
      <4>3. y \in DOMAIN Q \cup {Null, LITERAL}
        BY <1>1, <2>1
      <4> HIDE DEF Q
      <4> QED
        BY <4>1, <4>2, <4>3
    <3>10. Calm(u, Placed(Q, q, c), LITERAL, y) /\ u.own = new
      BY <2>3, <3>3, <3>8, <3>9, UntouchedCalm
    <3>11. o.h = u /\ o.p = q /\ q \in DOMAIN new
      BY <3>2, <3>4, <3>5
    <3> QED
      BY <1>1, <2>1, <2>3, <3>10, <3>11 DEF Left
  <2> QED
    BY <2>4, <2>7, <2>8
<1> QED
  BY <1>4, <1>5, <1>6, <1>7, DupCases

(* The block at p, which may have moved, and what x is consumed *)
Grew(o, R, p, x, y) ==
  o.p \in Block \ (DOMAIN R \ {p}) /\ Calm(o.h, Without(Moved(R, p, o.p), {x}), LITERAL, y)

LEMMA GrewIs ==
  ASSUME NEW g, NEW R, NEW x, NEW y, NEW p \in DOMAIN R, p \notin {x, y},
         NEW src, Passing(src, x, y),
         NEW q \in Block \ (DOMAIN R \ {p}), Calm(g, Moved(R, p, q), x, y),
         NEW o, o.h = FreeTaken(g, src), o.p = q
  PROVE  Grew(o, R, p, x, y)
<1>1. Calm(FreeTaken(g, src), Without(Moved(R, p, q), {x}), LITERAL, y)
  BY FreeTakenIs
<1> QED
  BY <1>1 DEF Grew

LEMMA ExpandIs ==
  ASSUME NEW g, NEW R, NEW x, NEW y, Calm(g, R, x, y), NEW p \in DOMAIN R, p \notin {x, y},
         NEW src \in DOMAIN R \cup {LITERAL}, Passing(src, x, y), NEW o \in tal_expand_(g, p, src)
  PROVE  Grew(o, R, p, x, y)
<1>1. Read(g, src) = g
  BY ReadIs
<1>2. PICK r \in resize(g, p) : o = [h |-> FreeTaken(r.h, src), p |-> Stayed(r, p)]
  BY <1>1 DEF tal_expand_, Stayed
<1>3. PICK q : q = Stayed(r, p)
  OBVIOUS
<1>4. q \in Block \ (DOMAIN R \ {p}) /\ Calm(r.h, Moved(R, p, q), x, y)
  BY <1>3, ResizeIs
<1>5. o.h = FreeTaken(r.h, src) /\ o.p = q
  BY <1>2, <1>3
<1> QED
  BY <1>4, <1>5, GrewIs

LEMMA DoVfmtCases ==
  ASSUME NEW g, NEW buf, NEW fmt, NEW o \in do_vfmt(g, buf, fmt)
  PROVE  \E r \in resize(Read(g, fmt), buf) :
           \/ o.h = FreeTaken(r.h, fmt) /\ o.p = Stayed(r, buf)
           \/ \E t \in resize(Read(r.h, fmt), Stayed(r, buf)) :
                o.h = FreeTaken(t.h, fmt) /\ o.p = Stayed(t, Stayed(r, buf))
<1> DEFINE grown(f, p) == {[h |-> r.h, p |-> Stayed(r, p), ok |-> r.p # Null] : r \in resize(Read(f, fmt), p)}
<1>1. PICK w \in UNION {IF z.ok THEN {z} \cup grown(z.h, z.p) ELSE {z} : z \in grown(g, buf)} :
        o = [w EXCEPT !.h = FreeTaken(@, fmt)]
  BY DEF do_vfmt, Then, Stayed
<1>2. PICK z \in grown(g, buf) : w = z \/ w \in grown(z.h, z.p)
  BY <1>1
<1>3. PICK r \in resize(Read(g, fmt), buf) : z = [h |-> r.h, p |-> Stayed(r, buf), ok |-> r.p # Null]
  BY <1>2
<1>4. z.h = r.h /\ z.p = Stayed(r, buf)
  BY <1>3
<1>5. CASE w = z
  BY <1>1, <1>3, <1>4, <1>5
<1>6. CASE w \in grown(z.h, z.p)
  <2>1. PICK t \in resize(Read(r.h, fmt), Stayed(r, buf)) :
          w = [h |-> t.h, p |-> Stayed(t, Stayed(r, buf)), ok |-> t.p # Null]
    BY <1>4, <1>6
  <2>2. o.h = FreeTaken(t.h, fmt) /\ o.p = Stayed(t, Stayed(r, buf))
    BY <1>1, <2>1
  <2> QED
    BY <2>2
<1> QED
  BY <1>2, <1>5, <1>6

LEMMA DoVfmtIs ==
  ASSUME NEW g, NEW R, NEW x, NEW y, Calm(g, R, x, y), NEW buf \in DOMAIN R, buf \notin {x, y},
         NEW fmt \in (DOMAIN R \cup {LITERAL}) \ {buf}, Passing(fmt, x, y),
         NEW o \in do_vfmt(g, buf, fmt)
  PROVE  Grew(o, R, buf, x, y)
<1>1. Read(g, fmt) = g /\ LITERAL \notin Block /\ Null \notin Block
      /\ {x, y} \subseteq DOMAIN R \cup {Null, LITERAL}
  BY ReadIs, RightsAre DEF Calm
<1>2. PICK r \in resize(g, buf) :
           \/ o.h = FreeTaken(r.h, fmt) /\ o.p = Stayed(r, buf)
           \/ \E t \in resize(Read(r.h, fmt), Stayed(r, buf)) :
                o.h = FreeTaken(t.h, fmt) /\ o.p = Stayed(t, Stayed(r, buf))
  BY <1>1, DoVfmtCases
<1>3. PICK q : q = Stayed(r, buf)
  OBVIOUS
<1>4. q \in Block \ (DOMAIN R \ {buf}) /\ Calm(r.h, Moved(R, buf, q), x, y)
  BY <1>3, ResizeIs
<1>5. CASE o.h = FreeTaken(r.h, fmt) /\ o.p = q
  BY <1>4, <1>5, GrewIs
<1>6. ASSUME NEW t \in resize(Read(r.h, fmt), q), o.h = FreeTaken(t.h, fmt), o.p = Stayed(t, q)
      PROVE  Grew(o, R, buf, x, y)
  <2>1. DOMAIN Moved(R, buf, q) = {q} \cup (DOMAIN R \ {buf})
    BY DomainsAre
  <2>2. q \in DOMAIN Moved(R, buf, q) /\ q \notin {x, y} /\ fmt \in DOMAIN Moved(R, buf, q) \cup {LITERAL}
    BY <1>1, <1>4, <2>1
  <2>3. Read(r.h, fmt) = r.h
    BY <1>4, <2>2, ReadIs
  <2>4. PICK s : s = Stayed(t, q)
    OBVIOUS
  <2>5. s \in Block \ (DOMAIN Moved(R, buf, q) \ {q}) /\ Calm(t.h, Moved(Moved(R, buf, q), q, s), x, y)
    BY <1>4, <1>6, <2>2, <2>3, <2>4, ResizeIs
  <2>6. s \in Block \ (DOMAIN R \ {buf})
    BY <1>4, <2>1, <2>5
  <2>7. Moved(Moved(R, buf, q), q, s) = Moved(R, buf, s)
    BY <1>4, <2>6, MovedTwice
  <2> QED
    BY <1>6, <2>4, <2>5, <2>6, <2>7, GrewIs
<1> QED
  BY <1>2, <1>3, <1>5, <1>6

LEMMA UntakenNull ==
  ASSUME NEW g, NEW R, NEW x, NEW y, Calm(g, R, x, y), Passing(Null, x, y)
  PROVE  is_taken(g, Null) /\ Calm(Untaken(g, Null), Without(R, {x}), LITERAL, y)
         /\ Without(R, {x}) = R
<1>1. R \in [DOMAIN R -> Ctx] /\ x = Null /\ x # LITERAL /\ Null \notin DOMAIN R
  BY RightsAre DEF Passing
<1>2. Without(R, {x}) = R
  BY <1>1, WithoutNone
<1> QED
  BY <1>1, <1>2, TakenIs

LEMMA AppendIs ==
  ASSUME NEW g, NEW R, NEW x, NEW y, Calm(g, R, x, y), NEW p \in DOMAIN R, p \notin {x, y},
         NEW fmt \in (DOMAIN R \cup {Null, LITERAL}) \ {p}, Passing(fmt, x, y),
         NEW o \in tal_append_vfmt(g, p, fmt)
  PROVE  Grew(o, R, p, x, y)
<1>1. R \in [DOMAIN R -> Ctx] /\ p \in Block
  BY RightsAre
<1>2. CASE fmt = Null
  <2>1. is_taken(g, Null) /\ Calm(Untaken(g, Null), Without(R, {x}), LITERAL, y)
    BY <1>2, UntakenNull
  <2>2. o.h = Untaken(g, Null) /\ o.p = p
    BY <1>2, <2>1 DEF tal_append_vfmt
  <2>3. Moved(R, p, p) = R
    BY <1>1, MovedNowhere
  <2> QED
    BY <1>1, <2>1, <2>2, <2>3 DEF Grew
<1>3. CASE fmt # Null
  <2>1. PICK w \in do_vfmt(g, p, fmt) : o.h = w.h /\ o.p = w.p
    BY <1>3 DEF tal_append_vfmt
  <2>2. Grew(w, R, p, x, y)
    BY <1>3, DoVfmtIs
  <2> QED
    BY <2>1, <2>2 DEF Grew
<1> QED
  BY <1>2, <1>3

LEMMA VfmtIs ==
  ASSUME Careless = {}, NEW g, NEW R, NEW x, NEW y, Calm(g, R, x, y),
         NEW fmt \in DOMAIN R \cup {Null, LITERAL}, Passing(fmt, x, y),
         NEW c \in Ctx, NEW o \in tal_vfmt(g, c, fmt)
  PROVE  Left(o, Without(R, {x}), c, LITERAL, y)
<1> DEFINE W == Without(R, {x})
<1>1. /\ R \in [DOMAIN R -> Ctx] /\ DOMAIN R \subseteq Block /\ Null \notin Block /\ LITERAL \notin Block
      /\ DOMAIN W = DOMAIN R \ {x} /\ W \in [DOMAIN W -> Ctx]
      /\ {x, y} \subseteq DOMAIN R \cup {Null, LITERAL}
  <2>1. /\ R \in [DOMAIN R -> Ctx] /\ DOMAIN R \subseteq Block /\ Null \notin Block /\ LITERAL \notin Block
        /\ {x, y} \subseteq DOMAIN R \cup {Null, LITERAL}
    BY RightsAre DEF Calm
  <2>2. DOMAIN W = DOMAIN R \ {x} /\ W \in [DOMAIN R \ {x} -> Ctx]
    BY <2>1 DEF Without
  <2> HIDE DEF W
  <2> QED
    BY <2>1, <2>2
<1>2. ASSUME o.p = Null, Calm(o.h, W, LITERAL, y)
      PROVE  Left(o, W, c, LITERAL, y)
  <2>1. Placed(W, Null, c) = W
    BY DEF Placed
  <2> HIDE DEF W
  <2> QED
    BY <1>1, <1>2, <2>1 DEF Left
<1>3. CASE fmt = Null
  <2>1. is_taken(g, Null) /\ Calm(Untaken(g, Null), W, LITERAL, y)
    BY <1>3, UntakenNull
  <2>2. tal_vfmt(g, c, fmt) = {Nil(Untaken(g, Null))}
    BY <1>3, <2>1, Zenon DEF tal_vfmt
  <2>3. o.h = Untaken(g, Null) /\ o.p = Null
    BY <2>2 DEF Nil
  <2> QED
    BY <1>2, <2>1, <2>3
<1>4. CASE fmt # Null
  <2>1. PICK buf \in alloc(g, c) : \E w \in do_vfmt(buf.h, buf.p, fmt) :
          buf.p # Null /\ o = IF w.ok THEN [h |-> w.h, p |-> w.p] ELSE Nil(tal_free(w.h, w.p))
    BY <1>4 DEF tal_vfmt, Then
  <2>2. PICK w \in do_vfmt(buf.h, buf.p, fmt) :
          buf.p # Null /\ o = IF w.ok THEN [h |-> w.h, p |-> w.p] ELSE Nil(tal_free(w.h, w.p))
    BY <2>1
  <2>3. PICK b, G : b = buf.p /\ G = Gain(R, {b}, c)
    OBVIOUS
  <2>4. Left(buf, R, c, x, y)
    BY AllocIs
  <2>5. b \in Block \ DOMAIN R /\ Calm(buf.h, G, x, y)
    BY <2>2, <2>3, <2>4 DEF Left, Placed
  <2>6. DOMAIN G = {b} \cup DOMAIN R
    BY <2>3, DomainsAre
  <2>7. b \in DOMAIN G /\ b \notin {x, y} /\ fmt \in (DOMAIN G \cup {LITERAL}) \ {b}
    BY <1>1, <1>4, <2>5, <2>6
  <2>8. Grew(w, G, b, x, y)
    BY <2>2, <2>3, <2>5, <2>7, DoVfmtIs
  <2>9. PICK q : q = w.p
    OBVIOUS
  <2>10. q \in Block \ DOMAIN R /\ Calm(w.h, Without(Moved(G, b, q), {x}), LITERAL, y)
    BY <2>5, <2>6, <2>8, <2>9 DEF Grew
  <2>11. Moved(G, b, q) = Gain(R, {q}, c)
    BY <1>1, <2>3, <2>5 DEF Moved, Gain, Without
  <2>12. q \notin {x} /\ q \notin DOMAIN R
    BY <1>1, <2>10
  <2>13. Without(Gain(R, {q}, c), {x}) = Gain(W, {q}, c)
    BY <1>1, <2>12 DEF Gain, Without
  <2> HIDE DEF W
  <2>14. Calm(w.h, Gain(W, {q}, c), LITERAL, y)
    BY <2>10, <2>11, <2>13
  <2>15. ASSUME w.ok
         PROVE  Left(o, W, c, LITERAL, y)
    <3>1. o.h = w.h /\ o.p = q
      BY <2>2, <2>9, <2>15
    <3>2. Placed(W, q, c) = Gain(W, {q}, c)
      BY <1>1, <2>10 DEF Placed
    <3>3. Calm(o.h, Placed(W, o.p, c), LITERAL, y)
      BY <2>14, <3>1, <3>2, Zenon
    <3> QED
      BY <1>1, <2>10, <3>1, <3>3 DEF Left
  <2>16. ASSUME ~w.ok
         PROVE  Left(o, W, c, LITERAL, y)
    <3>1. o.h = tal_free(w.h, q) /\ o.p = Null
      BY <2>2, <2>9, <2>16 DEF Nil
    <3>2. q \in DOMAIN Gain(W, {q}, c)
      BY DEF Gain
    <3>3. q \notin {LITERAL, y}
      BY <1>1, <2>10
    <3>4. Calm(tal_free(w.h, q), Without(Gain(W, {q}, c), {q}), LITERAL, y)
      BY <2>14, <3>2, <3>3, FreeIs
    <3>5. Without(Gain(W, {q}, c), {q}) = W
      BY <1>1, <2>12, GainedAway
    <3>6. Calm(o.h, W, LITERAL, y)
      BY <3>1, <3>4, <3>5, Zenon
    <3> QED
      BY <1>2, <3>1, <3>6, Zenon
  <2>17. Left(o, W, c, LITERAL, y)
    BY <2>15, <2>16
  <2> QED
    BY <2>17 DEF W
<1> QED
  BY <1>3, <1>4

LEMMA FreeTakenBoth ==
  ASSUME NEW g, NEW R, NEW x, NEW y, Calm(g, R, x, y), NEW p, Passing(p, x, y), NEW q, Passing(q, y, x)
  PROVE  Calm(FreeTaken(FreeTaken(g, p), q), Without(R, {x, y}), LITERAL, LITERAL)
<1>1. PICK u, W : u = FreeTaken(g, p) /\ W = Without(R, {x})
  OBVIOUS
<1>2. Calm(u, W, y, LITERAL)
  BY <1>1, FreeTakenIs, CalmTurns
<1>3. Passing(q, y, LITERAL)
  BY StringAssumption DEF Passing
<1>4. Calm(FreeTaken(u, q), Without(W, {y}), LITERAL, LITERAL)
  BY <1>2, <1>3, FreeTakenIs
<1>5. Without(W, {y}) = Without(R, {x, y})
  BY <1>1 DEF Without
<1> QED
  BY <1>1, <1>4, <1>5

LEMMA PlacedLater ==
  ASSUME NEW W, NEW q, q \notin DOMAIN W, NEW c, NEW S, q \in Block => q \notin S, q \in Block \cup {Null}
  PROVE  Without(Placed(W, q, c), S) = Placed(Without(W, S), q, c)
<1>1. CASE q = Null \/ c \notin Ctx
  BY <1>1 DEF Placed
<1>2. CASE ~(q = Null \/ c \notin Ctx)
  <2>1. Placed(W, q, c) = Gain(W, {q}, c) /\ Placed(Without(W, S), q, c) = Gain(Without(W, S), {q}, c)
    BY <1>2 DEF Placed
  <2>2. q \notin S
    BY <1>2
  <2>3. Without(Gain(W, {q}, c), S) = Gain(Without(W, S), {q}, c)
    BY ONLY q \notin DOMAIN W, <2>2 DEF Gain, Without
  <2> QED
    BY <2>1, <2>3
<1> QED
  BY <1>1, <1>2

(* What is taken is freed after the result is made. *)
LEMMA ThenFreed ==
  ASSUME NEW r, NEW W, NEW c, NEW y \in DOMAIN W \cup {Null, LITERAL}, Left(r, W, c, LITERAL, y),
         NEW s, Passing(s, y, LITERAL), NEW o, o.h = FreeTaken(r.h, s), o.p = r.p
  PROVE  Left(o, Without(W, {y}), c, LITERAL, LITERAL)
<1>1. PICK q : q = r.p
  OBVIOUS
<1>2. q \in (Block \cup {Null}) \ DOMAIN W /\ Calm(r.h, Placed(W, q, c), y, LITERAL)
  BY <1>1, CalmTurns DEF Left
<1>3. Calm(FreeTaken(r.h, s), Without(Placed(W, q, c), {y}), LITERAL, LITERAL)
  BY <1>2, FreeTakenIs
<1>4. q \in Block => q \notin {y}
  BY <1>2, BlockAssumption, StringAssumption
<1>5. Without(Placed(W, q, c), {y}) = Placed(Without(W, {y}), q, c)
  BY <1>2, <1>4, PlacedLater
<1>6. o.p \notin DOMAIN Without(W, {y}) /\ o.p = q
  BY <1>1, <1>2 DEF Without
<1> QED
  BY <1>2, <1>3, <1>5, <1>6 DEF Left

LEMMA ThenBothFreed ==
  ASSUME NEW r, NEW R, NEW c, NEW x, NEW y, {x, y} \subseteq DOMAIN R \cup {Null, LITERAL},
         Left(r, R, c, x, y), NEW p, Passing(p, x, y), NEW s, Passing(s, y, x),
         NEW o, o.h = FreeTaken(FreeTaken(r.h, p), s), o.p = r.p
  PROVE  Left(o, Without(R, {x, y}), c, LITERAL, LITERAL)
<1>1. PICK q : q = r.p
  OBVIOUS
<1>2. q \in (Block \cup {Null}) \ DOMAIN R /\ Calm(r.h, Placed(R, q, c), x, y)
  BY <1>1 DEF Left
<1>3. Calm(FreeTaken(FreeTaken(r.h, p), s), Without(Placed(R, q, c), {x, y}), LITERAL, LITERAL)
  BY <1>2, FreeTakenBoth
<1>4. q \in Block => q \notin {x, y}
  BY <1>2, BlockAssumption, StringAssumption
<1>5. Without(Placed(R, q, c), {x, y}) = Placed(Without(R, {x, y}), q, c)
  BY <1>2, <1>4, PlacedLater
<1>6. o.p \notin DOMAIN Without(R, {x, y}) /\ o.p = q
  BY <1>1, <1>2 DEF Without
<1> QED
  BY <1>2, <1>3, <1>5, <1>6 DEF Left

(* A new block grows, or does not and is freed. *)
LEMMA NewGrows ==
  ASSUME NEW a, NEW R, R \in [DOMAIN R -> Ctx], NEW c \in Ctx, NEW x, NEW y,
         {x, y} \subseteq DOMAIN R \cup {Null, LITERAL}, Left(a, R, c, x, y), a.p # Null,
         NEW r \in resize(a.h, a.p)
  PROVE  /\ r.p # Null => Left(r, R, c, x, y)
         /\ r.p = Null => Calm(tal_free(r.h, a.p), R, x, y)
<1>1. PICK b, G : b = a.p /\ G = Gain(R, {b}, c)
  OBVIOUS
<1>2. b \in Block \ DOMAIN R /\ Calm(a.h, G, x, y) /\ b \notin {x, y} /\ b # Null
  BY <1>1, BlockAssumption, StringAssumption DEF Left, Placed
<1>3. DOMAIN G = {b} \cup DOMAIN R /\ G \in [DOMAIN G -> Ctx]
  BY <1>1 DEF Gain
<1>4. PICK q : q = Stayed(r, b)
  OBVIOUS
<1>5. r.p \in Block \cup {Null} /\ q \in Block \ (DOMAIN G \ {b}) /\ Calm(r.h, Moved(G, b, q), x, y)
  BY <1>1, <1>2, <1>3, <1>4, ResizeIs
<1>6. Moved(G, b, q) = Gain(R, {q}, c)
  BY <1>1, <1>2 DEF Moved, Gain, Without
<1>7. ASSUME r.p # Null
      PROVE  Left(r, R, c, x, y)
  <2>1. q = r.p /\ q \in Block \ DOMAIN R
    BY <1>2, <1>3, <1>4, <1>5, <1>7 DEF Stayed
  <2>2. Placed(R, q, c) = Gain(R, {q}, c)
    BY <1>7, <2>1 DEF Placed
  <2> QED
    BY <1>5, <1>6, <2>1, <2>2 DEF Left
<1>8. ASSUME r.p = Null
      PROVE  Calm(tal_free(r.h, b), R, x, y)
  <2>1. q = b
    BY <1>4, <1>8 DEF Stayed
  <2>2. Calm(r.h, G, x, y)
    BY <1>1, <1>5, <1>6, <2>1
  <2>3. Calm(tal_free(r.h, b), Without(G, {b}), x, y)
    BY <1>2, <1>3, <2>2, FreeIs
  <2>4. Without(G, {b}) = R
    BY <1>1, <1>2 DEF Gain, Without
  <2> QED
    BY <2>3, <2>4
<1> QED
  BY <1>1, <1>7, <1>8

LEMMA DupMakes ==
  ASSUME NEW g, NEW c, NEW p, NEW o \in tal_dup_(g, c, p)
  PROVE  o = [h |-> o.h, p |-> o.p]
<1>1. \A u : Nil(u) = [h |-> Nil(u).h, p |-> Nil(u).p]
  BY DEF Nil
<1>2. CASE o \in alloc(Read(g, p), c)
  BY <1>2 DEF alloc, Nil
<1>3. ASSUME NEW r \in resize(Untaken(g, p), p), o = [r EXCEPT !.h.own[r.p] = c]
      PROVE  o = [h |-> o.h, p |-> o.p]
  <2>1. r = [h |-> r.h, p |-> r.p]
    BY ResizeMakes
  <2> QED
    BY <1>3, <2>1
<1> QED
  BY <1>1, <1>2, <1>3, DupCases

LEMMA StrcatIs ==
  ASSUME NEW g, NEW R, NEW x, NEW y, Calm(g, R, x, y),
         NEW s1 \in DOMAIN R \cup {Null, LITERAL}, Passing(s1, x, y),
         NEW s2 \in DOMAIN R \cup {Null, LITERAL}, Passing(s2, y, x),
         NEW c \in Ctx, NEW o \in tal_strcat(g, c, s1, s2)
  PROVE  Left(o, Without(R, {x, y}), c, LITERAL, LITERAL)
<1> PICK W : W = Without(R, {x})
  OBVIOUS
<1>1. /\ R \in [DOMAIN R -> Ctx] /\ LITERAL \notin Block /\ Null \notin Block /\ Null \notin DOMAIN R
      /\ y \in DOMAIN R \cup {Null, LITERAL} /\ (x = y => x \notin Block) /\ DOMAIN R \subseteq Block
  BY RightsAre DEF Calm
<1>2. DOMAIN W = DOMAIN R \ {x} /\ Without(W, {y}) = Without(R, {x, y})
  BY DEF Without
<1>3. CASE s2 = Null
  <2>1. Passing(Null, y, x) /\ Calm(g, R, y, x) /\ y = Null
    BY <1>3, CalmTurns DEF Passing
  <2>2. is_taken(g, Null) /\ Calm(Untaken(g, Null), R, LITERAL, x)
    BY <2>1, UntakenNull
  <2>3. Calm(Untaken(g, Null), R, x, LITERAL) /\ Passing(s1, x, LITERAL)
    BY <1>1, <2>2, CalmTurns DEF Passing
  <2>4. Calm(FreeTaken(Untaken(g, Null), s1), W, LITERAL, LITERAL)
    BY <2>3, FreeTakenIs
  <2>5. W = Without(R, {x, y})
    BY <1>1, <2>1 DEF Without
  <2>6. tal_strcat(g, c, s1, s2) = {Nil(FreeTaken(Untaken(g, Null), s1))}
    BY <1>3, <2>2, Zenon DEF tal_strcat
  <2>7. o.h = FreeTaken(Untaken(g, Null), s1) /\ o.p = Null
    BY <2>6 DEF Nil
  <2>8. Null \notin DOMAIN W /\ Placed(W, Null, c) = W
    BY <1>1, <1>2 DEF Placed
  <2>9. Left(o, W, c, LITERAL, LITERAL)
    BY <2>4, <2>7, <2>8 DEF Left
  <2> QED
    BY <2>5, <2>9
<1>4. CASE s2 # Null
  <2>1. s2 \in DOMAIN R \cup {LITERAL} /\ Read(g, s2) = g
    BY <1>4, ReadIs
  <2>2. PICK r \in tal_dup_(g, c, s1) :
          o = [r EXCEPT !.h = FreeTaken(IF r.p # Null THEN Read(r.h, s2) ELSE r.h, s2)]
    BY <1>4, <2>1 DEF tal_strcat
  <2>3. Left(r, W, c, LITERAL, y)
    BY DupIs
  <2>4. PICK P : P = Placed(W, r.p, c)
    OBVIOUS
  <2>5. Calm(r.h, P, LITERAL, y)
    BY <2>3, <2>4 DEF Left
  <2>6. P = W \/ P = Gain(W, {r.p}, c)
    BY <2>4 DEF Placed
  <2>7. DOMAIN W \subseteq DOMAIN P
    BY <2>6 DEF Gain
  <2>8. s2 \in DOMAIN W \cup {LITERAL}
    BY <1>1, <1>2, <2>1 DEF Passing
  <2>9. Read(r.h, s2) = r.h
    BY <2>5, <2>7, <2>8, ReadIs
  <2>10. o = [r EXCEPT !.h = FreeTaken(r.h, s2)]
    BY <2>2, <2>9
  <2>11. r = [h |-> r.h, p |-> r.p]
    BY DupMakes
  <2>12. o.h = FreeTaken(r.h, s2) /\ o.p = r.p
    BY <2>10, <2>11
  <2>13. Passing(s2, y, LITERAL) /\ y \in DOMAIN W \cup {Null, LITERAL}
    BY <1>1, <1>2, <2>1 DEF Passing
  <2> QED
    BY <1>2, <2>3, <2>12, <2>13, ThenFreed
<1> QED
  BY <1>3, <1>4

LEMMA StrjoinIs ==
  ASSUME NEW g, NEW R, NEW x, NEW y, Calm(g, R, x, y),
         NEW s1 \in DOMAIN R \cup {Null, LITERAL}, Passing(s1, x, y),
         NEW s2 \in DOMAIN R \cup {Null, LITERAL}, Passing(s2, y, x),
         NEW c \in Ctx, NEW o \in tal_strjoin(g, c, s1, s2)
  PROVE  Left(o, Without(R, {x, y}), c, LITERAL, LITERAL)
<1>1. /\ R \in [DOMAIN R -> Ctx] /\ LITERAL \notin Block /\ Null \notin Block /\ Null \notin DOMAIN R
      /\ {x, y} \subseteq DOMAIN R \cup {Null, LITERAL}
  BY RightsAre DEF Calm
<1> DEFINE freed(f) == FreeTaken(FreeTaken(f, s1), s2)
<1>2. ASSUME NEW f, Calm(f, R, x, y), o = [h |-> freed(f), p |-> Null]
      PROVE  Left(o, Without(R, {x, y}), c, LITERAL, LITERAL)
  <2>1. PICK W : W = Without(R, {x, y})
    OBVIOUS
  <2>2. Null \notin DOMAIN W /\ Placed(W, Null, c) = W
    BY <1>1, <2>1 DEF Placed, Without
  <2>3. Calm(freed(f), W, LITERAL, LITERAL)
    BY <1>2, <2>1, FreeTakenBoth
  <2>4. o.h = freed(f) /\ o.p = Null
    BY <1>2
  <2> HIDE DEF freed
  <2>5. Left(o, W, c, LITERAL, LITERAL)
    BY <2>2, <2>3, <2>4 DEF Left
  <2> QED
    BY <2>1, <2>5
<1>3. CASE (s1 = Null /\ is_taken(g, s1)) \/ (s2 = Null /\ is_taken(g, s2))
  <2>1. o = [h |-> freed(g), p |-> Null]
    BY <1>3 DEF tal_strjoin
  <2> QED
    BY <1>2, <2>1
<1>4. CASE ~((s1 = Null /\ is_taken(g, s1)) \/ (s2 = Null /\ is_taken(g, s2)))
  <2>1. s1 \in DOMAIN R \cup {LITERAL}
    <3>1. s1 = Null => is_taken(g, Null)
      BY UntakenNull
    <3> QED
      BY <1>4, <3>1
  <2>2. s2 \in DOMAIN R \cup {LITERAL}
    <3>1. s2 = Null => is_taken(g, Null)
      <4>1. Calm(g, R, y, x)
        BY CalmTurns
      <4> QED
        BY <4>1, UntakenNull
    <3> QED
      BY <1>4, <3>1
  <2>3. PICK a \in alloc(g, c) :
          \/ a.p = Null /\ o = [h |-> freed(a.h), p |-> Null]
          \/ /\ a.p # Null
             /\ \E r \in resize(Read(Read(a.h, s1), s2), a.p) :
                  o = IF r.p = Null THEN [h |-> freed(tal_free(r.h, a.p)), p |-> Null]
                      ELSE [h |-> freed(r.h), p |-> r.p]
    BY <1>4 DEF tal_strjoin, Then
  <2>4. Left(a, R, c, x, y)
    BY AllocIs
  <2>5. CASE a.p = Null /\ o = [h |-> freed(a.h), p |-> Null]
    <3>1. Calm(a.h, R, x, y)
      BY <2>4, <2>5 DEF Left, Placed
    <3> QED
      BY <1>2, <2>5, <3>1
  <2>6. CASE a.p # Null
    <3>1. Calm(a.h, Gain(R, {a.p}, c), x, y)
      BY <2>4, <2>6 DEF Left, Placed
    <3>2. PICK G : G = Gain(R, {a.p}, c) /\ DOMAIN R \subseteq DOMAIN G
      BY DEF Gain
    <3>8. Calm(a.h, G, x, y)
      BY <3>1, <3>2, Zenon
    <3>9. s1 \in DOMAIN G \cup {LITERAL} /\ s2 \in DOMAIN G \cup {LITERAL}
      BY <2>1, <2>2, <3>2
    <3>3. Read(Read(a.h, s1), s2) = a.h
      BY <3>8, <3>9, ReadIs
    <3>4. PICK r \in resize(a.h, a.p) :
            o = IF r.p = Null THEN [h |-> freed(tal_free(r.h, a.p)), p |-> Null]
                ELSE [h |-> freed(r.h), p |-> r.p]
      BY <2>3, <2>6, <3>3
    <3>5. /\ r.p # Null => Left(r, R, c, x, y)
          /\ r.p = Null => Calm(tal_free(r.h, a.p), R, x, y)
      BY <1>1, <2>4, <2>6, NewGrows
    <3>6. CASE r.p = Null
      BY <1>2, <3>4, <3>5, <3>6
    <3>7. CASE r.p # Null
      <4>1. o.h = FreeTaken(FreeTaken(r.h, s1), s2) /\ o.p = r.p
        BY <3>4, <3>7
      <4> QED
        BY <1>1, <3>5, <3>7, <4>1, ThenBothFreed
    <3> QED
      BY <3>6, <3>7
  <2> QED
    BY <2>3, <2>5, <2>6
<1> QED
  BY <1>3, <1>4

LEMMA StrsplitCases ==
  ASSUME NEW g, NEW c, NEW s1, NEW s2, NEW o \in tal_strsplit(g, c, s1, s2)
  PROVE  \E a \in alloc(g, c) :
           \/ a.p = Null /\ o = Nil(FreeTaken(FreeTaken(a.h, s1), s2))
           \/ /\ a.p # Null
              /\ \E t \in tal_dup_(a.h, a.p, s1) :
                   \/ /\ t.p = Null \/ (s2 = Null /\ is_taken(t.h, s2))
                      /\ o = Nil(FreeTaken(tal_free(t.h, a.p), s2))
                   \/ /\ t.p # Null /\ ~(s2 = Null /\ is_taken(t.h, s2))
                      /\ \E r \in resize(Read(Read(t.h, s2), t.p), a.p) :
                           \/ r.p = Null /\ o = Nil(FreeTaken(tal_free(r.h, a.p), s2))
                           \/ r.p # Null /\ o = [r EXCEPT !.h = FreeTaken(r.h, s2)]
<1> DEFINE failed(f, b) == Nil(FreeTaken(tal_free(f, b), s2))
           filled(f, b) == {IF r.p = Null THEN failed(r.h, b)
                            ELSE [r EXCEPT !.h = FreeTaken(@, s2)] : r \in resize(f, b)}
           rest(a, t) == IF t.p = Null \/ (s2 = Null /\ is_taken(t.h, s2)) THEN {failed(t.h, a.p)}
                         ELSE filled(Read(Read(t.h, s2), t.p), a.p)
<1>1. PICK a \in alloc(g, c) :
        o \in IF a.p = Null THEN {Nil(FreeTaken(FreeTaken(a.h, s1), s2))}
              ELSE UNION {rest(a, t) : t \in tal_dup_(a.h, a.p, s1)}
  BY DEF tal_strsplit, tal_strdup, Then
<1>2. CASE a.p = Null
  BY <1>1, <1>2
<1>3. CASE a.p # Null
  <2>1. PICK t \in tal_dup_(a.h, a.p, s1) : o \in rest(a, t)
    BY <1>1, <1>3
  <2>2. CASE t.p = Null \/ (s2 = Null /\ is_taken(t.h, s2))
    <3>1. o = failed(t.h, a.p)
      BY <2>1, <2>2
    <3> QED
      BY <1>3, <2>2, <3>1
  <2>3. CASE ~(t.p = Null \/ (s2 = Null /\ is_taken(t.h, s2)))
    <3>1. PICK r \in resize(Read(Read(t.h, s2), t.p), a.p) :
            o = IF r.p = Null THEN failed(r.h, a.p) ELSE [r EXCEPT !.h = FreeTaken(@, s2)]
      BY <2>1, <2>3
    <3>2. \/ r.p = Null /\ o = failed(r.h, a.p)
          \/ r.p # Null /\ o = [r EXCEPT !.h = FreeTaken(r.h, s2)]
      BY <3>1
    <3> QED
      BY <1>3, <2>3, <3>2
  <2> QED
    BY <2>2, <2>3
<1> QED
  BY <1>2, <1>3

LEMMA StrsplitIs ==
  ASSUME NEW g, NEW R, NEW x, NEW y, Calm(g, R, x, y),
         NEW s1 \in DOMAIN R \cup {Null, LITERAL}, Passing(s1, x, y),
         NEW s2 \in DOMAIN R \cup {Null, LITERAL}, Passing(s2, y, x),
         NEW c \in Ctx, NEW o \in tal_strsplit(g, c, s1, s2)
  PROVE  Left(o, Without(R, {x, y}), c, LITERAL, LITERAL)
<1> PICK W, U : W = Without(R, {x}) /\ U = Without(W, {y})
  OBVIOUS
<1>1. /\ R \in [DOMAIN R -> Ctx] /\ LITERAL \notin Block /\ Null \notin Block /\ Null \notin DOMAIN R
      /\ {x, y} \subseteq DOMAIN R \cup {Null, LITERAL} /\ (x = y => x \notin Block)
      /\ DOMAIN R \subseteq Block
  BY RightsAre DEF Calm
<1>2. /\ W \in [DOMAIN W -> Ctx] /\ DOMAIN W = DOMAIN R \ {x} /\ DOMAIN U = DOMAIN W \ {y}
      /\ U = Without(R, {x, y})
  BY <1>1 DEF Without
<1>3. /\ y \in DOMAIN W \cup {Null, LITERAL} /\ Passing(s2, y, LITERAL)
      /\ s2 \in DOMAIN W \cup {Null, LITERAL}
  BY <1>1, <1>2 DEF Passing
<1>4. ASSUME NEW f, o = Nil(f), Calm(f, U, LITERAL, LITERAL)
      PROVE  Left(o, U, c, LITERAL, LITERAL)
  <2>1. o.h = f /\ o.p = Null /\ Null \notin DOMAIN U /\ Placed(U, Null, c) = U
    BY <1>1, <1>2, <1>4 DEF Nil, Placed
  <2> QED
    BY <1>4, <2>1 DEF Left
<1>5. ASSUME NEW f, Calm(f, W, LITERAL, y), o = Nil(FreeTaken(f, s2))
      PROVE  Left(o, U, c, LITERAL, LITERAL)
  <2>1. Calm(f, W, y, LITERAL)
    BY <1>5, CalmTurns
  <2>2. Calm(FreeTaken(f, s2), U, LITERAL, LITERAL)
    BY <1>3, <2>1, FreeTakenIs
  <2> QED
    BY <1>4, <1>5, <2>2
<1>6. PICK a \in alloc(g, c) :
        \/ a.p = Null /\ o = Nil(FreeTaken(FreeTaken(a.h, s1), s2))
        \/ /\ a.p # Null
           /\ \E t \in tal_dup_(a.h, a.p, s1) :
                \/ /\ t.p = Null \/ (s2 = Null /\ is_taken(t.h, s2))
                   /\ o = Nil(FreeTaken(tal_free(t.h, a.p), s2))
                \/ /\ t.p # Null /\ ~(s2 = Null /\ is_taken(t.h, s2))
                   /\ \E r \in resize(Read(Read(t.h, s2), t.p), a.p) :
                        \/ r.p = Null /\ o = Nil(FreeTaken(tal_free(r.h, a.p), s2))
                        \/ r.p # Null /\ o = [r EXCEPT !.h = FreeTaken(r.h, s2)]
  BY StrsplitCases
<1>7. Left(a, R, c, x, y)
  BY AllocIs
<1>8. CASE a.p = Null
  <2>1. Calm(a.h, R, x, y)
    BY <1>7, <1>8 DEF Left, Placed
  <2>2. Calm(FreeTaken(FreeTaken(a.h, s1), s2), U, LITERAL, LITERAL)
    BY <1>2, <2>1, FreeTakenBoth
  <2> QED
    BY <1>2, <1>4, <1>6, <1>8, <2>2
<1>9. CASE a.p # Null
  <2>1. PICK b, G, H : b = a.p /\ G = Gain(R, {b}, c) /\ H = Without(G, {x})
    OBVIOUS
  <2>2. b \in Block \ DOMAIN R /\ Calm(a.h, G, x, y)
    BY <1>7, <1>9, <2>1 DEF Left, Placed
  <2>3. DOMAIN G = {b} \cup DOMAIN R /\ b \notin {x, y} /\ b \notin Ctx /\ Null \notin {b}
    BY <1>1, <2>1, <2>2, StringAssumption DEF Gain
  <2>4. H = Gain(W, {b}, c) /\ DOMAIN H = {b} \cup DOMAIN W
    BY <2>1, <2>2, <2>3, <1>2 DEF Gain, Without
  <2>5. ASSUME NEW t \in tal_dup_(a.h, b, s1)
        PROVE  Calm(t.h, H, LITERAL, y) /\ (t.p # Null => t.p \in DOMAIN t.h.own)
    <3>1. s1 \in DOMAIN G \cup {Null, LITERAL} /\ b \in Ctx \cup (DOMAIN G \ {x})
      BY <2>3
    <3>2. Left(t, H, b, LITERAL, y) /\ (t.p # Null => t.p \in DOMAIN t.h.own)
      BY <2>1, <2>2, <2>5, <3>1, DupIs
    <3>3. Placed(H, t.p, b) = H
      BY <2>3 DEF Placed
    <3> QED
      BY <3>2, <3>3 DEF Left
  <2>6. ASSUME NEW f, Calm(f, H, LITERAL, y)
        PROVE  Calm(tal_free(f, b), W, LITERAL, y)
    <3>1. b \in DOMAIN H \cup {Null} /\ b \notin {LITERAL, y}
      BY <1>1, <2>2, <2>3, <2>4
    <3>2. Calm(tal_free(f, b), Without(H, {b}), LITERAL, y)
      BY <2>6, <3>1, FreeIs
    <3>3. Without(H, {b}) = W
      BY <1>2, <2>2, <2>4 DEF Gain, Without
    <3> QED
      BY <3>2, <3>3
  <2>7. PICK t \in tal_dup_(a.h, b, s1) :
          \/ o = Nil(FreeTaken(tal_free(t.h, b), s2))
          \/ /\ t.p # Null /\ ~(s2 = Null /\ is_taken(t.h, s2))
             /\ \E r \in resize(Read(Read(t.h, s2), t.p), b) :
                  \/ r.p = Null /\ o = Nil(FreeTaken(tal_free(r.h, b), s2))
                  \/ r.p # Null /\ o = [r EXCEPT !.h = FreeTaken(r.h, s2)]
    BY <1>6, <1>9, <2>1
  <2>8. CASE o = Nil(FreeTaken(tal_free(t.h, b), s2))
    BY <1>2, <1>5, <2>5, <2>6, <2>8
  <2>9. CASE t.p # Null /\ ~(s2 = Null /\ is_taken(t.h, s2))
    <3>1. s2 # Null
      <4>1. Calm(t.h, H, y, LITERAL)
        BY <2>5, CalmTurns
      <4>2. s2 = Null => is_taken(t.h, Null)
        BY <1>3, <4>1, UntakenNull
      <4> QED
        BY <2>9, <4>2
    <3>2. s2 \in DOMAIN H \cup {LITERAL}
      BY <1>3, <2>4, <3>1
    <3>3. Read(t.h, s2) = t.h /\ Read(t.h, t.p) = t.h
      BY <2>5, <2>9, <3>2, ReadIs
    <3>4. ASSUME NEW r \in resize(t.h, b),
                 \/ r.p = Null /\ o = Nil(FreeTaken(tal_free(r.h, b), s2))
                 \/ r.p # Null /\ o = [r EXCEPT !.h = FreeTaken(r.h, s2)]
          PROVE  Left(o, U, c, LITERAL, LITERAL)
      <4>1. PICK m : m = [h |-> t.h, p |-> b]
        OBVIOUS
      <4>2. m.h = t.h /\ m.p = b
        BY <4>1
      <4>3. Placed(W, b, c) = H
        BY <2>3, <2>4 DEF Placed
      <4>4. Left(m, W, c, LITERAL, y)
        BY <1>2, <2>2, <2>5, <4>2, <4>3 DEF Left
      <4>5. /\ r.p # Null => Left(r, W, c, LITERAL, y)
            /\ r.p = Null => Calm(tal_free(r.h, b), W, LITERAL, y)
        BY <1>2, <1>3, <2>3, <3>4, <4>2, <4>4, NewGrows
      <4>6. CASE r.p = Null
        BY <1>5, <3>4, <4>5, <4>6
      <4>7. CASE r.p # Null
        <5>1. r = [h |-> r.h, p |-> r.p]
          BY ResizeMakes
        <5>2. o.h = FreeTaken(r.h, s2) /\ o.p = r.p
          BY <3>4, <4>7, <5>1
        <5> QED
          BY <1>3, <4>5, <4>7, <5>2, ThenFreed
      <4> QED
        BY <4>6, <4>7
    <3> QED
      BY <1>2, <1>5, <2>5, <2>6, <2>7, <3>3, <3>4
  <2> QED
    BY <2>7, <2>8, <2>9
<1> QED
  BY <1>8, <1>9

Copies(f, c, string, part, lost) ==
  {[h |-> o.h, got |-> {o.p} \ {Null}] : o \in capture(f, c, string, part, lost)}

(* One copy, or two of which the second is not from the start *)
Copied(g, c, string, w) ==
  \E part \in {"first", "later"} : \E v \in Copies(g, c, string, part, FALSE) :
    \/ w = v
    \/ /\ part = "first" => ~is_taken(g, string)
       /\ \E z \in Copies(v.h, c, string, "later", is_taken(g, string) /\ ~is_taken(v.h, string)) :
            w = [z EXCEPT !.got = @ \cup v.got]

LEMMA CapturesAre ==
  ASSUME NEW parts \in Captures
  PROVE  \/ parts = << >>
         \/ parts # << >> /\ Len(parts) = 1 /\ parts[1] \in {"first", "later"}
         \/ parts # << >> /\ Len(parts) = 2 /\ parts[1] \in {"first", "later"} /\ parts[2] = "later"
<1>1. CASE parts = << >>
  BY <1>1
<1>2. CASE parts = <<"first">>
  BY <1>2
<1>3. CASE parts = <<"later">>
  BY <1>3
<1>4. CASE parts = <<"first", "later">>
  BY <1>4
<1>5. CASE parts = <<"later", "later">>
  BY <1>5
<1> QED
  BY <1>1, <1>2, <1>3, <1>4, <1>5 DEF Captures

LEMMA StrregCases ==
  ASSUME Careless = {}, NEW g, NEW c, NEW string, NEW regex, regex # Null, Read(g, regex) = g,
         ~(string = Null /\ is_taken(g, string)) => Read(g, string) = g,
         NEW o \in tal_strreg(g, c, string, regex)
  PROVE  \E w : /\ o = [w EXCEPT !.h = FreeTaken(FreeTaken(w.h, regex), string)]
                /\ \/ w = [h |-> g, got |-> {}]
                   \/ ~(string = Null /\ is_taken(g, string)) /\ Copied(g, c, string, w)
<1> DEFINE two(f, parts) ==
             UNION {IF v.got = {} THEN {v}
                    ELSE {[z EXCEPT !.got = @ \cup v.got] :
                            z \in Copies(v.h, c, string, parts[2],
                                         is_taken(f, string) /\ ~is_taken(v.h, string))} :
                      v \in Copies(f, c, string, parts[1], FALSE)}
           all(f, parts) ==
             CASE parts = << >> -> {[h |-> f, got |-> {}]}
               [] Len(parts) = 1 -> Copies(f, c, string, parts[1], FALSE)
               [] OTHER -> two(f, parts)
           matching == {parts \in Captures :
                          Len(parts) > 1 /\ parts[1] = "first" /\ is_taken(g, string)
                            => "string" \in Careless}
           matched == IF string = Null /\ is_taken(g, string) THEN {[h |-> g, got |-> {}]}
                      ELSE {[h |-> Read(g, string), got |-> {}]}
                           \cup UNION {all(Read(g, string), parts) : parts \in matching}
<1>1. PICK w \in {[h |-> Read(g, regex), got |-> {}]} \cup matched :
        o = [w EXCEPT !.h = FreeTaken(FreeTaken(@, regex), string)]
  BY Zenon DEF tal_strreg, Then, Copies
<1>2. CASE w = [h |-> g, got |-> {}]
  BY <1>1, <1>2
<1>3. CASE w # [h |-> g, got |-> {}]
  <2>1. ~(string = Null /\ is_taken(g, string)) /\ Read(g, string) = g
    BY <1>1, <1>3
  <2>2. PICK parts \in matching : w \in all(g, parts)
    <3> HIDE DEF all, matching
    <3> QED
      BY <1>1, <1>3, <2>1
  <2>3. \/ parts = << >>
        \/ parts # << >> /\ Len(parts) = 1 /\ parts[1] \in {"first", "later"}
        \/ parts # << >> /\ Len(parts) = 2 /\ parts[1] \in {"first", "later"} /\ parts[2] = "later"
    BY CapturesAre
  <2>4. parts # << >> /\ w \in IF Len(parts) = 1 THEN Copies(g, c, string, parts[1], FALSE) ELSE two(g, parts)
    <3>1. all(g, << >>) = {[h |-> g, got |-> {}]}
      <4> HIDE DEF two
      <4> QED
        OBVIOUS
    <3>2. parts # << >>
      <4> HIDE DEF all, matching
      <4> QED
        BY <1>3, <2>2, <3>1
    <3> HIDE DEF two, matching
    <3> QED
      BY <2>2, <3>2
  <2>5. CASE Len(parts) = 1 /\ parts[1] \in {"first", "later"}
    <3>1. w \in Copies(g, c, string, parts[1], FALSE)
      BY <2>4, <2>5, Zenon
    <3> QED
      BY <1>1, <2>1, <2>5, <3>1 DEF Copied
  <2>6. CASE Len(parts) = 2 /\ parts[1] \in {"first", "later"} /\ parts[2] = "later"
    <3>1. w \in two(g, parts)
      <4>1. ~(Len(parts) = 1)
        BY <2>6
      <4> HIDE DEF two
      <4> QED
        BY <2>4, <4>1, Zenon
    <3>2. PICK v \in Copies(g, c, string, parts[1], FALSE) :
            w \in IF v.got = {} THEN {v}
                  ELSE {[z EXCEPT !.got = @ \cup v.got] :
                          z \in Copies(v.h, c, string, parts[2],
                                       is_taken(g, string) /\ ~is_taken(v.h, string))}
      BY <3>1
    <3>3. parts[1] = "first" => ~is_taken(g, string)
      BY <2>2, <2>6
    <3>4. \/ w = v
          \/ \E z \in Copies(v.h, c, string, "later", is_taken(g, string) /\ ~is_taken(v.h, string)) :
               w = [z EXCEPT !.got = @ \cup v.got]
      BY <2>6, <3>2
    <3> QED
      BY <1>1, <2>1, <2>6, <3>3, <3>4 DEF Copied
  <2> QED
    BY <2>3, <2>4, <2>5, <2>6
<1> QED
  BY <1>2, <1>3

(* The copies are blocks that the client did not have, and it owns them. *)
Kept(w, R, c, x, y) == w.got \in SUBSET (Block \ DOMAIN R) /\ Calm(w.h, Gain(R, w.got, c), x, y)

LEMMA KeptIs ==
  ASSUME NEW o, NEW R, R \in [DOMAIN R -> Ctx], NEW c \in Ctx, NEW x, NEW y, Left(o, R, c, x, y),
         NEW v, v = [h |-> o.h, got |-> {o.p} \ {Null}]
  PROVE  Kept(v, R, c, x, y)
<1>1. v.h = o.h /\ v.got = {o.p} \ {Null}
  OBVIOUS
<1>2. CASE o.p = Null
  <2>1. v.got = {} /\ Placed(R, o.p, c) = R /\ Gain(R, {}, c) = R
    BY <1>1, <1>2 DEF Placed, Gain
  <2> QED
    BY <1>1, <2>1 DEF Kept, Left
<1>3. CASE o.p # Null
  <2>1. v.got = {o.p} /\ Placed(R, o.p, c) = Gain(R, {o.p}, c)
    BY <1>1, <1>3 DEF Placed
  <2>2. o.p \in Block \ DOMAIN R
    BY <1>3 DEF Left
  <2> QED
    BY <1>1, <2>1, <2>2 DEF Kept, Left
<1> QED
  BY <1>2, <1>3

LEMMA LaterIs ==
  ASSUME NEW g, NEW R, NEW x, NEW y, Calm(g, R, x, y), NEW string \in DOMAIN R \cup {LITERAL},
         NEW c \in Ctx, NEW v \in Copies(g, c, string, "later", FALSE)
  PROVE  Kept(v, R, c, x, y)
<1>1. Read(g, string) = g
  BY ReadIs
<1>2. PICK o \in alloc(g, c) : v = [h |-> o.h, got |-> {o.p} \ {Null}]
  BY <1>1 DEF Copies, capture
<1>3. Left(o, R, c, x, y)
  BY AllocIs
<1> QED
  BY <1>2, <1>3, KeptIs, RightsAre

LEMMA MoreIs ==
  ASSUME NEW g, NEW R, NEW x, NEW y, Calm(g, R, x, y), NEW string \in DOMAIN R \cup {LITERAL},
         Passing(string, x, y), NEW c \in Ctx, NEW v, Kept(v, R, c, x, y),
         NEW z \in Copies(v.h, c, string, "later", is_taken(g, string) /\ ~is_taken(v.h, string)),
         NEW w, w = [z EXCEPT !.got = z.got \cup v.got]
  PROVE  Kept(w, R, c, x, y)
<1>1. PICK G : G = Gain(R, v.got, c)
  OBVIOUS
<1>2. Calm(v.h, G, x, y) /\ DOMAIN G = v.got \cup DOMAIN R /\ v.got \in SUBSET (Block \ DOMAIN R)
  BY <1>1 DEF Kept, Gain
<1>3. is_taken(g, string) <=> is_taken(v.h, string)
  BY <1>2, TakenIs
<1>4. z \in Copies(v.h, c, string, "later", FALSE)
  BY <1>3
<1>5. Kept(z, G, c, x, y)
  <2>1. string \in DOMAIN G \cup {LITERAL}
    BY <1>2
  <2> QED
    BY <1>2, <1>4, <2>1, LaterIs
<1>6. z = [h |-> z.h, got |-> z.got]
  BY DEF Copies
<1>7. w.h = z.h /\ w.got = z.got \cup v.got
  BY <1>6
<1>8. Gain(G, z.got, c) = Gain(R, z.got \cup v.got, c)
  BY <1>1 DEF Gain
<1> QED
  BY <1>2, <1>5, <1>7, <1>8 DEF Kept

LEMMA CopiedIs ==
  ASSUME NEW g, NEW R, NEW x, NEW y, Calm(g, R, x, y), NEW string \in DOMAIN R \cup {LITERAL},
         Passing(string, x, y), NEW c \in Ctx, NEW w, Copied(g, c, string, w)
  PROVE  Kept(w, R, c, x, y) \/ Kept(w, Without(R, {x}), c, LITERAL, y)
<1> PICK W : W = Without(R, {x})
  OBVIOUS
<1>1. R \in [DOMAIN R -> Ctx] /\ W \in [DOMAIN W -> Ctx] /\ LITERAL \notin DOMAIN R
  BY RightsAre DEF Without
<1>2. PICK part \in {"first", "later"} : \E v \in Copies(g, c, string, part, FALSE) :
        \/ w = v
        \/ /\ part = "first" => ~is_taken(g, string)
           /\ \E z \in Copies(v.h, c, string, "later", is_taken(g, string) /\ ~is_taken(v.h, string)) :
                w = [z EXCEPT !.got = @ \cup v.got]
  BY DEF Copied
<1>3. PICK v \in Copies(g, c, string, part, FALSE) :
        \/ w = v
        \/ /\ part = "first" => ~is_taken(g, string)
           /\ \E z \in Copies(v.h, c, string, "later", is_taken(g, string) /\ ~is_taken(v.h, string)) :
                w = [z EXCEPT !.got = @ \cup v.got]
  BY <1>2
<1>4. ASSUME part = "first"
      PROVE  Kept(v, W, c, LITERAL, y)
  <2>1. PICK o \in tal_dup_(g, c, string) : v = [h |-> o.h, got |-> {o.p} \ {Null}]
    BY <1>3, <1>4 DEF Copies, capture, tal_strndup
  <2>2. Left(o, W, c, LITERAL, y)
    BY DupIs
  <2> QED
    BY <1>1, <2>1, <2>2, KeptIs
<1>5. ASSUME part # "first" \/ ~is_taken(g, string)
      PROVE  Kept(v, R, c, x, y)
  <2>1. CASE part = "first"
    <3>1. x = LITERAL
      BY <1>5, <2>1, TakenIs
    <3>2. W = R
      BY <1>1, <3>1, WithoutNone
    <3> QED
      BY <1>4, <2>1, <3>1, <3>2
  <2>2. CASE part # "first"
    <3>1. v \in Copies(g, c, string, "later", FALSE)
      BY <1>3, <2>2
    <3> QED
      BY <3>1, LaterIs
  <2> QED
    BY <2>1, <2>2
<1>6. CASE w = v
  BY <1>4, <1>5, <1>6
<1>7. CASE w # v
  <2>1. PICK z \in Copies(v.h, c, string, "later", is_taken(g, string) /\ ~is_taken(v.h, string)) :
          w = [z EXCEPT !.got = z.got \cup v.got]
    BY <1>3, <1>7
  <2>2. Kept(v, R, c, x, y)
    BY <1>3, <1>5, <1>7
  <2> QED
    BY <2>1, <2>2, MoreIs
<1> QED
  BY <1>6, <1>7

LEMMA StrregIs ==
  ASSUME Careless = {}, NEW g, NEW R, NEW x, NEW y, Calm(g, R, x, y),
         NEW string \in DOMAIN R \cup {Null, LITERAL}, Passing(string, x, y),
         NEW regex \in DOMAIN R \cup {LITERAL}, Passing(regex, y, x),
         NEW c \in Ctx, NEW o \in tal_strreg(g, c, string, regex)
  PROVE  o.got \in SUBSET Block /\ Calm(o.h, Gain(Without(R, {x, y}), o.got, c), LITERAL, LITERAL)
<1> PICK U, W : U = Without(R, {x, y}) /\ W = Without(R, {x})
  OBVIOUS
<1>1. /\ R \in [DOMAIN R -> Ctx] /\ LITERAL \notin Block /\ Null \notin Block /\ LITERAL # Null
      /\ {x, y} \subseteq DOMAIN R \cup {Null, LITERAL} /\ (x = y => x \notin Block)
      /\ DOMAIN W = DOMAIN R \ {x} /\ regex # Null /\ Read(g, regex) = g
      /\ DOMAIN R \subseteq Block
  BY RightsAre, ReadIs DEF Calm, Without
<1>2. string = Null => is_taken(g, Null)
  BY UntakenNull
<1>3. ~(string = Null /\ is_taken(g, string)) => string \in DOMAIN R \cup {LITERAL} /\ Read(g, string) = g
  BY <1>2, ReadIs
<1>4. PICK w : /\ o = [w EXCEPT !.h = FreeTaken(FreeTaken(w.h, regex), string)]
               /\ \/ w = [h |-> g, got |-> {}]
                  \/ ~(string = Null /\ is_taken(g, string)) /\ Copied(g, c, string, w)
  BY <1>1, <1>3, StrregCases
<1>5. w = [h |-> w.h, got |-> w.got]
  <2>1. ASSUME Copied(g, c, string, w)
        PROVE  w = [h |-> w.h, got |-> w.got]
    <3>1. \A f, part, lost : \A v \in Copies(f, c, string, part, lost) : v = [h |-> v.h, got |-> v.got]
      BY DEF Copies
    <3> QED
      BY <2>1, <3>1 DEF Copied
  <2> QED
    BY <1>4, <2>1
<1>6. o.h = FreeTaken(FreeTaken(w.h, regex), string) /\ o.got = w.got
  BY <1>4, <1>5
<1>7. \/ Kept(w, R, c, x, y)
      \/ string # Null /\ Kept(w, W, c, LITERAL, y)
  <2>1. CASE w = [h |-> g, got |-> {}]
    <3>1. w.h = g /\ w.got = {} /\ Gain(R, {}, c) = R
      BY <1>1, <2>1 DEF Gain
    <3> QED
      BY <3>1 DEF Kept
  <2>2. CASE ~(string = Null /\ is_taken(g, string)) /\ Copied(g, c, string, w)
    <3>1. string # Null /\ string \in DOMAIN R \cup {LITERAL}
      BY <1>2, <1>3, <2>2
    <3> QED
      BY <2>2, <3>1, CopiedIs
  <2> QED
    BY <1>4, <2>1, <2>2
<1>8. ASSUME Kept(w, R, c, x, y)
      PROVE  w.got \in SUBSET Block /\ Calm(o.h, Gain(U, w.got, c), LITERAL, LITERAL)
  <2>1. w.got \in SUBSET (Block \ DOMAIN R) /\ Calm(w.h, Gain(R, w.got, c), y, x)
    BY <1>8, CalmTurns DEF Kept
  <2>2. Calm(o.h, Without(Gain(R, w.got, c), {y, x}), LITERAL, LITERAL)
    BY <1>6, <2>1, FreeTakenBoth
  <2>3. x \notin w.got /\ y \notin w.got
    BY <1>1, <2>1
  <2>4. Without(Gain(R, w.got, c), {y, x}) = Gain(U, w.got, c)
    BY <2>3 DEF Gain, Without
  <2> QED
    BY <2>1, <2>2, <2>4
<1>9. ASSUME string # Null, Kept(w, W, c, LITERAL, y)
      PROVE  w.got \in SUBSET Block /\ Calm(o.h, Gain(U, w.got, c), LITERAL, LITERAL)
  <2>1. w.got \in SUBSET (Block \ DOMAIN W) /\ Calm(w.h, Gain(W, w.got, c), y, LITERAL)
    BY <1>9, CalmTurns DEF Kept
  <2>2. Passing(regex, y, LITERAL) /\ Passing(string, LITERAL, y)
    BY <1>1, <1>9 DEF Passing
  <2>3. Calm(o.h, Without(Gain(W, w.got, c), {y, LITERAL}), LITERAL, LITERAL)
    BY <1>6, <2>1, <2>2, FreeTakenBoth
  <2>4. y \notin w.got /\ LITERAL \notin w.got /\ LITERAL \notin DOMAIN R
    BY <1>1, <2>1
  <2>5. Without(Gain(W, w.got, c), {y, LITERAL}) = Gain(U, w.got, c)
    BY <2>4 DEF Gain, Without
  <2> QED
    BY <2>1, <2>3, <2>5
<1> QED
  BY <1>6, <1>7, <1>8, <1>9

-----------------------------------------------------------------------------
(* TalStr: what take() adds, and the client's calls.                       *)

LEMMA TakenFew ==
  ASSUME NEW g, NEW R, NEW z, Calm(g, R, LITERAL, z)
  PROVE  Len(g.taken) <= 1 /\ (z = LITERAL => g.taken = << >> /\ g.allocfail = 0)
<1>1. /\ g.taken \in Seq(Ptr) /\ Len(g.taken) \in Nat /\ Len(g.taken) <= 2 /\ g.allocfail \in Nat
      /\ Times(g, LITERAL) = 0
      /\ \A q \in Block \cup {Null} : Times(g, q) = (IF q = LITERAL THEN 1 ELSE 0) + (IF q = z THEN 1 ELSE 0)
  BY DEF Calm, Owes, Heap
<1>2. LITERAL \notin Block /\ LITERAL # Null /\ Null \notin Block
  BY StringAssumption, BlockAssumption
<1>3. \A q \in Ptr : Times(g, q) = IF q = z /\ z # LITERAL THEN 1 ELSE 0
  BY <1>1, <1>2 DEF Ptr
<1>4. PICK s, n, m : s = g.taken /\ n = Len(s) /\ m = g.allocfail
  OBVIOUS
<1>5. s \in Seq(Ptr) /\ n \in Nat /\ n <= 2 /\ m \in Nat
  BY <1>1, <1>4, Zenon
<1> DEFINE one(q) == IF n >= 1 /\ s[1] = q THEN 1 ELSE 0
           two(q) == IF n >= 2 /\ s[2] = q THEN 1 ELSE 0
           none(q) == IF q = Null THEN m ELSE 0
<1>6. \A q : Times(g, q) = one(q) + two(q) + none(q)
  BY <1>4 DEF Times
<1>7. \A q : one(q) \in {0, 1} /\ two(q) \in {0, 1} /\ none(q) \in Nat
  BY <1>5
<1>8. \A i \in 1 .. n : s[i] \in Ptr
  BY <1>4, <1>5
<1>9. ~(n = 2)
  <2> SUFFICES ASSUME n = 2
               PROVE  FALSE
    OBVIOUS
  <2>1. s[1] \in Ptr /\ s[2] \in Ptr /\ one(s[1]) = 1 /\ two(s[2]) = 1
    BY <1>8
  <2> HIDE DEF one, two, none
  <2>2. Times(g, s[1]) >= 1 /\ Times(g, s[2]) >= 1
    BY <1>6, <1>7, <2>1
  <2>3. s[1] = z /\ s[2] = z /\ Times(g, z) = 1
    BY <1>3, <2>1, <2>2
  <2>4. one(z) = 1 /\ two(z) = 1
    BY <2>1, <2>3
  <2> QED
    BY <1>6, <1>7, <2>3, <2>4
<1>10. ASSUME z = LITERAL
       PROVE  n = 0 /\ m = 0
  <2>1. \A q \in Ptr : Times(g, q) = 0
    BY <1>3, <1>10
  <2>2. m = 0
    <3>1. none(Null) = m /\ Null \in Ptr
      BY DEF Ptr
    <3> HIDE DEF one, two, none
    <3> QED
      BY <1>6, <1>7, <2>1, <3>1
  <2>3. ASSUME n >= 1
        PROVE  FALSE
    <3>1. s[1] \in Ptr /\ one(s[1]) = 1
      BY <1>5, <1>8, <2>3
    <3> HIDE DEF one, two, none
    <3> QED
      BY <1>6, <1>7, <2>1, <3>1
  <2> QED
    BY <1>5, <2>2, <2>3
<1>11. n <= 1
  BY <1>5, <1>9
<1>12. n = 0 => s = << >>
  BY <1>4, <1>5, EmptySeq
<1> QED
  BY <1>4, <1>10, <1>11, <1>12

LEMMA GivesIs ==
  ASSUME NEW g, NEW R, NEW z, Calm(g, R, LITERAL, z), NEW p \in DOMAIN R \cup {Null},
         p \in Block => p # z, NEW o \in take_(g, p)
  PROVE  \/ o.p = p /\ Calm(o.h, R, p, z)
         \/ o.p = Null /\ Calm(o.h, Without(R, {p}), Null, z)
<1>1. /\ LITERAL \notin Block /\ LITERAL # Null /\ Null \notin Block /\ DOMAIN R \subseteq Block
      /\ z \in DOMAIN R \cup {Null, LITERAL}
  BY RightsAre DEF Calm
<1>2. /\ g \in Heap /\ g.taken \in Seq(Ptr) /\ Len(g.taken) \in Nat /\ Len(g.taken) <= 1
      /\ g.max_taken \in Nat /\ g.allocfail \in Nat
      /\ Times(g, LITERAL) = 0 /\ p # LITERAL /\ p \in Ptr
      /\ \A q \in Block \cup {Null} : Times(g, q) = (IF q = z THEN 1 ELSE 0)
  BY <1>1, TakenFew DEF Calm, Owes, Heap, Ptr
<1>3. PICK max \in Nat :
        \/ o = [h |-> [g EXCEPT !.taken = Append(g.taken, p), !.max_taken = max], p |-> p]
        \/ o = [h |-> [tal_free(g, p) EXCEPT !.allocfail = @ + 1], p |-> Null]
  <2>1. PICK m : m = IF Len(g.taken) = g.max_taken THEN g.max_taken + 1 ELSE g.max_taken
    OBVIOUS
  <2>2. m \in Nat
    BY <1>2, <2>1
  <2>3. \/ o = [h |-> [g EXCEPT !.taken = Append(g.taken, p), !.max_taken = m], p |-> p]
        \/ o = [h |-> [tal_free(g, p) EXCEPT !.allocfail = @ + 1], p |-> Null]
    BY <2>1, Zenon DEF take_
  <2> QED
    BY <2>2, <2>3
<1>4. ASSUME o = [h |-> [g EXCEPT !.taken = Append(g.taken, p), !.max_taken = max], p |-> p]
      PROVE  o.p = p /\ Calm(o.h, R, p, z)
  <2>1. PICK s, n, r, u : /\ s = g.taken /\ n = Len(s) /\ r = Append(s, p) /\ u = o.h
    OBVIOUS
  <2>2. s \in Seq(Ptr) /\ n \in Nat /\ n <= 1 /\ n = Len(s)
    BY <1>2, <2>1, Zenon
  <2>3. r \in Seq(Ptr) /\ Len(r) = n + 1 /\ r[n + 1] = p /\ (n = 1 => r[1] = s[1])
    BY <1>2, <2>1, <2>2
  <2>4. u = [g EXCEPT !.taken = r, !.max_taken = max]
    BY <1>4, <2>1
  <2>5. /\ u \in Heap /\ u.own = g.own /\ u.fault = g.fault /\ u.taken = r /\ u.allocfail = g.allocfail
    BY <1>2, <2>3, <2>4 DEF Heap
  <2>6. ASSUME NEW q
        PROVE  Times(u, q) = Times(g, q) + (IF q = p THEN 1 ELSE 0)
    <3>1. PICK m : m = (IF q = Null THEN g.allocfail ELSE 0)
      OBVIOUS
    <3>2. m \in Nat
      BY <1>2, <3>1
    <3>3. Times(g, q) = (IF n >= 1 /\ s[1] = q THEN 1 ELSE 0) + (IF n >= 2 /\ s[2] = q THEN 1 ELSE 0) + m
      BY <2>1, <3>1 DEF Times
    <3>4. Times(u, q) = (IF Len(r) >= 1 /\ r[1] = q THEN 1 ELSE 0) + (IF Len(r) >= 2 /\ r[2] = q THEN 1 ELSE 0) + m
      BY <2>5, <3>1 DEF Times
    <3>5. n = 0 \/ n = 1
      BY <2>2
    <3>6. CASE n = 0
      <4>1. Times(g, q) = 0 + 0 + m
        BY <3>3, <3>6
      <4>2. Len(r) = 1 /\ r[1] = p
        BY <2>3, <3>6
      <4>3. Times(u, q) = (IF p = q THEN 1 ELSE 0) + 0 + m
        BY <3>4, <4>2
      <4> QED
        BY <3>2, <4>1, <4>3
    <3>7. CASE n = 1
      <4>1. Times(g, q) = (IF s[1] = q THEN 1 ELSE 0) + 0 + m
        BY <3>3, <3>7
      <4>2. Len(r) = 2 /\ r[1] = s[1] /\ r[2] = p
        BY <2>3, <3>7
      <4>3. Times(u, q) = (IF s[1] = q THEN 1 ELSE 0) + (IF p = q THEN 1 ELSE 0) + m
        BY <3>4, <4>2
      <4> QED
        BY <3>2, <4>1, <4>3
    <3> QED
      BY <3>5, <3>6, <3>7
  <2>7. Len(u.taken) <= 2
    BY <2>2, <2>3, <2>5
  <2>8. Owes(u, p, z)
    <3>1. Times(u, LITERAL) = 0
      BY <1>2, <2>6
    <3>2. ASSUME NEW q \in Block \cup {Null}
          PROVE  Times(u, q) = (IF q = p THEN 1 ELSE 0) + (IF q = z THEN 1 ELSE 0)
      <4>1. Times(u, q) = (IF q = z THEN 1 ELSE 0) + (IF q = p THEN 1 ELSE 0)
        BY <1>2, <2>6
      <4> QED
        BY <4>1
    <3> QED
      BY <2>7, <3>1, <3>2 DEF Owes
  <2>9. Forest(u.own, R) /\ ~u.fault /\ {p, z} \subseteq DOMAIN R \cup {Null, LITERAL}
        /\ (p = z => p \notin Block)
    BY <1>1, <2>5 DEF Calm
  <2>10. o.p = p
    BY <1>4
  <2> QED
    BY <2>1, <2>5, <2>8, <2>9, <2>10 DEF Calm
<1>5. ASSUME o = [h |-> [tal_free(g, p) EXCEPT !.allocfail = @ + 1], p |-> Null]
      PROVE  o.p = Null /\ Calm(o.h, Without(R, {p}), Null, z)
  <2>1. PICK f, u, Q : f = tal_free(g, p) /\ u = o.h /\ Q = Without(R, {p})
    OBVIOUS
  <2>2. Calm(f, Q, LITERAL, z)
    BY <1>1, <2>1, FreeIs
  <2>3. u = [f EXCEPT !.allocfail = f.allocfail + 1] /\ o.p = Null
    BY <1>5, <2>1
  <2>4. f \in Heap /\ f.allocfail \in Nat
    BY <2>2 DEF Calm, Heap
  <2>5. PICK m \in Nat : m = f.allocfail + 1
    BY <2>4
  <2>6. u \in Heap /\ u.own = f.own /\ u.fault = f.fault /\ u.taken = f.taken /\ u.allocfail = m
    BY <2>3, <2>4, <2>5 DEF Heap
  <2>7. ASSUME NEW q
        PROVE  Times(u, q) = Times(f, q) + (IF q = Null THEN 1 ELSE 0)
    <3>1. PICK a, b : /\ a = (IF Len(f.taken) >= 1 /\ f.taken[1] = q THEN 1 ELSE 0)
                      /\ b = (IF Len(f.taken) >= 2 /\ f.taken[2] = q THEN 1 ELSE 0)
      OBVIOUS
    <3>2. a \in {0, 1} /\ b \in {0, 1}
      BY <3>1
    <3>3. Times(u, q) = a + b + (IF q = Null THEN m ELSE 0) /\ Times(f, q) = a + b + (IF q = Null THEN f.allocfail ELSE 0)
      BY <2>6, <3>1 DEF Times
    <3> QED
      BY <2>4, <2>5, <3>2, <3>3
  <2>8. Owes(u, Null, z)
    <3>1. Times(u, LITERAL) = 0
      BY <1>1, <2>2, <2>7 DEF Calm, Owes
    <3>2. ASSUME NEW q \in Block \cup {Null}
          PROVE  Times(u, q) = (IF q = Null THEN 1 ELSE 0) + (IF q = z THEN 1 ELSE 0)
      <4>1. Times(f, q) = (IF q = LITERAL THEN 1 ELSE 0) + (IF q = z THEN 1 ELSE 0) /\ q # LITERAL
        BY <1>1, <2>2 DEF Calm, Owes
      <4>2. Times(u, q) = Times(f, q) + (IF q = Null THEN 1 ELSE 0)
        BY <2>7
      <4> QED
        BY <4>1, <4>2
    <3> QED
      BY <2>2, <2>6, <3>1, <3>2 DEF Calm, Owes
  <2> QED
    BY <1>1, <2>1, <2>2, <2>3, <2>6, <2>8 DEF Calm
<1> QED
  BY <1>3, <1>4, <1>5

(* An argument that is passed: what the client owns then, and what waits.  *)
Arrives(R, a, Q, x, p) ==
  \/ ~a.given /\ Q = R /\ x = LITERAL /\ p = a.p /\ p \in DOMAIN R \cup {LITERAL}
  \/ a.given /\ Q = R /\ x = a.p /\ p = a.p /\ p \in DOMAIN R \cup {Null}
  \/ a.given /\ Q = Without(R, {a.p}) /\ x = Null /\ p = Null

LEMMA PassedIs ==
  ASSUME NEW g, NEW R, NEW z, Calm(g, R, LITERAL, z), NEW a,
         a.p \in DOMAIN R \cup (IF a.given THEN {Null} ELSE {LITERAL}), a.p \in Block => a.p # z,
         NEW o \in Passed(g, a)
  PROVE  \E Q, x : Calm(o.h, Q, x, z) /\ Passing(o.p, x, z) /\ Arrives(R, a, Q, x, o.p)
<1>1. DOMAIN R \subseteq Block /\ LITERAL \notin Block /\ Null \notin Block /\ LITERAL # Null
  BY RightsAre
<1>2. CASE ~a.given
  <2>1. o.h = g /\ o.p = a.p /\ a.p \in DOMAIN R \cup {LITERAL}
    BY <1>2 DEF Passed
  <2>2. Passing(a.p, LITERAL, z)
    BY <1>1, <2>1 DEF Passing, Ptr
  <2> QED
    BY <1>2, <2>1, <2>2 DEF Arrives
<1>3. CASE a.given
  <2>1. PICK p : p = a.p /\ p \in DOMAIN R \cup {Null} /\ (p \in Block => p # z) /\ o \in take_(g, p)
    BY <1>3 DEF Passed
  <2>2. CASE o.p = p /\ Calm(o.h, R, p, z)
    <3>1. Passing(p, p, z)
      BY <1>1, <2>1 DEF Passing, Ptr
    <3> QED
      BY <1>3, <2>1, <2>2, <3>1 DEF Arrives
  <2>3. CASE o.p = Null /\ Calm(o.h, Without(R, {p}), Null, z)
    <3>1. Passing(Null, Null, z)
      BY <1>1 DEF Passing, Ptr
    <3> QED
      BY <1>3, <2>1, <2>3, <3>1 DEF Arrives
  <2> QED
    BY <2>1, <2>2, <2>3, GivesIs
<1> QED
  BY <1>2, <1>3

LEMMA GivenIs ==
  ASSUME NEW R, NEW a, NEW Q, NEW x, NEW p, Arrives(R, a, Q, x, p),
         LITERAL \notin DOMAIN R, Null \notin DOMAIN R
  PROVE  /\ DOMAIN Q \subseteq DOMAIN R /\ DOMAIN R \ {a.p} \subseteq DOMAIN Q
         /\ p \in DOMAIN Q \cup {Null, LITERAL} /\ p \in {a.p, Null} /\ x \in {a.p, Null, LITERAL}
         /\ Without(Q, {x}) = Without(R, Given({a}))
<1>1. Given({a}) = IF a.given THEN {a.p} ELSE {}
  BY DEF Given
<1>2. CASE ~a.given /\ Q = R /\ x = LITERAL /\ p = a.p /\ p \in DOMAIN R \cup {LITERAL}
  <2>1. Without(R, {LITERAL}) = Without(R, {})
    BY DEF Without
  <2> QED
    BY <1>1, <1>2, <2>1
<1>3. CASE a.given /\ Q = R /\ x = a.p /\ p = a.p /\ p \in DOMAIN R \cup {Null}
  BY <1>1, <1>3
<1>4. CASE a.given /\ Q = Without(R, {a.p}) /\ x = Null /\ p = Null
  <2>1. Without(Q, {Null}) = Q
    BY <1>4 DEF Without
  <2>2. DOMAIN Q = DOMAIN R \ {a.p}
    BY <1>4, DomainsAre
  <2> QED
    BY <1>1, <1>4, <2>1, <2>2
<1> QED
  BY <1>2, <1>3, <1>4 DEF Arrives

StrInv == Calm(mem, known, LITERAL, LITERAL)

LEMMA ReturnedKept ==
  ASSUME NEW o, NEW got, NEW args, NEW ctx, Returned(o, got, args, ctx),
         Calm(o.h, Gain(Without(known, Given(args)), got, ctx), LITERAL, LITERAL)
  PROVE  StrInv'
<1>1. known' = Gain(Without(known, Given(args)), got, ctx)
  BY DEF Returned, Gain, Without
<1>2. mem' = o.h
  BY DEF Returned
<1> QED
  BY <1>1, <1>2 DEF StrInv

LEMMA ReturnedNew ==
  ASSUME StrInv, NEW o, NEW args, NEW ctx \in Ctx, Returned(o, New(o), args, ctx),
         Left(o, Without(known, Given(args)), ctx, LITERAL, LITERAL)
  PROVE  StrInv'
<1> PICK W : W = Without(known, Given(args))
  OBVIOUS
<1>1. W \in [DOMAIN W -> Ctx]
  <2>1. known \in [DOMAIN known -> Ctx]
    BY RightsAre DEF StrInv
  <2> QED
    BY <2>1 DEF Without
<1>2. PICK v : v = [h |-> o.h, got |-> {o.p} \ {Null}]
  OBVIOUS
<1>3. v.h = o.h /\ v.got = New(o)
  BY <1>2 DEF New
<1>4. Kept(v, W, ctx, LITERAL, LITERAL)
  BY <1>1, <1>2, KeptIs
<1> QED
  BY <1>3, <1>4, ReturnedKept DEF Kept

LEMMA ArgumentIs ==
  ASSUME NEW a \in Argument
  PROVE  /\ a.p \in DOMAIN known \cup (IF a.given THEN {Null} ELSE {LITERAL})
         /\ a.given \in BOOLEAN
<1>1. CASE a \in {[p |-> b, given |-> FALSE] : b \in DOMAIN known \cup {LITERAL}}
  <2>1. ~a.given /\ a.given = FALSE /\ a.p \in DOMAIN known \cup {LITERAL}
    BY <1>1
  <2> QED
    BY <2>1
<1>2. CASE a \in {[p |-> b, given |-> TRUE] : b \in DOMAIN known \cup {Null}}
  <2>1. a.given /\ a.given = TRUE /\ a.p \in DOMAIN known \cup {Null}
    BY <1>2
  <2> QED
    BY <2>1
<1> QED
  BY <1>1, <1>2 DEF Argument

(* What one argument given leaves *)
LEMMA OneArgument ==
  ASSUME StrInv, NEW a \in Argument, NEW o \in Passed(mem, a)
  PROVE  \E Q, x : /\ Calm(o.h, Q, x, LITERAL) /\ Passing(o.p, x, LITERAL)
                   /\ o.p \in DOMAIN Q \cup {Null, LITERAL} /\ Arrives(known, a, Q, x, o.p)
                   /\ Without(Q, {x}) = Without(known, Given({a}))
                   /\ DOMAIN Q \subseteq DOMAIN known /\ DOMAIN known \ {a.p} \subseteq DOMAIN Q
                   /\ o.p \in {a.p, Null} /\ x \in {a.p, Null, LITERAL}
<1>1. DOMAIN known \subseteq Block /\ LITERAL \notin Block /\ Null \notin Block
  BY RightsAre DEF StrInv
<1>2. PICK Q, x : Calm(o.h, Q, x, LITERAL) /\ Passing(o.p, x, LITERAL) /\ Arrives(known, a, Q, x, o.p)
  BY <1>1, ArgumentIs, PassedIs DEF StrInv
<1>3. LITERAL \notin DOMAIN known /\ Null \notin DOMAIN known
  BY <1>1
<1>4. /\ DOMAIN Q \subseteq DOMAIN known /\ DOMAIN known \ {a.p} \subseteq DOMAIN Q
      /\ o.p \in DOMAIN Q \cup {Null, LITERAL} /\ o.p \in {a.p, Null} /\ x \in {a.p, Null, LITERAL}
      /\ Without(Q, {x}) = Without(known, Given({a}))
  BY <1>2, <1>3, GivenIs
<1> QED
  BY <1>2, <1>4

LEMMA AllocKeeps ==
  ASSUME StrInv, NEW ctx \in Ctx, Alloc(ctx)
  PROVE  StrInv'
<1>1. PICK o \in alloc(mem, ctx) : Returned(o, New(o), {}, ctx)
  BY DEF Alloc
<1>2. Left(o, known, ctx, LITERAL, LITERAL)
  BY AllocIs DEF StrInv
<1>3. Without(known, Given({})) = known
  <2>1. known \in [DOMAIN known -> Ctx] /\ Given({}) = {}
    BY RightsAre DEF StrInv, Given
  <2> QED
    BY <2>1, WithoutNone
<1> QED
  BY <1>1, <1>2, <1>3, ReturnedNew

LEMMA DupKeeps ==
  ASSUME StrInv, NEW ctx \in Ctx, NEW a \in Argument, Dup(ctx, a)
  PROVE  StrInv'
<1>1. PICK g \in Passed(mem, a) : \E o \in tal_dup_(g.h, ctx, g.p) : Returned(o, New(o), {a}, ctx)
  BY DEF Dup, tal_strdup, tal_strndup
<1>2. PICK o \in tal_dup_(g.h, ctx, g.p) : Returned(o, New(o), {a}, ctx)
  BY <1>1
<1>3. PICK Q, x : /\ Calm(g.h, Q, x, LITERAL) /\ Passing(g.p, x, LITERAL)
                  /\ g.p \in DOMAIN Q \cup {Null, LITERAL}
                  /\ Without(Q, {x}) = Without(known, Given({a}))
  BY OneArgument
<1>4. Left(o, Without(Q, {x}), ctx, LITERAL, LITERAL)
  BY <1>3, DupIs
<1> QED
  BY <1>2, <1>3, <1>4, ReturnedNew

LEMMA FmtKeeps ==
  ASSUME Careless = {}, StrInv, NEW ctx \in Ctx, NEW a \in Argument, Fmt(ctx, a)
  PROVE  StrInv'
<1>1. PICK g \in Passed(mem, a) : \E o \in tal_vfmt(g.h, ctx, g.p) : Returned(o, New(o), {a}, ctx)
  BY DEF Fmt
<1>2. PICK o \in tal_vfmt(g.h, ctx, g.p) : Returned(o, New(o), {a}, ctx)
  BY <1>1
<1>3. PICK Q, x : /\ Calm(g.h, Q, x, LITERAL) /\ Passing(g.p, x, LITERAL)
                  /\ g.p \in DOMAIN Q \cup {Null, LITERAL}
                  /\ Without(Q, {x}) = Without(known, Given({a}))
  BY OneArgument
<1>4. Left(o, Without(Q, {x}), ctx, LITERAL, LITERAL)
  BY <1>3, VfmtIs
<1> QED
  BY <1>2, <1>3, <1>4, ReturnedNew

LEMMA GrowKeeps ==
  ASSUME StrInv, NEW base \in DOMAIN known, NEW a \in Argument, a.p # base, Grow(base, a)
  PROVE  StrInv'
<1>1. PICK g \in Passed(mem, a) :
        \E o \in tal_append_vfmt(g.h, base, g.p)
                 \cup (IF g.p # Null THEN tal_expand_(g.h, base, g.p) ELSE {}) :
          /\ mem' = o.h
          /\ known' = [b \in (DOMAIN known \ (Given({a}) \cup {base})) \cup {o.p} |->
                         IF b = o.p THEN known[base] ELSE known[b]]
  BY DEF Grow
<1>2. PICK o \in tal_append_vfmt(g.h, base, g.p)
                 \cup (IF g.p # Null THEN tal_expand_(g.h, base, g.p) ELSE {}) :
          /\ mem' = o.h
          /\ known' = [b \in (DOMAIN known \ (Given({a}) \cup {base})) \cup {o.p} |->
                         IF b = o.p THEN known[base] ELSE known[b]]
  BY <1>1
<1>3. PICK Q, x : /\ Calm(g.h, Q, x, LITERAL) /\ Passing(g.p, x, LITERAL)
                  /\ g.p \in DOMAIN Q \cup {Null, LITERAL} /\ Arrives(known, a, Q, x, g.p)
                  /\ Without(Q, {x}) = Without(known, Given({a}))
                  /\ DOMAIN Q \subseteq DOMAIN known /\ DOMAIN known \ {a.p} \subseteq DOMAIN Q
                  /\ g.p \in {a.p, Null} /\ x \in {a.p, Null, LITERAL}
  BY OneArgument
<1>4. /\ DOMAIN known \subseteq Block /\ LITERAL \notin Block /\ Null \notin Block
      /\ x \in DOMAIN Q \cup {Null, LITERAL}
  BY <1>3, RightsAre DEF StrInv, Calm
<1>5. base \in DOMAIN Q /\ base \notin {x, LITERAL} /\ g.p # base
  BY <1>3, <1>4
<1>6. Grew(o, Q, base, x, LITERAL)
  <2>1. CASE o \in tal_append_vfmt(g.h, base, g.p)
    BY <1>3, <1>5, <2>1, AppendIs
  <2>2. CASE g.p # Null /\ o \in tal_expand_(g.h, base, g.p)
    BY <1>3, <1>5, <2>2, ExpandIs
  <2> QED
    BY <1>2, <2>1, <2>2
<1>7. PICK q : q = o.p
  OBVIOUS
<1>8. q \in Block \ (DOMAIN Q \ {base}) /\ Calm(mem', Without(Moved(Q, base, q), {x}), LITERAL, LITERAL)
  BY <1>2, <1>6, <1>7 DEF Grew
<1>9. q # x
  BY <1>4, <1>5, <1>8
<1>10. PICK D : D = Given({a})
  OBVIOUS
<1>11. DOMAIN Q \ {x} = DOMAIN known \ D /\ \A b \in DOMAIN Q \ {x} : Q[b] = known[b]
  <2>1. /\ DOMAIN Without(Q, {x}) = DOMAIN Q \ {x} /\ DOMAIN Without(known, D) = DOMAIN known \ D
        /\ \A b \in DOMAIN Q \ {x} : Without(Q, {x})[b] = Q[b]
        /\ \A b \in DOMAIN known \ D : Without(known, D)[b] = known[b]
    BY DEF Without
  <2> QED
    BY <1>3, <1>10, <2>1
<1>12. known' = [b \in (DOMAIN known \ (D \cup {base})) \cup {q} |->
                   IF b = q THEN known[base] ELSE known[b]]
  BY <1>2, <1>7, <1>10
<1>13. known' = Without(Moved(Q, base, q), {x})
  BY <1>5, <1>8, <1>9, <1>11, <1>12 DEF Moved, Gain, Without
<1> QED
  BY <1>8, <1>13 DEF StrInv

LEMMA TwoArguments ==
  ASSUME StrInv, NEW a \in Argument, NEW b \in Argument, a.p = b.p => a.p \notin Block,
         NEW u \in Passed(mem, a), NEW v \in Passed(u.h, b)
  PROVE  \E R, x, y : /\ Calm(v.h, R, x, y) /\ Passing(u.p, x, y) /\ Passing(v.p, y, x)
                      /\ u.p \in DOMAIN R \cup {Null, LITERAL} /\ v.p \in DOMAIN R \cup {Null, LITERAL}
                      /\ Without(R, {x, y}) = Without(known, Given({a, b}))
<1>1. PICK Q, x : /\ Calm(u.h, Q, x, LITERAL) /\ Passing(u.p, x, LITERAL)
                  /\ u.p \in DOMAIN Q \cup {Null, LITERAL}
                  /\ Without(Q, {x}) = Without(known, Given({a}))
                  /\ DOMAIN known \ {a.p} \subseteq DOMAIN Q
                  /\ u.p \in {a.p, Null} /\ x \in {a.p, Null, LITERAL}
  BY OneArgument
<1>2. Calm(u.h, Q, LITERAL, x)
  BY <1>1, CalmTurns
<1>3. /\ DOMAIN known \subseteq Block /\ LITERAL \notin Block /\ Null \notin Block /\ LITERAL # Null
      /\ LITERAL \notin DOMAIN Q /\ Null \notin DOMAIN Q /\ DOMAIN Q \subseteq Block
  <2>1. DOMAIN known \subseteq Block /\ LITERAL \notin Block /\ Null \notin Block /\ LITERAL # Null
    BY RightsAre DEF StrInv
  <2>2. DOMAIN Q \subseteq Block
    BY <1>1, RightsAre
  <2> QED
    BY <2>1, <2>2
<1>4. /\ b.p \in DOMAIN Q \cup (IF b.given THEN {Null} ELSE {LITERAL})
      /\ b.p \in Block => b.p # x
  <2>1. b.p \in DOMAIN known \cup (IF b.given THEN {Null} ELSE {LITERAL})
    BY ArgumentIs
  <2>2. b.p \in DOMAIN known => b.p \in DOMAIN Q
    BY <1>1, <1>3
  <2>3. b.p \in Block => b.p # x
    BY <1>1, <1>3
  <2> QED
    BY <2>1, <2>2, <2>3
<1>5. PICK R, y : Calm(v.h, R, y, x) /\ Passing(v.p, y, x) /\ Arrives(Q, b, R, y, v.p)
  BY <1>2, <1>4, PassedIs
<1>6. /\ DOMAIN Q \ {b.p} \subseteq DOMAIN R /\ v.p \in DOMAIN R \cup {Null, LITERAL}
      /\ y \in {b.p, Null, LITERAL}
      /\ Without(R, {y}) = Without(Q, Given({b}))
  BY <1>3, <1>5, GivenIs
<1>7. Calm(v.h, R, x, y)
  BY <1>5, CalmTurns
<1>8. Passing(u.p, x, y) /\ u.p \in DOMAIN R \cup {Null, LITERAL}
  <2>1. u.p \in Block => u.p # b.p /\ u.p # y
    BY <1>1, <1>3, <1>6
  <2> QED
    BY <1>1, <1>3, <1>6, <2>1 DEF Passing
<1>9. Without(R, {x, y}) = Without(known, Given({a, b}))
  <2>1. PICK A, B : A = Given({a}) /\ B = Given({b})
    OBVIOUS
  <2>2. Given({a, b}) = A \cup B
    BY <2>1 DEF Given
  <2>3. Without(R, {x, y}) = Without(Without(R, {y}), {x})
    BY DEF Without
  <2>4. Without(Without(Q, B), {x}) = Without(Without(Q, {x}), B)
    BY DEF Without
  <2>5. Without(Without(known, A), B) = Without(known, A \cup B)
    BY DEF Without
  <2> QED
    BY <1>1, <1>6, <2>1, <2>2, <2>3, <2>4, <2>5
<1> QED
  BY <1>5, <1>6, <1>7, <1>8, <1>9

LEMMA PairKeeps ==
  ASSUME StrInv, NEW ctx \in Ctx, NEW a \in Argument, NEW b \in Argument,
         a.p = b.p => a.p \notin Block, Pair(ctx, a, b)
  PROVE  StrInv'
<1>1. PICK u \in Passed(mem, a) : \E v \in Passed(u.h, b) :
        \E o \in tal_strcat(v.h, ctx, u.p, v.p) \cup tal_strsplit(v.h, ctx, u.p, v.p)
                 \cup tal_strjoin(v.h, ctx, u.p, v.p) :
          Returned(o, New(o), {a, b}, ctx)
  BY DEF Pair
<1>2. PICK v \in Passed(u.h, b) :
        \E o \in tal_strcat(v.h, ctx, u.p, v.p) \cup tal_strsplit(v.h, ctx, u.p, v.p)
                 \cup tal_strjoin(v.h, ctx, u.p, v.p) :
          Returned(o, New(o), {a, b}, ctx)
  BY <1>1
<1>3. PICK o \in tal_strcat(v.h, ctx, u.p, v.p) \cup tal_strsplit(v.h, ctx, u.p, v.p)
                 \cup tal_strjoin(v.h, ctx, u.p, v.p) :
        Returned(o, New(o), {a, b}, ctx)
  BY <1>2
<1>4. PICK R, x, y : /\ Calm(v.h, R, x, y) /\ Passing(u.p, x, y) /\ Passing(v.p, y, x)
                     /\ u.p \in DOMAIN R \cup {Null, LITERAL} /\ v.p \in DOMAIN R \cup {Null, LITERAL}
                     /\ Without(R, {x, y}) = Without(known, Given({a, b}))
  BY TwoArguments
<1>5. Left(o, Without(R, {x, y}), ctx, LITERAL, LITERAL)
  BY <1>3, <1>4, StrcatIs, StrsplitIs, StrjoinIs
<1>6. Left(o, Without(known, Given({a, b})), ctx, LITERAL, LITERAL)
  BY <1>4, <1>5
<1> QED
  BY <1>3, <1>6, ReturnedNew

LEMMA MatchKeeps ==
  ASSUME Careless = {}, StrInv, NEW ctx \in Ctx, NEW a \in Argument, NEW b \in Argument,
         a.p = b.p => a.p \notin Block, Match(ctx, a, b)
  PROVE  StrInv'
<1>1. PICK u \in Passed(mem, a) : \E v \in Passed(u.h, b) :
        /\ v.p # Null
        /\ \E o \in tal_strreg(v.h, ctx, u.p, v.p) : Returned(o, o.got, {a, b}, ctx)
  BY DEF Match
<1>2. PICK v \in Passed(u.h, b) :
        /\ v.p # Null
        /\ \E o \in tal_strreg(v.h, ctx, u.p, v.p) : Returned(o, o.got, {a, b}, ctx)
  BY <1>1
<1>3. PICK o \in tal_strreg(v.h, ctx, u.p, v.p) : Returned(o, o.got, {a, b}, ctx)
  BY <1>2
<1>4. PICK R, x, y : /\ Calm(v.h, R, x, y) /\ Passing(u.p, x, y) /\ Passing(v.p, y, x)
                     /\ u.p \in DOMAIN R \cup {Null, LITERAL} /\ v.p \in DOMAIN R \cup {Null, LITERAL}
                     /\ Without(R, {x, y}) = Without(known, Given({a, b}))
  BY TwoArguments
<1>5. Calm(o.h, Gain(Without(R, {x, y}), o.got, ctx), LITERAL, LITERAL)
  BY <1>2, <1>3, <1>4, StrregIs
<1>6. Calm(o.h, Gain(Without(known, Given({a, b})), o.got, ctx), LITERAL, LITERAL)
  BY <1>4, <1>5
<1> QED
  BY <1>3, <1>6, ReturnedKept

LEMMA ReleaseKeeps ==
  ASSUME StrInv, NEW p \in DOMAIN known, Release(p)
  PROVE  StrInv'
<1>1. PICK g : g = tal_free(mem, p)
  OBVIOUS
<1>2. Returned(Nil(g), {}, {[p |-> p, given |-> TRUE]}, Null)
  BY <1>1 DEF Release
<1>3. p \notin {LITERAL}
  BY RightsAre DEF StrInv
<1>4. Calm(g, Without(known, {p}), LITERAL, LITERAL)
  BY <1>1, <1>3, FreeIs DEF StrInv
<1>5. Given({[p |-> p, given |-> TRUE]}) = {p}
  <2>1. PICK a : a = [p |-> p, given |-> TRUE]
    OBVIOUS
  <2>2. a.p = p /\ a.given
    BY <2>1
  <2>3. Given({a}) = {p}
    BY <2>2 DEF Given
  <2> QED
    BY <2>1, <2>3
<1>6. Gain(Without(known, {p}), {}, Null) = Without(known, {p})
  BY DEF Gain, Without
<1>7. Nil(g).h = g
  BY DEF Nil
<1> QED
  BY <1>2, <1>4, <1>5, <1>6, <1>7, ReturnedKept

LEMMA CleanupKeeps ==
  ASSUME StrInv, Cleanup
  PROVE  StrInv'
<1>1. mem' = [mem EXCEPT !.taken = << >>, !.max_taken = 0] /\ known' = known
  BY DEF Cleanup, take_cleanup
<1>2. mem.taken = << >> /\ mem \in Heap
  BY TakenFew DEF StrInv, Calm
<1>3. /\ mem' \in Heap /\ mem'.own = mem.own /\ mem'.taken = mem.taken
      /\ mem'.allocfail = mem.allocfail /\ mem'.fault = mem.fault
  BY <1>1, <1>2 DEF Heap
<1>4. \A q : Times(mem', q) = Times(mem, q)
  BY <1>3 DEF Times
<1> QED
  BY <1>1, <1>3, <1>4 DEF StrInv, Calm, Owes

LEMMA StrStart ==
  ASSUME StrInit
  PROVE  StrInv
<1>1. << >> \in Owners /\ << >> \in Rights /\ DOMAIN << >> = {}
  <2>1. DOMAIN << >> = {}
    OBVIOUS
  <2>2. << >> \in [{} -> Ctx \cup Block] /\ << >> \in [{} -> Ctx]
    OBVIOUS
  <2>3. {} \in SUBSET Block
    OBVIOUS
  <2>4. << >> \in Owners
    BY <2>2, <2>3, Zenon DEF Owners
  <2>5. << >> \in Rights
    BY <2>2, <2>3, Zenon DEF Rights
  <2> QED
    BY <2>1, <2>4, <2>5
<1>2. /\ mem \in Heap /\ mem.own = << >> /\ mem.taken = << >> /\ mem.allocfail = 0 /\ ~mem.fault
      /\ known = << >>
  BY <1>1 DEF StrInit, Heap
<1>3. Forest(mem.own, known)
  BY <1>1, <1>2 DEF Forest, Covers
<1>4. \A q : Times(mem, q) = 0
  BY <1>2 DEF Times
<1> QED
  BY <1>2, <1>3, <1>4, StringAssumption DEF StrInv, Calm, Owes

LEMMA StrStep ==
  ASSUME Careless = {}, StrInv, [StrNext]_strVars
  PROVE  StrInv'
<1>1. CASE UNCHANGED strVars
  BY <1>1 DEF strVars, StrInv, Calm, Owes, Times, Forest, Covers, Owned
<1>2. ASSUME NEW ctx \in Ctx, Alloc(ctx)
      PROVE  StrInv'
  BY <1>2, AllocKeeps
<1>3. ASSUME NEW ctx \in Ctx, NEW a \in Argument, Dup(ctx, a) \/ Fmt(ctx, a)
      PROVE  StrInv'
  BY <1>3, DupKeeps, FmtKeeps
<1>4. ASSUME NEW ctx \in Ctx, NEW a \in Argument, NEW b \in Argument,
             a.p = b.p => a.p \notin Block, Pair(ctx, a, b) \/ Match(ctx, a, b)
      PROVE  StrInv'
  BY <1>4, PairKeeps, MatchKeeps
<1>5. ASSUME NEW base \in DOMAIN known, NEW a \in Argument, a.p # base, Grow(base, a)
      PROVE  StrInv'
  BY <1>5, GrowKeeps
<1>6. ASSUME NEW p \in DOMAIN known, Release(p)
      PROVE  StrInv'
  BY <1>6, ReleaseKeeps
<1>7. CASE Cleanup
  BY <1>7, CleanupKeeps
<1> QED
  BY <1>1, <1>2, <1>3, <1>4, <1>5, <1>6, <1>7 DEF StrNext

LEMMA StrKept ==
  ASSUME StrInv
  PROVE  OwnersKept
<1>1. TakesConsumed
  BY TakenFew DEF StrInv, TakesConsumed
<1>2. Forest(mem.own, known) /\ ~mem.fault
  BY DEF StrInv, Calm
<1>3. ResultsOwned
  BY <1>2 DEF Forest, ResultsOwned
<1>4. NothingLost
  <2>1. DOMAIN mem.own \subseteq Block /\ DOMAIN known \subseteq DOMAIN mem.own
    BY <1>2, ForestIs
  <2> DEFINE W == UNION {Tree(mem, b) : b \in DOMAIN known}
  <2>2. \A b \in DOMAIN known : b \in Tree(mem, b) /\ Tree(mem, b) \subseteq Block
                                /\ Owned(mem.own, Tree(mem, b)) \subseteq Tree(mem, b)
    BY <2>1, TreeIs
  <2>3. W \in SUBSET Block /\ DOMAIN known \subseteq W
    BY <2>2
  <2>4. Owned(mem.own, W) \subseteq W
    BY <2>2 DEF Owned
  <2> HIDE DEF W
  <2>5. DOMAIN mem.own \subseteq W
    BY <1>2, <2>3, <2>4 DEF Forest, Covers
  <2> QED
    BY <2>5 DEF NothingLost, W
<1> QED
  BY <1>1, <1>2, <1>3, <1>4 DEF OwnersKept, OnlyLiveRead

(* Between calls nothing given with take() waits to be consumed, every     *)
(* block belongs to the client or to a block of the client's, what the     *)
(* client has keeps the owner it was made for, and no block was read or    *)
(* freed after its end: for any number of blocks and contexts, with any    *)
(* allocation failing, whatever the client gives away, as long as it keeps *)
(* the rules of tal_vfmt and tal_strreg (str.c; tal.c: tal_dup_,           *)
(* tal_expand_; take.c).                                                   *)
THEOREM OwnersStayKept ==
  ASSUME Careless = {}
  PROVE  StrSpec => []OwnersKept
<1>1. StrInit => StrInv
  BY StrStart
<1>2. StrInv /\ [StrNext]_strVars => StrInv'
  BY StrStep
<1>3. StrInv => OwnersKept
  BY StrKept
<1> QED
  BY <1>1, <1>2, <1>3, PTL DEF StrSpec

-----------------------------------------------------------------------------
(* Htable: sizes and buckets.                                              *)

(* What words and elements are: all elements share their highest bit,      *)
(* which is not bit 0 (see htable.c: update_common).                       *)
Pointers(b) ==
  /\ Width \in Nat /\ MaxExpect \in Nat /\ b \in Bit \ {0}
  /\ \A p \in Elem : p \subseteq Bit /\ b \in p /\ \A c \in p : c <= b

LEMMA PowerIs ==
  /\ Power[0] = 1
  /\ \A n \in Nat : Power[n] \in Nat /\ Power[n + 1] = 2 * Power[n] /\ Power[n] > n
<1> DEFINE step == [d \in Nat \ {0} |-> [x \in Nat |-> 2 * x]]
           Doubles(f) == f = [n \in Nat |-> IF n = 0 THEN 1 ELSE 2 * f[n - 1]]
<1>1. PICK f : Unfolds(f, Nat, 1, step)
  <2>1. PICK V, one, st : V = Nat /\ one = 1 /\ st = step
    OBVIOUS
  <2>2. one \in V /\ st \in [Nat \ {0} -> [V -> V]]
    BY <2>1
  <2>3. \E f : Unfolds(f, V, one, st)
    BY <2>2, EndlessRecursion
  <2> QED
    BY <2>1, <2>3
<1>2. f \in [Nat -> Nat] /\ f[0] = 1 /\ \A d \in Nat : f[d + 1] = step[d + 1][f[d]]
  BY <1>1 DEF Unfolds
<1>3. ASSUME NEW d \in Nat
      PROVE  f[d + 1] = 2 * f[d]
  <2>1. d + 1 \in Nat \ {0} /\ f[d] \in Nat
    BY <1>2
  <2>2. step[d + 1] = [x \in Nat |-> 2 * x]
    BY <2>1
  <2> QED
    BY <1>2, <2>1, <2>2
<1> HIDE DEF step
<1>4. ASSUME NEW n \in Nat
      PROVE  f[n] = IF n = 0 THEN 1 ELSE 2 * f[n - 1]
  <2>1. CASE n = 0
    BY <1>2, <2>1
  <2>2. CASE n # 0
    <3>1. n - 1 \in Nat /\ n - 1 + 1 = n
      BY <2>2
    <3>2. f[n - 1 + 1] = 2 * f[n - 1]
      BY <1>3, <3>1
    <3> QED
      BY <2>2, <3>1, <3>2
  <2> QED
    BY <2>1, <2>2
<1>5. Doubles(f)
  BY <1>2, <1>4
<1>6. Power = CHOOSE x : Doubles(x)
  BY DEF Power
<1>7. Doubles(Power)
  <2> HIDE DEF Doubles
  <2> QED
    BY <1>5, <1>6
<1>8. Power[0] = 1 /\ \A n \in Nat : Power[n + 1] = 2 * Power[n]
  <2>1. Power[0] = 1
    BY <1>7
  <2>2. ASSUME NEW n \in Nat PROVE Power[n + 1] = 2 * Power[n]
    <3>1. n + 1 \in Nat /\ n + 1 # 0 /\ n + 1 - 1 = n
      OBVIOUS
    <3> QED
      BY <1>7, <3>1
  <2> QED
    BY <2>1, <2>2
<1> DEFINE T == {n \in Nat : Power[n] \in Nat /\ Power[n] > n}
<1> HIDE DEF Doubles
<1>9. 0 \in T
  BY <1>8
<1>10. \A n \in T : n + 1 \in T
  BY <1>8
<1>11. T \in SUBSET Nat
  OBVIOUS
<1> HIDE DEF T
<1>12. T = Nat
  BY <1>9, <1>10, <1>11, NatInductive
<1> QED
  BY <1>8, <1>12 DEF T

LEMMA PowerOf ==
  ASSUME NEW n \in Nat
  PROVE  Power[n] \in Nat /\ Power[n] > 0 /\ n + 1 \in Nat /\ Power[n + 1] = 2 * Power[n]
<1>1. Power[n] \in Nat /\ Power[n + 1] = 2 * Power[n] /\ Power[n] > n
  BY PowerIs
<1> QED
  BY <1>1

LEMMA BucketIs ==
  ASSUME NEW t, t.bits \in Nat, NEW h
  PROVE  Size(t) \in Nat /\ Size(t) > 0 /\ hash_bucket(t, h) \in Bucket(t)
<1>1. PICK N \in Nat : N = t.bits
  OBVIOUS
<1>2. Size(t) = Power[N] /\ Power[N] \in Nat /\ Power[N] > 0
  BY <1>1, PowerIs DEF Size
<1> DEFINE part == [d \in 1 .. N |-> IF d - 1 \in h THEN Power[d - 1] ELSE 0]
           step == [d \in 1 .. N |-> [x \in Nat |-> x + part[d]]]
           Sums(f) == f = [n \in 0 .. t.bits |->
                             IF n = 0 THEN 0 ELSE f[n - 1] + (IF n - 1 \in h THEN Power[n - 1] ELSE 0)]
<1>3. \A d \in 1 .. N : part[d] \in Nat
  BY PowerIs
<1>4. PICK f : Iterates(f, N, Nat, 0, step)
  <2>1. PICK V, zero, st : V = Nat /\ zero = 0 /\ st = step
    OBVIOUS
  <2>2. zero \in V /\ st \in [1 .. N -> [V -> V]]
    BY <1>3, <2>1
  <2>3. \E f : Iterates(f, N, V, zero, st)
    BY <2>2, RecursionExists
  <2> QED
    BY <2>1, <2>3
<1>5. f \in [0 .. N -> Nat] /\ f[0] = 0 /\ \A d \in 1 .. N : f[d] = step[d][f[d - 1]]
  BY <1>4 DEF Iterates
<1>6. \A d \in 1 .. N : f[d] = f[d - 1] + part[d]
  <2> SUFFICES ASSUME NEW d \in 1 .. N PROVE f[d] = f[d - 1] + part[d]
    OBVIOUS
  <2>1. d - 1 \in 0 .. N /\ f[d - 1] \in Nat
    BY <1>5
  <2>2. step[d] = [x \in Nat |-> x + part[d]]
    OBVIOUS
  <2> HIDE DEF step, part
  <2> QED
    BY <1>5, <2>1, <2>2
<1>7. Sums(f)
  <2>1. \A n \in 0 .. N : n = 0 \/ n \in 1 .. N
    OBVIOUS
  <2>2. \A n \in 0 .. N : f[n] = IF n = 0 THEN 0 ELSE f[n - 1] + (IF n - 1 \in h THEN Power[n - 1] ELSE 0)
    <3> HIDE DEF step
    <3> QED
      BY <1>5, <1>6, <2>1
  <2> QED
    BY <1>1, <1>5, <2>2
<1> DEFINE low == CHOOSE x : Sums(x)
<1>8. Sums(low)
  <2> HIDE DEF Sums
  <2> QED
    BY <1>7
<1>9. hash_bucket(t, h) = low[N]
  BY <1>1 DEF hash_bucket
<1>10. \A n \in 0 .. N : low[n] = IF n = 0 THEN 0 ELSE low[n - 1] + (IF n - 1 \in h THEN Power[n - 1] ELSE 0)
  <2> HIDE DEF low
  <2> QED
    BY <1>1, <1>8
<1> DEFINE T == {n \in Nat : n <= N => low[n] \in 0 .. Power[n] - 1}
<1> HIDE DEF low, Sums, step, part
<1>11. 0 \in T
  BY <1>10, PowerIs
<1>12. ASSUME NEW n \in T PROVE n + 1 \in T
  <2> SUFFICES ASSUME n + 1 <= N PROVE low[n + 1] \in 0 .. Power[n + 1] - 1
    OBVIOUS
  <2>1. n \in Nat /\ n + 1 \in 0 .. N /\ n + 1 # 0 /\ n + 1 - 1 = n /\ low[n] \in 0 .. Power[n] - 1
    OBVIOUS
  <2>2. low[n + 1] = low[n] + (IF n \in h THEN Power[n] ELSE 0)
    BY <1>10, <2>1
  <2>3. Power[n] \in Nat /\ Power[n + 1] = 2 * Power[n]
    BY <2>1, PowerIs
  <2> QED
    BY <2>1, <2>2, <2>3
<1>13. T \in SUBSET Nat
  OBVIOUS
<1> HIDE DEF T
<1>14. T = Nat
  BY <1>11, <1>12, <1>13, NatInductive
<1> QED
  BY <1>2, <1>9, <1>14 DEF T, Bucket

LEMMA Wraps ==
  ASSUME NEW S \in Nat, NEW x \in 0 .. 2 * S - 1
  PROVE  x % S = IF x < S THEN x ELSE x - S
<1>1. CASE x < S
  BY <1>1
<1>2. CASE ~(x < S)
  BY <1>2
<1> QED
  BY <1>1, <1>2

LEMMA Cycle ==
  ASSUME NEW S \in Nat, S > 0, NEW i \in 0 .. S - 1
  PROVE  /\ (i + 0) % S = i
         /\ \A n \in 0 .. S - 1 : (i + n) % S \in 0 .. S - 1
         /\ \A n, m \in 0 .. S - 1 : (i + n) % S = (i + m) % S => n = m
         /\ \A j \in 0 .. S - 1 : \E n \in 0 .. S - 1 : (i + n) % S = j
<1>3. ASSUME NEW n \in 0 .. S - 1
      PROVE  (i + n) % S = IF i + n < S THEN i + n ELSE i + n - S
  <2>1. PICK x \in 0 .. 2 * S - 1 : x = i + n
    <3>1. i + n \in 0 .. 2 * S - 1
      OBVIOUS
    <3> QED
      BY <3>1
  <2>2. x % S = IF x < S THEN x ELSE x - S
    BY Wraps
  <2> QED
    BY <2>1, <2>2
<1>4. ASSUME NEW j \in 0 .. S - 1
      PROVE  \E n \in 0 .. S - 1 : (i + n) % S = j
  <2>1. CASE i <= j
    <3>1. PICK n \in 0 .. S - 1 : i + n = j
      <4>1. j - i \in 0 .. S - 1 /\ i + (j - i) = j
        BY <2>1
      <4> QED
        BY <4>1
    <3>2. (i + n) % S = j
      BY <1>3, <3>1
    <3> QED
      BY <3>2
  <2>2. CASE ~(i <= j)
    <3>1. PICK n \in 0 .. S - 1 : i + n = j + S
      <4>1. j - i + S \in 0 .. S - 1 /\ i + (j - i + S) = j + S
        BY <2>2
      <4> QED
        BY <4>1
    <3>2. (i + n) % S = j
      BY <1>3, <3>1
    <3> QED
      BY <3>2
  <2> QED
    BY <2>1, <2>2
<1>5. \A n, m \in 0 .. S - 1 : (i + n) % S = (i + m) % S => n = m
  BY <1>3
<1>6. \A n \in 0 .. S - 1 : (i + n) % S \in 0 .. S - 1
  BY <1>3
<1>7. (i + 0) % S = i
  BY <1>3
<1> QED
  BY <1>4, <1>5, <1>6, <1>7

LEMMA AfterIs ==
  ASSUME NEW t, t.bits \in Nat, NEW i \in Bucket(t)
  PROVE  /\ After(t, i, 0) = i
         /\ \A n \in Bucket(t) : After(t, i, n) \in Bucket(t)
         /\ \A n, m \in Bucket(t) : After(t, i, n) = After(t, i, m) => n = m
         /\ \A j \in Bucket(t) : \E n \in Bucket(t) : After(t, i, n) = j
<1>1. Size(t) \in Nat /\ Size(t) > 0
  BY BucketIs
<1>2. i \in 0 .. Size(t) - 1
  BY DEF Bucket
<1> QED
  BY <1>1, <1>2, Cycle DEF After, Bucket

-----------------------------------------------------------------------------
(* Htable: what is in the buckets.                                         *)

Tables ==
  [bits : Nat, elems : Nat, deleted : Nat, max : Nat, max_with_deleted : Nat,
   common_mask : SUBSET Bit, common_bits : SUBSET Bit, perfect_bit : SUBSET Bit,
   table : UNION {[S -> SUBSET Bit] : S \in SUBSET Nat}]

(* The masks show bit b of every element, once there is one.               *)
Masks(t, b) ==
  /\ t.common_bits \subseteq t.common_mask
  /\ t.perfect_bit = Zero \/ \E x \in t.common_mask : t.perfect_bit = {x}
  /\ b \in t.common_mask => t.common_mask = Bit /\ t.common_bits = Zero /\ Valid(t) = {}

Home(t, p) == hash_bucket(t, rehash(p))
(* What is in place of the common bits of p in bucket i                    *)
Extra(t, p, i) ==
  get_hash_ptr_bits(t, rehash(p)) \cup (IF i = Home(t, p) THEN t.perfect_bit ELSE Zero)

Good(t, b) ==
  /\ t \in Tables /\ HasTable(t) /\ Masks(t, b)
  /\ \A i \in Valid(t) : /\ Raw(t, i) \in Elem
                         /\ get_extra_ptr_bits(t, t.table[i]) = Extra(t, Raw(t, i), i)

LEMMA GoodIs ==
  ASSUME NEW b, NEW t, Good(t, b)
  PROVE  /\ t.bits \in Nat /\ t.table \in [Bucket(t) -> SUBSET Bit] /\ Valid(t) \subseteq Bucket(t)
         /\ Size(t) \in Nat /\ Size(t) > 0
         /\ t.common_bits \subseteq t.common_mask /\ t.perfect_bit \subseteq t.common_mask
         /\ t.common_mask \subseteq Bit
<1>1. t.bits \in Nat /\ t.table \in [DOMAIN t.table -> SUBSET Bit]
  BY DEF Good, Tables
<1>2. DOMAIN t.table = Bucket(t)
  BY DEF Good, HasTable
<1>3. t.common_mask \subseteq Bit /\ t.bits \in Nat
  BY DEF Good, Tables
<1>4. t.common_bits \subseteq t.common_mask /\ t.perfect_bit \subseteq t.common_mask
  BY DEF Good, Masks, Zero
<1>5. Valid(t) \subseteq Bucket(t)
  BY <1>2 DEF Valid
<1>6. Size(t) \in Nat /\ Size(t) > 0
  BY <1>3, BucketIs
<1> QED
  BY <1>1, <1>2, <1>3, <1>4, <1>5, <1>6

LEMMA AddIs ==
  ASSUME NEW b, Pointers(b), NEW t, Good(t, b), b \notin t.common_mask,
         NEW p \in Elem, p \cap t.common_mask = t.common_bits,
         NEW free \in Bucket(t), ~entry_is_valid(t.table[free])
  PROVE  \E n \in Bucket(t), j \in Bucket(t), e \in SUBSET Bit :
           /\ j = After(t, Home(t, p), n) /\ ~entry_is_valid(t.table[j])
           /\ \A d \in 0 .. n - 1 : entry_is_valid(t.table[After(t, Home(t, p), d)])
           /\ ht_add(t, p, rehash(p)) = [t EXCEPT !.table[j] = e]
           /\ entry_is_valid(e) /\ get_raw_ptr(t, e) = p
           /\ get_extra_ptr_bits(t, e) = Extra(t, p, j)
<1> DEFINE home == Home(t, p)
           T == {m \in Nat : m \in Bucket(t) /\ ~entry_is_valid(t.table[After(t, home, m)])}
           Stops(m) == /\ ~entry_is_valid(t.table[After(t, home, m)])
                       /\ \A d \in 0 .. m - 1 : entry_is_valid(t.table[After(t, home, d)])
<1>1. t.bits \in Nat /\ home \in Bucket(t) /\ Size(t) \in Nat /\ Size(t) > 0
  BY GoodIs, BucketIs DEF Home
<1>2. \E m \in Bucket(t) : After(t, home, m) = free
  BY <1>1, AfterIs
<1>3. T \in SUBSET Nat /\ T # {}
  BY <1>1, <1>2 DEF Bucket
<1>4. \E m \in Bucket(t) : Stops(m)
  <2>1. PICK m \in T : \A y \in T : m <= y
    <3> HIDE DEF T
    <3> QED
      BY <1>3, LeastNat
  <2>2. \A d \in 0 .. m - 1 : d \in Nat /\ d \in Bucket(t) /\ ~(m <= d)
    BY <1>1, <2>1 DEF Bucket
  <2> QED
    BY <2>1, <2>2
<1> DEFINE n == CHOOSE m \in Bucket(t) : Stops(m)
<1>5. n \in Bucket(t) /\ Stops(n)
  <2> HIDE DEF Stops
  <2> QED
    BY <1>4
<1> DEFINE j == After(t, home, n)
           perfect == IF n = 0 THEN t.perfect_bit ELSE Zero
           e == make_hval(t, p, get_hash_ptr_bits(t, rehash(p)) \cup perfect)
<1>6. ht_add(t, p, rehash(p)) = [t EXCEPT !.table[j] = e]
  BY DEF ht_add, Home
<1> HIDE DEF n
<1>7. j \in Bucket(t) /\ (n = 0 <=> j = home)
  <2>1. 0 \in Bucket(t)
    BY <1>1 DEF Bucket
  <2>2. PICK i \in Bucket(t) : i = home
    BY <1>1
  <2>3. /\ After(t, i, 0) = i /\ \A x \in Bucket(t) : After(t, i, x) \in Bucket(t)
        /\ \A x, y \in Bucket(t) : After(t, i, x) = After(t, i, y) => x = y
    BY <1>1, AfterIs
  <2> QED
    BY <1>5, <2>1, <2>2, <2>3
<1>8. e \in SUBSET Bit /\ entry_is_valid(e) /\ get_raw_ptr(t, e) = p /\ get_extra_ptr_bits(t, e) = Extra(t, p, j)
  <2>1. /\ p \subseteq Bit /\ b \in p /\ b # 0 /\ b \in Bit
        /\ t.common_bits \subseteq t.common_mask /\ t.perfect_bit \subseteq t.common_mask
        /\ t.common_mask \subseteq Bit
    BY GoodIs DEF Pointers
  <2>2. PICK x : x = get_hash_ptr_bits(t, rehash(p)) \cup perfect /\ x \subseteq t.common_mask
    BY <2>1 DEF get_hash_ptr_bits, Zero
  <2>3. e = (p \ t.common_mask) \cup x
    BY <2>1, <2>2 DEF make_hval, Complement
  <2>4. e \in SUBSET Bit /\ b \in e
    BY <2>1, <2>2, <2>3
  <2>5. entry_is_valid(e)
    BY <2>1, <2>4 DEF entry_is_valid, Zero, HTABLE_DELETED
  <2>6. get_raw_ptr(t, e) = (e \ t.common_mask) \cup t.common_bits
    BY <2>1, <2>4 DEF get_raw_ptr, Complement
  <2>7. (e \ t.common_mask) \cup t.common_bits = p
    BY <2>2, <2>3
  <2>8. e \cap t.common_mask = x
    BY <2>2, <2>3
  <2>9. x = Extra(t, p, j)
    BY <1>7, <2>2 DEF Extra
  <2> QED
    BY <2>4, <2>5, <2>6, <2>7, <2>8, <2>9 DEF get_extra_ptr_bits
<1> QED
  BY <1>5, <1>6, <1>7, <1>8

(* u is t with one more element, p, in bucket j.                           *)
Adds(t, u, j, p) ==
  /\ j \notin Valid(t) /\ Valid(u) = Valid(t) \cup {j} /\ Raw(u, j) = p
  /\ \A i \in Valid(t) : Raw(u, i) = Raw(t, i)

LEMMA PutIs ==
  ASSUME NEW b, NEW t, Good(t, b), b \notin t.common_mask,
         NEW j \in Bucket(t), ~entry_is_valid(t.table[j]), NEW p \in Elem,
         NEW e \in SUBSET Bit, entry_is_valid(e), get_raw_ptr(t, e) = p,
         get_extra_ptr_bits(t, e) = Extra(t, p, j),
         NEW u, u = [t EXCEPT !.table[j] = e]
  PROVE  Good(u, b) /\ Adds(t, u, j, p)
<1>1. /\ t.bits \in Nat /\ t.table \in [Bucket(t) -> SUBSET Bit] /\ t \in Tables
      /\ Bucket(t) \subseteq Nat
  BY GoodIs DEF Good, Bucket
<1>2. /\ u \in Tables /\ u.table = [t.table EXCEPT ![j] = e] /\ u.bits = t.bits
      /\ u.common_mask = t.common_mask /\ u.common_bits = t.common_bits
      /\ u.perfect_bit = t.perfect_bit
  BY <1>1 DEF Tables
<1>3. Bucket(u) = Bucket(t) /\ HasTable(u)
  BY <1>1, <1>2 DEF HasTable, Bucket, Size
<1>4. Valid(u) = Valid(t) \cup {j} /\ j \notin Valid(t)
  BY <1>1, <1>2 DEF Valid
<1>5. \A x : get_raw_ptr(u, x) = get_raw_ptr(t, x) /\ get_extra_ptr_bits(u, x) = get_extra_ptr_bits(t, x)
  BY <1>2 DEF get_raw_ptr, get_extra_ptr_bits
<1>6. \A q, i : Extra(u, q, i) = Extra(t, q, i)
  BY <1>2 DEF Extra, get_hash_ptr_bits, Home, hash_bucket
<1>7. Adds(t, u, j, p)
  BY <1>1, <1>2, <1>4, <1>5 DEF Adds, Raw, Valid
<1>8. Masks(u, b)
  BY <1>2 DEF Masks, Good
<1>9. ASSUME NEW i \in Valid(u)
      PROVE  Raw(u, i) \in Elem /\ get_extra_ptr_bits(u, u.table[i]) = Extra(u, Raw(u, i), i)
  <2>1. CASE i = j
    BY <1>1, <1>2, <1>5, <1>6, <2>1 DEF Raw
  <2>2. CASE i # j
    <3>1. i \in Valid(t) /\ u.table[i] = t.table[i] /\ Raw(u, i) = Raw(t, i)
      BY <1>1, <1>2, <1>4, <1>5, <2>2 DEF Raw, Valid
    <3> QED
      BY <1>5, <1>6, <3>1 DEF Good
  <2> QED
    BY <2>1, <2>2
<1> QED
  BY <1>2, <1>3, <1>7, <1>8, <1>9 DEF Good

(* A search for what is in bucket i gets there: no bucket on the way from  *)
(* the one that its hash asks for is zero.                                 *)
Reaches(t, i) ==
  \E n \in Bucket(t) : /\ i = After(t, Home(t, Raw(t, i)), n)
                       /\ \A d \in 0 .. n : t.table[After(t, Home(t, Raw(t, i)), d)] # Zero

(* u is t but for its buckets, of which j has p now.                       *)
Puts(t, u, j, p) ==
  /\ u = [t EXCEPT !.table = u.table] /\ j \in Bucket(t)
  /\ ~entry_is_valid(t.table[j]) /\ entry_is_valid(u.table[j])
  /\ \A i \in Bucket(t) \ {j} : u.table[i] = t.table[i]
  /\ Adds(t, u, j, p) /\ Reaches(u, j)

LEMMA AddKeeps ==
  ASSUME NEW b, Pointers(b), NEW t, Good(t, b), b \notin t.common_mask,
         NEW p \in Elem, p \cap t.common_mask = t.common_bits,
         NEW free \in Bucket(t), ~entry_is_valid(t.table[free]),
         NEW u, u = ht_add(t, p, rehash(p))
  PROVE  Good(u, b) /\ \E j : Puts(t, u, j, p)
<1>1. PICK n \in Bucket(t), j \in Bucket(t), e \in SUBSET Bit :
           /\ j = After(t, Home(t, p), n) /\ ~entry_is_valid(t.table[j])
           /\ \A d \in 0 .. n - 1 : entry_is_valid(t.table[After(t, Home(t, p), d)])
           /\ u = [t EXCEPT !.table[j] = e]
           /\ entry_is_valid(e) /\ get_raw_ptr(t, e) = p
           /\ get_extra_ptr_bits(t, e) = Extra(t, p, j)
  BY AddIs
<1>2. Good(u, b) /\ Adds(t, u, j, p)
  BY <1>1, PutIs
<1>3. t \in Tables /\ t.bits \in Nat /\ t.table \in [Bucket(t) -> SUBSET Bit] /\ Size(t) \in Nat
  BY GoodIs DEF Good
<1>4. u.table = [t.table EXCEPT ![j] = e] /\ u.bits = t.bits /\ u = [t EXCEPT !.table = u.table]
  BY <1>1, <1>3 DEF Tables
<1>5. Bucket(u) = Bucket(t) /\ (\A q : Home(u, q) = Home(t, q)) /\ (\A i, d : After(u, i, d) = After(t, i, d))
  BY <1>4 DEF Bucket, Size, Home, hash_bucket, After
<1>6. /\ u.table[j] = e /\ \A i \in Bucket(t) \ {j} : u.table[i] = t.table[i]
  BY <1>3, <1>4
<1>7. Raw(u, j) = p
  BY <1>2 DEF Adds
<1>8. ASSUME NEW d \in 0 .. n
      PROVE  u.table[After(t, Home(t, p), d)] # Zero
  <2>1. CASE d = n
    BY <1>1, <1>6, <2>1 DEF entry_is_valid
  <2>2. CASE d # n
    <3>1. d \in 0 .. n - 1 /\ d \in Bucket(t)
      BY <1>3, <2>2 DEF Bucket
    <3>2. Home(t, p) \in Bucket(t)
      BY <1>3, BucketIs DEF Home
    <3>3. After(t, Home(t, p), d) \in Bucket(t)
      BY <1>3, <3>1, <3>2, AfterIs
    <3> QED
      BY <1>1, <1>6, <3>1, <3>3 DEF entry_is_valid
  <2> QED
    BY <2>1, <2>2
<1>9. Reaches(u, j)
  BY <1>1, <1>5, <1>7, <1>8 DEF Reaches
<1> QED
  BY <1>1, <1>2, <1>4, <1>6, <1>9 DEF Puts

(* What was reached is reached as long as no bucket becomes zero.          *)
LEMMA ReachKept ==
  ASSUME NEW t, NEW u, t.bits \in Nat, u.bits = t.bits,
         \A x \in Bucket(t) : t.table[x] # Zero => u.table[x] # Zero,
         NEW i, Raw(u, i) = Raw(t, i), Reaches(t, i)
  PROVE  Reaches(u, i)
<1>1. Bucket(u) = Bucket(t) /\ (\A q : Home(u, q) = Home(t, q)) /\ (\A x, d : After(u, x, d) = After(t, x, d))
  BY DEF Bucket, Size, Home, hash_bucket, After
<1>2. PICK p : p = Raw(t, i)
  OBVIOUS
<1>3. PICK n \in Bucket(t) : i = After(t, Home(t, p), n) /\ \A d \in 0 .. n : t.table[After(t, Home(t, p), d)] # Zero
  BY <1>2 DEF Reaches
<1>4. Size(t) \in Nat /\ Home(t, p) \in Bucket(t)
  BY BucketIs DEF Home
<1>5. \A d \in 0 .. n : After(t, Home(t, p), d) \in Bucket(t)
  <2>1. \A d \in 0 .. n : d \in Bucket(t)
    BY <1>4 DEF Bucket
  <2> QED
    BY <1>4, <2>1, AfterIs
<1>6. \A d \in 0 .. n : u.table[After(t, Home(t, p), d)] # Zero
  BY <1>3, <1>5
<1> QED
  BY <1>1, <1>2, <1>3, <1>6 DEF Reaches

Holds(t, P) == {i \in Valid(t) : Raw(t, i) \in P}
Count(t, P) == Cardinality(Holds(t, P))

LEMMA CountIs ==
  ASSUME NEW t, NEW K \in Nat, Valid(t) \subseteq 0 .. K - 1
  PROVE  /\ IsFiniteSet(Valid(t)) /\ Cardinality(Valid(t)) \in Nat /\ Cardinality(Valid(t)) <= K
         /\ \A P : IsFiniteSet(Holds(t, P)) /\ Count(t, P) \in Nat /\ Count(t, P) <= Cardinality(Valid(t))
         /\ Cardinality(Valid(t)) = K => Valid(t) = 0 .. K - 1
<1>1. IsFiniteSet(0 .. K - 1) /\ Cardinality(0 .. K - 1) = K
  <2>1. 0 \in Int /\ K - 1 \in Int
    OBVIOUS
  <2>2. Cardinality(0 .. K - 1) = IF 0 > K - 1 THEN 0 ELSE (K - 1) - 0 + 1
    BY <2>1, FS_Interval
  <2>3. IsFiniteSet(0 .. K - 1)
    BY <2>1, FS_Interval
  <2> QED
    BY <2>2, <2>3
<1>2. /\ IsFiniteSet(Valid(t)) /\ Cardinality(Valid(t)) <= K
      /\ Cardinality(Valid(t)) = K => Valid(t) = 0 .. K - 1
  BY <1>1, FS_Subset
<1>3. Cardinality(Valid(t)) \in Nat
  BY <1>2, FS_CardinalityType
<1>4. ASSUME NEW P
      PROVE  IsFiniteSet(Holds(t, P)) /\ Count(t, P) \in Nat /\ Count(t, P) <= Cardinality(Valid(t))
  <2>1. Holds(t, P) \subseteq Valid(t)
    BY DEF Holds
  <2>2. IsFiniteSet(Holds(t, P)) /\ Cardinality(Holds(t, P)) <= Cardinality(Valid(t))
    BY <1>2, <2>1, FS_Subset
  <2> QED
    BY <2>2, FS_CardinalityType DEF Count
<1> QED
  BY <1>2, <1>3, <1>4

LEMMA AddsCount ==
  ASSUME NEW t, NEW K \in Nat, Valid(t) \subseteq 0 .. K - 1, NEW u, NEW j, NEW p, Adds(t, u, j, p)
  PROVE  /\ Cardinality(Valid(u)) = Cardinality(Valid(t)) + 1
         /\ \A P : Count(u, P) = Count(t, P) + (IF p \in P THEN 1 ELSE 0)
<1>1. j \notin Valid(t) /\ Valid(u) = Valid(t) \cup {j} /\ Raw(u, j) = p /\ \A i \in Valid(t) : Raw(u, i) = Raw(t, i)
  BY DEF Adds
<1>2. Cardinality(Valid(u)) = Cardinality(Valid(t)) + 1
  BY <1>1, CountIs, FS_AddElement
<1>3. ASSUME NEW P
      PROVE  Count(u, P) = Count(t, P) + (IF p \in P THEN 1 ELSE 0)
  <2>1. IsFiniteSet(Holds(t, P)) /\ Count(t, P) \in Nat /\ j \notin Holds(t, P)
    BY <1>1, CountIs DEF Holds
  <2>2. CASE p \in P
    <3>1. Holds(u, P) = Holds(t, P) \cup {j}
      BY <1>1, <2>2 DEF Holds
    <3> QED
      BY <2>1, <2>2, <3>1, FS_AddElement DEF Count
  <2>3. CASE p \notin P
    <3>1. Holds(u, P) = Holds(t, P)
      BY <1>1, <2>3 DEF Holds
    <3> QED
      BY <2>1, <2>3, <3>1 DEF Count
  <2> QED
    BY <2>2, <2>3
<1> QED
  BY <1>2, <1>3

-----------------------------------------------------------------------------
(* Htable: a table of twice the size.                                      *)

Clean(t) == \A i \in Bucket(t) : t.table[i] # HTABLE_DELETED
Limits(t) == t.max = (3 * Size(t)) \div 4 /\ t.max_with_deleted = (9 * Size(t)) \div 10

Bigger(t) ==
  [Sized(t, t.bits + 1) EXCEPT
     !.perfect_bit = IF @ = Zero /\ t.common_mask # Zero THEN Lowest(t.common_mask) ELSE @,
     !.deleted = 0]

LEMMA LimitsAre ==
  ASSUME NEW S \in Nat, S > 0
  PROVE  /\ (3 * S) \div 4 \in Nat /\ (9 * S) \div 10 \in Nat
         /\ (3 * S) \div 4 <= (9 * S) \div 10 /\ (9 * S) \div 10 < S
         /\ (3 * S) \div 4 + 1 <= (3 * (2 * S)) \div 4
OBVIOUS

LEMMA BiggerIs ==
  ASSUME NEW b, Pointers(b), NEW t \in Tables, Masks(t, b), NEW u, u = Bigger(t)
  PROVE  /\ Good(u, b) /\ Valid(u) = {} /\ Clean(u) /\ Limits(u)
         /\ u.bits = t.bits + 1 /\ u.elems = t.elems /\ u.deleted = 0
         /\ u.common_mask = t.common_mask /\ u.common_bits = t.common_bits
<1>1. PICK n \in Nat, S \in Nat : n = t.bits + 1 /\ S = Power[n] /\ S > 0
  <2>1. t.bits + 1 \in Nat
    BY DEF Tables
  <2> QED
    BY <2>1, PowerIs
<1> DEFINE perfect == IF t.perfect_bit = Zero /\ t.common_mask # Zero
                      THEN Lowest(t.common_mask) ELSE t.perfect_bit
           empty == [i \in 0 .. S - 1 |-> Zero]
<1>2. u = [t EXCEPT !.bits = n, !.max = (3 * S) \div 4, !.max_with_deleted = (9 * S) \div 10,
                    !.table = empty, !.perfect_bit = perfect, !.deleted = 0]
  <2>1. Sized(t, t.bits + 1) = [t EXCEPT !.bits = n, !.max = (3 * S) \div 4,
                                  !.max_with_deleted = (9 * S) \div 10, !.table = empty]
    BY <1>1 DEF Sized
  <2>2. Sized(t, t.bits + 1).perfect_bit = t.perfect_bit
    BY <2>1 DEF Tables
  <2> HIDE DEF empty
  <2>3. u = [Sized(t, t.bits + 1) EXCEPT !.perfect_bit = perfect, !.deleted = 0]
    BY <2>2 DEF Bigger
  <2> HIDE DEF perfect
  <2> QED
    BY <2>1, <2>3 DEF Tables
<1>3. perfect \in SUBSET Bit /\ (perfect = Zero \/ \E x \in t.common_mask : perfect = {x})
  <2>1. t.common_mask \in SUBSET Bit /\ t.perfect_bit \in SUBSET Bit
    BY DEF Tables
  <2>2. CASE t.perfect_bit = Zero /\ t.common_mask # Zero
    <3>1. Bit \subseteq Nat
      BY DEF Bit, Pointers
    <3>2. \E x \in t.common_mask : \A y \in t.common_mask : x <= y
      BY <2>1, <2>2, <3>1, LeastNat DEF Zero
    <3>3. PICK x \in t.common_mask : Lowest(t.common_mask) = {x}
      BY <3>2 DEF Lowest
    <3> QED
      BY <2>1, <2>2, <3>3
  <2>3. CASE ~(t.perfect_bit = Zero /\ t.common_mask # Zero)
    BY <2>1, <2>3 DEF Masks
  <2> QED
    BY <2>2, <2>3
<1>4. empty \in UNION {[X -> SUBSET Bit] : X \in SUBSET Nat}
  <2>1. 0 .. S - 1 \in SUBSET Nat /\ empty \in [0 .. S - 1 -> SUBSET Bit]
    BY DEF Zero
  <2> QED
    BY <2>1
<1>5. (3 * S) \div 4 \in Nat /\ (9 * S) \div 10 \in Nat
  BY <1>1, LimitsAre
<1> HIDE DEF perfect, empty
<1>6. /\ u \in Tables /\ u.bits = n /\ u.max = (3 * S) \div 4 /\ u.max_with_deleted = (9 * S) \div 10
      /\ u.table = empty /\ u.perfect_bit = perfect /\ u.deleted = 0 /\ u.elems = t.elems
      /\ u.common_mask = t.common_mask /\ u.common_bits = t.common_bits
  <2>1. PICK most, mwd \in Nat : most = (3 * S) \div 4 /\ mwd = (9 * S) \div 10
    BY <1>5
  <2>2. PICK V, B : V = UNION {[X -> SUBSET Bit] : X \in SUBSET Nat} /\ B = SUBSET Bit
    OBVIOUS
  <2>3. u = [t EXCEPT !.bits = n, !.max = most, !.max_with_deleted = mwd,
                      !.table = empty, !.perfect_bit = perfect, !.deleted = 0]
    BY <1>2, <2>1
  <2>4. t \in [bits : Nat, elems : Nat, deleted : Nat, max : Nat, max_with_deleted : Nat,
                common_mask : B, common_bits : B, perfect_bit : B,
                table : V]
    BY <2>2 DEF Tables
  <2>5. empty \in V /\ perfect \in B
    BY <1>3, <1>4, <2>2
  <2>6. /\ u.bits = n /\ u.max = most /\ u.max_with_deleted = mwd
        /\ u.table = empty /\ u.perfect_bit = perfect /\ u.deleted = 0 /\ u.elems = t.elems
        /\ u.common_mask = t.common_mask /\ u.common_bits = t.common_bits
    BY <2>3, <2>4
  <2>a. u = [bits |-> n, elems |-> t.elems, deleted |-> 0, max |-> most, max_with_deleted |-> mwd,
             common_mask |-> t.common_mask, common_bits |-> t.common_bits,
             perfect_bit |-> perfect, table |-> empty]
    BY <2>3, <2>4
  <2>b. t.elems \in Nat /\ t.common_mask \in B /\ t.common_bits \in B
    BY <2>4
  <2>7. u \in [bits : Nat, elems : Nat, deleted : Nat, max : Nat, max_with_deleted : Nat,
                common_mask : B, common_bits : B, perfect_bit : B,
                table : V]
    BY <2>5, <2>a, <2>b
  <2>8. u \in Tables
    BY <2>2, <2>7 DEF Tables
  <2> QED
    BY <2>1, <2>6, <2>8
<1>7. Size(u) = S /\ Bucket(u) = 0 .. S - 1 /\ HasTable(u) /\ Limits(u)
  BY <1>1, <1>6 DEF Size, Bucket, HasTable, Limits, empty
<1>8. Valid(u) = {} /\ Clean(u)
  BY <1>6, <1>7 DEF Valid, empty, entry_is_valid, Clean, HTABLE_DELETED, Zero
<1>9. Masks(u, b)
  BY <1>3, <1>6, <1>8 DEF Masks
<1> QED
  BY <1>1, <1>6, <1>7, <1>8, <1>9 DEF Good

Probed(t) == \A i \in Valid(t) : Reaches(t, i)

(* The shape of a table that is being filled.                              *)
Filling(s, b) ==
  {g \in Tables : Good(g, b) /\ Probed(g) /\ Clean(g) /\ g = [s EXCEPT !.table = g.table]}

LEMMA PutsKeep ==
  ASSUME NEW b, NEW t, Good(t, b), NEW u, NEW j, NEW p, Puts(t, u, j, p)
  PROVE  /\ u.bits = t.bits /\ Bucket(u) = Bucket(t)
         /\ Probed(t) => Probed(u)
         /\ Clean(t) => Clean(u)
<1>1. u.bits = t.bits /\ t.bits \in Nat
  <2>1. t \in Tables /\ u = [t EXCEPT !.table = u.table]
    BY DEF Good, Puts
  <2> QED
    BY <2>1 DEF Tables
<1>2. Bucket(u) = Bucket(t)
  BY <1>1 DEF Bucket, Size
<1>3. Clean(t) => Clean(u)
  BY <1>2 DEF Puts, Clean, entry_is_valid
<1>4. \A x \in Bucket(t) : t.table[x] # Zero => u.table[x] # Zero
  BY DEF Puts, entry_is_valid
<1>5. ASSUME Probed(t), NEW i \in Valid(u)
      PROVE  Reaches(u, i)
  <2>1. CASE i = j
    BY <2>1 DEF Puts
  <2>2. CASE i # j
    <3>1. i \in Valid(t) /\ Raw(u, i) = Raw(t, i)
      BY <2>2 DEF Puts, Adds
    <3>2. Reaches(t, i)
      BY <1>5, <3>1 DEF Probed
    <3> QED
      BY <1>1, <1>4, <3>1, <3>2, ReachKept
  <2> QED
    BY <2>1, <2>2
<1> QED
  BY <1>1, <1>2, <1>3, <1>5 DEF Probed

LEMMA FillKeeps ==
  ASSUME NEW b, Pointers(b), NEW s \in Tables, b \notin s.common_mask, NEW g \in Filling(s, b),
         NEW p \in Elem, p \cap s.common_mask = s.common_bits,
         NEW free \in Bucket(g), ~entry_is_valid(g.table[free]),
         NEW u, u = ht_add(g, p, rehash(p))
  PROVE  u \in Filling(s, b) /\ \E j : Puts(g, u, j, p)
<1>1. g \in Tables /\ Good(g, b) /\ Probed(g) /\ Clean(g) /\ g = [s EXCEPT !.table = g.table]
  BY DEF Filling
<1>2. g.common_mask = s.common_mask /\ g.common_bits = s.common_bits
  BY <1>1 DEF Tables
<1>3. PICK j : Good(u, b) /\ Puts(g, u, j, p)
  BY <1>1, <1>2, AddKeeps
<1>4. Probed(u) /\ Clean(u)
  BY <1>1, <1>3, PutsKeep
<1>5. u \in Tables /\ u = [g EXCEPT !.table = u.table]
  BY <1>3 DEF Good, Puts
<1>6. u = [s EXCEPT !.table = u.table]
  BY <1>1, <1>5 DEF Tables
<1> QED
  BY <1>3, <1>4, <1>5, <1>6 DEF Filling

LEMMA RawIs ==
  ASSUME NEW b, NEW t, t.common_bits \subseteq t.common_mask, NEW i
  PROVE  Raw(t, i) \cap t.common_mask = t.common_bits
BY DEF Raw, get_raw_ptr, Complement

(* The buckets below n that hold something in P                            *)
Below(t, P, n) == {i \in Holds(t, P) : i < n}

LEMMA BelowIs ==
  ASSUME NEW t, NEW K \in Nat, Valid(t) \subseteq 0 .. K - 1, NEW P
  PROVE  /\ \A n \in 0 .. K : Cardinality(Below(t, P, n)) \in Nat
                              /\ Cardinality(Below(t, P, n)) <= Cardinality(Valid(t))
         /\ Cardinality(Below(t, P, 0)) = 0 /\ Cardinality(Below(t, P, K)) = Count(t, P)
         /\ \A n \in 0 .. K - 1 :
              Cardinality(Below(t, P, n + 1))
                = Cardinality(Below(t, P, n)) + (IF n \in Holds(t, P) THEN 1 ELSE 0)
<1>1. Holds(t, P) \subseteq Valid(t) /\ IsFiniteSet(Valid(t))
  BY CountIs DEF Holds
<1>2. \A n : Below(t, P, n) \subseteq Valid(t)
  BY <1>1 DEF Below
<1>3. \A n : /\ IsFiniteSet(Below(t, P, n)) /\ Cardinality(Below(t, P, n)) \in Nat
             /\ Cardinality(Below(t, P, n)) <= Cardinality(Valid(t))
  BY <1>1, <1>2, FS_Subset, FS_CardinalityType
<1>4. Below(t, P, 0) = {} /\ Below(t, P, K) = Holds(t, P)
  BY <1>1 DEF Below
<1>5. ASSUME NEW n \in 0 .. K - 1
      PROVE  Cardinality(Below(t, P, n + 1))
                = Cardinality(Below(t, P, n)) + (IF n \in Holds(t, P) THEN 1 ELSE 0)
  <2>1. n \notin Below(t, P, n)
    BY DEF Below
  <2>2. CASE n \in Holds(t, P)
    <3>1. Below(t, P, n + 1) = Below(t, P, n) \cup {n}
      BY <1>1, <2>2 DEF Below
    <3> QED
      BY <1>3, <2>1, <2>2, <3>1, FS_AddElement
  <2>3. CASE n \notin Holds(t, P)
    <3>1. Below(t, P, n + 1) = Below(t, P, n)
      BY <1>1, <2>3 DEF Below
    <3> QED
      BY <1>3, <2>3, <3>1
  <2> QED
    BY <2>2, <2>3
<1> QED
  BY <1>3, <1>4, <1>5, FS_EmptySet DEF Count

LEMMA BelowGrows ==
  ASSUME NEW t, NEW K \in Nat, Valid(t) \subseteq 0 .. K - 1, NEW P, NEW n \in 0 .. K - 1
  PROVE  Cardinality(Below(t, P, n + 1))
           = Cardinality(Below(t, P, n)) + (IF n \in Holds(t, P) THEN 1 ELSE 0)
BY BelowIs

LEMMA DoubleIs ==
  ASSUME NEW b, Pointers(b), NEW t \in Tables, Masks(t, b),
         NEW K \in Nat, DOMAIN t.table = 0 .. K - 1, \A i \in Valid(t) : Raw(t, i) \in Elem,
         Cardinality(Valid(t)) < Power[t.bits + 1],
         NEW u, u = double_table(t)
  PROVE  /\ u \in Filling(Bigger(t), b) /\ \A P : Count(u, P) = Count(t, P)
<1> DEFINE s == Bigger(t)
           old == t.table
           Moves(f) == f = [n \in 0 .. Cardinality(DOMAIN old) |->
              IF n = 0 THEN s
              ELSE IF ~entry_is_valid(old[n - 1]) THEN f[n - 1]
              ELSE LET p == get_raw_ptr(t, old[n - 1]) IN ht_add(f[n - 1], p, rehash(p))]
           V == Filling(s, b)
           free(g) == \E i \in Bucket(g) : ~entry_is_valid(g.table[i])
           step == [d \in 1 .. K |-> [g \in V |->
                      IF d - 1 \in Valid(t) /\ free(g)
                      THEN ht_add(g, Raw(t, d - 1), rehash(Raw(t, d - 1))) ELSE g]]
<1>1. Cardinality(DOMAIN old) = K
  <2>1. 0 \in Int /\ K - 1 \in Int
    OBVIOUS
  <2>2. Cardinality(0 .. K - 1) = IF 0 > K - 1 THEN 0 ELSE (K - 1) - 0 + 1
    BY <2>1, FS_Interval
  <2> QED
    BY <2>2
<1>2. Valid(t) \subseteq 0 .. K - 1 /\ \A i \in 0 .. K - 1 : i \in Valid(t) <=> entry_is_valid(old[i])
  BY DEF Valid
<1>3. /\ Good(s, b) /\ Valid(s) = {} /\ Clean(s) /\ s \in Tables
      /\ s.common_mask = t.common_mask /\ s.common_bits = t.common_bits /\ s.bits = t.bits + 1
  BY BiggerIs DEF Good
<1> HIDE DEF s
<1>4. s \in V
  <2>1. s = [s EXCEPT !.table = s.table]
    BY <1>3 DEF Tables
  <2> QED
    BY <1>3, <2>1 DEF Filling, Probed
<1>5. ASSUME NEW i \in Valid(t)
      PROVE  Raw(t, i) \in Elem /\ Raw(t, i) \cap s.common_mask = s.common_bits /\ b \notin s.common_mask
  BY <1>3, RawIs DEF Masks
<1>6. ASSUME NEW d \in 1 .. K, NEW g \in V, d - 1 \in Valid(t), free(g)
      PROVE  /\ ht_add(g, Raw(t, d - 1), rehash(Raw(t, d - 1))) \in V
             /\ \E j : Puts(g, ht_add(g, Raw(t, d - 1), rehash(Raw(t, d - 1))), j, Raw(t, d - 1))
  <2>1. PICK p \in Elem : p = Raw(t, d - 1) /\ p \cap s.common_mask = s.common_bits /\ b \notin s.common_mask
    BY <1>5, <1>6
  <2>2. PICK i \in Bucket(g) : ~entry_is_valid(g.table[i])
    BY <1>6
  <2> QED
    BY <1>3, <2>1, <2>2, FillKeeps
<1> HIDE DEF V, free
<1>7. step \in [1 .. K -> [V -> V]]
  BY <1>6
<1>8. PICK f : Iterates(f, K, V, s, step)
  <2> HIDE DEF step
  <2> QED
    BY <1>4, <1>7, RecursionExists
<1>9. f \in [0 .. K -> V] /\ f[0] = s
  BY <1>8 DEF Iterates
<1>10. ASSUME NEW d \in 1 .. K
       PROVE  f[d - 1] \in V /\ f[d] = IF d - 1 \in Valid(t) /\ free(f[d - 1])
                     THEN ht_add(f[d - 1], Raw(t, d - 1), rehash(Raw(t, d - 1))) ELSE f[d - 1]
  <2>1. d - 1 \in 0 .. K /\ f[d - 1] \in V
    BY <1>9
  <2>2. f[d] = step[d][f[d - 1]]
    BY <1>8 DEF Iterates
  <2> QED
    BY <2>1, <2>2
<1> HIDE DEF step
<1> DEFINE Sums(n) == \A P : Count(f[n], P) = Cardinality(Below(t, P, n))
           T == {n \in Nat : n <= K => Sums(n)}
<1>11. ASSUME NEW n \in 0 .. K, Sums(n)
       PROVE  free(f[n]) /\ Valid(f[n]) \subseteq 0 .. Size(s) - 1
  <2>1. PICK g : g = f[n] /\ g \in V
    BY <1>9
  <2>2. Good(g, b) /\ g = [s EXCEPT !.table = g.table]
    BY <2>1 DEF V, Filling
  <2>3. g.bits = s.bits
    BY <1>3, <2>2 DEF Tables
  <2>4. Size(s) \in Nat /\ Bucket(g) = 0 .. Size(s) - 1 /\ Size(s) = Power[t.bits + 1]
    BY <1>3, <2>3, GoodIs DEF Bucket, Size
  <2>5. Valid(g) \subseteq 0 .. Size(s) - 1
    BY <2>2, <2>4, GoodIs
  <2>6. Holds(g, Elem) = Valid(g)
    BY <2>2 DEF Holds, Good
  <2>7. Cardinality(Valid(g)) = Cardinality(Below(t, Elem, n))
    BY <1>11, <2>1, <2>6 DEF Count
  <2>8. Cardinality(Below(t, Elem, n)) <= Cardinality(Valid(t)) /\ Cardinality(Below(t, Elem, n)) \in Nat
        /\ Cardinality(Valid(t)) \in Nat
    BY <1>2, BelowIs, CountIs
  <2>9. Cardinality(Valid(g)) # Size(s)
    BY <2>4, <2>7, <2>8
  <2>10. Valid(g) # Bucket(g)
    <3>1. 0 \in Int /\ Size(s) - 1 \in Int
      BY <2>4
    <3>2. Cardinality(0 .. Size(s) - 1) = IF 0 > Size(s) - 1 THEN 0 ELSE (Size(s) - 1) - 0 + 1
      BY <3>1, FS_Interval
    <3> QED
      BY <2>4, <2>9, <3>2
  <2>11. DOMAIN g.table = Bucket(g)
    BY <2>2 DEF Good, HasTable
  <2> QED
    BY <2>1, <2>4, <2>5, <2>10, <2>11 DEF free, Valid
<1>12. 0 \in T
  <2>1. \A P : Holds(s, P) = {}
    BY <1>3 DEF Holds
  <2>2. \A P : Count(s, P) = 0
    BY <2>1, FS_EmptySet DEF Count
  <2>3. \A P : Cardinality(Below(t, P, 0)) = 0
    BY <1>2, BelowIs
  <2> QED
    BY <1>9, <2>2, <2>3
<1>13. ASSUME NEW n \in T PROVE n + 1 \in T
  <2> SUFFICES ASSUME n + 1 <= K PROVE Sums(n + 1)
    OBVIOUS
  <2>1. n \in 0 .. K /\ n \in 0 .. K - 1 /\ n + 1 \in 1 .. K /\ n + 1 - 1 = n /\ Sums(n)
    OBVIOUS
  <2>2. /\ f[n] \in V
        /\ f[n + 1] = IF n \in Valid(t) /\ free(f[n]) THEN ht_add(f[n], Raw(t, n), rehash(Raw(t, n))) ELSE f[n]
    BY <1>10, <2>1
  <2>3. free(f[n]) /\ Valid(f[n]) \subseteq 0 .. Size(s) - 1 /\ Size(s) \in Nat
    BY <1>3, <1>11, <2>1, GoodIs
  <2>4. CASE n \in Valid(t)
    <3>1. PICK j : Puts(f[n], f[n + 1], j, Raw(t, n))
      <4>1. PICK d \in 1 .. K, g \in V : d = n + 1 /\ d - 1 = n /\ g = f[n]
        BY <2>1, <2>2
      <4>2. \E j : Puts(g, ht_add(g, Raw(t, d - 1), rehash(Raw(t, d - 1))), j, Raw(t, d - 1))
        BY <1>6, <2>3, <2>4, <4>1
      <4> QED
        BY <2>2, <2>3, <2>4, <4>1, <4>2
    <3>2. \A P : Count(f[n + 1], P) = Count(f[n], P) + (IF Raw(t, n) \in P THEN 1 ELSE 0)
      BY <2>3, <3>1, AddsCount DEF Puts
    <3>3. \A P : n \in Holds(t, P) <=> Raw(t, n) \in P
      BY <2>4 DEF Holds
    <3>4. ASSUME NEW P
          PROVE  Cardinality(Below(t, P, n + 1))
                   = Cardinality(Below(t, P, n)) + (IF n \in Holds(t, P) THEN 1 ELSE 0)
      BY <1>2, <2>1, BelowGrows
    <3>5. ASSUME NEW P
          PROVE  Count(f[n + 1], P) = Cardinality(Below(t, P, n + 1))
      <4>1. Count(f[n], P) = Cardinality(Below(t, P, n))
        BY <2>1
      <4>2. PICK c, d : c = Count(f[n], P) /\ d = Cardinality(Below(t, P, n))
        OBVIOUS
      <4>3. /\ Count(f[n + 1], P) = c + (IF Raw(t, n) \in P THEN 1 ELSE 0)
            /\ Cardinality(Below(t, P, n + 1)) = d + (IF Raw(t, n) \in P THEN 1 ELSE 0)
        BY <3>2, <3>3, <3>4, <4>2
      <4> QED
        BY <4>1, <4>2, <4>3
    <3> QED
      BY <3>5
  <2>5. CASE n \notin Valid(t)
    <3>1. \A P : n \notin Holds(t, P)
      BY <2>5 DEF Holds
    <3>2. f[n + 1] = f[n]
      BY <2>2, <2>5
    <3>3. ASSUME NEW P
          PROVE  Cardinality(Below(t, P, n + 1))
                   = Cardinality(Below(t, P, n)) + (IF n \in Holds(t, P) THEN 1 ELSE 0)
      BY <1>2, <2>1, BelowGrows
    <3>4. \A P : Cardinality(Below(t, P, n)) \in Nat
      BY <1>2, <2>1, BelowIs
    <3>5. ASSUME NEW P
          PROVE  Count(f[n + 1], P) = Cardinality(Below(t, P, n + 1))
      <4>1. Count(f[n], P) = Cardinality(Below(t, P, n))
        BY <2>1
      <4>2. Cardinality(Below(t, P, n + 1)) = Cardinality(Below(t, P, n)) + 0
        BY <3>1, <3>3
      <4> QED
        BY <3>2, <3>4, <4>1, <4>2
    <3> QED
      BY <3>5
  <2> QED
    BY <2>4, <2>5
<1>14. T \in SUBSET Nat
  OBVIOUS
<1> HIDE DEF T
<1>15. T = Nat
  BY <1>12, <1>13, <1>14, NatInductive
<1>16. \A n \in 0 .. K : Sums(n)
  BY <1>15 DEF T
<1>17. Moves(f)
  <2>1. \A n \in 0 .. K : f[n] = IF n = 0 THEN s
              ELSE IF ~entry_is_valid(old[n - 1]) THEN f[n - 1]
              ELSE ht_add(f[n - 1], Raw(t, n - 1), rehash(Raw(t, n - 1)))
    <3> SUFFICES ASSUME NEW n \in 0 .. K, n # 0
                 PROVE  f[n] = IF ~entry_is_valid(old[n - 1]) THEN f[n - 1]
                               ELSE ht_add(f[n - 1], Raw(t, n - 1), rehash(Raw(t, n - 1)))
      BY <1>9
    <3>1. n \in 1 .. K /\ n - 1 \in 0 .. K /\ n - 1 \in 0 .. K - 1
      OBVIOUS
    <3>2. free(f[n - 1])
      BY <1>11, <1>16, <3>1
    <3> QED
      BY <1>2, <1>10, <3>1, <3>2
  <2>2. \A n \in 0 .. K : Raw(t, n - 1) = get_raw_ptr(t, old[n - 1])
    BY DEF Raw
  <2> QED
    BY <1>1, <1>9, <2>1, <2>2
<1> DEFINE moved == CHOOSE x : Moves(x)
<1>18. Moves(moved)
  <2> HIDE DEF Moves
  <2> QED
    BY <1>17
<1>19. u = moved[K]
  <2>1. u = moved[Cardinality(DOMAIN old)]
    BY DEF double_table, Bigger, s
  <2> QED
    BY <1>1, <2>1
<1>20. \A n \in 0 .. K : moved[n] = IF n = 0 THEN s
              ELSE IF ~entry_is_valid(old[n - 1]) THEN moved[n - 1]
              ELSE LET p == get_raw_ptr(t, old[n - 1]) IN ht_add(moved[n - 1], p, rehash(p))
  <2> HIDE DEF moved
  <2> QED
    BY <1>1, <1>18
<1>21. \A n \in 0 .. K : f[n] = IF n = 0 THEN s
              ELSE IF ~entry_is_valid(old[n - 1]) THEN f[n - 1]
              ELSE LET p == get_raw_ptr(t, old[n - 1]) IN ht_add(f[n - 1], p, rehash(p))
  BY <1>1, <1>17
<1> DEFINE Q == {n \in Nat : n <= K => moved[n] = f[n]}
<1> HIDE DEF moved, Moves
<1>22. 0 \in Q
  BY <1>20, <1>21
<1>23. ASSUME NEW n \in Q PROVE n + 1 \in Q
  <2> SUFFICES ASSUME n + 1 <= K PROVE moved[n + 1] = f[n + 1]
    OBVIOUS
  <2>1. n + 1 \in 0 .. K /\ n + 1 # 0 /\ n + 1 - 1 = n /\ moved[n] = f[n]
    OBVIOUS
  <2> QED
    BY <1>20, <1>21, <2>1
<1>24. Q \in SUBSET Nat
  OBVIOUS
<1> HIDE DEF Q
<1>25. Q = Nat
  BY <1>22, <1>23, <1>24, NatInductive
<1>26. u = f[K]
  BY <1>19, <1>25 DEF Q
<1>27. u \in V
  BY <1>9, <1>26
<1>28. \A P : Count(u, P) = Count(t, P)
  <2>1. K \in 0 .. K
    OBVIOUS
  <2> QED
    BY <1>2, <1>16, <1>26, <2>1, BelowIs
<1> QED
  BY <1>27, <1>28 DEF V, s

-----------------------------------------------------------------------------
(* Htable: buckets are made void, and the counters changed.                *)

Alike(t, u) ==
  /\ u \in Tables /\ u.bits = t.bits /\ u.common_mask = t.common_mask /\ u.table = t.table
  /\ u.common_bits = t.common_bits /\ u.perfect_bit = t.perfect_bit

LEMMA AlikeIs ==
  ASSUME NEW t, NEW u, Alike(t, u)
  PROVE  /\ Bucket(u) = Bucket(t) /\ Size(u) = Size(t) /\ Valid(u) = Valid(t)
         /\ \A i : Raw(u, i) = Raw(t, i)
         /\ \A p : Home(u, p) = Home(t, p)
         /\ \A P : Count(u, P) = Count(t, P)
         /\ \A b : Good(t, b) => Good(u, b)
         /\ Probed(t) => Probed(u)
         /\ Clean(t) => Clean(u)
<1>1. /\ u \in Tables /\ u.bits = t.bits /\ u.common_mask = t.common_mask /\ u.table = t.table
      /\ u.common_bits = t.common_bits /\ u.perfect_bit = t.perfect_bit
  BY DEF Alike
<1>2. Bucket(u) = Bucket(t) /\ Size(u) = Size(t) /\ Valid(u) = Valid(t) /\ (Clean(t) => Clean(u))
  BY <1>1 DEF Bucket, Size, Valid, Clean
<1>3. \A i : Raw(u, i) = Raw(t, i)
  BY <1>1 DEF Raw, get_raw_ptr
<1>4. \A p : Home(u, p) = Home(t, p)
  BY <1>1 DEF Home, hash_bucket
<1>5. \A P : Count(u, P) = Count(t, P)
  BY <1>2, <1>3 DEF Count, Holds
<1>6. \A x, n : After(u, x, n) = After(t, x, n)
  BY <1>2 DEF After
<1>7. Probed(t) => Probed(u)
  BY <1>1, <1>2, <1>3, <1>4, <1>6 DEF Probed, Reaches
<1>8. \A p, i : Extra(u, p, i) = Extra(t, p, i)
  BY <1>1, <1>4 DEF Extra, get_hash_ptr_bits
<1>9. \A e : get_extra_ptr_bits(u, e) = get_extra_ptr_bits(t, e)
  BY <1>1 DEF get_extra_ptr_bits
<1>10. ASSUME NEW b, Good(t, b)
       PROVE  Good(u, b)
  <2>1. HasTable(u) /\ Masks(u, b)
    BY <1>1, <1>2, <1>10 DEF Good, HasTable, Masks
  <2> QED
    BY <1>1, <1>2, <1>3, <1>8, <1>9, <1>10, <2>1 DEF Good
<1> QED
  BY <1>2, <1>3, <1>4, <1>5, <1>7, <1>10

Voided(t, i, e) == [t EXCEPT !.table[i] = e]
(* u is t but for bucket i, which is e now.                                *)
Voids(t, u, i, e) ==
  /\ u = [t EXCEPT !.table = u.table] /\ u.bits = t.bits
  /\ Bucket(u) = Bucket(t)
  /\ u.table[i] = e /\ \A x \in Bucket(t) \ {i} : u.table[x] = t.table[x]
  /\ Valid(u) = Valid(t) \ {i} /\ \A x \in Valid(u) : Raw(u, x) = Raw(t, x)
  /\ i \in Valid(t) => Adds(u, t, i, Raw(t, i))

LEMMA VoidIs ==
  ASSUME NEW b, Pointers(b), NEW t, Good(t, b), NEW i \in Bucket(t), NEW e \in {Zero, HTABLE_DELETED},
         NEW u, u = Voided(t, i, e)
  PROVE  Good(u, b) /\ Voids(t, u, i, e)
<1>1. /\ t.bits \in Nat /\ t.table \in [Bucket(t) -> SUBSET Bit] /\ t \in Tables
      /\ Bucket(t) \subseteq Nat
  BY GoodIs DEF Good, Bucket
<1>2. e \in SUBSET Bit /\ ~entry_is_valid(e)
  <2>1. 0 \in Bit
    BY DEF Pointers, Bit
  <2> QED
    BY <2>1 DEF entry_is_valid, Zero, HTABLE_DELETED
<1>3. /\ u \in Tables /\ u.table = [t.table EXCEPT ![i] = e] /\ u.bits = t.bits
      /\ u.common_mask = t.common_mask /\ u.common_bits = t.common_bits
      /\ u.perfect_bit = t.perfect_bit
  BY <1>1, <1>2 DEF Tables, Voided
<1>4. u = [t EXCEPT !.table = u.table]
  BY <1>1, <1>3 DEF Tables, Voided
<1>5. Bucket(u) = Bucket(t) /\ HasTable(u)
  BY <1>1, <1>3 DEF HasTable, Bucket, Size
<1>6. Valid(u) = Valid(t) \ {i} /\ u.table[i] = e /\ \A x \in Bucket(t) \ {i} : u.table[x] = t.table[x]
  BY <1>1, <1>2, <1>3 DEF Valid
<1>7. \A x : get_raw_ptr(u, x) = get_raw_ptr(t, x) /\ get_extra_ptr_bits(u, x) = get_extra_ptr_bits(t, x)
  BY <1>3 DEF get_raw_ptr, get_extra_ptr_bits
<1>8. \A q, x : Extra(u, q, x) = Extra(t, q, x)
  BY <1>3 DEF Extra, get_hash_ptr_bits, Home, hash_bucket
<1>9. \A x \in Valid(u) : x \in Valid(t) /\ u.table[x] = t.table[x] /\ Raw(u, x) = Raw(t, x)
  BY <1>1, <1>3, <1>6, <1>7 DEF Raw, Valid
<1>10. Masks(u, b)
  BY <1>3, <1>6 DEF Masks, Good
<1>11. Good(u, b)
  BY <1>3, <1>5, <1>7, <1>8, <1>9, <1>10 DEF Good
<1>12. i \in Valid(t) => Adds(u, t, i, Raw(t, i))
  BY <1>6, <1>9 DEF Adds
<1> QED
  BY <1>3, <1>4, <1>5, <1>6, <1>9, <1>11, <1>12 DEF Voids

LEMMA AfterAfter ==
  ASSUME NEW t, t.bits \in Nat, NEW i \in Bucket(t), NEW h \in Bucket(t), NEW d \in Nat
  PROVE  /\ h + d < Size(t) => After(t, After(t, i, h), d) = After(t, i, h + d)
         /\ h + d = Size(t) => After(t, After(t, i, h), d) = i
<1>1. PICK S \in Nat : S = Size(t) /\ S > 0
  BY BucketIs
<1>2. i \in 0 .. S - 1 /\ h \in 0 .. S - 1
  BY <1>1 DEF Bucket
<1>3. SUFFICES ASSUME h + d <= S
               PROVE  (((i + h) % S) + d) % S = IF h + d < S THEN (i + (h + d)) % S ELSE i
  BY <1>1, <1>2 DEF After
<1>4. PICK x \in 0 .. 2 * S - 1 : x = i + h
  <2>1. i + h \in 0 .. 2 * S - 1
    BY <1>2
  <2> QED
    BY <2>1
<1>5. PICK y \in 0 .. S - 1 : y = x % S /\ y = IF x < S THEN x ELSE x - S
  <2>1. x % S = IF x < S THEN x ELSE x - S
    BY Wraps
  <2>2. (IF x < S THEN x ELSE x - S) \in 0 .. S - 1
    BY <1>1
  <2> QED
    BY <2>1, <2>2
<1>6. PICK z \in 0 .. 2 * S - 1 : z = y + d
  <2>1. y + d \in 0 .. 2 * S - 1
    BY <1>2, <1>3, <1>4, <1>5
  <2> QED
    BY <2>1
<1>7. z % S = IF z < S THEN z ELSE z - S
  BY Wraps
<1>8. CASE h + d < S
  <2>1. PICK v \in 0 .. 2 * S - 1 : v = i + (h + d)
    <3>1. i + (h + d) \in 0 .. 2 * S - 1
      BY <1>2, <1>8
    <3> QED
      BY <3>1
  <2>2. v % S = IF v < S THEN v ELSE v - S
    BY Wraps
  <2>3. (IF z < S THEN z ELSE z - S) = (IF v < S THEN v ELSE v - S)
    BY <1>2, <1>4, <1>5, <1>6, <1>8, <2>1
  <2>4. z % S = v % S
    BY <1>7, <2>2, <2>3
  <2> QED
    BY <1>4, <1>5, <1>6, <1>8, <2>1, <2>4
<1>9. CASE ~(h + d < S)
  <2>1. (IF z < S THEN z ELSE z - S) = i
    BY <1>2, <1>3, <1>4, <1>5, <1>6, <1>9
  <2> QED
    BY <1>4, <1>5, <1>6, <1>7, <1>9, <2>1
<1> QED
  BY <1>8, <1>9

-----------------------------------------------------------------------------
(* Htable: rehash_table.                                                   *)

(* Tables with the contents of t                                           *)
SameContents(t, b) ==
  {g \in Tables : /\ Good(g, b) /\ g = [t EXCEPT !.table = g.table]
                  /\ \A P : Count(g, P) = Count(t, P)}

(* What was in bucket i of g moves to the first free bucket.               *)
MovesUp(g, u, i) ==
  \E p : \E n \in Bucket(g), j \in Bucket(g) :
    /\ p = Raw(g, i) /\ i \in Valid(g) /\ j = After(g, Home(g, p), n)
    /\ j = i \/ j \notin Valid(g)
    /\ \A d \in 0 .. n - 1 : LET x == After(g, Home(g, p), d) IN x # i /\ x \in Valid(g)
    /\ j \in Valid(u) /\ Raw(u, j) = p
    /\ j # i => u.table[i] = Zero
    /\ \A x \in Bucket(g) \ {i, j} : u.table[x] = g.table[x]

(* Tables that differ in their buckets alone                               *)
LEMMA TableFrame ==
  ASSUME NEW t \in Tables, NEW g \in Tables, NEW u \in Tables,
         g = [t EXCEPT !.table = g.table], u = [g EXCEPT !.table = u.table]
  PROVE  /\ u = [t EXCEPT !.table = u.table]
         /\ u.bits = t.bits /\ u.common_mask = t.common_mask /\ u.common_bits = t.common_bits
         /\ u.perfect_bit = t.perfect_bit /\ u.elems = t.elems /\ u.deleted = t.deleted
         /\ u.max = t.max /\ u.max_with_deleted = t.max_with_deleted
<1>1. PICK V, B : /\ t \in [bits : Nat, elems : Nat, deleted : Nat, max : Nat, max_with_deleted : Nat,
                          common_mask : B, common_bits : B, perfect_bit : B, table : V]
                  /\ g \in [bits : Nat, elems : Nat, deleted : Nat, max : Nat, max_with_deleted : Nat,
                          common_mask : B, common_bits : B, perfect_bit : B, table : V]
                  /\ u \in [bits : Nat, elems : Nat, deleted : Nat, max : Nat, max_with_deleted : Nat,
                          common_mask : B, common_bits : B, perfect_bit : B, table : V]
  <2>1. PICK V, B : V = UNION {[X -> SUBSET Bit] : X \in SUBSET Nat} /\ B = SUBSET Bit
    OBVIOUS
  <2> QED
    BY <2>1 DEF Tables
<1>2. PICK gt, ut : gt = g.table /\ ut = u.table
  OBVIOUS
<1>3. g = [t EXCEPT !.table = gt] /\ u = [g EXCEPT !.table = ut]
  BY <1>2
<1>4. u = [t EXCEPT !.table = ut]
  BY <1>1, <1>3
<1>5. /\ u.bits = t.bits /\ u.common_mask = t.common_mask /\ u.common_bits = t.common_bits
      /\ u.perfect_bit = t.perfect_bit /\ u.elems = t.elems /\ u.deleted = t.deleted
      /\ u.max = t.max /\ u.max_with_deleted = t.max_with_deleted
  BY <1>1, <1>4
<1> QED
  BY <1>2, <1>4, <1>5

LEMMA RehashedIs ==
  ASSUME NEW b, Pointers(b), NEW t, Good(t, b), NEW g \in SameContents(t, b), NEW i \in Bucket(t),
         NEW u, u = Rehashed(g, i)
  PROVE  /\ u \in SameContents(t, b)
         /\ \/ u = g /\ g.table[i] = Zero
            \/ u = g /\ i \in Valid(g) /\ i = Home(g, Raw(g, i))
            \/ /\ i \notin Valid(g) /\ u.table[i] = Zero
               /\ \A x \in Bucket(t) \ {i} : u.table[x] = g.table[x]
            \/ MovesUp(g, u, i)
<1>1. /\ Good(g, b) /\ g = [t EXCEPT !.table = g.table] /\ \A P : Count(g, P) = Count(t, P)
  BY DEF SameContents
<1>2. g.bits = t.bits /\ Bucket(g) = Bucket(t) /\ t \in Tables
  <2>1. t \in Tables
    BY DEF Good
  <2>2. g.bits = t.bits
    BY <1>1, <2>1 DEF Tables
  <2> QED
    BY <2>1, <2>2 DEF Bucket, Size
<1>3. /\ g.bits \in Nat /\ g.table \in [Bucket(g) -> SUBSET Bit] /\ Size(g) \in Nat
      /\ Valid(g) \subseteq 0 .. Size(g) - 1 /\ g \in Tables
      /\ g.common_bits \subseteq g.common_mask /\ g.perfect_bit \subseteq g.common_mask
  BY <1>1, GoodIs DEF Bucket, Good
<1> DEFINE emptied == Voided(g, i, Zero)
<1>v. Good(emptied, b) /\ Voids(g, emptied, i, Zero)
  <2>1. PICK e \in {Zero, HTABLE_DELETED} : e = Zero
    OBVIOUS
  <2>2. i \in Bucket(g)
    BY <1>2
  <2> QED
    BY <1>1, <2>1, <2>2, VoidIs
<1>4. CASE g.table[i] = Zero
  BY <1>4 DEF Rehashed
<1>5. CASE g.table[i] = HTABLE_DELETED
  <2>1. u = Voided(g, i, Zero)
    BY <1>5 DEF Rehashed, Zero, HTABLE_DELETED, Voided
  <2>2. /\ Good(u, b) /\ u = [g EXCEPT !.table = u.table]
        /\ u.table[i] = Zero /\ \A x \in Bucket(g) \ {i} : u.table[x] = g.table[x]
        /\ Valid(u) = Valid(g) \ {i} /\ \A x \in Valid(u) : Raw(u, x) = Raw(g, x)
    BY <1>v, <2>1 DEF Voids
  <2>3. i \notin Valid(g)
    BY <1>5 DEF Valid, entry_is_valid
  <2>4. \A P : Count(u, P) = Count(g, P)
    BY <2>2, <2>3 DEF Count, Holds
  <2>5. u = [t EXCEPT !.table = u.table] /\ u \in Tables
    <3>1. u \in Tables
      BY <2>2 DEF Good
    <3> QED
      BY <1>1, <1>2, <1>3, <2>2, <3>1, TableFrame
  <2> QED
    BY <1>1, <1>2, <2>2, <2>3, <2>4, <2>5 DEF SameContents
<1>6. CASE i \in Valid(g) /\ g.table[i] \cap g.perfect_bit # Zero
  <2>1. u = g
    BY <1>6 DEF Rehashed, Valid, entry_is_valid
  <2>2. g.table[i] \cap g.common_mask = Extra(g, Raw(g, i), i)
    BY <1>1, <1>6 DEF Good, get_extra_ptr_bits
  <2>3. i = Home(g, Raw(g, i))
    BY <1>3, <1>6, <2>2 DEF Extra, get_hash_ptr_bits, Complement, Zero
  <2> QED
    BY <1>6, <2>1, <2>3
<1>7. CASE i \in Valid(g) /\ g.table[i] \cap g.perfect_bit = Zero
  <2>1. PICK v, p : v = Voided(g, i, Zero) /\ p = Raw(g, i)
    OBVIOUS
  <2>2. u = ht_add(v, p, rehash(p))
    BY <1>7, <2>1 DEF Rehashed, Valid, entry_is_valid, Raw, Voided
  <2>3. /\ Good(v, b) /\ v = [g EXCEPT !.table = v.table] /\ v.bits = g.bits /\ Bucket(v) = Bucket(g)
        /\ v.table[i] = Zero /\ \A x \in Bucket(g) \ {i} : v.table[x] = g.table[x]
        /\ Valid(v) = Valid(g) \ {i} /\ \A x \in Valid(v) : Raw(v, x) = Raw(g, x)
        /\ Adds(v, g, i, p)
    BY <1>v, <1>7, <2>1 DEF Voids
  <2>4. v.common_mask = g.common_mask /\ v.common_bits = g.common_bits
    BY <1>3, <2>1 DEF Tables, Voided
  <2>5. p \in Elem /\ p \cap v.common_mask = v.common_bits /\ b \notin v.common_mask
    BY <1>1, <1>3, <1>7, <2>1, <2>4, RawIs DEF Good, Masks
  <2>6. i \in Bucket(v) /\ ~entry_is_valid(v.table[i])
    BY <1>2, <2>3 DEF entry_is_valid
  <2>7. PICK n \in Bucket(v), j \in Bucket(v), e \in SUBSET Bit :
           /\ j = After(v, Home(v, p), n) /\ ~entry_is_valid(v.table[j])
           /\ \A d \in 0 .. n - 1 : entry_is_valid(v.table[After(v, Home(v, p), d)])
           /\ u = [v EXCEPT !.table[j] = e]
           /\ entry_is_valid(e) /\ get_raw_ptr(v, e) = p
           /\ get_extra_ptr_bits(v, e) = Extra(v, p, j)
    BY <2>2, <2>3, <2>5, <2>6, AddIs
  <2>8. Good(u, b) /\ Adds(v, u, j, p)
    BY <2>3, <2>5, <2>7, PutIs
  <2>9. v \in Tables /\ v.table \in [Bucket(v) -> SUBSET Bit]
    BY <2>3, GoodIs DEF Good
  <2>10. u.table = [v.table EXCEPT ![j] = e] /\ u = [v EXCEPT !.table = u.table] /\ u \in Tables
    BY <2>7, <2>8, <2>9 DEF Tables, Good
  <2>11. u = [t EXCEPT !.table = u.table]
    <3>1. v = [t EXCEPT !.table = v.table]
      BY <1>1, <1>2, <1>3, <2>3, <2>9, TableFrame
    <3> QED
      BY <1>2, <2>9, <2>10, <3>1, TableFrame
  <2>12. \A P : Count(u, P) = Count(g, P)
    <3>1. Valid(v) \subseteq 0 .. Size(g) - 1
      BY <1>3, <2>3
    <3>2. \A P : Count(g, P) = Count(v, P) + (IF p \in P THEN 1 ELSE 0)
      BY <1>3, <2>3, <3>1, AddsCount
    <3>3. \A P : Count(u, P) = Count(v, P) + (IF p \in P THEN 1 ELSE 0)
      BY <1>3, <2>8, <3>1, AddsCount
    <3> QED
      BY <3>2, <3>3
  <2>13. u \in SameContents(t, b)
    BY <1>1, <2>8, <2>10, <2>11, <2>12 DEF SameContents
  <2>14. (\A x, d : After(v, x, d) = After(g, x, d)) /\ Home(v, p) = Home(g, p)
    BY <2>3 DEF After, Size, Home, hash_bucket
  <2>15. \A d \in 0 .. n - 1 : LET x == After(g, Home(g, p), d) IN x # i /\ x \in Valid(g)
    <3> SUFFICES ASSUME NEW d \in 0 .. n - 1
                 PROVE  After(g, Home(g, p), d) # i /\ After(g, Home(g, p), d) \in Valid(g)
      OBVIOUS
    <3>1. PICK x : x = After(g, Home(g, p), d)
      OBVIOUS
    <3>2. d \in Bucket(g) /\ Home(g, p) \in Bucket(g)
      BY <1>3, <2>3, BucketIs DEF Bucket, Home
    <3>3. x \in Bucket(g)
      BY <1>3, <3>1, <3>2, AfterIs
    <3>4. entry_is_valid(v.table[x])
      BY <2>7, <2>14, <3>1
    <3>5. x \in Valid(v)
      BY <2>3, <2>9, <3>3, <3>4 DEF Valid
    <3> QED
      BY <2>3, <3>1, <3>5
  <2>16. j = i \/ j \notin Valid(g)
    BY <2>3, <2>8 DEF Adds
  <2>17. /\ j \in Valid(u) /\ Raw(u, j) = p /\ (j # i => u.table[i] = Zero)
         /\ \A x \in Bucket(g) \ {i, j} : u.table[x] = g.table[x]
    BY <1>2, <2>3, <2>8, <2>9, <2>10 DEF Adds
  <2>18. MovesUp(g, u, i)
    BY <1>7, <2>1, <2>3, <2>7, <2>14, <2>15, <2>16, <2>17 DEF MovesUp
  <2> QED
    BY <2>13, <2>18
<1> QED
  <2>1. i \in Valid(g) <=> entry_is_valid(g.table[i])
    BY <1>2, <1>3 DEF Valid
  <2> QED
    BY <1>4, <1>5, <1>6, <1>7, <2>1 DEF entry_is_valid

(* rehash_table is past the buckets less than n steps after f: they are    *)
(* not deleted, and what is in them is reached without passing f.          *)
Settled(t, f, g, n) ==
  /\ \A k \in 0 .. n - 1 : g.table[After(t, f, k)] # HTABLE_DELETED
  /\ \A k \in 0 .. n - 1 :
       After(t, f, k) \in Valid(g) =>
         \E h \in 0 .. k : /\ Home(t, Raw(g, After(t, f, k))) = After(t, f, h)
                           /\ \A d \in h .. k : g.table[After(t, f, d)] # Zero
  /\ \A k \in n .. Size(t) - 1 :
       After(t, f, k) \in Valid(g) =>
         \E h \in 0 .. k : Home(t, Raw(g, After(t, f, k))) = After(t, f, h)

(* Alike as far as hashes and buckets go                                   *)
LEMMA SameIs ==
  ASSUME NEW b, NEW t, Good(t, b), NEW g \in SameContents(t, b)
  PROVE  /\ Good(g, b) /\ g \in Tables /\ g = [t EXCEPT !.table = g.table]
         /\ \A P : Count(g, P) = Count(t, P)
         /\ g.bits = t.bits /\ Bucket(g) = Bucket(t) /\ Size(g) = Size(t)
         /\ g.table \in [Bucket(t) -> SUBSET Bit] /\ Valid(g) \subseteq Bucket(t)
         /\ \A x, d : After(g, x, d) = After(t, x, d)
         /\ \A p : Home(g, p) = Home(t, p)
         /\ \A x : Raw(g, x) = get_raw_ptr(t, g.table[x])
         /\ \A x \in Bucket(t) : x \in Valid(g) <=> entry_is_valid(g.table[x])
<1>1. /\ Good(g, b) /\ g \in Tables /\ g = [t EXCEPT !.table = g.table]
      /\ \A P : Count(g, P) = Count(t, P)
  BY DEF SameContents
<1>2. t \in Tables
  BY DEF Good
<1>3. t = [t EXCEPT !.table = t.table]
  BY <1>2 DEF Tables
<1>4. g.bits = t.bits /\ g.common_mask = t.common_mask /\ g.common_bits = t.common_bits
  BY <1>1, <1>2, <1>3, TableFrame
<1>5. Bucket(g) = Bucket(t) /\ Size(g) = Size(t)
  BY <1>4 DEF Bucket, Size
<1>6. g.table \in [Bucket(t) -> SUBSET Bit] /\ Valid(g) \subseteq Bucket(t)
  BY <1>1, <1>5, GoodIs
<1>7. \A x, d : After(g, x, d) = After(t, x, d)
  BY <1>5 DEF After
<1>8. \A p : Home(g, p) = Home(t, p)
  BY <1>4 DEF Home, hash_bucket
<1>9. \A x : Raw(g, x) = get_raw_ptr(t, g.table[x])
  BY <1>4 DEF Raw, get_raw_ptr
<1>10. \A x \in Bucket(t) : x \in Valid(g) <=> entry_is_valid(g.table[x])
  BY <1>6 DEF Valid
<1> QED
  BY <1>1, <1>4, <1>5, <1>6, <1>7, <1>8, <1>9, <1>10

LEMMA SettledStep ==
  ASSUME NEW b, Pointers(b), NEW t, Good(t, b), NEW f \in Bucket(t), NEW g \in SameContents(t, b),
         NEW n \in Bucket(t), Settled(t, f, g, n), NEW u, u = Rehashed(g, After(t, f, n))
  PROVE  u \in SameContents(t, b) /\ Settled(t, f, u, n + 1)
<1> DEFINE pos(k) == After(t, f, k)
           i == pos(n)
<1>1. t.bits \in Nat /\ Size(t) \in Nat /\ Bucket(t) = 0 .. Size(t) - 1 /\ n \in 0 .. Size(t) - 1
  BY GoodIs DEF Bucket
<1>2. /\ \A k \in 0 .. Size(t) - 1 : pos(k) \in Bucket(t)
      /\ \A k, d \in 0 .. Size(t) - 1 : pos(k) = pos(d) => k = d
  <2>1. /\ \A k \in Bucket(t) : After(t, f, k) \in Bucket(t)
        /\ \A k, d \in Bucket(t) : After(t, f, k) = After(t, f, d) => k = d
    BY <1>1, AfterIs
  <2> QED
    BY <1>1, <2>1
<1>d. \A k, d \in 0 .. Size(t) - 1 : k # d => pos(k) # pos(d)
  BY <1>2
<1>3. /\ u \in SameContents(t, b)
      /\ \/ u = g /\ g.table[i] = Zero
         \/ u = g /\ i \in Valid(g) /\ i = Home(g, Raw(g, i))
         \/ /\ i \notin Valid(g) /\ u.table[i] = Zero
            /\ \A x \in Bucket(t) \ {i} : u.table[x] = g.table[x]
         \/ MovesUp(g, u, i)
  BY <1>1, <1>2, RehashedIs
<1>4. /\ \A x, d : After(g, x, d) = After(t, x, d)
      /\ \A p : Home(g, p) = Home(t, p)
      /\ \A x : Raw(g, x) = get_raw_ptr(t, g.table[x])
      /\ \A x \in Bucket(t) : x \in Valid(g) <=> entry_is_valid(g.table[x])
      /\ Bucket(g) = Bucket(t)
  BY SameIs
<1>5. /\ \A x : Raw(u, x) = get_raw_ptr(t, u.table[x])
      /\ \A x \in Bucket(t) : x \in Valid(u) <=> entry_is_valid(u.table[x])
  BY <1>3, SameIs
<1>6. /\ \A k \in 0 .. n - 1 : g.table[pos(k)] # HTABLE_DELETED
      /\ \A k \in 0 .. n - 1 :
           pos(k) \in Valid(g) =>
             \E h \in 0 .. k : /\ Home(t, Raw(g, pos(k))) = pos(h)
                               /\ \A d \in h .. k : g.table[pos(d)] # Zero
      /\ \A k \in n .. Size(t) - 1 :
           pos(k) \in Valid(g) => \E h \in 0 .. k : Home(t, Raw(g, pos(k))) = pos(h)
  BY DEF Settled
<1> DEFINE Whole(w, k) == \E h \in 0 .. k : /\ Home(t, Raw(w, pos(k))) = pos(h)
                                            /\ \A d \in h .. k : w.table[pos(d)] # Zero
           Due(w, k) == \E h \in 0 .. k : Home(t, Raw(w, pos(k))) = pos(h)
<1>7. /\ \A k \in 0 .. n - 1 : pos(k) \in Valid(g) => Whole(g, k)
      /\ \A k \in n .. Size(t) - 1 : pos(k) \in Valid(g) => Due(g, k)
  BY <1>6
<1>8. SUFFICES /\ \A k \in 0 .. n : u.table[pos(k)] # HTABLE_DELETED
               /\ \A k \in 0 .. n : pos(k) \in Valid(u) => Whole(u, k)
               /\ \A k \in n + 1 .. Size(t) - 1 : pos(k) \in Valid(u) => Due(u, k)
  BY <1>1, <1>3 DEF Settled
<1>9. \A k \in 0 .. Size(t) - 1 : k # n => pos(k) # i
  BY <1>1, <1>2
<1> HIDE DEF i
<1>10. i = pos(n) /\ i \in Bucket(t)
  BY <1>1, <1>2 DEF i
<1>11. \A x : entry_is_valid(x) => x # Zero /\ x # HTABLE_DELETED
  BY DEF entry_is_valid
<1>12. Zero # HTABLE_DELETED /\ ~entry_is_valid(Zero)
  BY DEF entry_is_valid, Zero, HTABLE_DELETED
<1>13. \A k \in 0 .. n : k \in 0 .. n - 1 \/ k = n
  BY <1>1
<1> HIDE DEF pos
<1>14. CASE u = g /\ g.table[i] = Zero
  <2>1. i \notin Valid(g)
    BY <1>4, <1>10, <1>12, <1>14
  <2> HIDE DEF Whole, Due
  <2>2. \A k \in n + 1 .. Size(t) - 1 : k \in n .. Size(t) - 1
    BY <1>1
  <2> QED
    BY <1>6, <1>7, <1>10, <1>12, <1>13, <1>14, <2>1, <2>2
<1>15. CASE u = g /\ i \in Valid(g) /\ i = Home(g, Raw(g, i))
  <2>1. g.table[i] # Zero /\ g.table[i] # HTABLE_DELETED
    BY <1>4, <1>10, <1>11, <1>15
  <2>2. Whole(g, n)
    BY <1>1, <1>4, <1>10, <1>15, <2>1
  <2> HIDE DEF Whole, Due
  <2>3. \A k \in n + 1 .. Size(t) - 1 : k \in n .. Size(t) - 1
    BY <1>1
  <2> QED
    BY <1>6, <1>7, <1>10, <1>13, <1>15, <2>1, <2>2, <2>3
<1>16. CASE /\ i \notin Valid(g) /\ u.table[i] = Zero
            /\ \A x \in Bucket(t) \ {i} : u.table[x] = g.table[x]
  <2>1. \A k \in 0 .. Size(t) - 1 : k # n => /\ u.table[pos(k)] = g.table[pos(k)]
                                             /\ Raw(u, pos(k)) = Raw(g, pos(k))
                                             /\ pos(k) \in Valid(u) => pos(k) \in Valid(g)
    BY <1>2, <1>4, <1>5, <1>9, <1>16
  <2>2. i \notin Valid(u)
    BY <1>5, <1>10, <1>12, <1>16
  <2>3. ASSUME NEW k \in 0 .. n - 1, pos(k) \in Valid(u)
        PROVE  Whole(u, k)
    <3>1. k \in 0 .. Size(t) - 1 /\ k # n
      BY <1>1
    <3>2. PICK h \in 0 .. k : Home(t, Raw(g, pos(k))) = pos(h) /\ \A d \in h .. k : g.table[pos(d)] # Zero
      BY <1>7, <2>1, <2>3, <3>1
    <3>3. \A d \in h .. k : d \in 0 .. Size(t) - 1 /\ d # n
      BY <1>1
    <3> QED
      BY <2>1, <3>1, <3>2, <3>3
  <2>4. ASSUME NEW k \in n + 1 .. Size(t) - 1, pos(k) \in Valid(u)
        PROVE  Due(u, k)
    <3>1. k \in 0 .. Size(t) - 1 /\ k # n /\ k \in n .. Size(t) - 1
      BY <1>1
    <3> QED
      BY <1>7, <2>1, <2>4, <3>1
  <2>5. \A k \in 0 .. n : u.table[pos(k)] # HTABLE_DELETED
    <3>1. \A k \in 0 .. n - 1 : k \in 0 .. Size(t) - 1 /\ k # n
      BY <1>1
    <3> QED
      BY <1>6, <1>10, <1>12, <1>13, <1>16, <2>1, <3>1
  <2> HIDE DEF Whole, Due
  <2> QED
    BY <1>10, <1>13, <2>2, <2>3, <2>4, <2>5
<1>17. CASE MovesUp(g, u, i)
  <2>1. PICK p : \E m \in Bucket(g), j \in Bucket(g) :
          /\ p = Raw(g, i) /\ i \in Valid(g) /\ j = After(g, Home(g, p), m)
          /\ j = i \/ j \notin Valid(g)
          /\ \A d \in 0 .. m - 1 : LET x == After(g, Home(g, p), d) IN x # i /\ x \in Valid(g)
          /\ j \in Valid(u) /\ Raw(u, j) = p
          /\ j # i => u.table[i] = Zero
          /\ \A x \in Bucket(g) \ {i, j} : u.table[x] = g.table[x]
    BY <1>17 DEF MovesUp
  <2>2. PICK m \in Bucket(t), j \in Bucket(t) :
          /\ p = Raw(g, i) /\ i \in Valid(g) /\ j = After(t, Home(t, p), m)
          /\ j = i \/ j \notin Valid(g)
          /\ \A d \in 0 .. m - 1 : After(t, Home(t, p), d) # i /\ After(t, Home(t, p), d) \in Valid(g)
          /\ j \in Valid(u) /\ Raw(u, j) = p
          /\ j # i => u.table[i] = Zero
          /\ \A x \in Bucket(t) \ {i, j} : u.table[x] = g.table[x]
    BY <1>4, <2>1
  <2>3. PICK h \in 0 .. n : Home(t, p) = pos(h)
    <3>1. n \in n .. Size(t) - 1
      BY <1>1
    <3> QED
      BY <1>7, <1>10, <2>2, <3>1
  <2>4. h \in Bucket(t) /\ h \in Nat /\ h <= n /\ h < Size(t)
    BY <1>1
  <2>5. ASSUME NEW d \in Nat, h + d < Size(t)
        PROVE  After(t, Home(t, p), d) = pos(h + d)
    <3>1. After(t, After(t, f, h), d) = After(t, f, h + d)
      BY <1>1, <2>4, <2>5, AfterAfter
    <3> QED
      BY <2>3, <3>1 DEF pos
  <2>6. m <= n - h /\ m \in Nat
    <3>1. n - h \in Nat /\ h + (n - h) = n /\ n < Size(t) /\ m \in Nat
      BY <1>1, <2>4
    <3>2. After(t, Home(t, p), n - h) = i
      BY <1>10, <2>5, <3>1
    <3>3. n - h \notin 0 .. m - 1
      BY <2>2, <3>2
    <3> QED
      BY <3>1, <3>3
  <2>7. PICK q \in h .. n : q = h + m
    <3>1. h + m \in h .. n
      BY <1>1, <2>4, <2>6
    <3> QED
      BY <3>1
  <2>8. j = pos(q)
    BY <1>1, <2>2, <2>4, <2>5, <2>6, <2>7
  <2>9. \A d \in h .. q - 1 : pos(d) # i /\ pos(d) \in Valid(g)
    <3> SUFFICES ASSUME NEW d \in h .. q - 1
                 PROVE  pos(d) # i /\ pos(d) \in Valid(g)
      OBVIOUS
    <3>1. d - h \in Nat /\ d - h \in 0 .. m - 1 /\ h + (d - h) = d /\ d < Size(t)
      BY <1>1, <2>4, <2>6, <2>7
    <3>2. After(t, Home(t, p), d - h) = pos(d)
      BY <2>5, <3>1
    <3> QED
      BY <2>2, <3>1, <3>2
  <2>10. \A k \in 0 .. Size(t) - 1 : k # n /\ k # q =>
            /\ u.table[pos(k)] = g.table[pos(k)]
            /\ Raw(u, pos(k)) = Raw(g, pos(k))
            /\ pos(k) \in Valid(u) <=> pos(k) \in Valid(g)
    <3>1. \A k \in 0 .. Size(t) - 1 : k # n /\ k # q => pos(k) # i /\ pos(k) # j
      <4>1. q \in 0 .. Size(t) - 1
        BY <1>1, <2>4, <2>7
      <4> QED
        BY <1>d, <1>9, <2>8, <4>1
    <3> QED
      BY <1>2, <1>4, <1>5, <2>2, <3>1
  <2>11. u.table[pos(q)] # Zero /\ u.table[pos(q)] # HTABLE_DELETED
    BY <1>5, <1>11, <2>2, <2>8
  <2>12. n # q => pos(n) \notin Valid(u) /\ u.table[pos(n)] = Zero
    <3>1. n # q => pos(n) # j
      <4>1. q \in 0 .. Size(t) - 1
        BY <1>1, <2>4, <2>7
      <4> QED
        BY <1>1, <1>d, <2>8, <4>1
    <3> QED
      BY <1>5, <1>10, <1>12, <2>2, <3>1
  <2>13. \A d \in 0 .. n : d # n /\ d # q /\ g.table[pos(d)] # Zero => u.table[pos(d)] # Zero
    <3>1. \A d \in 0 .. n : d \in 0 .. Size(t) - 1
      BY <1>1
    <3> QED
      BY <2>10, <3>1
  <2>14. Whole(u, q)
    <3>1. \A d \in h .. q : u.table[pos(d)] # Zero
      <4> SUFFICES ASSUME NEW d \in h .. q, d # q PROVE u.table[pos(d)] # Zero
        BY <2>11
      <4>1. d \in h .. q - 1 /\ d \in 0 .. n /\ d # n
        BY <1>1, <2>4, <2>7
      <4>2. g.table[pos(d)] # Zero
        <5>1. pos(d) \in Valid(g) /\ d \in 0 .. Size(t) - 1
          BY <1>1, <2>9, <4>1
        <5>2. pos(d) \in Bucket(t)
          BY <1>2, <5>1
        <5> QED
          BY <1>4, <1>11, <5>1, <5>2
      <4> QED
        BY <2>13, <4>1, <4>2
    <3>2. h \in 0 .. q /\ Home(t, Raw(u, pos(q))) = pos(h)
      BY <2>2, <2>3, <2>4, <2>7, <2>8
    <3> QED
      BY <3>1, <3>2
  <2>15. ASSUME NEW k \in 0 .. n - 1, pos(k) \in Valid(u), k # q
         PROVE  Whole(u, k)
    <3>1. k \in 0 .. Size(t) - 1 /\ k # n
      BY <1>1
    <3>2. PICK x \in 0 .. k : Home(t, Raw(g, pos(k))) = pos(x) /\ \A d \in x .. k : g.table[pos(d)] # Zero
      BY <1>7, <2>10, <2>15, <3>1
    <3>3. \A d \in x .. k : d \in 0 .. n /\ d # n
      BY <1>1
    <3>4. \A d \in x .. k : u.table[pos(d)] # Zero
      BY <2>11, <2>13, <3>2, <3>3
    <3> QED
      BY <2>10, <2>15, <3>1, <3>2, <3>4
  <2>16. ASSUME NEW k \in n + 1 .. Size(t) - 1, pos(k) \in Valid(u)
         PROVE  Due(u, k)
    <3>1. k \in 0 .. Size(t) - 1 /\ k # n /\ k # q /\ k \in n .. Size(t) - 1
      BY <1>1, <2>4, <2>7
    <3> QED
      BY <1>7, <2>10, <2>16, <3>1
  <2>17. \A k \in 0 .. n : u.table[pos(k)] # HTABLE_DELETED
    <3>1. \A k \in 0 .. n - 1 : k \in 0 .. Size(t) - 1 /\ k # n
      BY <1>1
    <3> QED
      BY <1>6, <1>12, <1>13, <2>10, <2>11, <2>12, <3>1
  <2> HIDE DEF Whole, Due
  <2>18. \A k \in 0 .. n : pos(k) \in Valid(u) => Whole(u, k)
    BY <1>13, <2>12, <2>14, <2>15
  <2> QED
    BY <2>16, <2>17, <2>18
<1> QED
  BY <1>3, <1>14, <1>15, <1>16, <1>17

LEMMA SettledFirst ==
  ASSUME NEW b, NEW t, Good(t, b), Probed(t), NEW f \in Bucket(t), t.table[f] = Zero
  PROVE  Settled(t, f, t, 0)
<1>1. t.bits \in Nat /\ Size(t) \in Nat /\ Bucket(t) = 0 .. Size(t) - 1 /\ Valid(t) \subseteq Bucket(t)
  BY GoodIs DEF Bucket
<1>b. t.bits \in Nat
  BY <1>1
<1>2. ASSUME NEW k \in 0 .. Size(t) - 1, After(t, f, k) \in Valid(t)
      PROVE  \E h \in 0 .. k : Home(t, Raw(t, After(t, f, k))) = After(t, f, h)
  <2>1. PICK i, p : i = After(t, f, k) /\ p = Raw(t, i)
    OBVIOUS
  <2>2. PICK n \in Bucket(t) : i = After(t, Home(t, p), n) /\ \A d \in 0 .. n : t.table[After(t, Home(t, p), d)] # Zero
    BY <1>2, <2>1 DEF Probed, Reaches
  <2>3. Home(t, p) \in Bucket(t)
    BY <1>1, BucketIs DEF Home
  <2>4. PICK h \in Bucket(t) : After(t, f, h) = Home(t, p)
    BY <1>b, <2>3, AfterIs
  <2>5. h \in Nat /\ n \in Nat /\ h < Size(t) /\ n < Size(t)
    BY <1>1
  <2>6. h + n < Size(t)
    <3> SUFFICES ASSUME ~(h + n < Size(t)) PROVE FALSE
      OBVIOUS
    <3>1. PICK d \in 0 .. n : h + d = Size(t)
      <4>1. Size(t) - h \in 0 .. n /\ h + (Size(t) - h) = Size(t)
        BY <1>1, <2>5
      <4> QED
        BY <4>1
    <3>2. d \in Nat
      OBVIOUS
    <3>3. After(t, Home(t, p), d) = f
      BY <1>b, <2>3, <2>4, <3>1, <3>2, AfterAfter
    <3> QED
      BY <2>2, <3>1, <3>3
  <2>7. i = After(t, f, h + n)
    <3>1. After(t, After(t, f, h), n) = After(t, f, h + n)
      BY <1>b, <2>5, <2>6, AfterAfter
    <3> QED
      BY <2>2, <2>4, <3>1
  <2>8. h + n \in Bucket(t) /\ k \in Bucket(t)
    BY <1>1, <2>5, <2>6
  <2>9. h + n = k
    <3>1. \A x, y \in Bucket(t) : After(t, f, x) = After(t, f, y) => x = y
      BY <1>b, AfterIs
    <3>2. After(t, f, h + n) = After(t, f, k)
      BY <2>1, <2>7
    <3> QED
      BY <2>8, <3>1, <3>2
  <2>10. h \in 0 .. k
    BY <2>5, <2>9
  <2> QED
    BY <2>1, <2>4, <2>10
<1>3. 0 .. 0 - 1 = {}
  OBVIOUS
<1> QED
  BY <1>2, <1>3 DEF Settled

LEMMA SettledLast ==
  ASSUME NEW b, NEW t, Good(t, b), NEW f \in Bucket(t), NEW g \in SameContents(t, b),
         Settled(t, f, g, Size(t))
  PROVE  Probed(g) /\ Clean(g)
<1>1. t.bits \in Nat /\ Size(t) \in Nat /\ Bucket(t) = 0 .. Size(t) - 1
  BY GoodIs DEF Bucket
<1>b. t.bits \in Nat
  BY <1>1
<1>2. /\ Valid(g) \subseteq Bucket(t) /\ Bucket(g) = Bucket(t)
      /\ \A x, d : After(g, x, d) = After(t, x, d)
      /\ \A p : Home(g, p) = Home(t, p)
  BY SameIs
<1>3. ASSUME NEW i \in Bucket(t)
      PROVE  \E k \in 0 .. Size(t) - 1 : After(t, f, k) = i
  <2>1. \E k \in Bucket(t) : After(t, f, k) = i
    BY <1>b, AfterIs
  <2> QED
    BY <1>1, <2>1
<1>4. Clean(g)
  BY <1>2, <1>3 DEF Clean, Settled
<1>5. ASSUME NEW i \in Valid(g)
      PROVE  Reaches(g, i)
  <2>1. PICK k \in 0 .. Size(t) - 1 : After(t, f, k) = i
    BY <1>2, <1>3
  <2>2. PICK h \in 0 .. k : /\ Home(t, Raw(g, i)) = After(t, f, h)
                            /\ \A d \in h .. k : g.table[After(t, f, d)] # Zero
    BY <2>1 DEF Settled
  <2>3. h \in Bucket(t) /\ h \in Nat
    BY <1>1
  <2>4. PICK n \in Bucket(t) : n = k - h
    <3>1. k - h \in Bucket(t)
      BY <1>1
    <3> QED
      BY <3>1
  <2>5. ASSUME NEW d \in 0 .. n
        PROVE  After(t, Home(t, Raw(g, i)), d) = After(t, f, h + d) /\ h + d \in h .. k
    <3>1. d \in Nat /\ h + d < Size(t) /\ h + d \in h .. k
      BY <1>1, <2>3, <2>4
    <3>2. After(t, After(t, f, h), d) = After(t, f, h + d)
      BY <1>b, <2>3, <3>1, AfterAfter
    <3> QED
      BY <2>2, <3>1, <3>2
  <2>6. \A d \in 0 .. n : g.table[After(t, Home(t, Raw(g, i)), d)] # Zero
    BY <2>2, <2>5
  <2>7. i = After(t, Home(t, Raw(g, i)), n)
    <3>1. n \in 0 .. n /\ h + n = k
      BY <1>1, <2>3, <2>4
    <3> QED
      BY <2>1, <2>5, <3>1
  <2> QED
    BY <1>2, <2>6, <2>7 DEF Reaches
<1> QED
  BY <1>4, <1>5 DEF Probed

LEMMA RehashIs ==
  ASSUME NEW b, Pointers(b), NEW t, Good(t, b), Probed(t), NEW z \in Bucket(t), t.table[z] = Zero,
         NEW u, u = rehash_table(t)
  PROVE  \E g \in SameContents(t, b) : Probed(g) /\ Clean(g) /\ u = [g EXCEPT !.deleted = 0]
<1>1. /\ t.bits \in Nat /\ Size(t) \in Nat /\ Size(t) > 0 /\ Bucket(t) = 0 .. Size(t) - 1
      /\ Bucket(t) \in SUBSET Nat
  BY GoodIs DEF Bucket
<1>2. PICK N \in Nat : N = Size(t)
  BY <1>1
<1>3. PICK f \in Bucket(t) : f = FirstZero(t) /\ t.table[f] = Zero
  <2> DEFINE Z == {i \in Bucket(t) : t.table[i] = Zero}
             First(i) == t.table[i] = Zero /\ \A j \in 0 .. i - 1 : t.table[j] # Zero
  <2>1. Z \in SUBSET Nat /\ Z # {}
    BY <1>1
  <2>2. PICK i \in Z : \A j \in Z : i <= j
    <3> HIDE DEF Z
    <3> QED
      BY <2>1, LeastNat
  <2>3. i \in Bucket(t) /\ First(i)
    <3>1. \A j \in 0 .. i - 1 : j \in Bucket(t) /\ ~(i <= j)
      BY <1>1, <2>2
    <3> QED
      BY <2>2, <3>1
  <2>4. FirstZero(t) = CHOOSE x \in Bucket(t) : First(x)
    BY DEF FirstZero
  <2> HIDE DEF First
  <2>5. FirstZero(t) \in Bucket(t) /\ First(FirstZero(t))
    BY <2>3, <2>4
  <2> QED
    BY <2>5 DEF First
<1> DEFINE V == SameContents(t, b)
           step == [d \in 1 .. N |-> [g \in V |-> Rehashed(g, After(t, f, d - 1))]]
           Passes(w) == w = [n \in 0 .. Size(t) |->
              IF n = 0 THEN t ELSE Rehashed(w[n - 1], After(t, FirstZero(t), n - 1))]
<1>4. t \in V
  <2>1. t \in Tables
    BY DEF Good
  <2>2. t = [t EXCEPT !.table = t.table]
    BY <2>1 DEF Tables
  <2> QED
    BY <2>1, <2>2 DEF SameContents
<1>5. ASSUME NEW d \in 1 .. N, NEW g \in V
      PROVE  Rehashed(g, After(t, f, d - 1)) \in V
  <2>1. d - 1 \in Bucket(t)
    BY <1>1, <1>2
  <2>2. After(t, f, d - 1) \in Bucket(t)
    BY <1>1, <2>1, AfterIs
  <2> QED
    BY <2>2, RehashedIs
<1> HIDE DEF V
<1>6. step \in [1 .. N -> [V -> V]]
  BY <1>5
<1>7. PICK w : Iterates(w, N, V, t, step)
  <2> HIDE DEF step
  <2> QED
    BY <1>4, <1>6, RecursionExists
<1>8. w \in [0 .. N -> V] /\ w[0] = t
  BY <1>7 DEF Iterates
<1>9. ASSUME NEW d \in 1 .. N
      PROVE  w[d - 1] \in V /\ w[d] = Rehashed(w[d - 1], After(t, f, d - 1))
  <2>1. d - 1 \in 0 .. N /\ w[d - 1] \in V
    BY <1>8
  <2>2. w[d] = step[d][w[d - 1]]
    BY <1>7 DEF Iterates
  <2> QED
    BY <2>1, <2>2
<1> HIDE DEF step
<1>10. Passes(w)
  <2>1. \A n \in 0 .. N : w[n] = IF n = 0 THEN t ELSE Rehashed(w[n - 1], After(t, f, n - 1))
    <3>1. \A n \in 0 .. N : n = 0 \/ n \in 1 .. N
      OBVIOUS
    <3> QED
      BY <1>8, <1>9, <3>1
  <2> QED
    BY <1>2, <1>3, <1>8, <2>1
<1> DEFINE pass == CHOOSE x : Passes(x)
<1>11. Passes(pass)
  <2> HIDE DEF Passes
  <2> QED
    BY <1>10
<1>12. u = [pass[Size(t)] EXCEPT !.deleted = 0]
  BY DEF rehash_table
<1> HIDE DEF pass
<1>13. \A n \in 0 .. N : pass[n] = IF n = 0 THEN t ELSE Rehashed(pass[n - 1], After(t, f, n - 1))
  BY <1>2, <1>3, <1>11
<1> HIDE DEF Passes
<1> DEFINE T == {n \in Nat : n <= N => pass[n] \in V /\ Settled(t, f, pass[n], n)}
<1>14. 0 \in T
  <2>1. pass[0] = t
    BY <1>13
  <2>2. Settled(t, f, t, 0)
    BY <1>3, SettledFirst
  <2> QED
    BY <1>4, <2>1, <2>2
<1>15. ASSUME NEW n \in T PROVE n + 1 \in T
  <2> SUFFICES ASSUME n + 1 <= N PROVE pass[n + 1] \in V /\ Settled(t, f, pass[n + 1], n + 1)
    OBVIOUS
  <2>1. PICK g \in V : g = pass[n] /\ Settled(t, f, g, n)
    OBVIOUS
  <2>2. n \in Nat /\ n + 1 \in 0 .. N /\ n + 1 # 0 /\ n + 1 - 1 = n /\ n \in Bucket(t)
    BY <1>1, <1>2
  <2>3. pass[n + 1] = Rehashed(g, After(t, f, n))
    BY <1>13, <2>1, <2>2
  <2>4. g \in SameContents(t, b)
    BY DEF V
  <2>5. pass[n + 1] \in SameContents(t, b) /\ Settled(t, f, pass[n + 1], n + 1)
    BY <2>1, <2>2, <2>3, <2>4, SettledStep
  <2> QED
    BY <2>5 DEF V
<1>16. T \in SUBSET Nat
  OBVIOUS
<1> HIDE DEF T
<1>17. T = Nat
  BY <1>14, <1>15, <1>16, NatInductive
<1>18. pass[N] \in V /\ Settled(t, f, pass[N], N)
  BY <1>17 DEF T
<1>19. PICK g \in SameContents(t, b) : g = pass[N]
  BY <1>18 DEF V
<1>20. Probed(g) /\ Clean(g)
  BY <1>2, <1>3, <1>18, <1>19, SettledLast
<1> QED
  BY <1>2, <1>12, <1>19, <1>20

-----------------------------------------------------------------------------
(* Htable: update_common.                                                  *)

(* u is t with its elements told apart by more bits.                       *)
Recoded(t, u) ==
  /\ u.bits = t.bits /\ Bucket(u) = Bucket(t) /\ Valid(u) = Valid(t)
  /\ u.elems = t.elems /\ u.deleted = t.deleted
  /\ u.max = t.max /\ u.max_with_deleted = t.max_with_deleted
  /\ \A i \in Valid(t) : Raw(u, i) = Raw(t, i)
  /\ \A i \in Bucket(t) \ Valid(t) : u.table[i] = t.table[i]

LEMMA EntryNarrowed ==
  ASSUME NEW B, NEW m, NEW c, NEW d, m \subseteq B, c \subseteq m, d \subseteq m,
         NEW e, e \subseteq B, NEW w, w = (e \ d) \cup (c \cap d)
  PROVE  /\ (w \cap (B \ (m \ d))) \cup (c \ d) = (e \cap (B \ m)) \cup c
         /\ w \cap (m \ d) = (e \cap m) \ d
<1>1. (w \cap (B \ (m \ d))) \cup (c \ d) = (e \cap (B \ m)) \cup c
  OBVIOUS
<1>2. w \cap (m \ d) = (e \cap m) \ d
  OBVIOUS
<1> QED
  BY <1>1, <1>2

LEMMA UpdateIs ==
  ASSUME NEW b, Pointers(b), NEW t, Good(t, b), NEW p \in Elem, t.elems = 0 <=> Valid(t) = {},
         NEW u, u = update_common(t, p)
  PROVE  Good(u, b) /\ b \notin u.common_mask /\ p \cap u.common_mask = u.common_bits /\ Recoded(t, u)
<1>1. /\ t.bits \in Nat /\ t.table \in [Bucket(t) -> SUBSET Bit] /\ t \in Tables
      /\ Bucket(t) \subseteq Nat /\ Valid(t) \subseteq Bucket(t)
      /\ t.common_bits \subseteq t.common_mask /\ t.perfect_bit \subseteq t.common_mask
      /\ t.common_mask \subseteq Bit
  BY GoodIs DEF Good, Bucket
<1>2. p \subseteq Bit /\ b \in p /\ b \in Bit /\ b # 0 /\ 0 \in Bit /\ \A c \in p : c <= b
  BY DEF Pointers, Bit
<1>3. CASE t.elems = 0
  <2>1. Highest(p) = {b}
    <3>1. \A c \in p : (\A x \in p : x <= c) => c = b
      BY <1>2 DEF Pointers, Bit
    <3>2. \A x \in p : x <= b
      BY <1>2
    <3> QED
      BY <1>2, <3>1, <3>2 DEF Highest
  <2>2. PICK m, c, f : m = Bit \ {b} /\ c = p \cap m /\ f = {0}
    OBVIOUS
  <2>3. u = [t EXCEPT !.common_mask = m, !.common_bits = c, !.perfect_bit = f]
    BY <1>3, <2>1, <2>2 DEF update_common, Complement
  <2>4. m \in SUBSET Bit /\ c \in SUBSET Bit /\ f \in SUBSET Bit /\ 0 \in m /\ b \notin m /\ c \subseteq m
    BY <1>2, <2>2
  <2>5. /\ u \in Tables /\ u.bits = t.bits /\ u.elems = t.elems /\ u.deleted = t.deleted
        /\ u.max = t.max /\ u.max_with_deleted = t.max_with_deleted /\ u.table = t.table
        /\ u.common_mask = m /\ u.common_bits = c /\ u.perfect_bit = f
    <3>1. PICK V, B : V = UNION {[X -> SUBSET Bit] : X \in SUBSET Nat} /\ B = SUBSET Bit
      OBVIOUS
    <3>2. t \in [bits : Nat, elems : Nat, deleted : Nat, max : Nat, max_with_deleted : Nat,
                 common_mask : B, common_bits : B, perfect_bit : B, table : V]
      BY <1>1, <3>1 DEF Tables
    <3>3. m \in B /\ c \in B /\ f \in B
      BY <2>4, <3>1
    <3>4. u \in [bits : Nat, elems : Nat, deleted : Nat, max : Nat, max_with_deleted : Nat,
                 common_mask : B, common_bits : B, perfect_bit : B, table : V]
      BY <2>3, <3>2, <3>3
    <3>5. u \in Tables
      BY <3>1, <3>4 DEF Tables
    <3> QED
      BY <2>3, <3>2, <3>5
  <2>6. Bucket(u) = Bucket(t) /\ Valid(u) = Valid(t) /\ Valid(t) = {}
    BY <1>3, <2>5 DEF Bucket, Size, Valid
  <2>7. HasTable(u)
    BY <2>5, <2>6 DEF Good, HasTable
  <2>8. Masks(u, b)
    BY <2>2, <2>4, <2>5 DEF Masks
  <2>9. Good(u, b)
    BY <2>5, <2>6, <2>7, <2>8 DEF Good
  <2>10. Recoded(t, u)
    BY <2>5, <2>6 DEF Recoded
  <2> QED
    BY <2>2, <2>4, <2>5, <2>9, <2>10
<1>4. CASE t.elems # 0
  <2>1. b \notin t.common_mask
    BY <1>4 DEF Good, Masks
  <2>2. PICK d : d = Xor(t.common_bits, p \cap t.common_mask)
    OBVIOUS
  <2>3. d \subseteq t.common_mask /\ b \notin d
    BY <1>1, <2>1, <2>2 DEF Xor
  <2>4. PICK tb : tb = [i \in Bucket(t) |-> IF i \in Valid(t) THEN (t.table[i] \ d) \cup (t.common_bits \cap d)
                                                             ELSE t.table[i]]
    OBVIOUS
  <2>5. u = [t EXCEPT !.table = tb, !.common_mask = t.common_mask \ d,
                      !.common_bits = t.common_bits \ d, !.perfect_bit = t.perfect_bit \ d]
    <3>1. u = Narrowed([t EXCEPT !.table = tb], d)
      BY <1>4, <2>2, <2>4 DEF update_common
    <3>2. PICK v : v = [t EXCEPT !.table = tb]
      OBVIOUS
    <3>3. /\ v.common_mask = t.common_mask /\ v.common_bits = t.common_bits
          /\ v.perfect_bit = t.perfect_bit
      BY <1>1, <3>2 DEF Tables
    <3>4. u = [v EXCEPT !.common_mask = t.common_mask \ d,
                        !.common_bits = t.common_bits \ d, !.perfect_bit = t.perfect_bit \ d]
      BY <3>1, <3>2, <3>3 DEF Narrowed
    <3>5. PICK m, c, f : m = t.common_mask \ d /\ c = t.common_bits \ d /\ f = t.perfect_bit \ d
      OBVIOUS
    <3>6. u = [v EXCEPT !.common_mask = m, !.common_bits = c, !.perfect_bit = f]
      BY <3>4, <3>5
    <3>7. u = [t EXCEPT !.table = tb, !.common_mask = m, !.common_bits = c, !.perfect_bit = f]
      BY <1>1, <3>2, <3>6 DEF Tables
    <3> QED
      BY <3>5, <3>7
  <2>6. /\ tb \in [Bucket(t) -> SUBSET Bit]
        /\ \A i \in Valid(t) : tb[i] = (t.table[i] \ d) \cup (t.common_bits \cap d)
        /\ \A i \in Bucket(t) \ Valid(t) : tb[i] = t.table[i]
    <3>1. \A i \in Bucket(t) : t.table[i] \subseteq Bit
      BY <1>1
    <3>2. \A e : e \subseteq Bit => (e \ d) \cup (t.common_bits \cap d) \subseteq Bit
      BY <1>1
    <3> QED
      BY <1>1, <2>4, <3>1, <3>2
  <2>7. /\ u \in Tables /\ u.bits = t.bits /\ u.elems = t.elems /\ u.deleted = t.deleted
        /\ u.max = t.max /\ u.max_with_deleted = t.max_with_deleted /\ u.table = tb
        /\ u.common_mask = t.common_mask \ d /\ u.common_bits = t.common_bits \ d
        /\ u.perfect_bit = t.perfect_bit \ d
    <3>1. PICK V, B : V = UNION {[X -> SUBSET Bit] : X \in SUBSET Nat} /\ B = SUBSET Bit
      OBVIOUS
    <3>2. t \in [bits : Nat, elems : Nat, deleted : Nat, max : Nat, max_with_deleted : Nat,
                 common_mask : B, common_bits : B, perfect_bit : B, table : V]
      BY <1>1, <3>1 DEF Tables
    <3>3. PICK m, c, f : m = t.common_mask \ d /\ c = t.common_bits \ d /\ f = t.perfect_bit \ d
      OBVIOUS
    <3>4. m \in B /\ c \in B /\ f \in B
      BY <1>1, <3>1, <3>3
    <3>5. tb \in V
      <4>1. Bucket(t) \in SUBSET Nat
        BY <1>1
      <4> QED
        BY <2>6, <3>1, <4>1
    <3>6. u = [t EXCEPT !.table = tb, !.common_mask = m, !.common_bits = c, !.perfect_bit = f]
      BY <2>5, <3>3
    <3>7. u \in [bits : Nat, elems : Nat, deleted : Nat, max : Nat, max_with_deleted : Nat,
                 common_mask : B, common_bits : B, perfect_bit : B, table : V]
      BY <3>2, <3>4, <3>5, <3>6
    <3>8. u \in Tables
      BY <3>1, <3>7 DEF Tables
    <3> QED
      BY <3>2, <3>3, <3>6, <3>8
  <2>8. Bucket(u) = Bucket(t) /\ HasTable(u)
    BY <2>6, <2>7 DEF Bucket, Size, HasTable
  <2>9. ASSUME NEW i \in Valid(t)
        PROVE  /\ entry_is_valid(tb[i])
               /\ Raw(u, i) = Raw(t, i)
               /\ get_extra_ptr_bits(u, u.table[i]) = get_extra_ptr_bits(t, t.table[i]) \ d
    <3>1. PICK e, w : e = t.table[i] /\ w = tb[i]
      OBVIOUS
    <3>2. e \subseteq Bit /\ w = (e \ d) \cup (t.common_bits \cap d)
      BY <1>1, <2>6, <3>1
    <3>3. b \in Raw(t, i)
      BY DEF Good, Pointers
    <3>4. b \in e
      BY <1>1, <2>1, <3>1, <3>3 DEF Raw, get_raw_ptr
    <3>5. b \in w
      BY <2>3, <3>2, <3>4
    <3>6. entry_is_valid(w)
      BY <1>2, <3>5 DEF entry_is_valid, Zero, HTABLE_DELETED
    <3>7. /\ (w \cap (Bit \ (t.common_mask \ d))) \cup (t.common_bits \ d)
               = (e \cap (Bit \ t.common_mask)) \cup t.common_bits
          /\ w \cap (t.common_mask \ d) = (e \cap t.common_mask) \ d
      BY <1>1, <2>3, <3>2, EntryNarrowed
    <3>8. Raw(u, i) = Raw(t, i)
      BY <2>7, <3>1, <3>7 DEF Raw, get_raw_ptr, Complement
    <3>9. get_extra_ptr_bits(u, u.table[i]) = get_extra_ptr_bits(t, t.table[i]) \ d
      BY <2>7, <3>1, <3>7 DEF get_extra_ptr_bits
    <3> QED
      BY <3>1, <3>6, <3>8, <3>9
  <2>10. Valid(u) = Valid(t)
    <3>1. DOMAIN tb = Bucket(t) /\ DOMAIN t.table = Bucket(t)
      BY <1>1, <2>6
    <3> QED
      BY <1>1, <2>6, <2>7, <2>9, <3>1 DEF Valid
  <2>11. ASSUME NEW q, NEW i
         PROVE  Extra(u, q, i) = Extra(t, q, i) \ d
    <3>1. Home(u, q) = Home(t, q)
      BY <2>7 DEF Home, hash_bucket
    <3>2. PICK x : x = Xor(rehash(q), ShiftRight(rehash(q), t.bits))
      OBVIOUS
    <3>3. (x \cap (t.common_mask \ d)) \cap (Bit \ (t.perfect_bit \ d))
            = ((x \cap t.common_mask) \cap (Bit \ t.perfect_bit)) \ d
      OBVIOUS
    <3>4. get_hash_ptr_bits(u, rehash(q)) = get_hash_ptr_bits(t, rehash(q)) \ d
      BY <2>7, <3>2, <3>3 DEF get_hash_ptr_bits, Complement
    <3> QED
      BY <2>7, <3>1, <3>4 DEF Extra, Zero
  <2>12. Masks(u, b)
    <3>1. t.perfect_bit = Zero \/ \E x \in t.common_mask : t.perfect_bit = {x}
      BY DEF Good, Masks
    <3>2. u.perfect_bit = Zero \/ \E x \in u.common_mask : u.perfect_bit = {x}
      BY <2>7, <3>1 DEF Zero
    <3> QED
      BY <1>1, <2>1, <2>7, <3>2 DEF Masks
  <2>13. Good(u, b)
    BY <2>7, <2>8, <2>9, <2>10, <2>11, <2>12 DEF Good
  <2>14. p \cap u.common_mask = u.common_bits
    BY <1>1, <2>2, <2>7 DEF Xor
  <2>15. Recoded(t, u)
    BY <2>6, <2>7, <2>8, <2>9, <2>10 DEF Recoded
  <2> QED
    BY <2>1, <2>7, <2>13, <2>14, <2>15
<1> QED
  BY <1>3, <1>4

-----------------------------------------------------------------------------
(* Htable: the inductive invariant of a table.                             *)

Tombs(t) == {i \in Bucket(t) : t.table[i] = HTABLE_DELETED}

Sound(t, b) ==
  /\ Good(t, b) /\ Probed(t) /\ Limits(t)
  /\ t.elems = Cardinality(Valid(t)) /\ Cardinality(Tombs(t)) <= t.deleted
  /\ t.elems <= t.max /\ t.elems + t.deleted <= t.max_with_deleted

LEMMA SoundIs ==
  ASSUME NEW b, NEW t, Sound(t, b)
  PROVE  /\ \E z \in Bucket(t) : t.table[z] = Zero
         /\ t.elems = 0 <=> Valid(t) = {}
         /\ IsFiniteSet(Valid(t)) /\ IsFiniteSet(Tombs(t)) /\ Cardinality(Tombs(t)) \in Nat
         /\ t.elems \in Nat /\ t.deleted \in Nat /\ t.max \in Nat /\ t.max_with_deleted \in Nat
         /\ t.max <= t.max_with_deleted /\ t.max_with_deleted < Size(t)
<1>1. /\ t.bits \in Nat /\ Size(t) \in Nat /\ Size(t) > 0 /\ Bucket(t) = 0 .. Size(t) - 1
      /\ Valid(t) \subseteq Bucket(t) /\ DOMAIN t.table = Bucket(t)
  BY GoodIs DEF Bucket, Sound, Good, HasTable
<1>2. PICK S \in Nat : S = Size(t) /\ S > 0
  BY <1>1
<1>3. IsFiniteSet(0 .. S - 1) /\ Cardinality(0 .. S - 1) = S
  <2>1. 0 \in Int /\ S - 1 \in Int
    OBVIOUS
  <2>2. Cardinality(0 .. S - 1) = IF 0 > S - 1 THEN 0 ELSE (S - 1) - 0 + 1
    BY <2>1, FS_Interval
  <2>3. IsFiniteSet(0 .. S - 1)
    BY <2>1, FS_Interval
  <2> QED
    BY <2>2, <2>3
<1>4. /\ IsFiniteSet(Valid(t)) /\ IsFiniteSet(Tombs(t))
      /\ Cardinality(Valid(t)) \in Nat /\ Cardinality(Tombs(t)) \in Nat
  <2>1. Valid(t) \subseteq 0 .. S - 1 /\ Tombs(t) \subseteq 0 .. S - 1
    BY <1>1, <1>2 DEF Tombs
  <2> QED
    BY <1>3, <2>1, FS_Subset, FS_CardinalityType
<1>5. /\ t.elems \in Nat /\ t.deleted \in Nat /\ t.max \in Nat /\ t.max_with_deleted \in Nat
      /\ t.max <= t.max_with_deleted /\ t.max_with_deleted < Size(t)
  <2>1. t.elems \in Nat /\ t.deleted \in Nat /\ t.max \in Nat /\ t.max_with_deleted \in Nat
    BY DEF Sound, Good, Tables
  <2>2. t.max = (3 * S) \div 4 /\ t.max_with_deleted = (9 * S) \div 10
    BY <1>2 DEF Sound, Limits
  <2> QED
    BY <1>2, <2>1, <2>2, LimitsAre
<1>6. \E z \in Bucket(t) : t.table[z] = Zero
  <2> SUFFICES ASSUME \A z \in Bucket(t) : t.table[z] # Zero PROVE FALSE
    OBVIOUS
  <2>1. 0 .. S - 1 = Valid(t) \cup Tombs(t)
    BY <1>1, <1>2 DEF Valid, Tombs, entry_is_valid
  <2>2. Cardinality(Valid(t) \cup Tombs(t)) <= Cardinality(Valid(t)) + Cardinality(Tombs(t))
    <3>1. Cardinality(Valid(t) \cap Tombs(t)) \in Nat
      BY <1>4, FS_Intersection, FS_CardinalityType
    <3>2. Cardinality(Valid(t) \cup Tombs(t))
            = Cardinality(Valid(t)) + Cardinality(Tombs(t)) - Cardinality(Valid(t) \cap Tombs(t))
      BY <1>4, FS_Union
    <3> QED
      BY <1>4, <3>1, <3>2
  <2>3. t.elems = Cardinality(Valid(t)) /\ Cardinality(Tombs(t)) <= t.deleted
        /\ t.elems + t.deleted <= t.max_with_deleted
    BY DEF Sound
  <2>4. Cardinality(Valid(t) \cup Tombs(t)) = S
    BY <1>3, <2>1
  <2> QED
    BY <1>2, <1>4, <1>5, <2>2, <2>3, <2>4
<1>7. t.elems = 0 <=> Valid(t) = {}
  BY <1>4, FS_EmptySet DEF Sound
<1> QED
  BY <1>4, <1>5, <1>6, <1>7

LEMMA CleanTombs ==
  ASSUME NEW t, Clean(t)
  PROVE  Tombs(t) = {} /\ Cardinality(Tombs(t)) = 0
BY FS_EmptySet DEF Clean, Tombs

(* A table that is as the invariant says and has room for one more.        *)
Roomy(t, b) == Sound(t, b) /\ t.elems + 1 <= t.max

LEMMA DoubleSound ==
  ASSUME NEW b, Pointers(b), NEW t \in Tables, Masks(t, b),
         NEW K \in Nat, DOMAIN t.table = 0 .. K - 1, \A i \in Valid(t) : Raw(t, i) \in Elem,
         t.elems = Cardinality(Valid(t)), t.elems <= (3 * Power[t.bits]) \div 4,
         NEW u, u = double_table(t)
  PROVE  Roomy(u, b) /\ \A P : Count(u, P) = Count(t, P)
<1>1. PICK S \in Nat : S = Power[t.bits] /\ S > 0 /\ Power[t.bits + 1] = 2 * S
  <2>1. PICK n \in Nat : n = t.bits
    BY DEF Tables
  <2>2. Power[n] \in Nat /\ Power[n] > 0 /\ Power[n + 1] = 2 * Power[n]
    BY PowerOf
  <2> QED
    BY <2>1, <2>2
<1>2. /\ (3 * S) \div 4 \in Nat /\ (9 * S) \div 10 \in Nat
      /\ (3 * S) \div 4 <= (9 * S) \div 10 /\ (9 * S) \div 10 < S
      /\ (3 * S) \div 4 + 1 <= (3 * (2 * S)) \div 4
  BY <1>1, LimitsAre
<1>3. t.elems \in Nat
  BY DEF Tables
<1>4. Cardinality(Valid(t)) < Power[t.bits + 1]
  BY <1>1, <1>2, <1>3
<1>5. u \in Filling(Bigger(t), b) /\ \A P : Count(u, P) = Count(t, P)
  BY <1>4, DoubleIs
<1>6. PICK s : s = Bigger(t)
  OBVIOUS
<1>7. /\ Good(s, b) /\ Limits(s) /\ s.bits = t.bits + 1 /\ s.elems = t.elems /\ s.deleted = 0
  BY <1>6, BiggerIs
<1>8. u \in Tables /\ Good(u, b) /\ Probed(u) /\ Clean(u) /\ u = [s EXCEPT !.table = u.table]
  BY <1>5, <1>6 DEF Filling
<1>9. /\ u.bits = s.bits /\ u.elems = s.elems /\ u.deleted = s.deleted
      /\ u.max = s.max /\ u.max_with_deleted = s.max_with_deleted
  <2>1. s \in Tables
    BY <1>7 DEF Good
  <2> QED
    BY <1>8, <2>1 DEF Tables
<1>10. Size(u) = 2 * S /\ Size(s) = 2 * S
  BY <1>1, <1>7, <1>9 DEF Size
<1>11. Limits(u)
  BY <1>7, <1>9, <1>10 DEF Limits
<1>12. u.elems = Cardinality(Valid(u))
  <2>1. Holds(u, Elem) = Valid(u) /\ Holds(t, Elem) = Valid(t)
    BY <1>8 DEF Holds, Good
  <2>2. Count(u, Elem) = Count(t, Elem)
    BY <1>5
  <2> QED
    BY <1>7, <1>9, <2>1, <2>2 DEF Count
<1>13. u.max = (3 * (2 * S)) \div 4 /\ u.max_with_deleted = (9 * (2 * S)) \div 10
  BY <1>10, <1>11 DEF Limits
<1>14. /\ (3 * (2 * S)) \div 4 \in Nat /\ (9 * (2 * S)) \div 10 \in Nat
       /\ (3 * (2 * S)) \div 4 <= (9 * (2 * S)) \div 10
  <2>1. PICK D \in Nat : D = 2 * S /\ D > 0
    BY <1>1
  <2>2. (3 * D) \div 4 \in Nat /\ (9 * D) \div 10 \in Nat /\ (3 * D) \div 4 <= (9 * D) \div 10
    BY <2>1, LimitsAre
  <2> QED
    BY <2>1, <2>2
<1>15. u.deleted = 0 /\ u.elems = t.elems
  BY <1>7, <1>9
<1>16. u.elems + 1 <= u.max
  BY <1>1, <1>2, <1>3, <1>13, <1>14, <1>15
<1>17. u.elems <= u.max /\ u.elems + u.deleted <= u.max_with_deleted
  BY <1>3, <1>13, <1>14, <1>15, <1>16
<1>18. Cardinality(Tombs(u)) <= u.deleted
  BY <1>8, <1>15, CleanTombs
<1> QED
  BY <1>5, <1>8, <1>11, <1>12, <1>16, <1>17, <1>18 DEF Roomy, Sound

LEMMA RehashSound ==
  ASSUME NEW b, Pointers(b), NEW t, Roomy(t, b), NEW u, u = rehash_table(t)
  PROVE  Roomy(u, b) /\ u.deleted = 0 /\ u.max_with_deleted = t.max_with_deleted /\ u.elems = t.elems
         /\ u.max = t.max /\ \A P : Count(u, P) = Count(t, P)
<1>1. Sound(t, b) /\ Good(t, b) /\ Probed(t) /\ t.elems + 1 <= t.max
  BY DEF Roomy, Sound
<1>2. PICK z \in Bucket(t) : t.table[z] = Zero
  BY <1>1, SoundIs
<1>3. PICK g \in SameContents(t, b) : Probed(g) /\ Clean(g) /\ u = [g EXCEPT !.deleted = 0]
  BY <1>1, <1>2, RehashIs
<1>4. /\ Good(g, b) /\ g \in Tables /\ g = [t EXCEPT !.table = g.table] /\ t \in Tables
      /\ \A P : Count(g, P) = Count(t, P)
  BY <1>1, <1>3, SameIs DEF Good
<1>5. /\ g.bits = t.bits /\ g.elems = t.elems /\ g.max = t.max
      /\ g.max_with_deleted = t.max_with_deleted
  BY <1>4 DEF Tables
<1>6. Alike(g, u) /\ u.deleted = 0 /\ u.elems = g.elems /\ u.max = g.max
      /\ u.max_with_deleted = g.max_with_deleted
  <2>1. PICK V, B : V = UNION {[X -> SUBSET Bit] : X \in SUBSET Nat} /\ B = SUBSET Bit
    OBVIOUS
  <2>2. g \in [bits : Nat, elems : Nat, deleted : Nat, max : Nat, max_with_deleted : Nat,
               common_mask : B, common_bits : B, perfect_bit : B, table : V]
    BY <1>4, <2>1 DEF Tables
  <2>3. u \in [bits : Nat, elems : Nat, deleted : Nat, max : Nat, max_with_deleted : Nat,
               common_mask : B, common_bits : B, perfect_bit : B, table : V]
    BY <1>3, <2>2
  <2>4. u \in Tables
    BY <2>1, <2>3 DEF Tables
  <2> QED
    BY <1>3, <2>2, <2>4 DEF Alike
<1>7. /\ Good(u, b) /\ Probed(u) /\ Clean(u) /\ Size(u) = Size(g)
      /\ \A P : Count(u, P) = Count(g, P)
  BY <1>3, <1>4, <1>6, AlikeIs
<1>8. \A P : Count(u, P) = Count(t, P)
  BY <1>4, <1>7
<1>9. Size(u) = Size(t)
  BY <1>5, <1>7 DEF Size
<1>10. Limits(u)
  BY <1>1, <1>5, <1>6, <1>9 DEF Limits, Sound
<1>11. u.elems = Cardinality(Valid(u))
  <2>1. Holds(u, Elem) = Valid(u) /\ Holds(t, Elem) = Valid(t)
    BY <1>1, <1>7 DEF Holds, Good
  <2>2. Count(u, Elem) = Count(t, Elem)
    BY <1>8
  <2> QED
    BY <1>1, <1>5, <1>6, <2>1, <2>2 DEF Count, Sound
<1>12. t.elems \in Nat /\ t.max \in Nat /\ t.max_with_deleted \in Nat /\ t.max <= t.max_with_deleted
  BY <1>1, SoundIs
<1>13. u.elems <= u.max /\ u.elems + u.deleted <= u.max_with_deleted /\ u.elems + 1 <= u.max
  BY <1>1, <1>5, <1>6, <1>12
<1>14. Cardinality(Tombs(u)) <= u.deleted
  BY <1>6, <1>7, CleanTombs
<1> QED
  BY <1>5, <1>6, <1>7, <1>8, <1>10, <1>11, <1>13, <1>14 DEF Roomy, Sound

LEMMA RecodedSound ==
  ASSUME NEW b, NEW t, Sound(t, b), NEW u, Good(u, b), Recoded(t, u)
  PROVE  Sound(u, b) /\ \A P : Count(u, P) = Count(t, P)
<1>1. /\ u.bits = t.bits /\ Bucket(u) = Bucket(t) /\ Valid(u) = Valid(t)
      /\ u.elems = t.elems /\ u.deleted = t.deleted
      /\ u.max = t.max /\ u.max_with_deleted = t.max_with_deleted
      /\ \A i \in Valid(t) : Raw(u, i) = Raw(t, i)
      /\ \A i \in Bucket(t) \ Valid(t) : u.table[i] = t.table[i]
  BY DEF Recoded
<1>2. Good(t, b) /\ Probed(t) /\ Limits(t)
  BY DEF Sound
<1>3. t.bits \in Nat /\ Valid(t) \subseteq Bucket(t) /\ DOMAIN t.table = Bucket(t) /\ DOMAIN u.table = Bucket(t)
  BY <1>1, <1>2, GoodIs DEF Good, HasTable
<1>5. Tombs(u) = Tombs(t)
  <2>1. \A x \in Bucket(t) : u.table[x] = HTABLE_DELETED <=> t.table[x] = HTABLE_DELETED
    BY <1>1, <1>3 DEF entry_is_valid, Valid
  <2> QED
    BY <1>1, <2>1 DEF Tombs
<1>6. Limits(u)
  BY <1>1, <1>2 DEF Limits, Size
<1>7. Probed(u)
  <2>1. \A x \in Bucket(t) : t.table[x] # Zero => u.table[x] # Zero
    BY <1>1, <1>3 DEF entry_is_valid, Valid
  <2>2. ASSUME NEW i \in Valid(u)
        PROVE  Reaches(u, i)
    BY <1>1, <1>2, <1>3, <2>1, ReachKept DEF Probed
  <2> QED
    BY <2>2 DEF Probed
<1>8. \A P : Count(u, P) = Count(t, P)
  BY <1>1 DEF Count, Holds
<1> QED
  BY <1>1, <1>5, <1>6, <1>7, <1>8 DEF Sound

(* A change of the counters alone                                          *)
Recounted(t, e, d) == [t EXCEPT !.elems = e, !.deleted = d]

LEMMA CountersAre ==
  ASSUME NEW t \in Tables, NEW e \in Nat, NEW d \in Nat, NEW u, u = Recounted(t, e, d)
  PROVE  /\ Alike(t, u) /\ u.elems = e /\ u.deleted = d
         /\ u.max = t.max /\ u.max_with_deleted = t.max_with_deleted
<1>1. PICK V, B : V = UNION {[X -> SUBSET Bit] : X \in SUBSET Nat} /\ B = SUBSET Bit
  OBVIOUS
<1>2. t \in [bits : Nat, elems : Nat, deleted : Nat, max : Nat, max_with_deleted : Nat,
             common_mask : B, common_bits : B, perfect_bit : B, table : V]
  BY <1>1 DEF Tables
<1>3. u \in [bits : Nat, elems : Nat, deleted : Nat, max : Nat, max_with_deleted : Nat,
             common_mask : B, common_bits : B, perfect_bit : B, table : V]
  BY <1>2 DEF Recounted
<1>4. u \in Tables
  BY <1>1, <1>3 DEF Tables
<1> QED
  BY <1>2, <1>4 DEF Alike, Recounted

(* The table with p in it, and counted                                     *)
Entered(t, p) == [ht_add(t, p, rehash(p)) EXCEPT !.elems = @ + 1]

LEMMA AddSound ==
  ASSUME NEW b, Pointers(b), NEW t, Roomy(t, b), NEW p \in Elem,
         NEW tidy, tidy = IF NeedsRehash(t) THEN rehash_table(t) ELSE t,
         NEW cov, cov = IF p \cap tidy.common_mask # tidy.common_bits
                        THEN update_common(tidy, p) ELSE tidy,
         NEW u, u = Entered(cov, p)
  PROVE  /\ Sound(u, b) /\ u.elems = t.elems + 1 /\ u.max = t.max
         /\ \A P : Count(u, P) = Count(t, P) + (IF p \in P THEN 1 ELSE 0)
<1>1. /\ t.elems \in Nat /\ t.deleted \in Nat /\ t.max \in Nat /\ t.max_with_deleted \in Nat
      /\ t.max <= t.max_with_deleted /\ t.elems + 1 <= t.max
  BY SoundIs DEF Roomy
<1>2. /\ Roomy(tidy, b) /\ tidy.elems + 1 + tidy.deleted <= tidy.max_with_deleted
      /\ tidy.elems = t.elems /\ tidy.max = t.max /\ \A P : Count(tidy, P) = Count(t, P)
  <2>1. CASE NeedsRehash(t)
    <3>1. /\ Roomy(tidy, b) /\ tidy.deleted = 0 /\ tidy.max_with_deleted = t.max_with_deleted
          /\ tidy.elems = t.elems /\ tidy.max = t.max /\ \A P : Count(tidy, P) = Count(t, P)
      BY <2>1, RehashSound
    <3> QED
      BY <1>1, <3>1
  <2>2. CASE ~NeedsRehash(t)
    <3>1. tidy = t /\ ~(t.elems + 1 + t.deleted > t.max_with_deleted)
      BY <2>2 DEF NeedsRehash
    <3> QED
      BY <1>1, <3>1
  <2> QED
    BY <2>1, <2>2
<1>3. Sound(tidy, b) /\ Good(tidy, b)
  BY <1>2 DEF Roomy, Sound
<1>4. tidy.elems = 0 <=> Valid(tidy) = {}
  BY <1>3, SoundIs
<1>5. /\ Sound(cov, b) /\ b \notin cov.common_mask /\ p \cap cov.common_mask = cov.common_bits
      /\ cov.elems = t.elems /\ cov.max = t.max
      /\ cov.elems + 1 + cov.deleted <= cov.max_with_deleted
      /\ \A P : Count(cov, P) = Count(t, P)
  <2>1. CASE p \cap tidy.common_mask # tidy.common_bits
    <3>1. cov = update_common(tidy, p)
      BY <2>1
    <3>2. Good(cov, b) /\ b \notin cov.common_mask /\ p \cap cov.common_mask = cov.common_bits /\ Recoded(tidy, cov)
      BY <1>3, <1>4, <3>1, UpdateIs
    <3>3. Sound(cov, b) /\ \A P : Count(cov, P) = Count(tidy, P)
      BY <1>3, <3>2, RecodedSound
    <3> QED
      BY <1>2, <3>2, <3>3 DEF Recoded
  <2>2. CASE p \cap tidy.common_mask = tidy.common_bits
    <3>1. cov = tidy
      BY <2>2
    <3>2. b \notin tidy.common_mask
      BY <1>3, <2>2 DEF Good, Masks, Pointers, Zero
    <3> QED
      BY <1>2, <1>3, <2>2, <3>1, <3>2
  <2> QED
    BY <2>1, <2>2
<1>6. Good(cov, b) /\ Probed(cov) /\ Limits(cov) /\ cov \in Tables
  BY <1>5 DEF Sound, Good
<1>7. PICK z \in Bucket(cov) : ~entry_is_valid(cov.table[z])
  BY <1>5, SoundIs DEF entry_is_valid
<1>8. PICK v : v = ht_add(cov, p, rehash(p))
  OBVIOUS
<1>9. PICK j : Good(v, b) /\ Puts(cov, v, j, p)
  BY <1>5, <1>6, <1>7, <1>8, AddKeeps
<1>10. v.bits = cov.bits /\ Bucket(v) = Bucket(cov) /\ Probed(v)
  BY <1>6, <1>9, PutsKeep
<1>11. /\ v \in Tables /\ v.elems = cov.elems /\ v.deleted = cov.deleted /\ v.max = cov.max
       /\ v.max_with_deleted = cov.max_with_deleted
  <2>1. v \in Tables /\ v = [cov EXCEPT !.table = v.table]
    BY <1>9 DEF Good, Puts
  <2> QED
    BY <1>6, <2>1 DEF Tables
<1>12. /\ Cardinality(Valid(v)) = Cardinality(Valid(cov)) + 1
       /\ \A P : Count(v, P) = Count(cov, P) + (IF p \in P THEN 1 ELSE 0)
  <2>1. Size(cov) \in Nat /\ Valid(cov) \subseteq 0 .. Size(cov) - 1
    BY <1>6, GoodIs DEF Bucket
  <2> QED
    BY <1>9, <2>1, AddsCount DEF Puts
<1>13. Tombs(v) \subseteq Tombs(cov)
  BY <1>9, <1>10 DEF Tombs, Puts, entry_is_valid
<1>14. cov.elems \in Nat /\ cov.deleted \in Nat /\ IsFiniteSet(Tombs(cov)) /\ Cardinality(Tombs(cov)) \in Nat
  BY <1>5, SoundIs
<1>15. Cardinality(Tombs(v)) <= cov.deleted
  <2>1. Cardinality(Tombs(v)) <= Cardinality(Tombs(cov)) /\ Cardinality(Tombs(v)) \in Nat
    BY <1>13, <1>14, FS_Subset, FS_CardinalityType
  <2>2. Cardinality(Tombs(cov)) <= cov.deleted
    BY <1>5 DEF Sound
  <2> QED
    BY <1>14, <2>1, <2>2
<1>16. u = Recounted(v, cov.elems + 1, cov.deleted)
  <2>1. u = [v EXCEPT !.elems = v.elems + 1]
    BY <1>8 DEF Entered
  <2>2. PICK V, B : V = UNION {[X -> SUBSET Bit] : X \in SUBSET Nat} /\ B = SUBSET Bit
    OBVIOUS
  <2>3. v \in [bits : Nat, elems : Nat, deleted : Nat, max : Nat, max_with_deleted : Nat,
               common_mask : B, common_bits : B, perfect_bit : B, table : V]
    BY <1>11, <2>2 DEF Tables
  <2>4. PICK e, d : e = cov.elems + 1 /\ d = cov.deleted
    OBVIOUS
  <2>5. u = [v EXCEPT !.elems = e] /\ v.deleted = d
    BY <1>11, <2>1, <2>4
  <2>6. u = [v EXCEPT !.elems = e, !.deleted = d]
    BY <2>3, <2>5
  <2> QED
    BY <2>4, <2>6 DEF Recounted
<1>17. /\ Alike(v, u) /\ u.elems = cov.elems + 1 /\ u.deleted = cov.deleted
       /\ u.max = v.max /\ u.max_with_deleted = v.max_with_deleted
  <2>1. PICK e \in Nat, d \in Nat : e = cov.elems + 1 /\ d = cov.deleted
    BY <1>14
  <2>2. u = Recounted(v, e, d)
    BY <1>16, <2>1
  <2>4. v \in Tables
    BY <1>11
  <2>3. /\ Alike(v, u) /\ u.elems = e /\ u.deleted = d
        /\ u.max = v.max /\ u.max_with_deleted = v.max_with_deleted
    BY <2>2, <2>4, CountersAre
  <2> QED
    BY <2>1, <2>3
<1>18. /\ Bucket(u) = Bucket(v) /\ Size(u) = Size(v) /\ Valid(u) = Valid(v)
       /\ \A P : Count(u, P) = Count(v, P)
       /\ Good(u, b) /\ Probed(u) /\ u.table = v.table
  <2>1. Alike(v, u) /\ Good(v, b) /\ Probed(v)
    BY <1>9, <1>10, <1>17
  <2>2. /\ Bucket(u) = Bucket(v) /\ Size(u) = Size(v) /\ Valid(u) = Valid(v)
        /\ \A P : Count(u, P) = Count(v, P)
        /\ \A c : Good(v, c) => Good(u, c)
        /\ Probed(v) => Probed(u)
    BY <2>1, AlikeIs
  <2>3. u.table = v.table
    BY <2>1 DEF Alike
  <2> QED
    BY <2>1, <2>2, <2>3
<1>19. Limits(u)
  <2>1. Size(u) = Size(cov)
    BY <1>10, <1>18 DEF Size
  <2> QED
    BY <1>6, <1>11, <1>17, <2>1 DEF Limits
<1>20. Tombs(u) = Tombs(v)
  BY <1>18 DEF Tombs
<1>21. u.elems = Cardinality(Valid(u))
  BY <1>5, <1>12, <1>17, <1>18 DEF Sound
<1>22. u.elems <= u.max /\ u.elems + u.deleted <= u.max_with_deleted
  BY <1>1, <1>5, <1>11, <1>14, <1>17
<1>23. \A P : Count(u, P) = Count(t, P) + (IF p \in P THEN 1 ELSE 0)
  BY <1>5, <1>12, <1>18
<1> QED
  BY <1>5, <1>11, <1>15, <1>17, <1>18, <1>19, <1>20, <1>21, <1>22, <1>23 DEF Sound

(* The table after the buckets in D have been deleted from it              *)
Pruned(t, D) ==
  [t EXCEPT !.elems = @ - Cardinality(D), !.deleted = @ + Cardinality(D),
            !.table = [i \in Bucket(t) |-> IF i \in D THEN HTABLE_DELETED ELSE @[i]]]

LEMMA DropSound ==
  ASSUME NEW b, Pointers(b), NEW t, Sound(t, b), NEW D \in SUBSET Valid(t), NEW u, u = Pruned(t, D)
  PROVE  /\ Sound(u, b) /\ u.bits = t.bits /\ u.max = t.max
         /\ Valid(u) = Valid(t) \ D /\ \A i \in Valid(u) : Raw(u, i) = Raw(t, i)
         /\ u.elems = t.elems - Cardinality(D) /\ Cardinality(D) \in Nat /\ IsFiniteSet(D)
         /\ \A P : Count(u, P) <= Count(t, P)
<1>1. Good(t, b) /\ Probed(t) /\ Limits(t) /\ t \in Tables
  BY DEF Sound, Good
<1>2. /\ t.bits \in Nat /\ t.table \in [Bucket(t) -> SUBSET Bit] /\ Bucket(t) \subseteq Nat
      /\ Valid(t) \subseteq Bucket(t)
  BY <1>1, GoodIs DEF Bucket
<1>3. /\ IsFiniteSet(Valid(t)) /\ IsFiniteSet(Tombs(t)) /\ Cardinality(Tombs(t)) \in Nat
      /\ t.elems \in Nat /\ t.deleted \in Nat /\ t.max \in Nat /\ t.max_with_deleted \in Nat
  BY SoundIs
<1>4. /\ t.elems = Cardinality(Valid(t)) /\ Cardinality(Tombs(t)) <= t.deleted
      /\ t.elems <= t.max /\ t.elems + t.deleted <= t.max_with_deleted
  BY DEF Sound
<1>5. PICK n \in Nat : n = Cardinality(D) /\ IsFiniteSet(D) /\ n <= t.elems
  <2>1. IsFiniteSet(D) /\ Cardinality(D) <= Cardinality(Valid(t))
    BY <1>3, FS_Subset
  <2>2. Cardinality(D) \in Nat
    BY <2>1, FS_CardinalityType
  <2> QED
    BY <1>4, <2>1, <2>2
<1>6. PICK tb : tb = [i \in Bucket(t) |-> IF i \in D THEN HTABLE_DELETED ELSE t.table[i]]
  OBVIOUS
<1>7. HTABLE_DELETED \in SUBSET Bit /\ ~entry_is_valid(HTABLE_DELETED) /\ HTABLE_DELETED # Zero
  BY DEF HTABLE_DELETED, entry_is_valid, Zero, Pointers, Bit
<1>8. /\ tb \in [Bucket(t) -> SUBSET Bit] /\ \A i \in D : tb[i] = HTABLE_DELETED
      /\ \A i \in Bucket(t) \ D : tb[i] = t.table[i]
  BY <1>2, <1>6, <1>7
<1>9. /\ u \in Tables /\ u.bits = t.bits /\ u.elems = t.elems - n /\ u.deleted = t.deleted + n
      /\ u.max = t.max /\ u.max_with_deleted = t.max_with_deleted /\ u.table = tb
      /\ u.common_mask = t.common_mask /\ u.common_bits = t.common_bits
      /\ u.perfect_bit = t.perfect_bit
  <2>1. PICK V, B : V = UNION {[X -> SUBSET Bit] : X \in SUBSET Nat} /\ B = SUBSET Bit
    OBVIOUS
  <2>2. t \in [bits : Nat, elems : Nat, deleted : Nat, max : Nat, max_with_deleted : Nat,
               common_mask : B, common_bits : B, perfect_bit : B, table : V]
    BY <1>1, <2>1 DEF Tables
  <2>3. PICK x \in Nat, y \in Nat : x = t.elems - n /\ y = t.deleted + n
    BY <1>3, <1>5
  <2>4. tb \in V
    <3>1. Bucket(t) \in SUBSET Nat
      BY <1>2
    <3> QED
      BY <1>8, <2>1, <3>1
  <2>5. u = [t EXCEPT !.elems = t.elems - n, !.deleted = t.deleted + n, !.table = tb]
    BY <1>5, <1>6 DEF Pruned
  <2>6. u = [t EXCEPT !.elems = x, !.deleted = y, !.table = tb]
    BY <2>3, <2>5
  <2>7. u \in [bits : Nat, elems : Nat, deleted : Nat, max : Nat, max_with_deleted : Nat,
               common_mask : B, common_bits : B, perfect_bit : B, table : V]
    BY <2>2, <2>4, <2>6
  <2>8. u \in Tables
    BY <2>1, <2>7 DEF Tables
  <2> QED
    BY <2>2, <2>3, <2>6, <2>8
<1>10. Bucket(u) = Bucket(t) /\ Size(u) = Size(t) /\ HasTable(u)
  BY <1>8, <1>9 DEF Bucket, Size, HasTable
<1>11. Valid(u) = Valid(t) \ D
  <2>1. DOMAIN tb = Bucket(t) /\ DOMAIN t.table = Bucket(t)
    BY <1>2, <1>8
  <2> QED
    BY <1>2, <1>7, <1>8, <1>9, <2>1 DEF Valid
<1>12. \A i \in Valid(u) : i \in Valid(t) /\ u.table[i] = t.table[i] /\ Raw(u, i) = Raw(t, i)
  <2>1. \A x : get_raw_ptr(u, x) = get_raw_ptr(t, x)
    BY <1>9 DEF get_raw_ptr
  <2>2. \A i \in Valid(u) : i \in Valid(t) /\ u.table[i] = t.table[i]
    BY <1>2, <1>8, <1>9, <1>11
  <2> QED
    BY <2>1, <2>2 DEF Raw
<1>13. Good(u, b)
  <2>1. \A q, x : Extra(u, q, x) = Extra(t, q, x)
    BY <1>9 DEF Extra, get_hash_ptr_bits, Home, hash_bucket
  <2>2. \A e : get_extra_ptr_bits(u, e) = get_extra_ptr_bits(t, e)
    BY <1>9 DEF get_extra_ptr_bits
  <2>3. Masks(u, b)
    BY <1>1, <1>9, <1>11 DEF Good, Masks
  <2> QED
    BY <1>1, <1>9, <1>10, <1>12, <2>1, <2>2, <2>3 DEF Good
<1>14. Probed(u)
  <2>1. \A x \in Bucket(t) : t.table[x] # Zero => u.table[x] # Zero
    BY <1>7, <1>8, <1>9
  <2>2. ASSUME NEW i \in Valid(u)
        PROVE  Reaches(u, i)
    <3>1. Reaches(t, i) /\ Raw(u, i) = Raw(t, i)
      BY <1>1, <1>12 DEF Probed
    <3> QED
      BY <1>2, <1>9, <2>1, <3>1, ReachKept
  <2> QED
    BY <2>2 DEF Probed
<1>15. Limits(u)
  BY <1>1, <1>9, <1>10 DEF Limits
<1>16. Cardinality(Valid(u)) = t.elems - n
  <2>1. Cardinality(Valid(t) \ D) = Cardinality(Valid(t)) - Cardinality(Valid(t) \cap D)
    BY <1>3, FS_Difference
  <2>2. Valid(t) \cap D = D
    OBVIOUS
  <2> QED
    BY <1>4, <1>5, <1>11, <2>1, <2>2
<1>17. Cardinality(Tombs(u)) <= t.deleted + n
  <2>1. Tombs(u) = Tombs(t) \cup D
    BY <1>2, <1>8, <1>9, <1>10 DEF Tombs
  <2>2. Cardinality(Tombs(t) \cup D)
          = Cardinality(Tombs(t)) + Cardinality(D) - Cardinality(Tombs(t) \cap D)
    BY <1>3, <1>5, FS_Union
  <2>3. Cardinality(Tombs(t) \cap D) \in Nat
    BY <1>3, <1>5, FS_Intersection, FS_CardinalityType
  <2> QED
    BY <1>3, <1>4, <1>5, <2>1, <2>2, <2>3
<1>18. u.elems <= u.max /\ u.elems + u.deleted <= u.max_with_deleted
  BY <1>3, <1>4, <1>5, <1>9
<1>19. \A P : Count(u, P) <= Count(t, P)
  <2> SUFFICES ASSUME NEW P PROVE Count(u, P) <= Count(t, P)
    OBVIOUS
  <2>1. Holds(t, P) \subseteq Valid(t) /\ Holds(u, P) \subseteq Holds(t, P)
    BY <1>12 DEF Holds
  <2>2. IsFiniteSet(Holds(t, P))
    BY <1>3, <2>1, FS_Subset
  <2> QED
    BY <2>1, <2>2, FS_Subset DEF Count
<1> QED
  BY <1>5, <1>9, <1>11, <1>12, <1>13, <1>14, <1>15, <1>16, <1>17, <1>18, <1>19 DEF Sound

LEMMA DelvalSound ==
  ASSUME NEW b, Pointers(b), NEW t, Sound(t, b), NEW i \in Valid(t), NEW u, u = htable_delval(t, i)
  PROVE  /\ Sound(u, b) /\ u.max = t.max /\ u.elems = t.elems - 1
         /\ \A P : Count(t, P) = Count(u, P) + (IF Raw(t, i) \in P THEN 1 ELSE 0)
<1>1. Good(t, b) /\ t \in Tables
  BY DEF Sound, Good
<1>2. /\ t.bits \in Nat /\ t.table \in [Bucket(t) -> SUBSET Bit] /\ Bucket(t) \subseteq Nat
      /\ Valid(t) \subseteq Bucket(t) /\ Size(t) \in Nat /\ Valid(t) \subseteq 0 .. Size(t) - 1
  BY <1>1, GoodIs DEF Bucket
<1>3. Cardinality({i}) = 1
  BY FS_Singleton
<1>4. [t.table EXCEPT ![i] = HTABLE_DELETED]
         = [x \in Bucket(t) |-> IF x \in {i} THEN HTABLE_DELETED ELSE t.table[x]]
  BY <1>2
<1>5. u = Pruned(t, {i})
  <2>1. u = [t EXCEPT !.elems = t.elems - 1, !.deleted = t.deleted + 1,
                      !.table = [t.table EXCEPT ![i] = HTABLE_DELETED]]
    <3>1. PICK V, B : V = UNION {[X -> SUBSET Bit] : X \in SUBSET Nat} /\ B = SUBSET Bit
      OBVIOUS
    <3>2. t \in [bits : Nat, elems : Nat, deleted : Nat, max : Nat, max_with_deleted : Nat,
                 common_mask : B, common_bits : B, perfect_bit : B, table : V]
      BY <1>1, <3>1 DEF Tables
    <3>3. PICK tb : tb = [t.table EXCEPT ![i] = HTABLE_DELETED]
      OBVIOUS
    <3>4. u = [t EXCEPT !.elems = t.elems - 1, !.table = tb, !.deleted = t.deleted + 1]
      BY <3>2, <3>3 DEF htable_delval
    <3>5. u = [t EXCEPT !.elems = t.elems - 1, !.deleted = t.deleted + 1, !.table = tb]
      BY <3>2, <3>4
    <3> QED
      BY <3>3, <3>5
  <2>2. Pruned(t, {i}) = [t EXCEPT !.elems = t.elems - 1, !.deleted = t.deleted + 1,
                      !.table = [x \in Bucket(t) |-> IF x \in {i} THEN HTABLE_DELETED ELSE t.table[x]]]
    BY <1>3 DEF Pruned
  <2> QED
    BY <1>4, <2>1, <2>2
<1>6. /\ Sound(u, b) /\ u.max = t.max /\ u.elems = t.elems - Cardinality({i})
      /\ Valid(u) = Valid(t) \ {i} /\ \A x \in Valid(u) : Raw(u, x) = Raw(t, x)
  BY <1>5, DropSound
<1>7. Adds(u, t, i, Raw(t, i))
  BY <1>6 DEF Adds
<1>8. \A P : Count(t, P) = Count(u, P) + (IF Raw(t, i) \in P THEN 1 ELSE 0)
  <2>1. Valid(u) \subseteq 0 .. Size(t) - 1
    BY <1>2, <1>6
  <2> QED
    BY <1>2, <1>7, <2>1, AddsCount
<1> QED
  BY <1>3, <1>6, <1>8

-----------------------------------------------------------------------------
(* Htable: what a pass over the buckets gathers.                           *)

(* w[n]: those of a[0], ..., a[n - 1] whose index is in G                  *)
Gathers(w, N, G, a) ==
  \A n \in 0 .. N : w[n] = IF n = 0 THEN << >>
                           ELSE IF n - 1 \in G THEN Append(w[n - 1], a[n - 1])
                           ELSE w[n - 1]

(* ix says which of them each element of q is.                             *)
Picks(ix, q, n, G, a) ==
  /\ ix \in [1 .. Len(q) -> 0 .. n - 1]
  /\ \A x \in 1 .. Len(q) : ix[x] \in G /\ q[x] = a[ix[x]]
  /\ \A x, y \in 1 .. Len(q) : ix[x] = ix[y] => x = y
  /\ \A k \in 0 .. n - 1 : k \in G => \E x \in 1 .. Len(q) : ix[x] = k

LEMMA GatherExists ==
  ASSUME NEW N \in Nat, NEW G, NEW X, NEW a \in [0 .. N - 1 -> X]
  PROVE  \E w \in [0 .. N -> Seq(X)] : Gathers(w, N, G, a)
<1> DEFINE step == [d \in 1 .. N |-> [q \in Seq(X) |-> IF d - 1 \in G THEN Append(q, a[d - 1]) ELSE q]]
<1>1. step \in [1 .. N -> [Seq(X) -> Seq(X)]]
  <2> SUFFICES ASSUME NEW d \in 1 .. N, NEW q \in Seq(X)
               PROVE  (IF d - 1 \in G THEN Append(q, a[d - 1]) ELSE q) \in Seq(X)
    OBVIOUS
  <2>1. a[d - 1] \in X
    <3>1. d - 1 \in 0 .. N - 1
      OBVIOUS
    <3> QED
      BY <3>1
  <2> QED
    BY <2>1, AppendProperties
<1>2. PICK V, e : V = Seq(X) /\ e = << >> /\ e \in V
  BY EmptySeq
<1>3. PICK w : Iterates(w, N, V, e, step)
  <2> HIDE DEF step
  <2> QED
    BY <1>1, <1>2, RecursionExists
<1>4. w \in [0 .. N -> Seq(X)] /\ w[0] = << >> /\ \A d \in 1 .. N : w[d] = step[d][w[d - 1]]
  BY <1>2, <1>3 DEF Iterates
<1>5. ASSUME NEW n \in 0 .. N
      PROVE  w[n] = IF n = 0 THEN << >>
                    ELSE IF n - 1 \in G THEN Append(w[n - 1], a[n - 1]) ELSE w[n - 1]
  <2>1. CASE n = 0
    BY <1>4, <2>1
  <2>2. CASE n # 0
    <3>1. n \in 1 .. N /\ n - 1 \in 0 .. N /\ w[n - 1] \in Seq(X)
      BY <1>4, <2>2
    <3>2. w[n] = step[n][w[n - 1]]
      BY <1>4, <3>1
    <3>3. step[n] = [q \in Seq(X) |-> IF n - 1 \in G THEN Append(q, a[n - 1]) ELSE q]
      BY <3>1
    <3> HIDE DEF step
    <3> QED
      BY <2>2, <3>1, <3>2, <3>3
  <2> QED
    BY <2>1, <2>2
<1> QED
  BY <1>4, <1>5 DEF Gathers

LEMMA GatherStep ==
  ASSUME NEW n \in Nat, NEW G, NEW X, NEW a, NEW q \in Seq(X), NEW ix, Picks(ix, q, n, G, a),
         n \in G, a[n] \in X
  PROVE  \E jx : Picks(jx, Append(q, a[n]), n + 1, G, a)
<1>1. PICK m \in Nat : m = Len(q)
  BY LenProperties
<1>2. PICK r : r = Append(q, a[n])
  OBVIOUS
<1>3. Len(r) = m + 1 /\ r[m + 1] = a[n] /\ \A x \in 1 .. m : r[x] = q[x]
  BY <1>1, <1>2, AppendProperties
<1>4. /\ ix \in [1 .. m -> 0 .. n - 1]
      /\ \A x \in 1 .. m : ix[x] \in G /\ q[x] = a[ix[x]]
      /\ \A x, y \in 1 .. m : ix[x] = ix[y] => x = y
      /\ \A k \in 0 .. n - 1 : k \in G => \E x \in 1 .. m : ix[x] = k
  BY <1>1 DEF Picks
<1> DEFINE jx == [x \in 1 .. m + 1 |-> IF x = m + 1 THEN n ELSE ix[x]]
<1>5. \A x \in 1 .. m + 1 : x = m + 1 \/ x \in 1 .. m
  OBVIOUS
<1>6. jx[m + 1] = n /\ \A x \in 1 .. m : jx[x] = ix[x]
  OBVIOUS
<1>7. jx \in [1 .. m + 1 -> 0 .. n + 1 - 1]
  <2>1. \A x \in 1 .. m + 1 : (IF x = m + 1 THEN n ELSE ix[x]) \in 0 .. n + 1 - 1
    BY <1>4, <1>5
  <2> QED
    BY <2>1
<1> HIDE DEF jx
<1>8. \A x \in 1 .. m + 1 : jx[x] \in G /\ r[x] = a[jx[x]]
  BY <1>3, <1>4, <1>5, <1>6
<1>9. \A x \in 1 .. m : jx[x] # n
  BY <1>4, <1>6
<1>10. \A x, y \in 1 .. m + 1 : jx[x] = jx[y] => x = y
  BY <1>4, <1>5, <1>6, <1>9
<1>11. \A k \in 0 .. n + 1 - 1 : k \in G => \E x \in 1 .. m + 1 : jx[x] = k
  <2> SUFFICES ASSUME NEW k \in 0 .. n + 1 - 1, k \in G
               PROVE  \E x \in 1 .. m + 1 : jx[x] = k
    OBVIOUS
  <2>1. CASE k = n
    BY <1>6, <2>1
  <2>2. CASE k # n
    <3>1. k \in 0 .. n - 1
      BY <2>2
    <3>2. PICK x \in 1 .. m : ix[x] = k
      BY <1>4, <3>1
    <3>3. x \in 1 .. m + 1 /\ jx[x] = k
      BY <1>6, <3>2
    <3> QED
      BY <3>3
  <2> QED
    BY <2>1, <2>2
<1>12. Picks(jx, r, n + 1, G, a)
  BY <1>3, <1>7, <1>8, <1>10, <1>11 DEF Picks
<1> QED
  BY <1>2, <1>12

LEMMA GatherSkip ==
  ASSUME NEW n \in Nat, NEW G, NEW a, NEW q, NEW ix, Picks(ix, q, n, G, a), n \notin G
  PROVE  Picks(ix, q, n + 1, G, a)
<1>1. \A k \in 0 .. n + 1 - 1 : k \in G => k \in 0 .. n - 1
  OBVIOUS
<1>2. ix \in [1 .. Len(q) -> 0 .. n + 1 - 1]
  <2>1. \A k \in 0 .. n - 1 : k \in 0 .. n + 1 - 1
    OBVIOUS
  <2>2. ix \in [1 .. Len(q) -> 0 .. n - 1]
    BY DEF Picks
  <2> QED
    BY <2>1, <2>2
<1> QED
  BY <1>1, <1>2 DEF Picks

LEMMA GatherIs ==
  ASSUME NEW N \in Nat, NEW G, NEW X, NEW a \in [0 .. N - 1 -> X], NEW w, Gathers(w, N, G, a)
  PROVE  w[N] \in Seq(X) /\ \E ix : Picks(ix, w[N], N, G, a)
<1> DEFINE T == {n \in Nat : n <= N => w[n] \in Seq(X) /\ \E ix : Picks(ix, w[n], n, G, a)}
<1>1. 0 \in T
  <2>1. 0 \in 0 .. N
    OBVIOUS
  <2>2. w[0] = << >>
    BY <2>1 DEF Gathers
  <2>3. w[0] \in Seq(X) /\ Len(w[0]) = 0
    BY <2>2, EmptySeq
  <2>4. 1 .. Len(w[0]) = {} /\ 0 .. 0 - 1 = {}
    BY <2>3
  <2>5. [x \in {} |-> 0] \in [1 .. Len(w[0]) -> 0 .. 0 - 1]
    BY <2>4
  <2>6. Picks([x \in {} |-> 0], w[0], 0, G, a)
    <3>1. PICK z : z = [x \in {} |-> 0]
      OBVIOUS
    <3>2. Picks(z, w[0], 0, G, a)
      BY <2>4, <2>5, <3>1 DEF Picks
    <3> QED
      BY <3>1, <3>2
  <2> QED
    BY <2>3, <2>6
<1>2. ASSUME NEW n \in T PROVE n + 1 \in T
  <2> SUFFICES ASSUME n + 1 <= N
               PROVE  w[n + 1] \in Seq(X) /\ \E ix : Picks(ix, w[n + 1], n + 1, G, a)
    OBVIOUS
  <2>1. n \in Nat /\ n + 1 \in 0 .. N /\ n + 1 # 0 /\ n + 1 - 1 = n /\ n \in 0 .. N - 1
    OBVIOUS
  <2>2. PICK q \in Seq(X) : q = w[n] /\ \E ix : Picks(ix, q, n, G, a)
    BY <2>1
  <2>7. PICK ix : Picks(ix, q, n, G, a)
    BY <2>2
  <2>3. w[n + 1] = IF n \in G THEN Append(q, a[n]) ELSE q
    BY <2>1, <2>2 DEF Gathers
  <2>4. a[n] \in X
    BY <2>1
  <2>5. CASE n \in G
    <3>1. \E jx : Picks(jx, Append(q, a[n]), n + 1, G, a)
      BY <2>1, <2>4, <2>5, <2>7, GatherStep
    <3>2. Append(q, a[n]) \in Seq(X)
      BY <2>4, AppendProperties
    <3> QED
      BY <2>3, <2>5, <3>1, <3>2
  <2>6. CASE n \notin G
    <3>1. Picks(ix, q, n + 1, G, a)
      BY <2>1, <2>6, <2>7, GatherSkip
    <3> QED
      BY <2>3, <2>6, <3>1
  <2> QED
    BY <2>5, <2>6
<1>3. T \in SUBSET Nat
  OBVIOUS
<1> HIDE DEF T
<1>4. T = Nat
  BY <1>1, <1>2, <1>3, NatInductive
<1> QED
  BY <1>4 DEF T

LEMMA CandidatesAre ==
  ASSUME NEW b, NEW t, Good(t, b), NEW h, NEW S, NEW hits, hits = Candidates(t, h, S)
  PROVE  /\ hits \in Seq(Bucket(t))
         /\ \A x \in 1 .. Len(hits) : hits[x] \in Holds(t, S)
         /\ \A x, y \in 1 .. Len(hits) : hits[x] = hits[y] => x = y
         /\ Probed(t) /\ (\A p \in S : rehash(p) = h) =>
              \A i \in Holds(t, S) : \E x \in 1 .. Len(hits) : hits[x] = i
<1> DEFINE home == hash_bucket(t, h)
           Ends(m) == /\ m < Size(t) => StopsProbe(t.table[After(t, home, m)])
                      /\ \A d \in 0 .. m - 1 : ~StopsProbe(t.table[After(t, home, d)])
           h2(n) == get_hash_ptr_bits(t, h) \cup (IF n = 0 THEN t.perfect_bit ELSE Zero)
           returns(n) == LET i == After(t, home, n) IN
                         /\ t.table[i] # HTABLE_DELETED
                         /\ get_extra_ptr_bits(t, t.table[i]) = h2(n)
                         /\ Raw(t, i) \in S
           end == CHOOSE m \in 0 .. Size(t) : Ends(m)
           Ups(w) == w = [n \in 0 .. end |->
                            IF n = 0 THEN << >>
                            ELSE IF returns(n - 1) THEN Append(w[n - 1], After(t, home, n - 1))
                            ELSE w[n - 1]]
           upto == CHOOSE w : Ups(w)
<1>1. /\ t.bits \in Nat /\ Size(t) \in Nat /\ Size(t) > 0 /\ home \in Bucket(t)
      /\ DOMAIN t.table = Bucket(t)
  BY GoodIs, BucketIs DEF Good, HasTable
<1>2. \A k : k \in Bucket(t) <=> k \in 0 .. Size(t) - 1
  BY DEF Bucket
<1>3. end \in 0 .. Size(t) /\ Ends(end)
  <2> DEFINE T == {m \in Nat : m <= Size(t) /\ (m < Size(t) => StopsProbe(t.table[After(t, home, m)]))}
  <2>1. T \in SUBSET Nat /\ Size(t) \in T
    BY <1>1
  <2>2. PICK m \in T : \A y \in T : m <= y
    <3> HIDE DEF T
    <3> QED
      BY <2>1, LeastNat
  <2>3. \A d \in 0 .. m - 1 : d \in Nat /\ d < Size(t) /\ ~(m <= d)
    BY <1>1, <2>2
  <2>4. \A d \in 0 .. m - 1 : ~StopsProbe(t.table[After(t, home, d)])
    <3> SUFFICES ASSUME NEW d \in 0 .. m - 1, StopsProbe(t.table[After(t, home, d)])
                 PROVE  FALSE
      OBVIOUS
    <3>1. d \in Nat /\ d < Size(t) /\ d <= Size(t) /\ ~(m <= d)
      BY <1>1, <2>3
    <3>2. d \in T
      BY <3>1
    <3> HIDE DEF T
    <3> QED
      BY <2>2, <3>1, <3>2
  <2>5. m \in 0 .. Size(t) /\ Ends(m)
    BY <1>1, <2>2, <2>4
  <2> HIDE DEF Ends
  <2> QED
    BY <2>5
<1>4. hits = upto[end]
  BY DEF Candidates
<1> HIDE DEF end
<1>5. PICK N \in Nat : N = end /\ N <= Size(t)
  BY <1>1, <1>3
<1> DEFINE G == {k \in 0 .. N - 1 : returns(k)}
           a == [k \in 0 .. N - 1 |-> After(t, home, k)]
<1>6. \A k \in 0 .. N - 1 : k \in Bucket(t) /\ After(t, home, k) \in Bucket(t)
  <2> SUFFICES ASSUME NEW k \in 0 .. N - 1 PROVE k \in Bucket(t) /\ After(t, home, k) \in Bucket(t)
    OBVIOUS
  <2>1. k \in Bucket(t)
    BY <1>1, <1>2, <1>5
  <2> QED
    BY <1>1, <2>1, AfterIs
<1>7. a \in [0 .. N - 1 -> Bucket(t)]
  BY <1>6
<1>8. \A k \in 0 .. N - 1 : (k \in G <=> returns(k)) /\ a[k] = After(t, home, k)
  OBVIOUS
<1> HIDE DEF returns, home, G, a
<1>9. PICK w : Ups(w) /\ Gathers(w, N, G, a)
  <2>1. PICK w \in [0 .. N -> Seq(Bucket(t))] : Gathers(w, N, G, a)
    BY <1>7, GatherExists
  <2>2. ASSUME NEW n \in 0 .. N
        PROVE  w[n] = IF n = 0 THEN << >>
                      ELSE IF returns(n - 1) THEN Append(w[n - 1], After(t, home, n - 1))
                      ELSE w[n - 1]
    <3>1. w[n] = IF n = 0 THEN << >> ELSE IF n - 1 \in G THEN Append(w[n - 1], a[n - 1]) ELSE w[n - 1]
      BY <2>1 DEF Gathers
    <3>2. n # 0 => n - 1 \in 0 .. N - 1
      OBVIOUS
    <3> QED
      BY <1>8, <3>1, <3>2
  <2>3. Ups(w)
    BY <1>5, <2>1, <2>2
  <2> QED
    BY <2>1, <2>3
<1>10. Ups(upto)
  <2> HIDE DEF Ups
  <2> QED
    BY <1>9
<1>11. Gathers(upto, N, G, a)
  <2>1. ASSUME NEW n \in 0 .. N
        PROVE  upto[n] = IF n = 0 THEN << >>
                         ELSE IF n - 1 \in G THEN Append(upto[n - 1], a[n - 1]) ELSE upto[n - 1]
    <3> HIDE DEF upto
    <3>1. upto[n] = IF n = 0 THEN << >>
                    ELSE IF returns(n - 1) THEN Append(upto[n - 1], After(t, home, n - 1))
                    ELSE upto[n - 1]
      BY <1>5, <1>10
    <3>2. n # 0 => n - 1 \in 0 .. N - 1
      OBVIOUS
    <3> QED
      BY <1>8, <3>1, <3>2
  <2> HIDE DEF upto
  <2> QED
    BY <2>1 DEF Gathers
<1> HIDE DEF upto, Ups
<1>12. hits \in Seq(Bucket(t)) /\ \E ix : Picks(ix, hits, N, G, a)
  <2>1. upto[N] \in Seq(Bucket(t)) /\ \E ix : Picks(ix, upto[N], N, G, a)
    BY <1>7, <1>11, GatherIs
  <2> QED
    BY <1>4, <1>5, <2>1
<1>13. PICK ix : Picks(ix, hits, N, G, a)
  BY <1>12
<1>14. /\ \A x \in 1 .. Len(hits) : ix[x] \in 0 .. N - 1 /\ returns(ix[x]) /\ hits[x] = After(t, home, ix[x])
       /\ \A x, y \in 1 .. Len(hits) : ix[x] = ix[y] => x = y
       /\ \A k \in 0 .. N - 1 : returns(k) => \E x \in 1 .. Len(hits) : hits[x] = After(t, home, k)
  BY <1>8, <1>13 DEF Picks
<1>15. \A d \in 0 .. N - 1 : t.table[After(t, home, d)] # Zero
  BY <1>3, <1>5 DEF StopsProbe
<1>16. ASSUME NEW x \in 1 .. Len(hits)
       PROVE  hits[x] \in Holds(t, S)
  <2>1. PICK k \in 0 .. N - 1 : k = ix[x] /\ returns(k) /\ hits[x] = After(t, home, k)
    BY <1>14
  <2>2. After(t, home, k) \in Bucket(t) /\ t.table[After(t, home, k)] # Zero
    BY <1>6, <1>15
  <2>3. t.table[After(t, home, k)] # HTABLE_DELETED /\ Raw(t, After(t, home, k)) \in S
    BY <2>1 DEF returns
  <2> QED
    BY <1>1, <2>1, <2>2, <2>3 DEF Holds, Valid, entry_is_valid
<1>17. ASSUME NEW x \in 1 .. Len(hits), NEW y \in 1 .. Len(hits), hits[x] = hits[y]
       PROVE  x = y
  <2>1. ix[x] \in Bucket(t) /\ ix[y] \in Bucket(t) /\ After(t, home, ix[x]) = After(t, home, ix[y])
    BY <1>6, <1>14, <1>17
  <2>2. ix[x] = ix[y]
    BY <1>1, <2>1, AfterIs
  <2> QED
    BY <1>14, <2>2
<1>18. ASSUME Probed(t), \A p \in S : rehash(p) = h, NEW i \in Holds(t, S)
       PROVE  \E x \in 1 .. Len(hits) : hits[x] = i
  <2>1. PICK p : p = Raw(t, i) /\ p \in S /\ i \in Valid(t) /\ rehash(p) = h
    BY <1>18 DEF Holds
  <2>2. Home(t, p) = home
    BY <2>1 DEF Home, home
  <2>3. PICK n \in Bucket(t) : i = After(t, home, n) /\ \A d \in 0 .. n : t.table[After(t, home, d)] # Zero
    BY <1>18, <2>1, <2>2 DEF Probed, Reaches
  <2>4. n \in 0 .. N - 1
    <3> SUFFICES ASSUME N <= n PROVE FALSE
      BY <1>2, <1>5
    <3>1. N < Size(t) /\ N \in 0 .. n
      BY <1>1, <1>2, <1>5
    <3>2. t.table[After(t, home, N)] = Zero
      BY <1>3, <1>5, <3>1 DEF StopsProbe
    <3> QED
      BY <2>3, <3>1, <3>2
  <2>5. returns(n)
    <3>1. get_extra_ptr_bits(t, t.table[i]) = Extra(t, p, i)
      BY <2>1 DEF Good
    <3>2. i = home <=> n = 0
      <4>1. 0 \in Bucket(t)
        BY <1>1, <1>2
      <4>2. PICK r \in Bucket(t) : r = home
        BY <1>1
      <4>3. /\ After(t, r, 0) = r
            /\ \A x, y \in Bucket(t) : After(t, r, x) = After(t, r, y) => x = y
        BY <1>1, AfterIs
      <4> QED
        BY <2>3, <4>1, <4>2, <4>3
    <3>3. t.table[i] # HTABLE_DELETED
      BY <2>1 DEF Valid, entry_is_valid
    <3> QED
      BY <2>1, <2>2, <2>3, <3>1, <3>2, <3>3 DEF returns, Extra
  <2> QED
    BY <1>14, <2>3, <2>4, <2>5
<1> QED
  BY <1>12, <1>16, <1>17, <1>18

-----------------------------------------------------------------------------
(* Htable: tables without elements.                                        *)

LEMMA SizedSound ==
  ASSUME NEW b, Pointers(b), NEW n \in Nat, NEW u, u = Sized(Initial, n)
  PROVE  Sound(u, b) /\ u.elems = 0 /\ u.max = (3 * Power[n]) \div 4 /\ Valid(u) = {}
<1>1. PICK S \in Nat : S = Power[n] /\ S > 0
  BY PowerOf
<1>2. PICK most \in Nat, mwd \in Nat : most = (3 * S) \div 4 /\ mwd = (9 * S) \div 10
  BY <1>1, LimitsAre
<1>3. PICK tb : tb = [i \in 0 .. S - 1 |-> Zero]
  OBVIOUS
<1>4. u = [bits |-> n, elems |-> 0, deleted |-> 0, max |-> most, max_with_deleted |-> mwd,
           common_mask |-> Bit, common_bits |-> Zero, perfect_bit |-> Zero, table |-> tb]
  BY <1>1, <1>2, <1>3 DEF Sized, Initial
<1>5. tb \in [0 .. S - 1 -> SUBSET Bit] /\ \A i \in 0 .. S - 1 : tb[i] = Zero
  BY <1>3 DEF Zero
<1>6. u \in Tables
  <2>1. PICK V, B : V = UNION {[X -> SUBSET Bit] : X \in SUBSET Nat} /\ B = SUBSET Bit
    OBVIOUS
  <2>2. tb \in V
    <3>1. 0 .. S - 1 \in SUBSET Nat
      OBVIOUS
    <3> QED
      BY <1>5, <2>1, <3>1
  <2>3. Bit \in B /\ Zero \in B
    BY <2>1 DEF Zero
  <2>4. u \in [bits : Nat, elems : Nat, deleted : Nat, max : Nat, max_with_deleted : Nat,
               common_mask : B, common_bits : B, perfect_bit : B, table : V]
    BY <1>4, <2>2, <2>3
  <2> QED
    BY <2>1, <2>4 DEF Tables
<1>7. /\ u.bits = n /\ u.elems = 0 /\ u.deleted = 0 /\ u.max = most /\ u.max_with_deleted = mwd
      /\ u.common_mask = Bit /\ u.common_bits = Zero /\ u.perfect_bit = Zero /\ u.table = tb
  BY <1>4
<1>8. Size(u) = S /\ Bucket(u) = 0 .. S - 1 /\ HasTable(u)
  BY <1>1, <1>5, <1>7 DEF Size, Bucket, HasTable
<1>9. Valid(u) = {} /\ Clean(u)
  BY <1>5, <1>7, <1>8 DEF Valid, entry_is_valid, Clean, Zero, HTABLE_DELETED
<1>10. Masks(u, b)
  BY <1>7, <1>9 DEF Masks, Zero
<1>11. Good(u, b) /\ Probed(u)
  BY <1>6, <1>8, <1>9, <1>10 DEF Good, Probed
<1>12. Limits(u)
  BY <1>2, <1>7, <1>8 DEF Limits
<1>13. Cardinality(Valid(u)) = 0 /\ Cardinality(Tombs(u)) = 0
  BY <1>9, CleanTombs, FS_EmptySet
<1> QED
  BY <1>1, <1>2, <1>7, <1>9, <1>11, <1>12, <1>13 DEF Sound

LEMMA InitialIs == Initial = Sized(Initial, 0)
<1>1. Power[0] = 1
  BY PowerIs
<1>2. (3 * 1) \div 4 = 0 /\ (9 * 1) \div 10 = 0 /\ 0 .. 1 - 1 = {0}
  OBVIOUS
<1>3. [i \in 0 .. 1 - 1 |-> Zero] = [i \in {0} |-> Zero]
  BY <1>2
<1>4. Sized(Initial, 0) = [Initial EXCEPT !.bits = 0, !.max = 0, !.max_with_deleted = 0,
                             !.table = [i \in {0} |-> Zero]]
  BY <1>1, <1>2, <1>3 DEF Sized
<1> QED
  BY <1>4 DEF Initial

(* What a sized init that fails leaves                                     *)
Bare(t) == \E n \in Nat \ {0} : t = [Initial EXCEPT !.bits = n]

LEMMA BareIs ==
  ASSUME NEW b, NEW t, Bare(t)
  PROVE  /\ t \in Tables /\ Masks(t, b) /\ Valid(t) = {} /\ DOMAIN t.table = 0 .. 1 - 1
         /\ ~HasTable(t) /\ t.elems = 0 /\ t.max = 0
<1>1. PICK n \in Nat \ {0} : t = [Initial EXCEPT !.bits = n]
  BY DEF Bare
<1>2. PICK tb : tb = [i \in {0} |-> Zero]
  OBVIOUS
<1>3. t = [bits |-> n, elems |-> 0, deleted |-> 0, max |-> 0, max_with_deleted |-> 0,
           common_mask |-> Bit, common_bits |-> Zero, perfect_bit |-> Zero, table |-> tb]
  BY <1>1, <1>2 DEF Initial
<1>4. tb \in [{0} -> SUBSET Bit] /\ tb[0] = Zero /\ 0 .. 1 - 1 = {0}
  BY <1>2 DEF Zero
<1>5. t \in Tables
  <2>1. PICK V, B : V = UNION {[X -> SUBSET Bit] : X \in SUBSET Nat} /\ B = SUBSET Bit
    OBVIOUS
  <2>2. tb \in V
    <3>1. {0} \in SUBSET Nat
      OBVIOUS
    <3> QED
      BY <1>4, <2>1, <3>1
  <2>3. Bit \in B /\ Zero \in B
    BY <2>1 DEF Zero
  <2>4. t \in [bits : Nat, elems : Nat, deleted : Nat, max : Nat, max_with_deleted : Nat,
               common_mask : B, common_bits : B, perfect_bit : B, table : V]
    BY <1>3, <2>2, <2>3
  <2> QED
    BY <2>1, <2>4 DEF Tables
<1>6. Valid(t) = {}
  BY <1>3, <1>4 DEF Valid, entry_is_valid
<1>7. Masks(t, b)
  BY <1>3, <1>6 DEF Masks, Zero
<1>8. ~HasTable(t)
  <2>1. Power[n] \in Nat /\ Power[n] > 1
    <3>1. Power[n] \in Nat /\ Power[n] > n
      BY PowerIs
    <3> QED
      BY <3>1
  <2>2. 1 \in Bucket(t)
    BY <1>3, <2>1 DEF Bucket, Size
  <2> QED
    BY <1>3, <1>4, <2>2 DEF HasTable
<1> QED
  BY <1>3, <1>4, <1>5, <1>6, <1>7, <1>8

(* The smallest table of at least expect elements                          *)
LEMMA BitsExist ==
  ASSUME NEW expect \in Nat
  PROVE  \E n \in 1 .. expect + 1 : /\ (3 * Power[n]) \div 4 >= expect
                                    /\ \A c \in 1 .. n - 1 : (3 * Power[c]) \div 4 < expect
<1> DEFINE T == {n \in Nat : n >= 1 /\ (3 * Power[n]) \div 4 >= expect}
<1>1. expect + 1 \in T
  <2>1. PICK P \in Nat : P = Power[expect] /\ P > expect /\ Power[expect + 1] = 2 * P
    BY PowerIs
  <2>2. (3 * (2 * P)) \div 4 >= expect
    BY <2>1
  <2> QED
    BY <2>1, <2>2
<1>2. PICK n \in T : \A y \in T : n <= y
  <2>1. T \in SUBSET Nat /\ T # {}
    BY <1>1
  <2> HIDE DEF T
  <2> QED
    BY <2>1, LeastNat
<1>3. ASSUME NEW c \in 1 .. n - 1
      PROVE  (3 * Power[c]) \div 4 < expect
  <2>1. c \in Nat /\ c >= 1 /\ ~(n <= c)
    BY <1>2
  <2>2. c \notin T
    <3> HIDE DEF T
    <3> QED
      BY <1>2, <2>1
  <2>3. PICK P \in Nat : P = Power[c] /\ P > 0
    BY <2>1, PowerOf
  <2>4. (3 * P) \div 4 \in Nat
    BY <2>3, LimitsAre
  <2> QED
    BY <2>1, <2>2, <2>3, <2>4
<1>4. n \in 1 .. expect + 1 /\ (3 * Power[n]) \div 4 >= expect
  BY <1>1, <1>2
<1> QED
  BY <1>3, <1>4

-----------------------------------------------------------------------------
(* Htable: the steps of a table, and what they do to the bag.              *)

Contents(t) == [p \in Elem |-> Count(t, {p})]

(* A table as the operations find it: sound, with the room it vouches for, *)
(* or what a sized init that failed left.                                  *)
Standing(t, r, b) ==
  /\ r \in Nat
  /\ \/ Sound(t, b) /\ t.elems + r <= t.max
     \/ Bare(t) /\ r = 0

LEMMA CountsAre ==
  ASSUME NEW b, NEW t, Sound(t, b) \/ Bare(t)
  PROVE  /\ \A P : Count(t, P) \in Nat /\ IsFiniteSet(Holds(t, P))
         /\ \A P : Count(t, P) > 0 <=> \E i \in Valid(t) : Raw(t, i) \in P
         /\ [p \in Elem |-> IF HasTable(t) THEN Cardinality({i \in Valid(t) : Raw(t, i) = p}) ELSE 0]
              = Contents(t)
         /\ Sound(t, b) => HasTable(t)
         /\ Valid(t) = {} => Contents(t) = [p \in Elem |-> 0]
<1>1. PICK K \in Nat : Valid(t) \subseteq 0 .. K - 1
  <2>1. CASE Sound(t, b)
    <3>1. Size(t) \in Nat /\ Valid(t) \subseteq 0 .. Size(t) - 1
      BY <2>1, GoodIs DEF Sound, Bucket
    <3> QED
      BY <3>1
  <2>2. CASE Bare(t)
    <3>1. Valid(t) = {} /\ 0 \in Nat
      BY <2>2, BareIs
    <3> QED
      BY <3>1
  <2> QED
    BY <2>1, <2>2
<1>2. \A P : Count(t, P) \in Nat /\ IsFiniteSet(Holds(t, P))
  BY <1>1, CountIs
<1>3. ASSUME NEW P
      PROVE  Count(t, P) > 0 <=> \E i \in Valid(t) : Raw(t, i) \in P
  <2>1. Count(t, P) = 0 <=> Holds(t, P) = {}
    BY <1>2, FS_EmptySet DEF Count
  <2>2. Holds(t, P) = {} <=> ~\E i \in Valid(t) : Raw(t, i) \in P
    BY DEF Holds
  <2>3. Count(t, P) \in Nat
    BY <1>2
  <2> QED
    BY <2>1, <2>2, <2>3
<1>4. \A p : {i \in Valid(t) : Raw(t, i) = p} = Holds(t, {p})
  BY DEF Holds
<1>5. Sound(t, b) => HasTable(t)
  BY DEF Sound, Good
<1>6. Valid(t) = {} => \A p \in Elem : Count(t, {p}) = 0
  <2>1. Valid(t) = {} => \A p \in Elem : Holds(t, {p}) = {}
    BY DEF Holds
  <2> QED
    BY <2>1, FS_EmptySet DEF Count
<1>7. ~HasTable(t) => Valid(t) = {}
  BY <1>5, BareIs
<1>8. \A p \in Elem : (IF HasTable(t) THEN Cardinality({i \in Valid(t) : Raw(t, i) = p}) ELSE 0) = Count(t, {p})
  BY <1>4, <1>6, <1>7 DEF Count
<1> QED
  BY <1>2, <1>3, <1>5, <1>6, <1>8 DEF Contents

LEMMA AddStep ==
  ASSUME NEW b, Pointers(b), NEW t, NEW r, Standing(t, r, b), NEW p \in Elem,
         NEW roomy, roomy = IF t.elems + 1 > t.max THEN double_table(t) ELSE t,
         NEW tidy, tidy = IF NeedsRehash(roomy) THEN rehash_table(roomy) ELSE roomy,
         NEW cov, cov = IF p \cap tidy.common_mask # tidy.common_bits
                        THEN update_common(tidy, p) ELSE tidy,
         NEW u, u = Entered(cov, p)
  PROVE  /\ Standing(u, IF r = 0 THEN 0 ELSE r - 1, b)
         /\ Contents(u) = [Contents(t) EXCEPT ![p] = @ + 1]
         /\ t.elems + 1 > t.max => r = 0
<1>1. r \in Nat
  BY DEF Standing
<1>2. /\ Roomy(roomy, b) /\ \A P : Count(roomy, P) = Count(t, P)
      /\ t.elems + 1 > t.max => r = 0
      /\ r # 0 => roomy = t /\ t.elems + r <= t.max
  <2>1. CASE Sound(t, b) /\ t.elems + r <= t.max
    <3>1. /\ t \in Tables /\ Masks(t, b) /\ DOMAIN t.table = Bucket(t)
          /\ \A i \in Valid(t) : Raw(t, i) \in Elem
          /\ t.elems = Cardinality(Valid(t)) /\ t.elems <= t.max
      BY <2>1 DEF Sound, Good, HasTable
    <3>2. t.elems \in Nat /\ t.max \in Nat
      BY <2>1, SoundIs
    <3>3. t.elems + 1 > t.max => r = 0
      BY <1>1, <2>1, <3>2
    <3>4. CASE t.elems + 1 > t.max
      <4>1. PICK K \in Nat : DOMAIN t.table = 0 .. K - 1
        <5>1. Size(t) \in Nat /\ Bucket(t) = 0 .. Size(t) - 1
          BY <2>1, GoodIs DEF Sound, Bucket
        <5> QED
          BY <3>1, <5>1
      <4>2. t.elems <= (3 * Power[t.bits]) \div 4
        BY <2>1, <3>1 DEF Sound, Limits, Size
      <4>3. roomy = double_table(t)
        BY <3>4
      <4>4. Roomy(roomy, b) /\ \A P : Count(roomy, P) = Count(t, P)
        BY <3>1, <4>1, <4>2, <4>3, DoubleSound
      <4> QED
        BY <3>3, <3>4, <4>4
    <3>5. CASE ~(t.elems + 1 > t.max)
      BY <2>1, <3>2, <3>5 DEF Roomy
    <3> QED
      BY <3>4, <3>5
  <2>2. CASE Bare(t) /\ r = 0
    <3>1. /\ t \in Tables /\ Masks(t, b) /\ Valid(t) = {} /\ DOMAIN t.table = 0 .. 1 - 1
          /\ t.elems = 0 /\ t.max = 0
      BY <2>2, BareIs
    <3>2. PICK K \in Nat : DOMAIN t.table = 0 .. K - 1
      BY <3>1
    <3>3. roomy = double_table(t) /\ t.elems = Cardinality(Valid(t))
      BY <3>1, FS_EmptySet
    <3>4. t.elems <= (3 * Power[t.bits]) \div 4
      <4>1. PICK S \in Nat : S = Power[t.bits] /\ S > 0
        <5>1. t.bits \in Nat
          BY <3>1 DEF Tables
        <5> QED
          BY <5>1, PowerOf
      <4>2. (3 * S) \div 4 \in Nat
        BY <4>1, LimitsAre
      <4> QED
        BY <3>1, <4>1, <4>2
    <3>5. Roomy(roomy, b) /\ \A P : Count(roomy, P) = Count(t, P)
      BY <3>1, <3>2, <3>3, <3>4, DoubleSound
    <3> QED
      BY <2>2, <3>5
  <2> QED
    BY <2>1, <2>2 DEF Standing
<1>3. /\ Sound(u, b) /\ u.elems = roomy.elems + 1 /\ u.max = roomy.max
      /\ \A P : Count(u, P) = Count(roomy, P) + (IF p \in P THEN 1 ELSE 0)
  BY <1>2, AddSound
<1>4. /\ roomy.elems \in Nat /\ roomy.max \in Nat /\ roomy.elems + 1 <= roomy.max
  BY <1>2, SoundIs DEF Roomy
<1>5. PICK q : q = IF r = 0 THEN 0 ELSE r - 1
  OBVIOUS
<1>6. q \in Nat /\ u.elems + q <= u.max
  BY <1>1, <1>2, <1>3, <1>4, <1>5
<1>7. \A x \in Elem : Contents(u)[x] = Contents(t)[x] + (IF p = x THEN 1 ELSE 0)
  BY <1>2, <1>3 DEF Contents
<1>8. \A x \in Elem : Contents(t)[x] \in Nat
  <2>1. Sound(t, b) \/ Bare(t)
    BY DEF Standing
  <2> QED
    BY <2>1, CountsAre DEF Contents
<1>9. Contents(u) = [Contents(t) EXCEPT ![p] = @ + 1]
  <2>1. Contents(u) = [x \in Elem |-> Contents(u)[x]] /\ DOMAIN Contents(t) = Elem
    BY DEF Contents
  <2>2. \A x \in Elem : Contents(u)[x] = IF x = p THEN Contents(t)[p] + 1 ELSE Contents(t)[x]
    BY <1>7, <1>8
  <2>3. PICK f, g : f = Contents(t) /\ g = Contents(u)
    OBVIOUS
  <2>4. /\ f = [x \in Elem |-> f[x]] /\ g = [x \in Elem |-> g[x]]
        /\ \A x \in Elem : g[x] = IF x = p THEN f[p] + 1 ELSE f[x]
    BY <2>1, <2>2, <2>3 DEF Contents
  <2>5. g = [f EXCEPT ![p] = @ + 1]
    BY <2>4
  <2> QED
    BY <2>3, <2>5
<1> QED
  BY <1>2, <1>3, <1>5, <1>6, <1>9 DEF Standing

LEMMA DelvalStep ==
  ASSUME NEW b, Pointers(b), NEW t, NEW r, Standing(t, r, b), HasTable(t), NEW i \in Valid(t),
         NEW u, u = htable_delval(t, i)
  PROVE  /\ Standing(u, r, b) /\ u # t /\ Raw(t, i) \in Elem /\ Contents(t)[Raw(t, i)] > 0
         /\ Contents(u) = [Contents(t) EXCEPT ![Raw(t, i)] = @ - 1]
<1>1. r \in Nat /\ Sound(t, b) /\ t.elems + r <= t.max
  BY BareIs DEF Standing
<1>2. /\ Sound(u, b) /\ u.max = t.max /\ u.elems = t.elems - 1
      /\ \A P : Count(t, P) = Count(u, P) + (IF Raw(t, i) \in P THEN 1 ELSE 0)
  BY <1>1, DelvalSound
<1>3. t.elems \in Nat /\ t.max \in Nat
  BY <1>1, SoundIs
<1>4. Standing(u, r, b) /\ u # t
  BY <1>1, <1>2, <1>3 DEF Standing
<1>5. PICK p \in Elem : p = Raw(t, i)
  BY <1>1 DEF Sound, Good
<1>6. (\A x \in Elem : Contents(t)[x] \in Nat) /\ \A x \in Elem : Contents(u)[x] \in Nat
  BY <1>1, <1>2, CountsAre DEF Contents
<1>7. \A x \in Elem : Contents(t)[x] = Contents(u)[x] + (IF p = x THEN 1 ELSE 0)
  BY <1>2, <1>5 DEF Contents
<1>8. Contents(t)[p] > 0
  BY <1>6, <1>7
<1>9. Contents(u) = [Contents(t) EXCEPT ![p] = @ - 1]
  <2>1. \A x \in Elem : Contents(u)[x] = IF x = p THEN Contents(t)[p] - 1 ELSE Contents(t)[x]
    BY <1>6, <1>7
  <2>2. PICK f, g : f = Contents(t) /\ g = Contents(u)
    OBVIOUS
  <2>3. /\ f = [x \in Elem |-> f[x]] /\ g = [x \in Elem |-> g[x]]
        /\ \A x \in Elem : g[x] = IF x = p THEN f[p] - 1 ELSE f[x]
    BY <2>1, <2>2 DEF Contents
  <2>4. g = [f EXCEPT ![p] = @ - 1]
    BY <2>3
  <2> QED
    BY <2>2, <2>4
<1> QED
  BY <1>4, <1>5, <1>8, <1>9

LEMMA DelStep ==
  ASSUME NEW b, Pointers(b), NEW t, NEW r, Standing(t, r, b), HasTable(t), NEW p \in Elem,
         NEW u, u = htable_del(t, p)
  PROVE  /\ Standing(u, r, b)
         /\ Contents(t)[p] > 0 => u # t /\ Contents(u) = [Contents(t) EXCEPT ![p] = @ - 1]
         /\ ~(Contents(t)[p] > 0) => u = t
<1>1. Sound(t, b) /\ Good(t, b) /\ Probed(t)
  BY BareIs DEF Standing, Sound
<1>2. PICK hits : hits = Candidates(t, rehash(p), {p})
  OBVIOUS
<1>3. u = IF hits = << >> THEN t ELSE htable_delval(t, hits[1])
  BY <1>2 DEF htable_del
<1>4. /\ hits \in Seq(Bucket(t))
      /\ \A x \in 1 .. Len(hits) : hits[x] \in Holds(t, {p})
      /\ \A i \in Holds(t, {p}) : \E x \in 1 .. Len(hits) : hits[x] = i
  <2>1. PICK S, h : S = {p} /\ h = rehash(p)
    OBVIOUS
  <2>2. hits = Candidates(t, h, S) /\ \A q \in S : rehash(q) = h
    BY <1>2, <2>1
  <2>3. /\ hits \in Seq(Bucket(t))
        /\ \A x \in 1 .. Len(hits) : hits[x] \in Holds(t, S)
        /\ Probed(t) /\ (\A q \in S : rehash(q) = h) =>
             \A i \in Holds(t, S) : \E x \in 1 .. Len(hits) : hits[x] = i
    BY <1>1, <2>2, CandidatesAre
  <2> QED
    BY <1>1, <2>1, <2>2, <2>3
<1>5. \A i \in Holds(t, {p}) : \E x \in 1 .. Len(hits) : hits[x] = i
  BY <1>4
<1>6. Contents(t)[p] > 0 <=> Holds(t, {p}) # {}
  <2>1. Count(t, {p}) > 0 <=> \E i \in Valid(t) : Raw(t, i) \in {p}
    BY <1>1, CountsAre
  <2> QED
    BY <2>1 DEF Holds, Contents
<1>7. CASE hits = << >>
  <2>1. Len(hits) = 0
    BY <1>7
  <2>2. Holds(t, {p}) = {}
    <3>1. 1 .. Len(hits) = {}
      BY <2>1
    <3> QED
      BY <1>5, <3>1
  <2> QED
    BY <1>3, <1>6, <1>7, <2>2
<1>8. CASE hits # << >>
  <2>1. 1 \in 1 .. Len(hits)
    BY <1>4, <1>8, EmptySeq, LenProperties
  <2>2. hits[1] \in Valid(t) /\ Raw(t, hits[1]) = p
    BY <1>4, <2>1 DEF Holds
  <2>3. Holds(t, {p}) # {}
    BY <1>4, <2>1
  <2>4. PICK i \in Valid(t) : i = hits[1]
    BY <2>2
  <2>5. u = htable_delval(t, i)
    BY <1>3, <1>8, <2>4
  <2>6. /\ Standing(u, r, b) /\ u # t
        /\ Contents(u) = [Contents(t) EXCEPT ![Raw(t, i)] = @ - 1]
    BY <2>5, DelvalStep
  <2>7. Contents(u) = [Contents(t) EXCEPT ![p] = @ - 1]
    BY <2>2, <2>4, <2>6
  <2> QED
    BY <1>6, <2>3, <2>6, <2>7
<1> QED
  BY <1>7, <1>8

(* f pairs the members of A off with those of T.                           *)
LEMMA PairedOff ==
  ASSUME NEW A, IsFiniteSet(A), NEW T, NEW f, \A x \in A : f[x] \in T,
         \A x, y \in A : f[x] = f[y] => x = y, \A z \in T : \E x \in A : f[x] = z
  PROVE  Cardinality(A) = Cardinality(T)
<1> DEFINE g == [x \in A |-> f[x]]
<1>1. g \in [A -> T]
  OBVIOUS
<1>2. g \in Injection(A, T)
  BY <1>1 DEF Injection, IsInjective
<1>3. g \in Surjection(A, T)
  BY <1>1 DEF Surjection
<1>4. ExistsBijection(A, T)
  BY <1>2, <1>3 DEF ExistsBijection, Bijection
<1> QED
  BY <1>4, FS_Bijection

(* q is what is in the buckets that hold something in P, each once.        *)
Listing(q, t, P) ==
  /\ \A x \in 1 .. Len(q) : \E i \in Holds(t, P) : q[x] = Raw(t, i)
  /\ \A e \in P : Cardinality({x \in 1 .. Len(q) : q[x] = e}) = Count(t, {e})

LEMMA ListingIs ==
  ASSUME NEW t, NEW P, NEW q, Len(q) \in Nat, NEW ix,
         \A x \in 1 .. Len(q) : ix[x] \in Holds(t, P) /\ q[x] = Raw(t, ix[x]),
         \A x, y \in 1 .. Len(q) : ix[x] = ix[y] => x = y,
         \A i \in Holds(t, P) : \E x \in 1 .. Len(q) : ix[x] = i
  PROVE  Listing(q, t, P)
<1>1. ASSUME NEW e \in P
      PROVE  Cardinality({x \in 1 .. Len(q) : q[x] = e}) = Count(t, {e})
  <2> DEFINE A == {x \in 1 .. Len(q) : q[x] = e}
             T == Holds(t, {e})
  <2>1. IsFiniteSet(A)
    <3>1. IsFiniteSet(1 .. Len(q))
      BY FS_Interval
    <3> QED
      BY <3>1, FS_Subset
  <2>2. \A x \in A : ix[x] \in T
    BY DEF Holds
  <2>3. \A z \in T : \E x \in A : ix[x] = z
    <3> SUFFICES ASSUME NEW z \in T PROVE \E x \in A : ix[x] = z
      OBVIOUS
    <3>1. z \in Holds(t, P) /\ Raw(t, z) = e
      BY DEF Holds
    <3>2. PICK x \in 1 .. Len(q) : ix[x] = z
      BY <3>1
    <3> QED
      BY <3>1, <3>2
  <2>4. \A x, y \in A : ix[x] = ix[y] => x = y
    OBVIOUS
  <2> HIDE DEF A, T
  <2>5. Cardinality(A) = Cardinality(T)
    BY <2>1, <2>2, <2>3, <2>4, PairedOff
  <2> QED
    BY <2>5 DEF A, T, Count
<1> QED
  BY <1>1 DEF Listing

LEMMA FoundIs ==
  ASSUME NEW b, NEW t, Good(t, b), Probed(t), NEW h, NEW S, \A p \in S : rehash(p) = h,
         NEW hits, hits = Candidates(t, h, S), NEW q, q = [n \in 1 .. Len(hits) |-> Raw(t, hits[n])]
  PROVE  Listing(q, t, S)
<1>1. /\ hits \in Seq(Bucket(t))
      /\ \A x \in 1 .. Len(hits) : hits[x] \in Holds(t, S)
      /\ \A x, y \in 1 .. Len(hits) : hits[x] = hits[y] => x = y
      /\ Probed(t) /\ (\A p \in S : rehash(p) = h) =>
           \A i \in Holds(t, S) : \E x \in 1 .. Len(hits) : hits[x] = i
  BY CandidatesAre
<1>2. Len(hits) \in Nat
  BY <1>1, LenProperties
<1>3. Len(q) = Len(hits)
  <2>1. PICK m \in Nat : m = Len(hits)
    BY <1>2
  <2>2. PICK X : \A n \in 1 .. m : Raw(t, hits[n]) \in X
    <3>1. \A n \in 1 .. m : Raw(t, hits[n]) \in {Raw(t, hits[k]) : k \in 1 .. m}
      OBVIOUS
    <3> QED
      BY <3>1
  <2>3. q \in [1 .. m -> X]
    BY <2>1, <2>2
  <2>4. q \in Seq(X) /\ Len(q) = m
    BY <2>3
  <2> QED
    BY <2>1, <2>4
<1>4. \A x \in 1 .. Len(q) : q[x] = Raw(t, hits[x])
  BY <1>3
<1> QED
  BY <1>1, <1>2, <1>3, <1>4, ListingIs

LEMMA VisitedIs ==
  ASSUME NEW b, NEW t, Good(t, b), NEW q, q = Visited(t)
  PROVE  Listing(q, t, Elem) /\ Listing(Backwards(q), t, Elem)
<1>1. /\ Size(t) \in Nat /\ Bucket(t) = 0 .. Size(t) - 1 /\ Valid(t) \subseteq Bucket(t)
      /\ DOMAIN t.table = Bucket(t) /\ Holds(t, Elem) = Valid(t)
  BY GoodIs DEF Good, HasTable, Bucket, Holds
<1>2. PICK N \in Nat : N = Size(t)
  BY <1>1
<1>3. \A k \in 0 .. N - 1 : k \in Valid(t) <=> entry_is_valid(t.table[k])
  BY <1>1, <1>2 DEF Valid
<1>4. PICK X : \A k \in 0 .. N - 1 : Raw(t, k) \in X
  <2>1. \A k \in 0 .. N - 1 : Raw(t, k) \in {Raw(t, x) : x \in 0 .. N - 1}
    OBVIOUS
  <2> QED
    BY <2>1
<1> DEFINE a == [k \in 0 .. N - 1 |-> Raw(t, k)]
           Ups(w) == w = [i \in 0 .. Size(t) |->
                            IF i = 0 THEN << >>
                            ELSE IF entry_is_valid(t.table[i - 1]) THEN Append(w[i - 1], Raw(t, i - 1))
                            ELSE w[i - 1]]
           upto == CHOOSE w : Ups(w)
<1>5. a \in [0 .. N - 1 -> X] /\ \A k \in 0 .. N - 1 : a[k] = Raw(t, k)
  BY <1>4
<1>6. q = upto[N]
  BY <1>2 DEF Visited
<1> HIDE DEF a
<1>7. PICK w : Ups(w)
  <2>1. PICK w \in [0 .. N -> Seq(X)] : Gathers(w, N, Valid(t), a)
    BY <1>5, GatherExists
  <2>2. ASSUME NEW n \in 0 .. N
        PROVE  w[n] = IF n = 0 THEN << >>
                      ELSE IF entry_is_valid(t.table[n - 1]) THEN Append(w[n - 1], Raw(t, n - 1))
                      ELSE w[n - 1]
    <3>1. w[n] = IF n = 0 THEN << >> ELSE IF n - 1 \in Valid(t) THEN Append(w[n - 1], a[n - 1]) ELSE w[n - 1]
      BY <2>1 DEF Gathers
    <3>2. n # 0 => n - 1 \in 0 .. N - 1
      OBVIOUS
    <3> QED
      BY <1>3, <1>5, <3>1, <3>2
  <2>3. Ups(w)
    BY <1>2, <2>1, <2>2
  <2> QED
    BY <2>3
<1>8. Ups(upto)
  <2> HIDE DEF Ups
  <2> QED
    BY <1>7
<1>9. Gathers(upto, N, Valid(t), a)
  <2>1. ASSUME NEW n \in 0 .. N
        PROVE  upto[n] = IF n = 0 THEN << >>
                         ELSE IF n - 1 \in Valid(t) THEN Append(upto[n - 1], a[n - 1]) ELSE upto[n - 1]
    <3> HIDE DEF upto
    <3>1. upto[n] = IF n = 0 THEN << >>
                    ELSE IF entry_is_valid(t.table[n - 1]) THEN Append(upto[n - 1], Raw(t, n - 1))
                    ELSE upto[n - 1]
      BY <1>2, <1>8
    <3>2. n # 0 => n - 1 \in 0 .. N - 1
      OBVIOUS
    <3> QED
      BY <1>3, <1>5, <3>1, <3>2
  <2> HIDE DEF upto
  <2> QED
    BY <2>1 DEF Gathers
<1> HIDE DEF upto, Ups
<1>10. q \in Seq(X) /\ \E ix : Picks(ix, q, N, Valid(t), a)
  <2>1. upto[N] \in Seq(X) /\ \E ix : Picks(ix, upto[N], N, Valid(t), a)
    BY <1>5, <1>9, GatherIs
  <2> QED
    BY <1>6, <2>1
<1>11. PICK ix : Picks(ix, q, N, Valid(t), a)
  BY <1>10
<1>12. PICK m \in Nat : m = Len(q)
  BY <1>10, LenProperties
<1>13. /\ \A x \in 1 .. m : ix[x] \in Valid(t) /\ q[x] = Raw(t, ix[x])
       /\ \A x, y \in 1 .. m : ix[x] = ix[y] => x = y
       /\ \A k \in Valid(t) : \E x \in 1 .. m : ix[x] = k
  BY <1>1, <1>2, <1>5, <1>11, <1>12 DEF Picks
<1>14. Listing(q, t, Elem)
  BY <1>1, <1>12, <1>13, ListingIs
<1>15. PICK r, jx : r = Backwards(q) /\ jx = [x \in 1 .. m |-> ix[m + 1 - x]]
  OBVIOUS
<1>16. r = [x \in 1 .. m |-> q[m + 1 - x]]
  BY <1>12, <1>15 DEF Backwards
<1>17. \A x \in 1 .. m : m + 1 - x \in 1 .. m /\ m + 1 - (m + 1 - x) = x
  OBVIOUS
<1>18. Len(r) = m
  <2>1. r \in [1 .. m -> X]
    <3>1. q \in [1 .. m -> X]
      BY <1>10, <1>12, LenProperties
    <3> QED
      BY <1>16, <1>17, <3>1
  <2> QED
    BY <2>1
<1>19. \A x \in 1 .. m : jx[x] \in Valid(t) /\ r[x] = Raw(t, jx[x])
  BY <1>13, <1>15, <1>16, <1>17
<1>20. \A x, y \in 1 .. m : jx[x] = jx[y] => x = y
  <2> SUFFICES ASSUME NEW x \in 1 .. m, NEW y \in 1 .. m, jx[x] = jx[y] PROVE x = y
    OBVIOUS
  <2>1. ix[m + 1 - x] = ix[m + 1 - y]
    BY <1>15
  <2>2. m + 1 - x = m + 1 - y
    BY <1>13, <1>17, <2>1
  <2> QED
    BY <2>2
<1>21. \A k \in Valid(t) : \E x \in 1 .. m : jx[x] = k
  <2> SUFFICES ASSUME NEW k \in Valid(t) PROVE \E x \in 1 .. m : jx[x] = k
    OBVIOUS
  <2>1. PICK y \in 1 .. m : ix[y] = k
    BY <1>13
  <2>2. PICK x \in 1 .. m : m + 1 - x = y
    BY <1>17
  <2>3. jx[x] = k
    BY <1>15, <2>1, <2>2
  <2> QED
    BY <2>3
<1>22. Listing(r, t, Elem)
  BY <1>1, <1>18, <1>19, <1>20, <1>21, ListingIs
<1> QED
  BY <1>14, <1>15, <1>22

-----------------------------------------------------------------------------
(* Htable: the actions.                                                    *)

TableKept(b) == Standing(ht, room, b)

LEMMA BagsAre ==
  ASSUME NEW b, TableKept(b)
  PROVE  BagOf = Contents(ht)
<1>1. Sound(ht, b) \/ Bare(ht)
  BY DEF TableKept, Standing
<1> QED
  BY <1>1, CountsAre DEF BagOf

LEMMA BagsAreNext ==
  ASSUME NEW b, TableKept(b)'
  PROVE  BagOf' = Contents(ht')
<1>1. Standing(ht', room', b)
  BY DEF TableKept
<1>2. Sound(ht', b) \/ Bare(ht')
  BY <1>1 DEF Standing
<1>3. [p \in Elem |-> IF HasTable(ht') THEN Cardinality({i \in Valid(ht') : Raw(ht', i) = p}) ELSE 0]
        = Contents(ht')
  BY <1>2, CountsAre
<1> QED
  BY <1>3 DEF BagOf

(* The bag after an action that keeps the table                            *)
LEMMA SameBag ==
  ASSUME NEW b, TableKept(b), UNCHANGED <<ht, room>>
  PROVE  TableKept(b)' /\ BagOf' = BagOf
<1>1. Standing(ht', room', b)
  BY DEF TableKept
<1>2. TableKept(b)'
  BY <1>1 DEF TableKept
<1> QED
  BY <1>2, BagsAre, BagsAreNext

LEMMA AddsToBag ==
  ASSUME NEW b, Pointers(b), TableKept(b), NEW p \in Elem, htable_add(p)
  PROVE  TableKept(b)' /\ Bag!Add(p)
<1>1. PICK roomy : roomy = IF ht.elems + 1 > ht.max THEN double_table(ht) ELSE ht
  OBVIOUS
<1>2. PICK tidy : tidy = IF NeedsRehash(roomy) THEN rehash_table(roomy) ELSE roomy
  OBVIOUS
<1>3. PICK cov : cov = IF p \cap tidy.common_mask # tidy.common_bits
                       THEN update_common(tidy, p) ELSE tidy
  OBVIOUS
<1>4. PICK u : u = Entered(cov, p)
  OBVIOUS
<1>5. Standing(ht, room, b)
  BY DEF TableKept
<1>6. /\ Standing(u, IF room = 0 THEN 0 ELSE room - 1, b)
      /\ Contents(u) = [Contents(ht) EXCEPT ![p] = @ + 1]
      /\ ht.elems + 1 > ht.max => room = 0
  BY <1>1, <1>2, <1>3, <1>4, <1>5, AddStep
<1>7. \/ ht' = u /\ told' = <<"added">> /\ room' = IF room = 0 THEN 0 ELSE room - 1
      \/ ht.elems + 1 > ht.max /\ told' = <<"no memory">> /\ UNCHANGED <<ht, room>>
  BY <1>1, <1>2, <1>3, <1>4 DEF htable_add, Entered
<1>8. CASE ht' = u /\ told' = <<"added">> /\ room' = IF room = 0 THEN 0 ELSE room - 1
  <2>1. Standing(ht', room', b)
    BY <1>6, <1>8
  <2>2. TableKept(b)'
    BY <2>1 DEF TableKept
  <2>3. BagOf = Contents(ht) /\ BagOf' = Contents(u)
    BY <1>8, <2>2, BagsAre, BagsAreNext
  <2>4. BagOf' = [BagOf EXCEPT ![p] = @ + 1]
    BY <1>6, <2>3
  <2> QED
    BY <1>8, <2>2, <2>4 DEF Bag!Add
<1>9. CASE ht.elems + 1 > ht.max /\ told' = <<"no memory">> /\ UNCHANGED <<ht, room>>
  <2>1. TableKept(b)' /\ BagOf' = BagOf
    BY <1>9, SameBag
  <2> QED
    BY <1>6, <1>9, <2>1 DEF Bag!Add
<1> QED
  BY <1>7, <1>8, <1>9

(* Deleting one entry that holds p                                         *)
LEMMA DelsFromBag ==
  ASSUME NEW b, Pointers(b), TableKept(b), HasTable(ht), NEW p \in Elem,
         ht' = htable_del(ht, p), told' = Deleted(ht'), UNCHANGED room
  PROVE  /\ TableKept(b)'
         /\ BagOf[p] > 0 => told' = <<"deleted">> /\ BagOf' = Bag!Without(p)
         /\ ~(BagOf[p] > 0) => told' = <<"missing">> /\ BagOf' = BagOf
<1>1. Standing(ht, room, b)
  BY DEF TableKept
<1>2. PICK u : u = htable_del(ht, p) /\ ht' = u
  OBVIOUS
<1>3. /\ Standing(u, room, b)
      /\ Contents(ht)[p] > 0 => u # ht /\ Contents(u) = [Contents(ht) EXCEPT ![p] = @ - 1]
      /\ ~(Contents(ht)[p] > 0) => u = ht
  BY <1>1, <1>2, DelStep
<1>4. Standing(ht', room', b)
  BY <1>2, <1>3
<1>5. TableKept(b)'
  BY <1>4 DEF TableKept
<1>6. BagOf = Contents(ht) /\ BagOf' = Contents(u)
  BY <1>2, <1>5, BagsAre, BagsAreNext
<1>7. told' = IF u = ht THEN <<"missing">> ELSE <<"deleted">>
  BY <1>2 DEF Deleted
<1>8. BagOf[p] > 0 => told' = <<"deleted">> /\ BagOf' = Bag!Without(p)
  BY <1>3, <1>6, <1>7 DEF Bag!Without
<1>9. ~(BagOf[p] > 0) => told' = <<"missing">> /\ BagOf' = BagOf
  BY <1>3, <1>6, <1>7
<1> QED
  BY <1>5, <1>8, <1>9

LEMMA RemovesFromBag ==
  ASSUME NEW b, Pointers(b), TableKept(b), NEW p \in Elem, DelElem(p)
  PROVE  TableKept(b)' /\ Bag!Del(p)
<1>1. HasTable(ht) /\ ht' = htable_del(ht, p) /\ told' = Deleted(ht') /\ UNCHANGED room
  BY DEF DelElem
<1>2. /\ TableKept(b)'
      /\ BagOf[p] > 0 => told' = <<"deleted">> /\ BagOf' = Bag!Without(p)
      /\ ~(BagOf[p] > 0) => told' = <<"missing">> /\ BagOf' = BagOf
  BY <1>1, DelsFromBag
<1> QED
  BY <1>1, <1>2 DEF Bag!Del, Bag!Elements

LEMMA CountedInBag == \A S : Bag!Cardinality(S) = Cardinality(S)
BY Zenon DEF Bag!Cardinality, Cardinality

(* A listing of what is in the table is one of what is in the bag.         *)
LEMMA ListsIs ==
  ASSUME NEW b, NEW t, Sound(t, b), NEW P \in SUBSET Elem, NEW q, Listing(q, t, P),
         NEW F, \A e : e \in F => e \in P, \A e \in P : Contents(t)[e] > 0 => e \in F
  PROVE  Bag!Lists(q, F, Contents(t))
<1>1. /\ \A e \in P : Contents(t)[e] = Count(t, {e})
      /\ \A e \in P : Contents(t)[e] > 0 <=> \E i \in Valid(t) : Raw(t, i) \in {e}
  BY CountsAre DEF Contents
<1>2. \A i \in Holds(t, P) : Raw(t, i) \in F
  BY <1>1 DEF Holds
<1>3. \A i \in 1 .. Len(q) : q[i] \in F
  BY <1>2 DEF Listing
<1>4. \A e \in F : Cardinality({x \in 1 .. Len(q) : q[x] = e}) = Contents(t)[e]
  BY <1>1 DEF Listing
<1>5. \A e \in F : Bag!Occurrences(q, e) = Contents(t)[e]
  BY <1>4, CountedInBag DEF Bag!Occurrences
<1> QED
  BY <1>3, <1>5 DEF Bag!Lists

(* What the searches for key k find                                        *)
LEMMA MatchesAre ==
  ASSUME NEW b, TableKept(b), HasTable(ht), NEW k, NEW hits, hits = MatchesOf(k)
  PROVE  /\ Sound(ht, b) /\ Len(hits) \in Nat
         /\ hits # << >> => Raw(ht, hits[1]) \in Bag!Matching(k)
         /\ hits = << >> => Bag!Matching(k) = {}
         /\ Bag!Lists([n \in 1 .. Len(hits) |-> Raw(ht, hits[n])], Bag!Matching(k), BagOf)
<1>1. Sound(ht, b) /\ Good(ht, b) /\ Probed(ht)
  BY BareIs DEF TableKept, Standing, Sound
<1>2. PICK S, h : S = {p \in Elem : KeyOf[p] = k} /\ h = Hash[k]
  OBVIOUS
<1>3. hits = Candidates(ht, h, S) /\ \A p \in S : rehash(p) = h
  BY <1>2 DEF MatchesOf, rehash
<1>4. /\ hits \in Seq(Bucket(ht))
      /\ \A x \in 1 .. Len(hits) : hits[x] \in Holds(ht, S)
      /\ \A i \in Holds(ht, S) : \E x \in 1 .. Len(hits) : hits[x] = i
  BY <1>1, <1>3, CandidatesAre
<1>5. BagOf = Contents(ht)
  BY BagsAre
<1>6. /\ \A e \in Elem : BagOf[e] = Count(ht, {e})
      /\ \A e \in Elem : BagOf[e] > 0 <=> \E i \in Valid(ht) : Raw(ht, i) \in {e}
  BY <1>1, <1>5, CountsAre DEF Contents
<1>7. PICK F : F = Bag!Matching(k)
  OBVIOUS
<1>8. /\ \A e : e \in F <=> e \in S /\ BagOf[e] > 0
      /\ F \subseteq S /\ S \subseteq Elem
  BY <1>2, <1>7 DEF Bag!Matching, Bag!Elements
<1>9. \A i \in Holds(ht, S) : Raw(ht, i) \in F
  BY <1>6, <1>8 DEF Holds
<1>10. Len(hits) \in Nat /\ (hits # << >> => 1 \in 1 .. Len(hits)) /\ (hits = << >> => 1 .. Len(hits) = {})
  <2>1. Len(hits) \in Nat /\ (hits # << >> => Len(hits) # 0) /\ (hits = << >> => Len(hits) = 0)
    BY <1>4, EmptySeq, LenProperties
  <2> QED
    BY <2>1
<1>11. hits # << >> => Raw(ht, hits[1]) \in F
  BY <1>4, <1>9, <1>10
<1>12. hits = << >> => F = {}
  <2> SUFFICES ASSUME hits = << >>, NEW e \in F PROVE FALSE
    OBVIOUS
  <2>1. PICK i \in Valid(ht) : Raw(ht, i) = e
    BY <1>6, <1>8
  <2>2. i \in Holds(ht, S)
    BY <1>8, <2>1 DEF Holds
  <2> QED
    BY <1>4, <1>10, <2>2
<1>13. PICK q : q = [n \in 1 .. Len(hits) |-> Raw(ht, hits[n])]
  OBVIOUS
<1>14. Listing(q, ht, S)
  BY <1>1, <1>3, <1>13, FoundIs
<1>15. Bag!Lists(q, F, BagOf)
  <2>1. Bag!Lists(q, F, Contents(ht))
    BY <1>1, <1>5, <1>8, <1>14, ListsIs
  <2> QED
    BY <1>5, <2>1
<1> QED
  BY <1>1, <1>7, <1>10, <1>11, <1>12, <1>13, <1>15

LEMMA FindsInBag ==
  ASSUME NEW b, Pointers(b), TableKept(b), NEW k, Find(k)
  PROVE  TableKept(b)' /\ Bag!Find(k)
<1>1. PICK hits : hits = MatchesOf(k)
  OBVIOUS
<1>2. PICK q : q = [n \in 1 .. Len(hits) |-> Raw(ht, hits[n])]
  OBVIOUS
<1>3. HasTable(ht) /\ told' = <<"found", q>> /\ UNCHANGED <<ht, room>>
  BY <1>1, <1>2 DEF Find
<1>4. TableKept(b)' /\ BagOf' = BagOf
  BY <1>3, SameBag
<1>5. Bag!Lists(q, Bag!Matching(k), BagOf)
  BY <1>1, <1>2, <1>3, MatchesAre
<1>6. told'[1] = "found" /\ told'[2] = q
  BY <1>3
<1> QED
  BY <1>3, <1>4, <1>5, <1>6 DEF Bag!Find

LEMMA DelKeyInBag ==
  ASSUME NEW b, Pointers(b), TableKept(b), NEW k, DelKey(k)
  PROVE  TableKept(b)' /\ Bag!DelKey(k)
<1>1. PICK hits : hits = MatchesOf(k)
  OBVIOUS
<1>2. /\ HasTable(ht) /\ told' = Deleted(ht') /\ UNCHANGED room
      /\ ht' = IF hits = << >> THEN ht ELSE htable_del(ht, Raw(ht, hits[1]))
  BY <1>1 DEF DelKey
<1>3. /\ hits # << >> => Raw(ht, hits[1]) \in Bag!Matching(k)
      /\ hits = << >> => Bag!Matching(k) = {}
  BY <1>1, <1>2, MatchesAre
<1>4. CASE hits = << >>
  <2>1. UNCHANGED <<ht, room>> /\ told' = <<"missing">>
    BY <1>2, <1>4 DEF Deleted
  <2>2. TableKept(b)' /\ BagOf' = BagOf
    BY <2>1, SameBag
  <2> QED
    BY <1>3, <1>4, <2>1, <2>2 DEF Bag!DelKey
<1>5. CASE hits # << >>
  <2>1. PICK p : p = Raw(ht, hits[1])
    OBVIOUS
  <2>2. p \in Elem /\ p \in Bag!Matching(k) /\ BagOf[p] > 0
    BY <1>3, <1>5, <2>1 DEF Bag!Matching, Bag!Elements
  <2>3. ht' = htable_del(ht, p)
    BY <1>2, <1>5, <2>1
  <2>4. /\ TableKept(b)'
        /\ BagOf[p] > 0 => told' = <<"deleted">> /\ BagOf' = Bag!Without(p)
    BY <1>2, <2>2, <2>3, DelsFromBag
  <2> QED
    BY <1>2, <2>2, <2>4 DEF Bag!DelKey
<1> QED
  BY <1>4, <1>5

LEMMA WalksBag ==
  ASSUME NEW b, Pointers(b), TableKept(b), NEW dropped \in SUBSET Valid(ht), Walk(dropped)
  PROVE  TableKept(b)' /\ Bag!Walk
<1>1. PICK left : left = Pruned(ht, dropped)
  OBVIOUS
<1>2. PICK there, back : there = Visited(ht) /\ back = Backwards(Visited(left))
  OBVIOUS
<1>3. HasTable(ht) /\ ht' = left /\ told' = <<"walked", there, back>> /\ UNCHANGED room
  BY <1>1, <1>2 DEF Walk, Pruned
<1>4. Sound(ht, b) /\ Good(ht, b) /\ room \in Nat /\ ht.elems + room <= ht.max
  BY <1>3, BareIs DEF TableKept, Standing, Sound
<1>5. /\ Sound(left, b) /\ left.max = ht.max
      /\ left.elems = ht.elems - Cardinality(dropped) /\ Cardinality(dropped) \in Nat
      /\ \A P : Count(left, P) <= Count(ht, P)
  BY <1>1, <1>4, DropSound
<1>6. Standing(left, room, b)
  <2>1. ht.elems \in Nat /\ ht.max \in Nat
    BY <1>4, SoundIs
  <2> QED
    BY <1>4, <1>5, <2>1 DEF Standing
<1>7. Standing(ht', room', b)
  BY <1>3, <1>6
<1>8. TableKept(b)'
  BY <1>7 DEF TableKept
<1>9. BagOf = Contents(ht) /\ BagOf' = Contents(left)
  BY <1>3, <1>8, BagsAre, BagsAreNext
<1>10. Listing(there, ht, Elem)
  BY <1>2, <1>4, VisitedIs
<1>11. Listing(back, left, Elem)
  <2>1. PICK q : q = Visited(left)
    OBVIOUS
  <2>2. Good(left, b) /\ back = Backwards(q)
    BY <1>2, <1>5, <2>1 DEF Sound
  <2> QED
    BY <2>1, <2>2, VisitedIs
<1>12. Bag!Lists(there, Bag!Elements, BagOf)
  <2>1. PICK F : F = Bag!Elements
    OBVIOUS
  <2>2. (\A e : e \in F => e \in Elem) /\ \A e \in Elem : Contents(ht)[e] > 0 => e \in F
    BY <1>9, <2>1 DEF Bag!Elements
  <2>3. Bag!Lists(there, F, Contents(ht))
    BY <1>4, <1>10, <2>2, ListsIs
  <2> QED
    BY <1>9, <2>1, <2>3
<1>13. Bag!Lists(back, Elem, BagOf')
  <2>1. Bag!Lists(back, Elem, Contents(left))
    BY <1>5, <1>11, ListsIs
  <2> QED
    BY <1>9, <2>1
<1>14. \A e \in Elem : BagOf'[e] <= BagOf[e]
  BY <1>5, <1>9 DEF Contents
<1>15. told'[1] = "walked" /\ told'[2] = there /\ told'[3] = back
  BY <1>3
<1> QED
  BY <1>3, <1>8, <1>12, <1>13, <1>14, <1>15 DEF Bag!Walk

(* A table with nothing in it, and the room it vouches for                 *)
LEMMA EmptiesBag ==
  ASSUME NEW b, Standing(ht', room', b), Valid(ht') = {}
  PROVE  TableKept(b)' /\ BagOf' = Bag!Nothing
<1>1. TableKept(b)'
  BY DEF TableKept
<1>2. Contents(ht') = [p \in Elem |-> 0]
  BY CountsAre DEF Standing
<1> QED
  BY <1>1, <1>2, BagsAreNext DEF Bag!Nothing

LEMMA InitialKept ==
  ASSUME NEW b, Pointers(b)
  PROVE  Standing(Initial, 0, b) /\ Valid(Initial) = {}
<1>1. PICK u, n : n \in Nat /\ n = 0 /\ u = Sized(Initial, n) /\ u = Initial
  BY InitialIs
<1>2. Sound(u, b) /\ u.elems = 0 /\ u.max = (3 * Power[n]) \div 4 /\ Valid(u) = {}
  BY <1>1, SizedSound
<1>3. u.max \in Nat
  BY <1>2, SoundIs
<1>4. Standing(u, 0, b)
  BY <1>2, <1>3 DEF Standing
<1> QED
  BY <1>1, <1>2, <1>4

LEMMA SizesBag ==
  ASSUME NEW b, Pointers(b), NEW expect \in 0 .. MaxExpect, htable_init_sized(expect)
  PROVE  TableKept(b)' /\ Bag!InitSized
<1> DEFINE Fits(n) == /\ (3 * Power[n]) \div 4 >= expect
                      /\ \A c \in 1 .. n - 1 : (3 * Power[c]) \div 4 < expect
<1>1. expect \in Nat
  BY DEF Pointers
<1>2. PICK bits : bits = CHOOSE n \in 1 .. expect + 1 : Fits(n)
  OBVIOUS
<1>3. bits \in 1 .. expect + 1 /\ Fits(bits)
  <2>1. \E n \in 1 .. expect + 1 : Fits(n)
    BY <1>1, BitsExist
  <2> HIDE DEF Fits
  <2> QED
    BY <1>2, <2>1
<1>4. \/ ht' = Sized(Initial, bits) /\ room' = expect /\ told' = <<"ready">>
      \/ ht' = [Initial EXCEPT !.bits = bits] /\ room' = 0 /\ told' = <<"no memory">>
  <2>1. LET bts == CHOOSE n \in 1 .. expect + 1 : Fits(n) IN
        \/ ht' = Sized(Initial, bts) /\ room' = expect /\ told' = <<"ready">>
        \/ ht' = [Initial EXCEPT !.bits = bts] /\ room' = 0 /\ told' = <<"no memory">>
    BY DEF htable_init_sized
  <2> HIDE DEF Fits
  <2> QED
    BY <1>2, <2>1
<1>5. bits \in Nat \ {0}
  BY <1>1, <1>3
<1>6. CASE ht' = Sized(Initial, bits) /\ room' = expect /\ told' = <<"ready">>
  <2>1. PICK u : u = Sized(Initial, bits)
    OBVIOUS
  <2>2. Sound(u, b) /\ u.elems = 0 /\ u.max = (3 * Power[bits]) \div 4 /\ Valid(u) = {}
    BY <1>5, <2>1, SizedSound
  <2>3. u.max \in Nat /\ u.max >= expect
    BY <1>3, <2>2, SoundIs
  <2>4. Standing(u, expect, b)
    BY <1>1, <2>2, <2>3 DEF Standing
  <2>5. Standing(ht', room', b) /\ Valid(ht') = {}
    BY <1>6, <2>1, <2>2, <2>4
  <2>6. TableKept(b)' /\ BagOf' = Bag!Nothing
    BY <2>5, EmptiesBag
  <2> QED
    BY <1>6, <2>6 DEF Bag!InitSized
<1>7. CASE ht' = [Initial EXCEPT !.bits = bits] /\ room' = 0 /\ told' = <<"no memory">>
  <2>1. PICK u : u = [Initial EXCEPT !.bits = bits]
    OBVIOUS
  <2>2. Bare(u)
    BY <1>5, <2>1 DEF Bare
  <2>3. Standing(u, 0, b) /\ Valid(u) = {}
    BY <2>2, BareIs DEF Standing
  <2>4. Standing(ht', room', b) /\ Valid(ht') = {}
    BY <1>7, <2>1, <2>3
  <2>5. TableKept(b)' /\ BagOf' = Bag!Nothing
    BY <2>4, EmptiesBag
  <2> QED
    BY <1>7, <2>5 DEF Bag!InitSized
<1> QED
  BY <1>4, <1>6, <1>7

LEMMA ClearsBag ==
  ASSUME NEW b, Pointers(b), htable_clear
  PROVE  TableKept(b)' /\ Bag!Clear
<1>1. ht' = Initial /\ room' = 0 /\ told' = <<"ready">>
  BY DEF htable_clear
<1>2. Standing(ht', room', b) /\ Valid(ht') = {}
  BY <1>1, InitialKept
<1> QED
  BY <1>1, <1>2, EmptiesBag DEF Bag!Clear

LEMMA CopiesBag ==
  ASSUME NEW b, TableKept(b), htable_copy
  PROVE  TableKept(b)' /\ Bag!Copy
<1>1. told' \in {<<"copied">>, <<"no memory">>} /\ UNCHANGED <<ht, room>>
  BY DEF htable_copy
<1> QED
  BY <1>1, SameBag DEF Bag!Copy

LEMMA TableInitial ==
  ASSUME NEW b, Pointers(b), htable_init
  PROVE  TableKept(b) /\ Bag!BagInit
<1>1. ht = Initial /\ room = 0 /\ told = <<"ready">>
  BY DEF htable_init
<1>2. Standing(ht, room, b) /\ Valid(ht) = {}
  BY <1>1, InitialKept
<1>3. TableKept(b)
  BY <1>2 DEF TableKept
<1>4. Contents(ht) = [p \in Elem |-> 0]
  BY <1>2, CountsAre DEF Standing
<1>5. BagOf = Bag!Nothing
  BY <1>3, <1>4, BagsAre DEF Bag!Nothing
<1> QED
  BY <1>1, <1>3, <1>5 DEF Bag!BagInit

LEMMA TableStep ==
  ASSUME NEW b, Pointers(b), TableKept(b), [HtableNext]_tableVars
  PROVE  TableKept(b)' /\ [Bag!BagNext]_<<BagOf, room, told>>
<1>1. CASE htable_clear
  BY <1>1, ClearsBag DEF Bag!BagNext
<1>2. CASE htable_copy
  BY <1>2, CopiesBag DEF Bag!BagNext
<1>3. ASSUME NEW expect \in 0 .. MaxExpect, htable_init_sized(expect)
      PROVE  TableKept(b)' /\ Bag!BagNext
  BY <1>3, SizesBag DEF Bag!BagNext
<1>4. ASSUME NEW p \in Elem, htable_add(p)
      PROVE  TableKept(b)' /\ Bag!BagNext
  BY <1>4, AddsToBag DEF Bag!BagNext
<1>5. ASSUME NEW p \in Elem, DelElem(p)
      PROVE  TableKept(b)' /\ Bag!BagNext
  BY <1>5, RemovesFromBag DEF Bag!BagNext
<1>6. ASSUME NEW k \in Key, Find(k)
      PROVE  TableKept(b)' /\ Bag!BagNext
  BY <1>6, FindsInBag DEF Bag!BagNext
<1>7. ASSUME NEW k \in Key, DelKey(k)
      PROVE  TableKept(b)' /\ Bag!BagNext
  BY <1>7, DelKeyInBag DEF Bag!BagNext
<1>8. ASSUME NEW dropped \in SUBSET Valid(ht), Walk(dropped)
      PROVE  TableKept(b)' /\ Bag!BagNext
  BY <1>8, WalksBag DEF Bag!BagNext
<1>9. CASE UNCHANGED tableVars
  <2>1. UNCHANGED <<ht, room, told>>
    BY <1>9 DEF tableVars
  <2> QED
    BY <2>1, SameBag
<1> QED
  BY <1>1, <1>2, <1>3, <1>4, <1>5, <1>6, <1>7, <1>8, <1>9 DEF HtableNext

(* The invariant says what the searches take for granted.                  *)
LEMMA KeptIsSound ==
  ASSUME NEW b, Pointers(b), TableKept(b)
  PROVE  TableSound
<1> SUFFICES ASSUME HasTable(ht) PROVE TableSound
  BY DEF TableSound, ProbesEnd, PerfectBits
<1>1. Sound(ht, b) /\ Good(ht, b)
  BY BareIs DEF TableKept, Standing, Sound
<1>2. ProbesEnd
  BY <1>1, SoundIs DEF ProbesEnd, Sound, Tombs
<1>3. ASSUME NEW i \in Valid(ht), ht.perfect_bit # Zero
      PROVE  ht.perfect_bit \subseteq ht.table[i] <=> i = hash_bucket(ht, rehash(Raw(ht, i)))
  <2>1. PICK x \in ht.common_mask : ht.perfect_bit = {x}
    BY <1>1, <1>3 DEF Good, Masks
  <2>2. ht.table[i] \cap ht.common_mask = Extra(ht, Raw(ht, i), i)
    BY <1>1 DEF Good, get_extra_ptr_bits
  <2>3. x \notin get_hash_ptr_bits(ht, rehash(Raw(ht, i)))
    BY <2>1 DEF get_hash_ptr_bits, Complement
  <2>4. x \in Extra(ht, Raw(ht, i), i) <=> i = Home(ht, Raw(ht, i))
    BY <2>1, <2>3 DEF Extra, Zero
  <2>5. x \in ht.table[i] <=> i = Home(ht, Raw(ht, i))
    BY <2>1, <2>2, <2>4
  <2> QED
    BY <2>1, <2>5 DEF Home
<1>4. PerfectBits
  BY <1>1, <1>3 DEF PerfectBits, Good
<1> QED
  BY <1>2, <1>4 DEF TableSound

(* Whatever is added, deleted, found and walked, every probe ends and the  *)
(* perfect bits tell the truth (see htable.c: htable_add, rehash_table and *)
(* update_common), for words of any width, elements of any hash and any    *)
(* number of them, as long as the elements share their highest bit.        *)
THEOREM TableStaysSound ==
  ASSUME NEW b, Pointers(b)
  PROVE  HtableSpec => []TableSound
<1>1. htable_init => TableKept(b)
  BY TableInitial
<1>2. TableKept(b) /\ [HtableNext]_tableVars => TableKept(b)'
  BY TableStep
<1>3. TableKept(b) => TableSound
  BY KeptIsSound
<1> QED
  BY <1>1, <1>2, <1>3, PTL DEF HtableSpec

(* The table is the bag of htable.h: nothing added is lost or found twice, *)
(* a search and a walk meet each element as often as it was added, and no  *)
(* addition within the size asked for can fail (see htable.c: htable_add,  *)
(* double_table, htable_nextval and htable_init_sized).                    *)
THEOREM TableImplementsBag ==
  ASSUME NEW b, Pointers(b)
  PROVE  HtableSpec => ImplementsBag
<1>1. htable_init => TableKept(b) /\ Bag!BagInit
  BY TableInitial
<1>2. TableKept(b) /\ [HtableNext]_tableVars => TableKept(b)' /\ [Bag!BagNext]_<<BagOf, room, told>>
  BY TableStep
<1> QED
  BY <1>1, <1>2, PTL DEF HtableSpec, ImplementsBag, Bag!BagSpec
==============================================================================
