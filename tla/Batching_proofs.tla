---------------------------- MODULE Batching_proofs ----------------------------
(***************************************************************************)
(* Proofs about Batching: the partition of every finite set of diffs keeps *)
(* what Partitioned promises, and what is left of any set of answers, for  *)
(* every window, estimate, focus and cap.                                  *)
(*                                                                         *)
(* The packing is a recursive function.  That the equation which defines   *)
(* it has a solution, and what the solution is after every diff, are       *)
(* proved by induction on sets of numbers.                                 *)
(***************************************************************************)
EXTENDS Batching, Induction, FiniteSetTheorems, TLAPS

-------------------------------------------------------------------------------
(* Weights.                                                                *)

LEMMA TokensType == ASSUME NEW d \in Diffs PROVE Tokens(d) \in Nat
  BY BatchConstantsOK DEF Tokens

\* What Weights(batch) is to be.
WeightsOf(f, batch, n) ==
    /\ f \in [0..n -> Nat]
    /\ f[0] = 0
    /\ \A i \in 1..n : f[i] = f[i - 1] + Tokens(batch[i])

\* There is a function of the first n weights, for each n.
LEMMA WeightsUpTo ==
  ASSUME NEW batch \in Seq(Diffs)
  PROVE  \A n \in Nat : n <= Len(batch) => \E f : WeightsOf(f, batch, n)
  <1> DEFINE S == {n \in Nat : n <= Len(batch) => \E f : WeightsOf(f, batch, n)}
  <1>1. 0 \in S
    <2>1. WeightsOf([i \in 0..0 |-> 0], batch, 0)
      BY DEF WeightsOf
    <2> QED
      BY <2>1
  <1>2. ASSUME NEW n \in Nat, n \in S PROVE n + 1 \in S
    <2> SUFFICES ASSUME n + 1 <= Len(batch)
                 PROVE  \E f : WeightsOf(f, batch, n + 1)
      OBVIOUS
    <2>1. PICK f : WeightsOf(f, batch, n)
      BY <1>2
    <2> DEFINE g == [i \in 0..n + 1 |-> IF i <= n THEN f[i] ELSE f[n] + Tokens(batch[n + 1])]
    <2>2. f[n] \in Nat /\ Tokens(batch[n + 1]) \in Nat
      BY <2>1, TokensType DEF WeightsOf
    <2>3. g \in [0..n + 1 -> Nat] /\ g[0] = 0
      BY <2>1, <2>2 DEF WeightsOf
    <2>4. ASSUME NEW i \in 1..n + 1 PROVE g[i] = g[i - 1] + Tokens(batch[i])
      BY <2>1, <2>2 DEF WeightsOf
    <2>5. WeightsOf(g, batch, n + 1)
      BY <2>3, <2>4 DEF WeightsOf
    <2> QED
      BY <2>5
  <1> HIDE DEF S
  <1>3. Nat \subseteq S
    BY <1>1, <1>2, SetInduction
  <1> QED
    BY <1>3 DEF S

\* The equation that defines Weights(batch) has a solution.
LEMMA WeightsDef ==
  ASSUME NEW batch \in Seq(Diffs)
  PROVE  WeightsOf(Weights(batch), batch, Len(batch))
  <1> DEFINE Def(f) == [i \in 0..Len(batch) |->
                          IF i = 0 THEN 0 ELSE f[i - 1] + Tokens(batch[i])]
  <1>1. PICK f : WeightsOf(f, batch, Len(batch))
    BY WeightsUpTo
  <1>2. f = Def(f)
    BY <1>1 DEF WeightsOf
  <1>3. Weights(batch) = CHOOSE g : g = Def(g)
    BY DEF Weights
  <1>4. Weights(batch) = Def(Weights(batch))
    BY <1>2, <1>3
  <1>5. /\ Weights(batch)[0] = 0
        /\ \A i \in 1..Len(batch) :
              Weights(batch)[i] = Weights(batch)[i - 1] + Tokens(batch[i])
    BY <1>4
  <1> DEFINE S == {n \in Nat : n <= Len(batch) => Weights(batch)[n] \in Nat}
  <1>6. 0 \in S
    BY <1>5
  <1>7. ASSUME NEW n \in Nat, n \in S PROVE n + 1 \in S
    <2> SUFFICES ASSUME n + 1 <= Len(batch) PROVE Weights(batch)[n + 1] \in Nat
      OBVIOUS
    <2>1. Weights(batch)[n + 1] = Weights(batch)[n] + Tokens(batch[n + 1])
      BY <1>5
    <2>2. Weights(batch)[n] \in Nat /\ Tokens(batch[n + 1]) \in Nat
      BY <1>7, TokensType
    <2> QED
      BY <2>1, <2>2
  <1> HIDE DEF S
  <1>8. Nat \subseteq S
    BY <1>6, <1>7, SetInduction
  <1>9. Weights(batch) \in [0..Len(batch) -> Nat]
    <2>1. \A n \in 0..Len(batch) : Weights(batch)[n] \in Nat
      BY <1>8 DEF S
    <2> QED
      BY <1>4, <2>1
  <1> QED
    BY <1>5, <1>9 DEF WeightsOf

\* Adding a diff to a batch adds its tokens.
LEMMA WeightAppend ==
  ASSUME NEW batch \in Seq(Diffs), NEW d \in Diffs
  PROVE  /\ Weight(batch) \in Nat
         /\ Weight(Append(batch, d)) = Weight(batch) + Tokens(d)
  <1> DEFINE longer == Append(batch, d)
             w == Weights(batch)
             v == Weights(longer)
             S == {n \in Nat : n <= Len(batch) => v[n] = w[n]}
  <1>1. longer \in Seq(Diffs) /\ Len(longer) = Len(batch) + 1
        /\ longer[Len(batch) + 1] = d /\ \A i \in 1..Len(batch) : longer[i] = batch[i]
    OBVIOUS
  <1>2. WeightsOf(w, batch, Len(batch)) /\ WeightsOf(v, longer, Len(batch) + 1)
    BY <1>1, WeightsDef
  <1> HIDE DEF longer, w, v
  <1>3. 0 \in S
    BY <1>2 DEF WeightsOf
  <1>4. ASSUME NEW n \in Nat, n \in S PROVE n + 1 \in S
    <2> SUFFICES ASSUME n + 1 <= Len(batch) PROVE v[n + 1] = w[n + 1]
      OBVIOUS
    <2>1. v[n + 1] = v[n] + Tokens(batch[n + 1])
      BY <1>1, <1>2 DEF WeightsOf
    <2>2. w[n + 1] = w[n] + Tokens(batch[n + 1])
      BY <1>2 DEF WeightsOf
    <2> QED
      BY <1>4, <2>1, <2>2
  <1> HIDE DEF S
  <1>5. Nat \subseteq S
    BY <1>3, <1>4, SetInduction
  <1>6. v[Len(batch)] = w[Len(batch)] /\ Len(batch) \in Nat
    BY <1>5 DEF S
  <1>7. v[Len(batch) + 1] = v[Len(batch)] + Tokens(d)
    BY <1>1, <1>2, <1>6 DEF WeightsOf
  <1>8. Weight(batch) = w[Len(batch)] /\ Weight(longer) = v[Len(batch) + 1]
    BY <1>1 DEF Weight, w, v
  <1>9. w[Len(batch)] \in Nat
    BY <1>2, <1>6 DEF WeightsOf
  <1> QED
    BY <1>6, <1>7, <1>8, <1>9 DEF longer

LEMMA WeightEmpty == Weight(<<>>) = 0
  <1>1. <<>> \in Seq(Diffs) /\ Len(<<>>) = 0
    OBVIOUS
  <1> QED
    BY <1>1, WeightsDef DEF WeightsOf, Weight

LEMMA WeightSingle == ASSUME NEW d \in Diffs PROVE Weight(<<d>>) = Tokens(d)
  <1>1. <<>> \in Seq(Diffs) /\ <<d>> = Append(<<>>, d)
    OBVIOUS
  <1>2. Weight(Append(<<>>, d)) = Weight(<<>>) + Tokens(d)
    BY <1>1, WeightAppend
  <1> QED
    BY <1>1, <1>2, WeightEmpty, TokensType

-------------------------------------------------------------------------------
(* The order of the diffs.                                                 *)

\* Before is a strict total order.
LEMMA BeforeOrder ==
  /\ \A d \in Diffs : ~ Before(d, d)
  /\ \A d, e \in Diffs : d # e => Before(d, e) \/ Before(e, d)
  /\ \A c, d, e \in Diffs : Before(c, d) /\ Before(d, e) => Before(c, e)
  <1> USE BatchConstantsOK
  <1>1. \A d \in Diffs : d \in Nat /\ Lines[d] \in Nat
    OBVIOUS
  <1>2. ASSUME NEW d \in Diffs PROVE ~ Before(d, d)
    BY <1>1 DEF Before
  <1>3. ASSUME NEW d \in Diffs, NEW e \in Diffs, d # e PROVE Before(d, e) \/ Before(e, d)
    BY <1>1, <1>3 DEF Before
  <1>4. ASSUME NEW c \in Diffs, NEW d \in Diffs, NEW e \in Diffs, Before(c, d), Before(d, e)
        PROVE  Before(c, e)
    BY <1>1, <1>4 DEF Before
  <1> QED
    BY <1>2, <1>3, <1>4

\* The diffs of ds that come before d.
Ahead(ds, d) == {e \in ds : Before(e, d)}

\* The later a diff, the more are ahead of it, but never all.
LEMMA AheadGrows ==
  ASSUME NEW ds \in SUBSET Diffs
  PROVE  /\ IsFiniteSet(ds) /\ Cardinality(ds) \in Nat
         /\ \A d \in ds :
               Cardinality(Ahead(ds, d)) \in Nat /\ Cardinality(Ahead(ds, d)) < Cardinality(ds)
         /\ \A d, e \in ds : Before(d, e) =>
               Cardinality(Ahead(ds, d)) < Cardinality(Ahead(ds, e))
  <1>1. IsFiniteSet(ds) /\ Cardinality(ds) \in Nat
    BY BatchConstantsOK, FS_Subset, FS_CardinalityType
  <1>2. ASSUME NEW S \in SUBSET ds, NEW d \in S, NEW T \in SUBSET (S \ {d})
        PROVE  Cardinality(T) \in Nat /\ Cardinality(S) \in Nat /\ Cardinality(T) < Cardinality(S)
    <2>1. IsFiniteSet(S) /\ Cardinality(S) \in Nat
      BY <1>1, FS_Subset, FS_CardinalityType
    <2>2. IsFiniteSet(S \ {d}) /\ Cardinality(S \ {d}) = Cardinality(S) - 1
      BY <2>1, FS_RemoveElement
    <2>3. IsFiniteSet(T) /\ Cardinality(T) <= Cardinality(S \ {d})
      BY <2>2, FS_Subset
    <2>4. Cardinality(T) \in Nat
      BY <2>3, FS_CardinalityType
    <2> QED
      BY <2>1, <2>2, <2>3, <2>4
  <1>3. ASSUME NEW d \in ds
        PROVE  Cardinality(Ahead(ds, d)) \in Nat /\ Cardinality(Ahead(ds, d)) < Cardinality(ds)
    <2>1. Ahead(ds, d) \in SUBSET (ds \ {d})
      BY BeforeOrder DEF Ahead
    <2> QED
      BY <1>2, <2>1
  <1>4. ASSUME NEW d \in ds, NEW e \in ds, Before(d, e)
        PROVE  Cardinality(Ahead(ds, d)) < Cardinality(Ahead(ds, e))
    <2>1. d \in Ahead(ds, e) /\ Ahead(ds, e) \in SUBSET ds
      BY <1>4 DEF Ahead
    <2>2. Ahead(ds, d) \in SUBSET (Ahead(ds, e) \ {d})
      BY <1>4, BeforeOrder DEF Ahead
    <2> QED
      BY <1>2, <2>1, <2>2
  <1> QED
    BY <1>1, <1>3, <1>4

\* q has every diff of ds once, in the order.
InOrder(q, ds) ==
    /\ q \in Seq(ds) /\ Len(q) = Cardinality(ds)
    /\ \A d \in ds : \E i \in 1..Len(q) : q[i] = d
    /\ \A i, j \in 1..Len(q) : i < j => Before(q[i], q[j])

\* A set of diffs can be sorted: put each where those ahead of it leave it room.
LEMMA SortExists ==
  ASSUME NEW ds \in SUBSET Diffs
  PROVE  \E q \in SetToSeqs(ds) : \A i, j \in DOMAIN q : i < j => Before(q[i], q[j])
  <1> DEFINE n == Cardinality(ds)
             place == [d \in ds |-> Cardinality(Ahead(ds, d)) + 1]
             q == [i \in 1..n |-> CHOOSE d \in ds : place[d] = i]
  <1>1. IsFiniteSet(ds) /\ n \in Nat
    BY AheadGrows
  <1>2. place \in [ds -> 1..n]
    BY AheadGrows
  <1>3. \A d, e \in ds : Before(d, e) => place[d] < place[e]
    BY AheadGrows
  <1> HIDE DEF n, place
  <1>4. \A d, e \in ds : place[d] = place[e] => d = e
    <2> SUFFICES ASSUME NEW d \in ds, NEW e \in ds, place[d] = place[e], d # e PROVE FALSE
      OBVIOUS
    <2>1. Before(d, e) \/ Before(e, d)
      BY BeforeOrder
    <2>2. place[d] \in Int /\ place[e] \in Int
      BY <1>1, <1>2
    <2> QED
      BY <1>3, <2>1, <2>2
  <1>5. place \in Injection(ds, 1..n)
    BY <1>2, <1>4, Zenon DEF Injection, IsInjective
  <1>6. IsFiniteSet(1..n) /\ Cardinality(1..n) = n
    BY <1>1, FS_Interval
  <1>7. place \in Surjection(ds, 1..n)
    BY <1>5, <1>6, FS_Injection DEF n
  <1>8. ASSUME NEW i \in 1..n PROVE q[i] \in ds /\ place[q[i]] = i
    BY <1>7 DEF Surjection
  <1>9. q \in [1..n -> ds]
    BY <1>8
  <1>10. \A i, j \in 1..n : i # j => q[i] # q[j]
    BY <1>8
  <1> HIDE DEF q
  <1>11. q \in SetToSeqs(ds)
    BY <1>9, <1>10 DEF SetToSeqs, n
  <1>12. ASSUME NEW i \in 1..n, NEW j \in 1..n, i < j PROVE Before(q[i], q[j])
    <2>1. q[i] # q[j] /\ q[i] \in Diffs /\ q[j] \in Diffs
      BY <1>9, <1>10, <1>12, <1>1
    <2>2. ~ Before(q[j], q[i])
      BY <1>3, <1>8, <1>12, <1>1
    <2> QED
      BY <2>1, <2>2, BeforeOrder
  <1>13. DOMAIN q = 1..n
    BY <1>9
  <1> QED
    BY <1>11, <1>12, <1>13

LEMMA SortedInOrder ==
  ASSUME NEW ds \in SUBSET Diffs
  PROVE  InOrder(Sorted(ds), ds)
  <1> DEFINE n == Cardinality(ds)
             q == Sorted(ds)
  <1>1. q \in SetToSeqs(ds) /\ \A i, j \in DOMAIN q : i < j => Before(q[i], q[j])
    BY SortExists DEF Sorted
  <1>2. IsFiniteSet(ds) /\ n \in Nat
    BY AheadGrows
  <1> HIDE DEF n, q
  <1>3. q \in [1..n -> ds] /\ \A i, j \in 1..n : i # j => q[i] # q[j]
    BY <1>1 DEF SetToSeqs, n
  <1>4. q \in Injection(1..n, ds)
    BY <1>3, Zenon DEF Injection, IsInjective
  <1>5. IsFiniteSet(1..n) /\ Cardinality(1..n) = n
    BY <1>2, FS_Interval
  <1>6. q \in Surjection(1..n, ds)
    BY <1>2, <1>4, <1>5, FS_Injection DEF n
  <1>7. q \in Seq(ds) /\ Len(q) = n /\ DOMAIN q = 1..n
    BY <1>2, <1>3
  <1>8. \A d \in ds : \E i \in 1..n : q[i] = d
    BY <1>6 DEF Surjection
  <1> QED
    BY <1>1, <1>7, <1>8 DEF InOrder, n, q

-------------------------------------------------------------------------------
(* What the packing is after each diff.                                    *)

Packing == [full : Seq(Seq(Diffs)), current : Seq(Diffs), tokens : Nat]

\* The batches of a packing, the one that is being filled included.
Batches(packing) ==
    IF packing.current = <<>> THEN packing.full ELSE Append(packing.full, packing.current)

\* b has a batch m with a place k.
At(b, m, k) == m \in 1..Len(b) /\ k \in 1..Len(b[m])

\* Place k of batch m comes before place l of batch n.
Earlier(m, k, n, l) == m < n \/ (m = n /\ k < l)

\* The batches b hold the first i diffs of q, in their order.
Holds(b, q, i) ==
    /\ \A j \in 1..i : \E m, k \in Nat : At(b, m, k) /\ b[m][k] = q[j]
    /\ \A m, k \in Nat : At(b, m, k) => \E j \in 1..i : b[m][k] = q[j]
    /\ \A m, n, k, l \in Nat :
          At(b, m, k) /\ At(b, n, l) /\ Earlier(m, k, n, l) => Before(b[m][k], b[n][l])

\* c has the places of b, with what is in them, and place k0 of batch m0, after
\* all of them, with d.
OneMore(b, c, m0, k0, d) ==
    /\ m0 \in Nat /\ k0 \in Nat
    /\ At(c, m0, k0) /\ c[m0][k0] = d
    /\ \A m, k \in Nat :
          At(b, m, k) => At(c, m, k) /\ c[m][k] = b[m][k] /\ Earlier(m, k, m0, k0)
    /\ \A m, k \in Nat :
          At(c, m, k) => At(b, m, k) \/ (m = m0 /\ k = k0)

\* It holds one diff more, when that is the next one.
LEMMA HoldsOneMore ==
  ASSUME NEW ds \in SUBSET Diffs, NEW q, InOrder(q, ds),
         NEW i \in Nat, i + 1 <= Len(q), NEW b, Holds(b, q, i),
         NEW c, NEW m0, NEW k0, OneMore(b, c, m0, k0, q[i + 1])
  PROVE  Holds(c, q, i + 1)
  <1>1. \A j \in 1..i : Before(q[j], q[i + 1])
    BY DEF InOrder
  <1>2. ASSUME NEW j \in 1..(i + 1)
        PROVE  \E m, k \in Nat : At(c, m, k) /\ c[m][k] = q[j]
    <2>1. CASE j = i + 1
      BY <2>1 DEF OneMore
    <2>2. CASE j \in 1..i
      BY <2>2 DEF Holds, OneMore
    <2> QED
      BY <2>1, <2>2
  <1>3. ASSUME NEW m \in Nat, NEW k \in Nat, At(c, m, k)
        PROVE  \E j \in 1..(i + 1) : c[m][k] = q[j]
    <2>1. CASE At(b, m, k)
      <3>1. PICK j \in 1..i : b[m][k] = q[j]
        BY <2>1 DEF Holds
      <3>2. c[m][k] = q[j] /\ j \in 1..(i + 1)
        BY <2>1, <3>1 DEF OneMore
      <3> QED
        BY <3>2
    <2>2. CASE m = m0 /\ k = k0
      BY <2>2 DEF OneMore
    <2> QED
      BY <1>3, <2>1, <2>2 DEF OneMore
  <1>4. ASSUME NEW m \in Nat, NEW n \in Nat, NEW k \in Nat, NEW l \in Nat,
               At(c, m, k), At(c, n, l), Earlier(m, k, n, l)
        PROVE  Before(c[m][k], c[n][l])
    <2>1. At(b, m, k)
      <3>1. CASE m = m0 /\ k = k0 /\ At(b, n, l)
        <4>1. Earlier(n, l, m, k)
          BY <3>1 DEF OneMore
        <4> QED
          BY <1>4, <4>1 DEF Earlier
      <3>2. CASE m = m0 /\ k = k0 /\ n = m0 /\ l = k0
        BY <1>4, <3>2 DEF Earlier
      <3> QED
        BY <1>4, <3>1, <3>2 DEF OneMore
    <2>2. c[m][k] = b[m][k]
      BY <2>1 DEF OneMore
    <2>3. CASE At(b, n, l)
      <3>1. c[n][l] = b[n][l]
        BY <2>3 DEF OneMore
      <3> QED
        BY <1>4, <2>1, <2>2, <2>3, <3>1 DEF Holds
    <2>4. CASE n = m0 /\ l = k0
      <3>1. PICK j \in 1..i : b[m][k] = q[j]
        BY <2>1 DEF Holds
      <3>2. c[n][l] = q[i + 1]
        BY <2>4 DEF OneMore
      <3> QED
        BY <1>1, <2>2, <3>1, <3>2
    <2> QED
      BY <1>4, <2>3, <2>4 DEF OneMore
  <1> QED
    BY <1>2, <1>3, <1>4 DEF Holds

\* A batch of one diff, after the others.
LEMMA OneMoreBatch ==
  ASSUME NEW b \in Seq(Seq(Diffs)), NEW d \in Diffs
  PROVE  OneMore(b, Append(b, <<d>>), Len(b) + 1, 1, d)
  <1> DEFINE c == Append(b, <<d>>)
             z == Len(b) + 1
  <1>1. /\ z \in Nat /\ Len(c) = z /\ c[z] = <<d>> /\ Len(b) = z - 1
        /\ \A m \in 1..Len(b) : c[m] = b[m]
    OBVIOUS
  <1>2. Len(<<d>>) = 1 /\ <<d>>[1] = d
    OBVIOUS
  <1> HIDE DEF c, z
  <1>3. At(c, z, 1) /\ c[z][1] = d
    BY <1>1, <1>2 DEF At
  <1>4. ASSUME NEW m \in Nat, NEW k \in Nat, At(b, m, k)
        PROVE  At(c, m, k) /\ c[m][k] = b[m][k] /\ Earlier(m, k, z, 1)
    BY <1>1, <1>4 DEF At, Earlier
  <1>5. ASSUME NEW m \in Nat, NEW k \in Nat, At(c, m, k)
        PROVE  At(b, m, k) \/ (m = z /\ k = 1)
    <2>1. CASE m = z
      <3>1. k \in 1..Len(<<d>>)
        BY <1>1, <1>5, <2>1 DEF At
      <3> QED
        BY <1>2, <2>1, <3>1
    <2>2. CASE m # z
      BY <1>1, <1>5, <2>2 DEF At
    <2> QED
      BY <2>1, <2>2
  <1> QED
    BY <1>1, <1>3, <1>4, <1>5 DEF OneMore, c, z

\* Or a place more in the last one.
LEMMA OneMorePlace ==
  ASSUME NEW full \in Seq(Seq(Diffs)), NEW current \in Seq(Diffs), NEW d \in Diffs
  PROVE  OneMore(Append(full, current), Append(full, Append(current, d)),
                 Len(full) + 1, Len(current) + 1, d)
  <1> DEFINE b == Append(full, current)
             longer == Append(current, d)
             c == Append(full, longer)
             z == Len(full) + 1
             y == Len(current) + 1
  <1>1. /\ z \in Nat /\ z >= 1 /\ Len(b) = z /\ Len(c) = z /\ b[z] = current /\ c[z] = longer
        /\ \A m \in 1..z : m # z => b[m] = full[m] /\ c[m] = full[m]
    OBVIOUS
  <1>2. /\ y \in Nat /\ y >= 1 /\ Len(longer) = y /\ Len(current) = y - 1 /\ longer[y] = d
        /\ \A k \in 1..Len(current) : longer[k] = current[k]
    OBVIOUS
  <1> HIDE DEF b, c, z, y, longer
  <1>3. At(c, z, y) /\ c[z][y] = d
    BY <1>1, <1>2 DEF At
  <1>4. ASSUME NEW m \in Nat, NEW k \in Nat, At(b, m, k)
        PROVE  At(c, m, k) /\ c[m][k] = b[m][k] /\ Earlier(m, k, z, y)
    <2>1. CASE m = z
      BY <1>1, <1>2, <1>4, <2>1 DEF At, Earlier
    <2>2. CASE m # z
      BY <1>1, <1>4, <2>2, SMTT(30) DEF At, Earlier
    <2> QED
      BY <2>1, <2>2
  <1>5. ASSUME NEW m \in Nat, NEW k \in Nat, At(c, m, k)
        PROVE  At(b, m, k) \/ (m = z /\ k = y)
    <2>1. CASE m = z
      BY <1>1, <1>2, <1>5, <2>1 DEF At
    <2>2. CASE m # z
      BY <1>1, <1>5, <2>2 DEF At
    <2> QED
      BY <2>1, <2>2
  <1> QED
    BY <1>1, <1>2, <1>3, <1>4, <1>5 DEF OneMore, b, c, longer, z, y

\* The batches are as full as the budget lets them be, and none is empty.
Filled(b) ==
    /\ b \in Seq(Seq(Diffs))
    /\ \A m \in 1..Len(b) : b[m] # <<>> /\ Fits(b[m])
    /\ Greedy(b)

LEMMA FilledNewBatch ==
  ASSUME NEW b, Filled(b), NEW d \in Diffs,
         Len(b) > 0 => Weight(b[Len(b)]) + Tokens(d) > Budget
  PROVE  Filled(Append(b, <<d>>))
  <1> DEFINE c == Append(b, <<d>>)
             z == Len(b) + 1
  <1>1. b \in Seq(Seq(Diffs)) /\ <<d>> \in Seq(Diffs)
    BY DEF Filled
  <1>2. /\ c \in Seq(Seq(Diffs)) /\ Len(c) = z /\ z \in Nat /\ Len(b) = z - 1 /\ c[z] = <<d>>
        /\ \A m \in 1..z - 1 : c[m] = b[m]
    BY <1>1
  <1>3. <<d>> # <<>> /\ Len(<<d>>) = 1 /\ Head(<<d>>) = d
    OBVIOUS
  <1> HIDE DEF c, z
  <1>4. ASSUME NEW m \in 1..Len(c) PROVE c[m] # <<>> /\ Fits(c[m])
    <2>1. CASE m = z
      BY <1>2, <1>3, <2>1 DEF Fits
    <2>2. CASE m # z
      <3>1. m \in 1..Len(b) /\ c[m] = b[m]
        BY <1>2, <2>2
      <3>2. b[m] # <<>> /\ Fits(b[m])
        BY <3>1 DEF Filled
      <3> QED
        BY <3>1, <3>2
    <2> QED
      BY <2>1, <2>2
  <1>5. ASSUME NEW m \in 1..Len(c) - 1
        PROVE  Weight(c[m]) + Tokens(Head(c[m + 1])) > Budget
    <2>1. c[m] = b[m]
      BY <1>2
    <2>2. CASE m = z - 1
      BY <1>2, <1>3, <2>1, <2>2
    <2>3. CASE m # z - 1
      <3>1. m \in 1..Len(b) - 1 /\ c[m + 1] = b[m + 1]
        BY <1>2, <2>3, SMTT(30)
      <3> QED
        BY <2>1, <3>1 DEF Filled, Greedy
    <2> QED
      BY <2>2, <2>3
  <1> QED
    BY <1>2, <1>4, <1>5 DEF Filled, Greedy, c

LEMMA FilledLonger ==
  ASSUME NEW full \in Seq(Seq(Diffs)), NEW current \in Seq(Diffs), current # <<>>,
         NEW d \in Diffs, Filled(Append(full, current)),
         Weight(current) + Tokens(d) <= Budget
  PROVE  Filled(Append(full, Append(current, d)))
  <1> DEFINE b == Append(full, current)
             longer == Append(current, d)
             c == Append(full, longer)
             z == Len(full) + 1
  <1>1. /\ longer \in Seq(Diffs) /\ longer # <<>> /\ Head(longer) = Head(current)
    OBVIOUS
  <1>2. Fits(longer)
    BY WeightAppend DEF Fits
  <1> HIDE DEF longer
  <1>3. /\ z \in Nat /\ z >= 1 /\ Len(b) = z /\ Len(c) = z /\ b[z] = current /\ c[z] = longer
        /\ \A m \in 1..z : m # z => b[m] = full[m] /\ c[m] = full[m]
        /\ c \in Seq(Seq(Diffs))
    BY <1>1
  <1>4. Filled(b)
    OBVIOUS
  <1> HIDE DEF b, c, z
  <1>5. \A m \in 1..z : m # z => c[m] = b[m]
    BY <1>3
  <1>6. \A m \in 1..z : Head(c[m]) = Head(b[m])
    <2> TAKE m \in 1..z
    <2>1. CASE m = z
      BY <1>1, <1>3, <2>1
    <2>2. CASE m # z
      BY <1>5, <2>2
    <2> QED
      BY <2>1, <2>2
  <1>7. ASSUME NEW m \in 1..Len(c) PROVE c[m] # <<>> /\ Fits(c[m])
    <2>1. CASE m = z
      BY <1>1, <1>2, <1>3, <2>1
    <2>2. CASE m # z
      BY <1>3, <1>4, <1>5, <2>2 DEF Filled
    <2> QED
      BY <2>1, <2>2
  <1>8. ASSUME NEW m \in 1..Len(c) - 1
        PROVE  Weight(c[m]) + Tokens(Head(c[m + 1])) > Budget
    <2>1. m \in 1..z /\ m # z /\ m + 1 \in 1..z /\ m \in 1..Len(b) - 1
      BY <1>3
    <2>2. c[m] = b[m] /\ Head(c[m + 1]) = Head(b[m + 1])
      BY <1>5, <1>6, <2>1
    <2> QED
      BY <1>4, <2>1, <2>2 DEF Filled, Greedy
  <1> QED
    BY <1>3, <1>7, <1>8 DEF Filled, Greedy, b, c, longer

-------------------------------------------------------------------------------
(* The packing, diff by diff.                                              *)

\* What the packing is after i diffs of q.
PackInv(packing, q, i) ==
    /\ packing \in Packing
    /\ packing.tokens = Weight(packing.current)
    /\ packing.current = <<>> <=> i = 0
    /\ packing.current = <<>> => packing.full = <<>>
    /\ Holds(Batches(packing), q, i)
    /\ Filled(Batches(packing))

LEMMA UnpackedInv ==
  ASSUME NEW q
  PROVE  PackInv(Unpacked, q, 0)
  <1>1. Unpacked \in Packing
    BY DEF Unpacked, Packing
  <1>2. Unpacked.current = <<>> /\ Unpacked.full = <<>> /\ Unpacked.tokens = 0
    BY DEF Unpacked
  <1>3. Batches(Unpacked) = <<>> /\ Len(<<>>) = 0
    BY <1>2 DEF Batches
  <1>4. Holds(<<>>, q, 0)
    BY DEF Holds, At
  <1>5. Filled(<<>>)
    BY DEF Filled, Greedy
  <1> QED
    BY <1>1, <1>2, <1>3, <1>4, <1>5, WeightEmpty DEF PackInv

\* The packing stays what it is to be, whether a diff starts a batch or not.
LEMMA PackKeeps ==
  ASSUME NEW ds \in SUBSET Diffs, NEW q, InOrder(q, ds),
         NEW i \in Nat, i + 1 <= Len(q), NEW packing, PackInv(packing, q, i)
  PROVE  PackInv(Pack(packing, q[i + 1]), q, i + 1)
  <1> DEFINE d == q[i + 1]
             full == packing.full
             current == packing.current
             next == Pack(packing, d)
  <1>1. d \in Diffs /\ d = q[i + 1]
    BY DEF InOrder
  <1>2. full \in Seq(Seq(Diffs)) /\ current \in Seq(Diffs) /\ packing.tokens \in Nat
        /\ packing.tokens = Weight(current)
    BY DEF PackInv, Packing
  <1>3. Tokens(d) \in Nat
    BY <1>1, TokensType
  <1>4. Holds(Batches(packing), q, i) /\ Filled(Batches(packing))
    BY DEF PackInv
  <1>5. CASE packing.tokens + Tokens(d) > Budget /\ current # <<>>
    <2>1. next = [full |-> Append(full, current), current |-> <<d>>, tokens |-> Tokens(d)]
      BY <1>5 DEF Pack
    <2>2. Batches(packing) = Append(full, current)
      BY <1>5 DEF Batches
    <2>3. Batches(next) = Append(Append(full, current), <<d>>)
      BY <2>1 DEF Batches
    <2> DEFINE b == Append(full, current)
    <2>4. b \in Seq(Seq(Diffs)) /\ Len(b) > 0 /\ b[Len(b)] = current
      BY <1>2
    <2> HIDE DEF b
    <2>5. Holds(Append(b, <<d>>), q, i + 1)
      BY <1>1, <1>4, <2>2, <2>4, OneMoreBatch, HoldsOneMore DEF b
    <2>6. Filled(Append(b, <<d>>))
      BY <1>1, <1>2, <1>4, <1>5, <2>2, <2>4, FilledNewBatch DEF b
    <2>7. next \in Packing /\ next.current = <<d>> /\ next.tokens = Tokens(d)
      BY <1>1, <1>3, <2>1, <2>4 DEF Packing, b
    <2>8. <<d>> # <<>> /\ Weight(<<d>>) = Tokens(d)
      BY <1>1, WeightSingle
    <2> QED
      BY <2>3, <2>5, <2>6, <2>7, <2>8 DEF PackInv, b
  <1>6. CASE ~ (packing.tokens + Tokens(d) > Budget /\ current # <<>>)
    <2>1. next = [full |-> full, current |-> Append(current, d), tokens |-> packing.tokens + Tokens(d)]
      BY <1>6 DEF Pack, PackInv, Packing
    <2>2. Append(current, d) \in Seq(Diffs) /\ Append(current, d) # <<>>
      BY <1>1, <1>2
    <2>3. next \in Packing /\ next.current = Append(current, d)
          /\ next.tokens = packing.tokens + Tokens(d)
      BY <1>1, <1>2, <1>3, <2>1, <2>2 DEF Packing
    <2>4. Batches(next) = Append(full, Append(current, d))
      BY <2>1, <2>2, SMTT(30) DEF Batches
    <2>5. Weight(Append(current, d)) = packing.tokens + Tokens(d)
      BY <1>1, <1>2, WeightAppend
    <2>6. CASE current = <<>>
      <3>1. full = <<>> /\ Batches(packing) = <<>> /\ Append(current, d) = <<d>>
        BY <2>6 DEF Batches, PackInv
      <3>2. <<>> \in Seq(Seq(Diffs)) /\ Len(<<>>) = 0 /\ ~ (Len(<<>>) > 0)
        OBVIOUS
      <3>3. Holds(Append(<<>>, <<d>>), q, i + 1)
        BY <1>1, <1>4, <3>1, <3>2, OneMoreBatch, HoldsOneMore
      <3>4. Filled(Append(<<>>, <<d>>))
        BY <1>1, <1>4, <3>1, <3>2, FilledNewBatch
      <3> QED
        BY <2>2, <2>3, <2>4, <2>5, <3>1, <3>3, <3>4 DEF PackInv
    <2>7. CASE current # <<>>
      <3>1. Batches(packing) = Append(full, current)
        BY <2>7 DEF Batches
      <3>2. Weight(current) + Tokens(d) <= Budget
        BY <1>2, <1>3, <1>6, <2>7, BatchConstantsOK
      <3>3. Holds(Append(full, Append(current, d)), q, i + 1)
        BY <1>1, <1>2, <1>4, <3>1, OneMorePlace, HoldsOneMore
      <3>4. Filled(Append(full, Append(current, d)))
        BY <1>1, <1>2, <1>4, <2>7, <3>1, <3>2, FilledLonger
      <3> QED
        BY <2>2, <2>3, <2>4, <2>5, <3>3, <3>4 DEF PackInv
    <2> QED
      BY <2>6, <2>7
  <1> QED
    BY <1>5, <1>6

\* What Packings(q) is to be, for the first n diffs.
PackingsOf(f, q, n) ==
    /\ f \in [0..n -> Packing]
    /\ f[0] = Unpacked
    /\ \A i \in 1..n : f[i] = Pack(f[i - 1], q[i])

LEMMA PackType ==
  ASSUME NEW packing \in Packing, NEW d \in Diffs
  PROVE  Pack(packing, d) \in Packing
  <1>1. Tokens(d) \in Nat
    BY TokensType
  <1>2. packing.full \in Seq(Seq(Diffs)) /\ packing.current \in Seq(Diffs) /\ packing.tokens \in Nat
    BY DEF Packing
  <1>3. CASE packing.tokens + Tokens(d) > Budget /\ packing.current # <<>>
    <2>1. Pack(packing, d) = [full |-> Append(packing.full, packing.current),
                              current |-> <<d>>, tokens |-> Tokens(d)]
      BY <1>3 DEF Pack
    <2>2. Append(packing.full, packing.current) \in Seq(Seq(Diffs)) /\ <<d>> \in Seq(Diffs)
      BY <1>2
    <2> QED
      BY <1>1, <2>1, <2>2 DEF Packing
  <1>4. CASE ~ (packing.tokens + Tokens(d) > Budget /\ packing.current # <<>>)
    <2>1. Pack(packing, d) = [full |-> packing.full, current |-> Append(packing.current, d),
                              tokens |-> packing.tokens + Tokens(d)]
      BY <1>4 DEF Pack, Packing
    <2>2. Append(packing.current, d) \in Seq(Diffs)
      BY <1>2
    <2> QED
      BY <1>1, <1>2, <2>1, <2>2 DEF Packing
  <1> QED
    BY <1>3, <1>4

LEMMA PackingsUpTo ==
  ASSUME NEW q \in Seq(Diffs)
  PROVE  \A n \in Nat : n <= Len(q) => \E f : PackingsOf(f, q, n)
  <1> DEFINE S == {n \in Nat : n <= Len(q) => \E f : PackingsOf(f, q, n)}
  <1>1. 0 \in S
    <2>1. Unpacked \in Packing
      BY DEF Unpacked, Packing
    <2>2. PackingsOf([i \in 0..0 |-> Unpacked], q, 0)
      BY <2>1 DEF PackingsOf
    <2> QED
      BY <2>2
  <1>2. ASSUME NEW n \in Nat, n \in S PROVE n + 1 \in S
    <2> SUFFICES ASSUME n + 1 <= Len(q)
                 PROVE  \E f : PackingsOf(f, q, n + 1)
      OBVIOUS
    <2>1. PICK f : PackingsOf(f, q, n)
      BY <1>2
    <2> DEFINE g == [i \in 0..n + 1 |-> IF i <= n THEN f[i] ELSE Pack(f[n], q[n + 1])]
    <2>2. f[n] \in Packing /\ Pack(f[n], q[n + 1]) \in Packing
      BY <2>1, PackType DEF PackingsOf
    <2>3. g \in [0..n + 1 -> Packing] /\ g[0] = Unpacked
      BY <2>1, <2>2 DEF PackingsOf
    <2>4. ASSUME NEW i \in 1..n + 1 PROVE g[i] = Pack(g[i - 1], q[i])
      BY <2>1 DEF PackingsOf
    <2>5. PackingsOf(g, q, n + 1)
      BY <2>3, <2>4 DEF PackingsOf
    <2> QED
      BY <2>5
  <1> HIDE DEF S
  <1>3. Nat \subseteq S
    BY <1>1, <1>2, SetInduction
  <1> QED
    BY <1>3 DEF S

\* The equation that defines Packings(q) has a solution.
LEMMA PackingsDef ==
  ASSUME NEW q \in Seq(Diffs)
  PROVE  /\ Packings(q)[0] = Unpacked
         /\ \A i \in 1..Len(q) : Packings(q)[i] = Pack(Packings(q)[i - 1], q[i])
  <1> DEFINE Def(f) == [i \in 0..Len(q) |->
                          IF i = 0 THEN Unpacked ELSE Pack(f[i - 1], q[i])]
  <1>1. PICK f : PackingsOf(f, q, Len(q))
    BY PackingsUpTo
  <1>2. f = Def(f)
    BY <1>1 DEF PackingsOf
  <1>3. Packings(q) = CHOOSE g : g = Def(g)
    BY DEF Packings
  <1>4. Packings(q) = Def(Packings(q))
    BY <1>2, <1>3
  <1> QED
    BY <1>4

\* After every diff the packing is what it is to be.
LEMMA PackingsKeep ==
  ASSUME NEW ds \in SUBSET Diffs, NEW q, InOrder(q, ds)
  PROVE  PackInv(Packings(q)[Len(q)], q, Len(q))
  <1> DEFINE S == {n \in Nat : n <= Len(q) => PackInv(Packings(q)[n], q, n)}
  <1>1. q \in Seq(Diffs) /\ Len(q) \in Nat
    BY DEF InOrder
  <1>2. 0 \in S
    BY <1>1, PackingsDef, UnpackedInv
  <1>3. ASSUME NEW n \in Nat, n \in S PROVE n + 1 \in S
    <2> SUFFICES ASSUME n + 1 <= Len(q) PROVE PackInv(Packings(q)[n + 1], q, n + 1)
      OBVIOUS
    <2>1. PackInv(Packings(q)[n], q, n)
      BY <1>1, <1>3
    <2>2. Packings(q)[n + 1] = Pack(Packings(q)[n], q[n + 1])
      BY <1>1, PackingsDef
    <2> QED
      BY <2>1, <2>2, PackKeeps
  <1> HIDE DEF S
  <1>4. Nat \subseteq S
    BY <1>2, <1>3, SetInduction
  <1> QED
    BY <1>1, <1>4 DEF S

-------------------------------------------------------------------------------
(* What a partition promises.                                              *)

\* Batches that hold a sorted sequence of ds hold each of its diffs once, focus
\* diffs first.
LEMMA HoldsAll ==
  ASSUME NEW ds \in SUBSET Diffs, NEW q, InOrder(q, ds),
         NEW b, Holds(b, q, Len(q)), b \in Seq(Seq(Diffs))
  PROVE  Exact(b, ds) /\ FocusFirst(b)
  <1>1. DOMAIN b = 1..Len(b) /\ \A m \in 1..Len(b) : DOMAIN b[m] = 1..Len(b[m])
    OBVIOUS
  <1>2. \A m, k : At(b, m, k) <=> m \in DOMAIN b /\ k \in DOMAIN b[m]
    BY <1>1 DEF At
  <1>3. \A m, k : At(b, m, k) => m \in Nat /\ k \in Nat
    BY DEF At
  <1>4. ASSUME NEW m, NEW k, At(b, m, k) PROVE b[m][k] \in ds /\ b[m][k] \in Diffs
    <2>1. m \in Nat /\ k \in Nat
      BY <1>3, <1>4
    <2>2. PICK j \in 1..Len(q) : b[m][k] = q[j]
      BY <1>4, <2>1 DEF Holds
    <2>3. q[j] \in ds
      BY <2>2 DEF InOrder
    <2> QED
      BY <2>2, <2>3
  <1>5. ASSUME NEW d \in ds PROVE \E m, k : At(b, m, k) /\ b[m][k] = d
    <2>1. PICK j \in 1..Len(q) : q[j] = d
      BY DEF InOrder
    <2> QED
      BY <2>1, ZenonT(30) DEF Holds
  <1>6. ASSUME NEW m, NEW k, NEW n, NEW l, At(b, m, k), At(b, n, l), b[m][k] = b[n][l]
        PROVE  m = n /\ k = l
    <2>1. ~ Before(b[m][k], b[n][l]) /\ ~ Before(b[n][l], b[m][k])
      BY <1>4, <1>6, BeforeOrder
    <2>2. ~ Earlier(m, k, n, l) /\ ~ Earlier(n, l, m, k)
      BY <1>3, <1>6, <2>1 DEF Holds
    <2>3. m \in Nat /\ n \in Nat /\ k \in Nat /\ l \in Nat
      BY <1>3, <1>6
    <2> QED
      BY <2>2, <2>3 DEF Earlier
  <1>7. ASSUME NEW m, NEW k, NEW n, NEW l, At(b, m, k), At(b, n, l),
               Earlier(m, k, n, l), b[n][l] \in Focus
        PROVE  b[m][k] \in Focus
    <2>1. Before(b[m][k], b[n][l])
      BY <1>3, <1>7 DEF Holds
    <2> QED
      BY <1>7, <2>1 DEF Before
  <1>8. Exact(b, ds)
    BY <1>2, <1>4, <1>5, <1>6 DEF Exact
  <1>9. FocusFirst(b)
    BY <1>2, <1>7 DEF FocusFirst, Earlier
  <1> QED
    BY <1>8, <1>9

\* The partition of any set of diffs has every diff once, fits the context window,
\* is packed greedily and has focus files first (Batcher.partition).
THEOREM PartitionCorrect ==
  ASSUME NEW ds \in SUBSET Diffs
  PROVE  Partition(ds) \in Seq(Seq(Diffs)) /\ Partitioned(Partition(ds), ds)
  <1> DEFINE q == Sorted(ds)
             packing == Packings(q)[Len(q)]
  <1>1. InOrder(q, ds)
    BY SortedInOrder
  <1>2. PackInv(packing, q, Len(q))
    BY <1>1, PackingsKeep
  <1>3. Partition(ds) = Batches(packing)
    BY <1>1 DEF Partition, Batches, InOrder
  <1> HIDE DEF q, packing
  <1> DEFINE b == Batches(packing)
  <1>4. Holds(b, q, Len(q)) /\ Filled(b)
    BY <1>2 DEF PackInv
  <1>5. b \in Seq(Seq(Diffs)) /\ (\A m \in 1..Len(b) : Fits(b[m])) /\ Greedy(b)
    BY <1>4 DEF Filled
  <1> HIDE DEF b
  <1>6. Exact(b, ds) /\ FocusFirst(b)
    BY <1>1, <1>4, <1>5, HoldsAll
  <1>7. DOMAIN b = 1..Len(b)
    BY <1>5
  <1> QED
    BY <1>3, <1>5, <1>6, <1>7 DEF Partitioned, b

-------------------------------------------------------------------------------
(* Answers.                                                                *)

\* For every answer there is one of its key that nothing undercuts.
LEMMA CheapestExists ==
  ASSUME NEW found \in SUBSET Specs, NEW s \in found
  PROVE  \E t \in Deduplicate(found) : Key(t) = Key(s) /\ t.prio <= s.prio
  <1> DEFINE rivals == {t \in found : Key(t) = Key(s)}
             T == {n \in Nat : \E t \in rivals : t.prio = n}
  <1>1. \A t \in found : t.prio \in Nat
    BY BatchConstantsOK
  <1>2. s \in rivals /\ T \in SUBSET Nat /\ s.prio \in T
    BY <1>1
  <1>3. PICK n \in T : \A m \in T : n <= m
    BY <1>2, LeastNat
  <1>4. PICK t \in rivals : t.prio = n
    BY <1>3
  <1>5. ASSUME NEW u \in found, Key(u) = Key(t) PROVE t.prio <= u.prio
    <2>1. u \in rivals
      BY <1>4, <1>5
    <2>2. u.prio \in T
      BY <1>1, <2>1
    <2> QED
      BY <1>3, <1>4, <2>2
  <1>6. t \in Deduplicate(found)
    BY <1>4, <1>5 DEF Deduplicate
  <1> QED
    BY <1>2, <1>3, <1>4, <1>6

\* A sequence of a finite set has every element, and none twice.
LEMMA SetToSeqsAll ==
  ASSUME NEW S, IsFiniteSet(S), NEW q \in SetToSeqs(S)
  PROVE  /\ q \in Seq(S) /\ Len(q) \in Nat /\ DOMAIN q = 1..Len(q)
         /\ \A i, j \in 1..Len(q) : i # j => q[i] # q[j]
         /\ \A x \in S : \E i \in 1..Len(q) : q[i] = x
  <1> DEFINE n == Cardinality(S)
  <1>1. n \in Nat
    BY FS_CardinalityType
  <1> HIDE DEF n
  <1>2. q \in [1..n -> S] /\ \A i, j \in 1..n : i # j => q[i] # q[j]
    BY DEF SetToSeqs, n
  <1>3. q \in Injection(1..n, S)
    BY <1>2, Zenon DEF Injection, IsInjective
  <1>4. IsFiniteSet(1..n) /\ Cardinality(1..n) = n
    BY <1>1, FS_Interval
  <1>5. q \in Surjection(1..n, S)
    BY <1>3, <1>4, FS_Injection DEF n
  <1>6. q \in Seq(S) /\ Len(q) = n /\ DOMAIN q = 1..n
    BY <1>1, <1>2
  <1> QED
    BY <1>1, <1>2, <1>5, <1>6 DEF Surjection

\* Merging and ranking any finite set of answers leaves the most urgent, one per
\* file and type (Batcher.AnalyzeAll).
THEOREM RankedCorrect ==
  ASSUME NEW found \in SUBSET Specs, IsFiniteSet(found),
         NEW kept \in OnePerKey(Deduplicate(found)), NEW q \in Ranked(kept)
  PROVE  q \in Seq(found) /\ MostUrgent(q, found)
  <1>1. /\ kept \in SUBSET found /\ IsFiniteSet(kept)
        /\ \A s \in Deduplicate(found) : \E t \in kept : Key(t) = Key(s)
        /\ \A s, t \in kept : Key(s) = Key(t) => s = t
    <2>1. kept \in SUBSET found
      BY DEF OnePerKey, Deduplicate
    <2> QED
      BY <2>1, FS_Subset DEF OnePerKey
  <1>2. \A s \in found : s.prio \in Nat
    BY BatchConstantsOK
  <1>3. PICK p \in SetToSeqs(kept) :
           /\ \A i, j \in DOMAIN p : i < j => p[i].prio <= p[j].prio
           /\ q = SubSeq(p, 1, IF MaxTasks > 0 /\ Len(p) > MaxTasks THEN MaxTasks ELSE Len(p))
    BY DEF Ranked
  <1>4. /\ p \in Seq(kept) /\ Len(p) \in Nat /\ DOMAIN p = 1..Len(p)
        /\ \A i, j \in 1..Len(p) : i # j => p[i] # p[j]
        /\ \A x \in kept : \E i \in 1..Len(p) : p[i] = x
    BY <1>1, SetToSeqsAll
  <1>4a. p \in Seq(kept) /\ Len(p) \in Nat /\ DOMAIN p = 1..Len(p)
    BY <1>4
  <1>5. PICK n \in Nat : n <= Len(p) /\ (n < Len(p) => n = MaxTasks) /\ q = SubSeq(p, 1, n)
    <2>1. MaxTasks \in Nat
      BY BatchConstantsOK
    <2>0. Len(p) \in Nat
      BY <1>4
    <2>2. CASE MaxTasks > 0 /\ Len(p) > MaxTasks
      <3>1. q = SubSeq(p, 1, MaxTasks)
        BY <1>3, <2>2
      <3> QED
        BY <1>4a, <2>1, <2>2, <3>1
    <2>3. CASE ~ (MaxTasks > 0 /\ Len(p) > MaxTasks)
      <3>1. q = SubSeq(p, 1, Len(p))
        BY <1>3, <2>3
      <3> QED
        BY <2>0, <3>1
    <2> QED
      BY <2>2, <2>3
  <1>6. n \in Nat /\ n <= Len(p)
    BY <1>5
  <1>7. /\ q \in Seq(kept) /\ Len(q) = n /\ DOMAIN q = 1..n
        /\ \A i \in 1..n : q[i] = p[i] /\ i \in 1..Len(p)
    <2>0. \A i \in 1..n : i \in 1..Len(p)
      BY <1>4a, <1>6
    <2>1. \A i \in 1..n : i \in 1..Len(p) /\ p[i] \in kept
      BY <1>4a, <2>0
    <2>2. /\ SubSeq(p, 1, n) = [i \in 1..n |-> p[i]]
          /\ SubSeq(p, 1, n) \in Seq(kept)
          /\ Len(SubSeq(p, 1, n)) = n
      BY <1>4a, <1>6, <2>1
    <2> QED
      BY <1>5, <2>1, <2>2
  <1>8. ASSUME NEW i \in 1..n, NEW j \in 1..n, i < j
        PROVE  q[i].prio <= q[j].prio /\ Key(q[i]) # Key(q[j])
    <2>1. i \in 1..Len(p) /\ j \in 1..Len(p) /\ i # j /\ q[i] = p[i] /\ q[j] = p[j]
      BY <1>7, <1>8
    <2>2. p[i].prio <= p[j].prio
      BY <1>3, <1>4a, <1>8, <2>1
    <2>3. p[i] # p[j] /\ p[i] \in kept /\ p[j] \in kept
      BY <1>4, <2>1
    <2> QED
      BY <1>1, <2>1, <2>2, <2>3
  <1>9. ASSUME NEW s \in found
        PROVE  \/ \E i \in 1..n : Key(q[i]) = Key(s) /\ q[i].prio <= s.prio
               \/ Len(q) = MaxTasks /\ \A i \in 1..n : q[i].prio <= s.prio
    <2>1. PICK c \in Deduplicate(found) : Key(c) = Key(s) /\ c.prio <= s.prio
      BY CheapestExists
    <2>2. PICK t \in kept : Key(t) = Key(c)
      BY <1>1
    <2>3. t.prio <= c.prio /\ c \in found
      <3>1. t \in Deduplicate(found) /\ c \in found
        BY DEF OnePerKey, Deduplicate
      <3> QED
        BY <2>2, <3>1 DEF Deduplicate
    <2>4. t.prio <= s.prio /\ Key(t) = Key(s)
      BY <1>1, <1>2, <2>1, <2>2, <2>3
    <2>5. PICK i \in 1..Len(p) : p[i] = t
      BY <1>4
    <2>6. CASE i <= n
      BY <1>6, <1>7, <2>4, <2>5, <2>6
    <2>7. CASE n < i
      <3>1. n = MaxTasks
        BY <1>4a, <1>5, <2>5, <2>7
      <3>2. ASSUME NEW j \in 1..n PROVE q[j].prio <= s.prio
        <4>1. j < i /\ j \in 1..Len(p)
          BY <1>6, <1>4a, <2>5, <2>7
        <4>2. p[j].prio <= p[i].prio /\ p[j] \in found
          BY <1>1, <1>3, <1>4, <4>1
        <4> QED
          BY <1>1, <1>2, <1>7, <2>4, <2>5, <4>2
      <3> QED
        BY <1>7, <3>1, <3>2
    <2> QED
      BY <1>5, <2>6, <2>7
  <1>10. q \in Seq(found)
    BY <1>1, <1>7
  <1> QED
    BY <1>7, <1>8, <1>9, <1>10 DEF MostUrgent
===============================================================================
