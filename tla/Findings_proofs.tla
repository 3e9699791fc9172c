---------------------------- MODULE Findings_proofs ----------------------------
(***************************************************************************)
(* Proofs about the sanitization of a file, for every text, every approved *)
(* value and whatever the layers report: what BuildStagingContent makes of *)
(* its findings, that approved values are kept, to which tag the index of  *)
(* a finding leads, and that decided rows stay as they are.                *)
(***************************************************************************)
EXTENDS Findings, Induction, FiniteSetTheorems, TLAPS

-------------------------------------------------------------------------------
(* The recursive functions: the equation that defines each has a solution. *)

\* KeptOf(fs, kept) before and after each finding.
LEMMA KeptDef ==
  ASSUME NEW fs, Len(fs) \in Nat, NEW kept
  PROVE  /\ KeptOf(fs, kept)[0] = << >>
         /\ \A k \in 1 .. Len(fs) :
               KeptOf(fs, kept)[k] = IF fs[k] \in kept
                                     THEN Append(KeptOf(fs, kept)[k - 1], fs[k])
                                     ELSE KeptOf(fs, kept)[k - 1]
  <1> DEFINE Step(f, k) == IF k = 0 THEN << >>
                           ELSE IF fs[k] \in kept THEN Append(f[k - 1], fs[k]) ELSE f[k - 1]
             Solved(n) == \E f : f = [k \in 0 .. n |-> Step(f, k)]
             S == {n \in Nat : Solved(n)}
  <1>1. Solved(0)
    <2> DEFINE f == [k \in 0 .. 0 |-> << >>]
    <2>1. f = [k \in 0 .. 0 |-> Step(f, k)]
      OBVIOUS
    <2> QED
      BY <2>1
  <1>2. ASSUME NEW n \in Nat, Solved(n) PROVE Solved(n + 1)
    <2>1. PICK f : f = [k \in 0 .. n |-> Step(f, k)]
      BY <1>2
    <2> DEFINE g == [k \in 0 .. n + 1 |-> IF k <= n THEN f[k] ELSE Step(f, n + 1)]
    <2> HIDE DEF Solved, S
    <2>2. \A k \in 0 .. n : g[k] = f[k]
      OBVIOUS
    <2>3. \A k \in 0 .. n + 1 : k # 0 => k - 1 \in 0 .. n
      OBVIOUS
    <2>4. g[n + 1] = Step(f, n + 1)
      OBVIOUS
    <2>5. \A k \in 0 .. n + 1 : Step(g, k) = Step(f, k)
      BY <2>2, <2>3
    <2>6. \A k \in 0 .. n + 1 : g[k] = Step(g, k)
      <3> HIDE DEF g, Step
      <3>1. \A k \in 0 .. n : f[k] = Step(f, k)
        BY <2>1
      <3> QED
        BY <3>1, <2>2, <2>4, <2>5
    <2>7. g = [k \in 0 .. n + 1 |-> Step(g, k)]
      BY <2>6
    <2> HIDE DEF g
    <2> QED
      BY <2>7 DEF Solved
  <1>3. Solved(Len(fs))
    <2> HIDE DEF Solved
    <2>0. 0 \in S /\ \A n \in Nat : n \in S => n + 1 \in S
      BY <1>1, <1>2
    <2>1. Nat \subseteq S
      <3> HIDE DEF S
      <3> QED
        BY <2>0, SetInduction
    <2> QED
      BY <2>1
  <1>4. PICK f : f = [k \in 0 .. Len(fs) |-> Step(f, k)]
    BY <1>3
  <1>5. KeptOf(fs, kept) = CHOOSE g : g = [k \in 0 .. Len(fs) |-> Step(g, k)]
    BY DEF KeptOf
  <1>6. KeptOf(fs, kept) = [k \in 0 .. Len(fs) |-> Step(KeptOf(fs, kept), k)]
    BY <1>4, <1>5
  <1>7. \A k \in 0 .. Len(fs) : KeptOf(fs, kept)[k] = Step(KeptOf(fs, kept), k)
    <2> HIDE DEF Step
    <2> QED
      BY <1>6
  <1> QED
    BY <1>7

\* The pass of BuildStagingContent before and after each finding.
LEMMA BuiltDef ==
  ASSUME NEW content, NEW fs, Len(fs) \in Nat
  PROVE  /\ Built(content, fs)[0] = Unbuilt
         /\ \A k \in 1 .. Len(fs) :
               Built(content, fs)[k] = Put(content, Built(content, fs)[k - 1], fs[k], k)
  <1> DEFINE Step(f, k) == IF k = 0 THEN Unbuilt ELSE Put(content, f[k - 1], fs[k], k)
             Solved(n) == \E f : f = [k \in 0 .. n |-> Step(f, k)]
             S == {n \in Nat : Solved(n)}
  <1>1. Solved(0)
    <2> DEFINE f == [k \in 0 .. 0 |-> Unbuilt]
    <2>1. f = [k \in 0 .. 0 |-> Step(f, k)]
      OBVIOUS
    <2> QED
      BY <2>1
  <1>2. ASSUME NEW n \in Nat, Solved(n) PROVE Solved(n + 1)
    <2>1. PICK f : f = [k \in 0 .. n |-> Step(f, k)]
      BY <1>2
    <2> DEFINE g == [k \in 0 .. n + 1 |-> IF k <= n THEN f[k] ELSE Step(f, n + 1)]
    <2> HIDE DEF Solved, S
    <2>2. \A k \in 0 .. n : g[k] = f[k]
      OBVIOUS
    <2>3. \A k \in 0 .. n + 1 : k # 0 => k - 1 \in 0 .. n
      OBVIOUS
    <2>4. g[n + 1] = Step(f, n + 1)
      OBVIOUS
    <2>5. \A k \in 0 .. n + 1 : Step(g, k) = Step(f, k)
      BY <2>2, <2>3
    <2>6. \A k \in 0 .. n + 1 : g[k] = Step(g, k)
      <3> HIDE DEF g, Step
      <3>1. \A k \in 0 .. n : f[k] = Step(f, k)
        BY <2>1
      <3> QED
        BY <3>1, <2>2, <2>4, <2>5
    <2>7. g = [k \in 0 .. n + 1 |-> Step(g, k)]
      BY <2>6
    <2> HIDE DEF g
    <2> QED
      BY <2>7 DEF Solved
  <1>3. Solved(Len(fs))
    <2> HIDE DEF Solved
    <2>0. 0 \in S /\ \A n \in Nat : n \in S => n + 1 \in S
      BY <1>1, <1>2
    <2>1. Nat \subseteq S
      <3> HIDE DEF S
      <3> QED
        BY <2>0, SetInduction
    <2> QED
      BY <2>1
  <1>4. PICK f : f = [k \in 0 .. Len(fs) |-> Step(f, k)]
    BY <1>3
  <1>5. Built(content, fs) = CHOOSE g : g = [k \in 0 .. Len(fs) |-> Step(g, k)]
    BY DEF Built
  <1>6. Built(content, fs) = [k \in 0 .. Len(fs) |-> Step(Built(content, fs), k)]
    BY <1>4, <1>5
  <1>7. \A k \in 0 .. Len(fs) : Built(content, fs)[k] = Step(Built(content, fs), k)
    <2> HIDE DEF Step
    <2> QED
      BY <1>6
  <1> QED
    BY <1>7

\* The merged zones after the first and after each other zone.
LEMMA MergingDef ==
  ASSUME NEW zs, Len(zs) \in Nat
  PROVE  /\ 1 <= Len(zs) => Merging(zs)[1] = [done |-> {}, last |-> zs[1]]
         /\ \A k \in 2 .. Len(zs) : Merging(zs)[k] = Extend(Merging(zs)[k - 1], zs[k])
  <1> DEFINE Step(f, k) == IF k = 1 THEN [done |-> {}, last |-> zs[1]]
                           ELSE Extend(f[k - 1], zs[k])
             Solved(n) == \E f : f = [k \in 1 .. n |-> Step(f, k)]
             S == {n \in Nat : Solved(n)}
  <1>1. Solved(0)
    <2> DEFINE f == [k \in 1 .. 0 |-> << >>]
    <2>1. f = [k \in 1 .. 0 |-> Step(f, k)]
      OBVIOUS
    <2> QED
      BY <2>1
  <1>2. ASSUME NEW n \in Nat, Solved(n) PROVE Solved(n + 1)
    <2>1. PICK f : f = [k \in 1 .. n |-> Step(f, k)]
      BY <1>2
    <2> DEFINE g == [k \in 1 .. n + 1 |-> IF k <= n THEN f[k] ELSE Step(f, n + 1)]
    <2> HIDE DEF Solved, S
    <2>2. \A k \in 1 .. n : g[k] = f[k]
      OBVIOUS
    <2>3. \A k \in 1 .. n + 1 : k # 1 => k - 1 \in 1 .. n
      OBVIOUS
    <2>4. g[n + 1] = Step(f, n + 1)
      OBVIOUS
    <2>5. \A k \in 1 .. n + 1 : Step(g, k) = Step(f, k)
      BY <2>2, <2>3
    <2>6. \A k \in 1 .. n + 1 : g[k] = Step(g, k)
      <3> HIDE DEF g, Step
      <3>1. \A k \in 1 .. n : f[k] = Step(f, k)
        BY <2>1
      <3> QED
        BY <3>1, <2>2, <2>4, <2>5
    <2>7. g = [k \in 1 .. n + 1 |-> Step(g, k)]
      BY <2>6
    <2> HIDE DEF g
    <2> QED
      BY <2>7 DEF Solved
  <1>3. Solved(Len(zs))
    <2> HIDE DEF Solved
    <2>0. 0 \in S /\ \A n \in Nat : n \in S => n + 1 \in S
      BY <1>1, <1>2
    <2>1. Nat \subseteq S
      <3> HIDE DEF S
      <3> QED
        BY <2>0, SetInduction
    <2> QED
      BY <2>1
  <1>4. PICK f : f = [k \in 1 .. Len(zs) |-> Step(f, k)]
    BY <1>3
  <1>5. Merging(zs) = CHOOSE g : g = [k \in 1 .. Len(zs) |-> Step(g, k)]
    BY DEF Merging
  <1>6. Merging(zs) = [k \in 1 .. Len(zs) |-> Step(Merging(zs), k)]
    BY <1>4, <1>5
  <1>7. \A k \in 1 .. Len(zs) : Merging(zs)[k] = Step(Merging(zs), k)
    <2> HIDE DEF Step
    <2> QED
      BY <1>6
  <1>8. \A k \in 2 .. Len(zs) : k \in 1 .. Len(zs) /\ k # 1
    OBVIOUS
  <1>9. 1 <= Len(zs) => 1 \in 1 .. Len(zs)
    OBVIOUS
  <1> QED
    BY <1>7, <1>8, <1>9

-------------------------------------------------------------------------------
(* What the operators on a content return.                                 *)

\* What is kept of a sequence is in the set, and no longer than the sequence.
LEMMA KeepType ==
  ASSUME NEW T, NEW fs \in Seq(T), NEW kept
  PROVE  Keep(fs, kept) \in Seq(T \cap kept) /\ Len(Keep(fs, kept)) <= Len(fs)
  <1> DEFINE some == KeptOf(fs, kept)
             Good(k) == some[k] \in Seq(T \cap kept) /\ Len(some[k]) <= k
             S == {k \in Nat : k <= Len(fs) => Good(k)}
  <1>1. /\ some[0] = << >>
        /\ \A k \in 1 .. Len(fs) :
              some[k] = IF fs[k] \in kept THEN Append(some[k - 1], fs[k]) ELSE some[k - 1]
    BY KeptDef
  <1> HIDE DEF some
  <1>2. Good(0)
    BY <1>1
  <1>3. ASSUME NEW k \in Nat, k <= Len(fs) => Good(k), k + 1 <= Len(fs) PROVE Good(k + 1)
    <2>1. some[k + 1] = IF fs[k + 1] \in kept THEN Append(some[k], fs[k + 1]) ELSE some[k]
      BY <1>1, <1>3
    <2>2. Good(k) /\ fs[k + 1] \in T
      BY <1>3
    <2>3. CASE fs[k + 1] \in kept
      <3>1. some[k + 1] = Append(some[k], fs[k + 1]) /\ fs[k + 1] \in T \cap kept
        BY <2>1, <2>2, <2>3
      <3>2. some[k + 1] \in Seq(T \cap kept) /\ Len(some[k + 1]) = Len(some[k]) + 1
        BY <2>2, <3>1
      <3> QED
        BY <2>2, <3>2
    <2>4. CASE fs[k + 1] \notin kept
      BY <2>1, <2>2, <2>4
    <2> QED
      BY <2>3, <2>4
  <1>4. 0 \in S /\ \A k \in Nat : k \in S => k + 1 \in S
    <2> HIDE DEF Good
    <2> QED
      BY <1>2, <1>3
  <1>5. Nat \subseteq S
    <2> HIDE DEF S
    <2> QED
      BY <1>4, SetInduction
  <1> QED
    BY <1>5 DEF Keep, some

LEMMA SliceType ==
  ASSUME NEW T, NEW content \in Seq(T), Cell(0, "nul") \in T, NEW from \in Int, NEW to \in Int
  PROVE  /\ Slice(content, from, to) \in Seq(T)
         /\ Len(Slice(content, from, to)) = IF from <= to THEN to - from ELSE 0
         /\ \A i \in 1 .. to - from : from + i \in DOMAIN content =>
               Slice(content, from, to)[i] = content[from + i]
  <1> DEFINE n == IF from <= to THEN to - from ELSE 0
             slice == Slice(content, from, to)
  <1>1. n \in Nat /\ 1 .. to - from = 1 .. n
    OBVIOUS
  <1>2. slice = [i \in 1 .. n |-> IF from + i \in DOMAIN content THEN content[from + i]
                                  ELSE Cell(0, "nul")]
    BY <1>1 DEF Slice
  <1>3. ASSUME NEW i \in 1 .. n, from + i \in DOMAIN content PROVE content[from + i] \in T
    BY <1>3
  <1>4. slice \in [1 .. n -> T]
    <2> HIDE DEF n
    <2> QED
      BY <1>2, <1>3
  <1>5. slice \in Seq(T) /\ Len(slice) = n
    <2> HIDE DEF slice, n
    <2> QED
      BY <1>1, <1>4
  <1> HIDE DEF slice, n
  <1>6. \A i \in 1 .. to - from : from + i \in DOMAIN content => slice[i] = content[from + i]
    BY <1>1, <1>2
  <1> QED
    BY <1>5, <1>6 DEF slice, n

LEMMA TagType ==
  ASSUME NEW k \in Int, NEW T,
         \A symbol \in {"tag", "reason", "end"} : Cell(-k, symbol) \in T
  PROVE  Tag(k) \in Seq(T) /\ Len(Tag(k)) = TagSize
  <1>1. TagSize \in Nat
    BY StagingConstantsOK DEF StagingConstantsOK
  <1>2. \A i \in 1 .. TagSize :
           (CASE i = 1 -> "tag" [] i = TagSize -> "end" [] OTHER -> "reason")
              \in {"tag", "reason", "end"}
    OBVIOUS
  <1>3. Tag(k) \in [1 .. TagSize -> T]
    BY <1>2 DEF Tag
  <1> QED
    BY <1>1, <1>3

\* A set of cells that has all cells of the tags of n findings.
HasTags(T, n) ==
    /\ Cell(0, "nul") \in T
    /\ \A k \in 1 .. n : \A symbol \in {"tag", "reason", "end"} : Cell(-k, symbol) \in T

LEMMA PutFields ==
  ASSUME NEW content, NEW built, NEW f, NEW k
  PROVE  /\ Put(content, built, f, k).out
              = built.out \o Slice(content, built.cursor, f.from) \o Tag(k)
         /\ Put(content, built, f, k).cursor = f.to
  BY DEF Put

\* A finding adds what is between it and the cursor, and its tag.
LEMMA PutType ==
  ASSUME NEW T, NEW content \in Seq(T), NEW k \in Nat \ {0}, HasTags(T, k),
         NEW built, built.out \in Seq(T), built.cursor \in Int,
         NEW f, f.from \in Int, f.to \in Int
  PROVE  /\ Put(content, built, f, k).out \in Seq(T)
         /\ Put(content, built, f, k).cursor = f.to
  <1>1. Slice(content, built.cursor, f.from) \in Seq(T)
    BY SliceType DEF HasTags
  <1>2. Tag(k) \in Seq(T)
    BY TagType DEF HasTags
  <1>3. built.out \o Slice(content, built.cursor, f.from) \o Tag(k) \in Seq(T)
    BY <1>1, <1>2
  <1> QED
    BY <1>3 DEF Put

\* Findings as BuildStagingContent is given them.
Placed(fs) ==
    /\ Len(fs) \in Nat /\ DOMAIN fs = 1 .. Len(fs)
    /\ \A k \in 1 .. Len(fs) : fs[k].from \in Int /\ fs[k].to \in Int

LEMMA BuiltType ==
  ASSUME NEW T, NEW content \in Seq(T), NEW fs, Placed(fs), HasTags(T, Len(fs))
  PROVE  \A k \in 0 .. Len(fs) :
            /\ Built(content, fs)[k].out \in Seq(T)
            /\ Built(content, fs)[k].cursor = IF k = 0 THEN 0 ELSE fs[k].to
            /\ Built(content, fs)[k].cursor \in Int
  <1> DEFINE built == Built(content, fs)
             Good(k) == /\ built[k].out \in Seq(T)
                        /\ built[k].cursor = IF k = 0 THEN 0 ELSE fs[k].to
                        /\ built[k].cursor \in Int
             S == {k \in Nat : k <= Len(fs) => Good(k)}
  <1>0. Len(fs) \in Nat
    BY DEF Placed
  <1>1. /\ built[0] = Unbuilt
        /\ \A k \in 1 .. Len(fs) : built[k] = Put(content, built[k - 1], fs[k], k)
    BY <1>0, BuiltDef
  <1> HIDE DEF built
  <1>2. Good(0)
    BY <1>1 DEF Unbuilt
  <1>3. ASSUME NEW k \in Nat, k <= Len(fs) => Good(k), k + 1 <= Len(fs) PROVE Good(k + 1)
    <2>1. built[k + 1] = Put(content, built[k], fs[k + 1], k + 1)
      BY <1>0, <1>1, <1>3
    <2>2. fs[k + 1].from \in Int /\ fs[k + 1].to \in Int
      BY <1>0, <1>3 DEF Placed
    <2>3. HasTags(T, k + 1)
      <3>1. \A i \in 1 .. k + 1 : i \in 1 .. Len(fs)
        BY <1>0, <1>3
      <3> QED
        BY <3>1 DEF HasTags
    <2>4. built[k].out \in Seq(T) /\ built[k].cursor \in Int
      BY <1>0, <1>3
    <2>5. k + 1 \in Nat \ {0}
      OBVIOUS
    <2>6. built[k + 1].out \in Seq(T) /\ built[k + 1].cursor = fs[k + 1].to
      <3> HIDE DEF Good, S
      <3>1. /\ Put(content, built[k], fs[k + 1], k + 1).out \in Seq(T)
            /\ Put(content, built[k], fs[k + 1], k + 1).cursor = fs[k + 1].to
        BY <2>2, <2>3, <2>4, <2>5, PutType
      <3> QED
        BY <2>1, <3>1
    <2> QED
      BY <2>2, <2>5, <2>6
  <1>4. 0 \in S /\ \A k \in Nat : k \in S => k + 1 \in S
    <2> HIDE DEF Good
    <2> QED
      BY <1>0, <1>2, <1>3
  <1>5. Nat \subseteq S
    <2> HIDE DEF S
    <2> QED
      BY <1>4, SetInduction
  <1> QED
    BY <1>0, <1>5 DEF built

\* The content that is built is a sequence of such cells, too.
LEMMA BuildType ==
  ASSUME NEW T, NEW content \in Seq(T), NEW fs, Placed(fs), HasTags(T, Len(fs))
  PROVE  BuildStagingContent(content, fs) \in Seq(T)
  <1> DEFINE built == Built(content, fs)[Len(fs)]
  <1>1. built.out \in Seq(T) /\ built.cursor \in Int
    BY BuiltType DEF Placed
  <1> HIDE DEF built
  <1>2. Slice(content, built.cursor, Len(content)) \in Seq(T)
    BY <1>1, SliceType DEF HasTags
  <1>3. built.out \o Slice(content, built.cursor, Len(content)) \in Seq(T)
    BY <1>1, <1>2
  <1> QED
    BY <1>3 DEF BuildStagingContent, built

LEMMA TwoParts ==
  ASSUME NEW T, NEW a \in Seq(T), NEW b \in Seq(T)
  PROVE  /\ a \o b \in Seq(T)
         /\ Len(a \o b) = Len(a) + Len(b)
         /\ Len(a) \in Nat /\ Len(b) \in Nat
         /\ \A j \in 1 .. Len(a) : (a \o b)[j] = a[j]
         /\ \A j \in 1 .. Len(b) : (a \o b)[Len(a) + j] = b[j]
  OBVIOUS

LEMMA ThreeParts ==
  ASSUME NEW T, NEW a \in Seq(T), NEW b \in Seq(T), NEW c \in Seq(T)
  PROVE  /\ a \o b \o c \in Seq(T)
         /\ Len(a \o b \o c) = Len(a) + Len(b) + Len(c)
         /\ \A j \in 1 .. Len(a) : (a \o b \o c)[j] = a[j]
         /\ \A j \in 1 .. Len(b) : (a \o b \o c)[Len(a) + j] = b[j]
         /\ \A j \in 1 .. Len(c) : (a \o b \o c)[Len(a) + Len(b) + j] = c[j]
  <1> DEFINE ab == a \o b
  <1>1. /\ ab \in Seq(T) /\ Len(ab) = Len(a) + Len(b) /\ Len(a) \in Nat /\ Len(b) \in Nat
        /\ \A j \in 1 .. Len(a) : ab[j] = a[j]
        /\ \A j \in 1 .. Len(b) : ab[Len(a) + j] = b[j]
    BY TwoParts
  <1> HIDE DEF ab
  <1>2. /\ ab \o c \in Seq(T) /\ Len(ab \o c) = Len(ab) + Len(c) /\ Len(c) \in Nat
        /\ \A j \in 1 .. Len(ab) : (ab \o c)[j] = ab[j]
        /\ \A j \in 1 .. Len(c) : (ab \o c)[Len(ab) + j] = c[j]
    <2>1. ab \in Seq(T)
      BY <1>1
    <2> QED
      BY <2>1, TwoParts
  <1>3. \A j \in 1 .. Len(a) : (ab \o c)[j] = a[j]
    <2>1. \A j \in 1 .. Len(a) : j \in 1 .. Len(ab)
      BY <1>1
    <2> QED
      BY <1>1, <1>2, <2>1
  <1>4. \A j \in 1 .. Len(b) : (ab \o c)[Len(a) + j] = b[j]
    <2>1. \A j \in 1 .. Len(b) : Len(a) + j \in 1 .. Len(ab)
      BY <1>1
    <2> QED
      BY <1>1, <1>2, <2>1
  <1> QED
    BY <1>1, <1>2, <1>3, <1>4 DEF ab

In(cell, q) == \E j \in 1 .. Len(q) : q[j] = cell

LEMMA InParts ==
  ASSUME NEW T, NEW a \in Seq(T), NEW b \in Seq(T), NEW c \in Seq(T), NEW cell,
         In(cell, a) \/ In(cell, b)
  PROVE  In(cell, a \o b \o c) /\ In(cell, a \o b)
  <1>1. Len(a) \in Nat /\ Len(b) \in Nat /\ Len(c) \in Nat
    OBVIOUS
  <1>2. CASE In(cell, a)
    <2>1. PICK j \in 1 .. Len(a) : a[j] = cell
      BY <1>2 DEF In
    <2>2. j \in 1 .. Len(a \o b \o c) /\ j \in 1 .. Len(a \o b)
      BY <1>1, TwoParts, ThreeParts
    <2>3. (a \o b \o c)[j] = cell /\ (a \o b)[j] = cell
      BY <2>1, TwoParts, ThreeParts
    <2> QED
      BY <2>2, <2>3 DEF In
  <1>3. CASE In(cell, b)
    <2>1. PICK j \in 1 .. Len(b) : b[j] = cell
      BY <1>3 DEF In
    <2>2. Len(a) + j \in 1 .. Len(a \o b \o c) /\ Len(a) + j \in 1 .. Len(a \o b)
      BY <1>1, TwoParts, ThreeParts
    <2>3. (a \o b \o c)[Len(a) + j] = cell /\ (a \o b)[Len(a) + j] = cell
      BY <2>1, TwoParts, ThreeParts
    <2> QED
      BY <2>2, <2>3 DEF In
  <1> QED
    BY <1>2, <1>3

\* A slice that starts before a cell and ends behind it has it.
LEMMA InSlice ==
  ASSUME NEW T, NEW content \in Seq(T), Cell(0, "nul") \in T, NEW i \in 1 .. Len(content),
         NEW from \in Int, NEW to \in Int, from < i, i <= to
  PROVE  In(content[i], Slice(content, from, to))
  <1>1. i \in Int /\ i \in DOMAIN content
    OBVIOUS
  <1>2. i - from \in 1 .. to - from /\ from + (i - from) = i /\ from <= to
    BY <1>1
  <1>3. /\ Len(Slice(content, from, to)) = to - from
        /\ Slice(content, from, to)[i - from] = content[from + (i - from)]
    BY <1>1, <1>2, SliceType, SMTT(30)
  <1> QED
    BY <1>2, <1>3 DEF In

\* What lies in no finding is in the content that is built, wherever the findings
\* are and in whichever order: each is copied before the first finding that starts
\* after it, or at the end.
LEMMA UncoveredKept ==
  ASSUME NEW T, NEW content \in Seq(T), NEW fs, Placed(fs), HasTags(T, Len(fs)),
         NEW i \in 1 .. Len(content),
         \A k \in 1 .. Len(fs) : ~(fs[k].from < i /\ i <= fs[k].to)
  PROVE  In(content[i], BuildStagingContent(content, fs))
  <1> DEFINE built == Built(content, fs)
             Good(k) == In(content[i], built[k].out) \/ built[k].cursor < i
             S == {k \in Nat : k <= Len(fs) => Good(k)}
  <1>0. Len(fs) \in Nat /\ Len(content) \in Nat /\ i \in Int /\ Cell(0, "nul") \in T
    BY DEF Placed, HasTags
  <1>1. /\ built[0] = Unbuilt
        /\ \A k \in 1 .. Len(fs) : built[k] = Put(content, built[k - 1], fs[k], k)
        /\ \A k \in 0 .. Len(fs) : built[k].out \in Seq(T) /\ built[k].cursor \in Int
    BY <1>0, BuiltDef, BuiltType
  <1> HIDE DEF built
  <1>2. Good(0)
    BY <1>0, <1>1 DEF Unbuilt
  <1>3. ASSUME NEW k \in Nat, Good(k), k + 1 <= Len(fs) PROVE Good(k + 1)
    <2> DEFINE slice == Slice(content, built[k].cursor, fs[k + 1].from)
    <2>1. k + 1 \in 1 .. Len(fs) /\ k \in 0 .. Len(fs) /\ k + 1 \in Int
      BY <1>0, <1>3
    <2>2. /\ fs[k + 1].from \in Int /\ fs[k + 1].to \in Int
          /\ ~(fs[k + 1].from < i /\ i <= fs[k + 1].to)
      BY <2>1 DEF Placed
    <2>3. built[k].out \in Seq(T) /\ built[k].cursor \in Int
      BY <1>1, <2>1
    <2>4. built[k + 1] = Put(content, built[k], fs[k + 1], k + 1)
      BY <1>1, <2>1
    <2>5. /\ built[k + 1].out = built[k].out \o slice \o Tag(k + 1)
          /\ built[k + 1].cursor = fs[k + 1].to
      <3> HIDE DEF Good, S
      <3>1. /\ Put(content, built[k], fs[k + 1], k + 1).out = built[k].out \o slice \o Tag(k + 1)
            /\ Put(content, built[k], fs[k + 1], k + 1).cursor = fs[k + 1].to
        BY DEF Put
      <3> QED
        BY <2>4, <3>1
    <2>6. slice \in Seq(T)
      BY <1>0, <2>2, <2>3, SliceType
    <2>7. Tag(k + 1) \in Seq(T)
      BY <2>1, TagType DEF HasTags
    <2>8. CASE In(content[i], built[k].out) \/ In(content[i], slice)
      <3> HIDE DEF slice
      <3> QED
        BY <2>3, <2>5, <2>6, <2>7, <2>8, InParts
    <2>9. CASE built[k].cursor < i /\ ~In(content[i], slice)
      <3>1. ~(i <= fs[k + 1].from)
        BY <1>0, <2>2, <2>3, <2>9, InSlice
      <3>2. fs[k + 1].to < i
        BY <1>0, <2>2, <3>1
      <3> QED
        BY <2>5, <3>2
    <2> QED
      BY <1>3, <2>8, <2>9
  <1>4. 0 \in S /\ \A k \in Nat : k \in S => k + 1 \in S
    <2> HIDE DEF Good
    <2> QED
      BY <1>0, <1>2, <1>3
  <1>5. Nat \subseteq S
    <2> HIDE DEF S
    <2> QED
      BY <1>4, SetInduction
  <1> DEFINE last == built[Len(fs)]
             rest == Slice(content, last.cursor, Len(content))
  <1>6. last.out \in Seq(T) /\ last.cursor \in Int
    BY <1>0, <1>1
  <1>7. In(content[i], last.out) \/ last.cursor < i
    BY <1>0, <1>5
  <1> HIDE DEF last
  <1>8. rest \in Seq(T)
    BY <1>0, <1>6, SliceType
  <1>9. In(content[i], last.out) \/ In(content[i], rest)
    BY <1>0, <1>6, <1>7, InSlice
  <1> HIDE DEF rest
  <1>10. In(content[i], last.out \o rest)
    BY <1>6, <1>8, <1>9, InParts
  <1> QED
    BY <1>10 DEF BuildStagingContent, last, rest, built

-------------------------------------------------------------------------------
(* Valid findings.  They cut the file into gaps, of which each is copied   *)
(* between two tags.                                                       *)

\* The gap after k findings goes from Cursor(k) to Until(k).
Cursor(k) == IF k = 0 THEN 0 ELSE found[k].to
Until(k) == IF k = Len(found) THEN Len(Text) ELSE found[k + 1].from

LEMMA TextLength == Len(Text) \in Nat /\ DOMAIN Text = 1 .. Len(Text)
  BY StagingConstantsOK DEF StagingConstantsOK

LEMMA UntouchedFinite ==
  ASSUME NEW n \in Nat
  PROVE  IsFiniteSet(Untouched(n)) /\ Cardinality(Untouched(n)) \in Nat
  <1>1. IsFiniteSet(1 .. n) /\ Untouched(n) \in SUBSET (1 .. n)
    BY FS_Interval DEF Untouched
  <1> QED
    BY <1>1, FS_Subset, FS_CardinalityType

\* Cells in no finding count one by one; the cells of a finding do not count.
LEMMA CountOn ==
  ASSUME NEW c \in Nat, NEW n \in Nat, c <= n
  PROVE  /\ (\A i \in c + 1 .. n : ~Found(i)) =>
               Cardinality(Untouched(n)) = Cardinality(Untouched(c)) + (n - c)
         /\ (\A i \in c + 1 .. n : Found(i)) =>
               Cardinality(Untouched(n)) = Cardinality(Untouched(c))
  <1>1. \A i : i \in 1 .. n <=> i \in 1 .. c \/ i \in c + 1 .. n
    OBVIOUS
  <1>2. ASSUME \A i \in c + 1 .. n : ~Found(i)
        PROVE  Cardinality(Untouched(n)) = Cardinality(Untouched(c)) + (n - c)
    <2>1. Untouched(n) = Untouched(c) \cup (c + 1 .. n)
      BY <1>1, <1>2 DEF Untouched
    <2>2. Untouched(c) \cap (c + 1 .. n) = {}
      BY DEF Untouched
    <2>3. IsFiniteSet(c + 1 .. n) /\ Cardinality(c + 1 .. n) = n - c
      <3>1. c + 1 \in Int /\ n \in Int
        OBVIOUS
      <3>2. /\ IsFiniteSet(c + 1 .. n)
            /\ Cardinality(c + 1 .. n) = IF c + 1 > n THEN 0 ELSE n - (c + 1) + 1
        BY <3>1, FS_Interval
      <3> QED
        BY <3>2
    <2>4. IsFiniteSet(Untouched(c)) /\ Cardinality(Untouched(c)) \in Nat
      BY UntouchedFinite
    <2>5. Cardinality(Untouched(c) \cup (c + 1 .. n))
             = Cardinality(Untouched(c)) + Cardinality(c + 1 .. n)
                - Cardinality(Untouched(c) \cap (c + 1 .. n))
      BY <2>3, <2>4, FS_Union
    <2>6. Cardinality(Untouched(c) \cap (c + 1 .. n)) = 0
      BY <2>2, FS_EmptySet
    <2> QED
      BY <2>1, <2>3, <2>4, <2>5, <2>6
  <1>3. ASSUME \A i \in c + 1 .. n : Found(i) PROVE Untouched(n) = Untouched(c)
    BY <1>1, <1>3 DEF Untouched
  <1> QED
    BY <1>2, <1>3

LEMMA RangeTypes ==
  ASSUME NEW fs \in Seq(Ranges)
  PROVE  /\ Len(fs) \in Nat /\ DOMAIN fs = 1 .. Len(fs)
         /\ \A j \in 1 .. Len(fs) : fs[j] \in Ranges /\ fs[j].from \in Nat /\ fs[j].to \in Int
         /\ Placed(fs)
  <1>1. Len(fs) \in Nat /\ DOMAIN fs = 1 .. Len(fs) /\ \A j \in 1 .. Len(fs) : fs[j] \in Ranges
    OBVIOUS
  <1>2. \A f \in Ranges : f.from \in Nat /\ f.to \in Int
    BY DEF Ranges
  <1> QED
    BY <1>1, <1>2 DEF Placed

LEMMA Gaps ==
  ASSUME found \in Seq(Ranges), ValidFindings, NEW k \in 0 .. Len(found)
  PROVE  /\ Cursor(k) \in Nat /\ Until(k) \in Nat
         /\ Cursor(k) <= Until(k) /\ Until(k) <= Len(Text)
         /\ \A i \in Cursor(k) + 1 .. Until(k) : ~Found(i) /\ TagsBefore(i) = k
         /\ k < Len(found) =>
               /\ Until(k) <= Cursor(k + 1)
               /\ \A i \in Until(k) + 1 .. Cursor(k + 1) : Found(i)
  <1>0. Len(found) \in Nat /\ k \in Nat /\ k <= Len(found)
    BY RangeTypes
  <1>1. /\ DOMAIN found = 1 .. Len(found)
        /\ \A j \in 1 .. Len(found) : found[j].from \in Nat /\ found[j].to \in Int
    BY RangeTypes
  <1>2. /\ \A j \in 1 .. Len(found) : found[j].from <= found[j].to /\ found[j].to <= Len(Text)
        /\ \A i, j \in 1 .. Len(found) : i < j => found[i].to <= found[j].from
    BY <1>1 DEF ValidFindings
  <1>3. Len(Text) \in Nat
    BY TextLength
  <1>4. /\ Cursor(k) \in Nat /\ Until(k) \in Nat
        /\ Cursor(k) <= Until(k) /\ Until(k) <= Len(Text)
    <2>1. k # 0 => k \in 1 .. Len(found)
      BY <1>0
    <2>2. k # Len(found) => k + 1 \in 1 .. Len(found)
      BY <1>0
    <2>3. Cursor(k) \in Nat /\ Cursor(k) <= Len(Text)
      <3>1. CASE k = 0
        BY <1>3, <3>1 DEF Cursor
      <3>2. CASE k # 0
        <4>1. /\ found[k].from \in Nat /\ found[k].to \in Int
              /\ found[k].from <= found[k].to /\ found[k].to <= Len(Text)
          BY <1>1, <1>2, <2>1, <3>2
        <4> QED
          BY <3>2, <4>1 DEF Cursor
      <3> QED
        BY <3>1, <3>2
    <2>4. Until(k) \in Nat /\ Until(k) <= Len(Text)
      <3>1. CASE k = Len(found)
        BY <1>3, <3>1 DEF Until
      <3>2. CASE k # Len(found)
        <4>1. /\ found[k + 1].from \in Nat /\ found[k + 1].to \in Int
              /\ found[k + 1].from <= found[k + 1].to /\ found[k + 1].to <= Len(Text)
          BY <1>1, <1>2, <2>2, <3>2
        <4> QED
          BY <1>3, <3>2, <4>1 DEF Until
      <3> QED
        BY <3>1, <3>2
    <2>5. Cursor(k) <= Until(k)
      <3>1. CASE k = Len(found)
        BY <2>3, <3>1 DEF Until
      <3>2. CASE k # Len(found) /\ k = 0
        BY <2>4, <3>2 DEF Cursor
      <3>3. CASE k # Len(found) /\ k # 0
        <4>1. found[k].to <= found[k + 1].from
          BY <1>0, <1>2, <2>1, <2>2, <3>3
        <4> QED
          BY <3>3, <4>1 DEF Cursor, Until
      <3> QED
        BY <3>1, <3>2, <3>3
    <2> QED
      BY <2>3, <2>4, <2>5
  <1>5. \A j \in 1 .. k : found[j].from <= Cursor(k) /\ found[j].to <= Cursor(k)
    <2>1. TAKE j \in 1 .. k
    <2>2. /\ j \in 1 .. Len(found) /\ k \in 1 .. Len(found) /\ Cursor(k) = found[k].to
          /\ j = k \/ j < k
      BY <1>0 DEF Cursor
    <2> QED
      BY <1>1, <1>2, <2>2, SMTT(30)
  <1>6. \A j \in k + 1 .. Len(found) : Until(k) <= found[j].from
    <2>1. TAKE j \in k + 1 .. Len(found)
    <2>2. /\ j \in 1 .. Len(found) /\ k + 1 \in 1 .. Len(found)
          /\ Until(k) = found[k + 1].from
          /\ j = k + 1 \/ k + 1 < j
      BY <1>0 DEF Until
    <2> QED
      BY <1>1, <1>2, <2>2
  <1>7. ASSUME NEW i \in Cursor(k) + 1 .. Until(k) PROVE ~Found(i) /\ TagsBefore(i) = k
    <2>1. \A j \in 1 .. Len(found) : j \in 1 .. k \/ j \in k + 1 .. Len(found)
      BY <1>0
    <2>2. i \in Int /\ Cursor(k) < i /\ i <= Until(k)
      BY <1>4, <1>7
    <2>3. \A j \in 1 .. k : found[j].from < i /\ ~(i <= found[j].to)
      BY <1>1, <1>4, <1>5, <2>2
    <2>4. \A j \in k + 1 .. Len(found) : ~(found[j].from < i)
      BY <1>1, <1>4, <1>6, <2>2
    <2>5. ~Found(i)
      BY <1>1, <2>1, <2>3, <2>4 DEF Found
    <2>6. {j \in DOMAIN found : found[j].from < i} = 1 .. k
      BY <1>1, <2>1, <2>3, <2>4
    <2>7. Cardinality(1 .. k) = k
      BY FS_Interval
    <2> QED
      BY <2>5, <2>6, <2>7 DEF TagsBefore
  <1>8. ASSUME k < Len(found)
        PROVE  /\ Until(k) <= Cursor(k + 1)
               /\ \A i \in Until(k) + 1 .. Cursor(k + 1) : Found(i)
    <2>0. k + 1 \in 1 .. Len(found) /\ k # Len(found) /\ k + 1 # 0
      BY <1>0, <1>8
    <2>1. Until(k) = found[k + 1].from /\ Cursor(k + 1) = found[k + 1].to
      BY <2>0 DEF Until, Cursor
    <2>2. \A i \in found[k + 1].from + 1 .. found[k + 1].to :
             found[k + 1].from < i /\ i <= found[k + 1].to
      <3>1. found[k + 1].from \in Nat /\ found[k + 1].to \in Int
        BY <1>1, <2>0
      <3> QED
        BY <3>1
    <2> QED
      BY <1>1, <1>2, <2>0, <2>1, <2>2 DEF Found
  <1> QED
    BY <1>4, <1>7, <1>8

LEMMA OriginalType ==
  ASSUME NEW T, \A i \in DOMAIN Text : Cell(i, Text[i]) \in T
  PROVE  /\ Original \in Seq(T) /\ Len(Original) = Len(Text)
         /\ DOMAIN Original = DOMAIN Text
  <1>1. Len(Text) \in Nat /\ DOMAIN Text = 1 .. Len(Text)
    BY TextLength
  <1>2. Original \in [1 .. Len(Text) -> T]
    BY <1>1 DEF Original
  <1> QED
    BY <1>1, <1>2

\* Where the next tag is: after the cells of the gap.
LEMMA NextPlace ==
  ASSUME found \in Seq(Ranges), ValidFindings, NEW k \in 0 .. Len(found)
  PROVE  /\ Place(Cursor(k), k) \in Nat
         /\ \A n \in Cursor(k) .. Until(k) : Place(n, k) = Place(Cursor(k), k) + (n - Cursor(k))
         /\ k < Len(found) => Place(Cursor(k + 1), k + 1) = Place(Until(k), k) + TagSize
  <1>1. TagSize \in Nat /\ k \in Nat
    BY RangeTypes, StagingConstantsOK DEF StagingConstantsOK
  <1>2. Cursor(k) \in Nat /\ Until(k) \in Nat /\ Cursor(k) <= Until(k)
    BY Gaps
  <1>3. Cardinality(Untouched(Cursor(k))) \in Nat /\ Cardinality(Untouched(Until(k))) \in Nat
    BY <1>2, UntouchedFinite
  <1>4. TagSize * k \in Nat /\ TagSize * (k + 1) = TagSize * k + TagSize
    BY <1>1
  <1>5. ASSUME NEW n \in Cursor(k) .. Until(k)
        PROVE  Place(n, k) = Place(Cursor(k), k) + (n - Cursor(k))
    <2>1. n \in Nat /\ Cursor(k) <= n /\ n <= Until(k)
      BY <1>2
    <2>2. \A i \in Cursor(k) + 1 .. n : ~Found(i)
      <3>1. \A i \in Cursor(k) + 1 .. n : i \in Cursor(k) + 1 .. Until(k)
        BY <1>2, <2>1
      <3> QED
        BY <3>1, Gaps
    <2>3. Cardinality(Untouched(n)) = Cardinality(Untouched(Cursor(k))) + (n - Cursor(k))
      BY <1>2, <2>1, <2>2, CountOn
    <2> HIDE DEF Untouched
    <2> QED
      BY <1>2, <1>3, <1>4, <2>1, <2>3 DEF Place
  <1>6. ASSUME k < Len(found)
        PROVE  Place(Cursor(k + 1), k + 1) = Place(Until(k), k) + TagSize
    <2>1. k + 1 \in 0 .. Len(found)
      BY <1>1, <1>6, RangeTypes
    <2>2. Cursor(k + 1) \in Nat
      BY <2>1, Gaps
    <2>3. Until(k) <= Cursor(k + 1) /\ \A i \in Until(k) + 1 .. Cursor(k + 1) : Found(i)
      BY <1>6, Gaps
    <2>4. Cardinality(Untouched(Cursor(k + 1))) = Cardinality(Untouched(Until(k)))
      BY <1>2, <2>2, <2>3, CountOn
    <2> QED
      BY <1>1, <1>3, <1>4, <2>4 DEF Place
  <1>7. Place(Cursor(k), k) \in Nat
    BY <1>3, <1>4 DEF Place
  <1> QED
    BY <1>5, <1>6, <1>7

\* The pass over the first k findings, when they are valid: every cell in no finding
\* before the cursor, and every tag so far, is where it should be.
Exact(out, k) ==
    /\ Len(out) = Place(Cursor(k), k)
    /\ \A i \in Untouched(Cursor(k)) :
          Place(i, TagsBefore(i)) \in 1 .. Len(out) /\ out[Place(i, TagsBefore(i))] = Original[i]
    /\ \A j \in 1 .. k : \A i \in 1 .. TagSize :
          /\ Place(found[j].from, j - 1) + i \in 1 .. Len(out)
          /\ out[Place(found[j].from, j - 1) + i] = Tag(j)[i]

\* The cells after k findings and before the next one.
Gap(k) == Slice(Original, Cursor(k), Until(k))

\* A gap that is copied behind an exact content: its cells are at their places.
LEMMA GapPlaced ==
  ASSUME NEW T, Original \in Seq(T), Cell(0, "nul") \in T,
         found \in Seq(Ranges), ValidFindings, NEW k \in 0 .. Len(found),
         NEW out \in Seq(T), Exact(out, k)
  PROVE  /\ Gap(k) \in Seq(T) /\ Len(out) + Len(Gap(k)) = Place(Until(k), k)
         /\ \A i \in Untouched(Until(k)) :
               LET p == Place(i, TagsBefore(i))
               IN  \/ p \in 1 .. Len(out) /\ out[p] = Original[i]
                   \/ /\ p - Len(out) \in 1 .. Len(Gap(k))
                      /\ Gap(k)[p - Len(out)] = Original[i]
  <1>1. /\ Cursor(k) \in Nat /\ Until(k) \in Nat
        /\ Cursor(k) <= Until(k) /\ Until(k) <= Len(Text)
        /\ \A i \in Cursor(k) + 1 .. Until(k) : ~Found(i) /\ TagsBefore(i) = k
    BY Gaps
  <1>2. /\ Place(Cursor(k), k) \in Nat
        /\ \A n \in Cursor(k) .. Until(k) : Place(n, k) = Place(Cursor(k), k) + (n - Cursor(k))
    BY NextPlace
  <1>3. /\ Gap(k) \in Seq(T) /\ Len(Gap(k)) = Until(k) - Cursor(k)
        /\ \A i \in 1 .. Until(k) - Cursor(k) : Cursor(k) + i \in DOMAIN Original =>
              Gap(k)[i] = Original[Cursor(k) + i]
    <2>1. Cursor(k) \in Int /\ Until(k) \in Int
      BY <1>1
    <2> HIDE DEF Cursor, Until
    <2> QED
      BY <1>1, <2>1, SliceType DEF Gap
  <1>4. Len(out) = Place(Cursor(k), k)
    BY DEF Exact
  <1>5. Len(out) + Len(Gap(k)) = Place(Until(k), k)
    <2>1. Until(k) \in Cursor(k) .. Until(k)
      BY <1>1
    <2> QED
      BY <1>1, <1>2, <1>3, <1>4, <2>1
  <1>6. DOMAIN Original = 1 .. Len(Text) /\ Len(Text) \in Nat
    BY TextLength DEF Original
  <1>7. ASSUME NEW i \in Untouched(Until(k)), i \notin Untouched(Cursor(k))
        PROVE  /\ Place(i, TagsBefore(i)) - Len(out) \in 1 .. Len(Gap(k))
               /\ Gap(k)[Place(i, TagsBefore(i)) - Len(out)] = Original[i]
    <2>1. i \in Cursor(k) + 1 .. Until(k) /\ i \in Cursor(k) .. Until(k) /\ i \in Int
      BY <1>1, <1>7 DEF Untouched
    <2>2. Place(i, TagsBefore(i)) = Place(Cursor(k), k) + (i - Cursor(k))
      BY <1>1, <1>2, <2>1
    <2>3. Place(i, TagsBefore(i)) - Len(out) = i - Cursor(k)
      BY <1>1, <1>2, <1>4, <2>1, <2>2
    <2>4. i - Cursor(k) \in 1 .. Until(k) - Cursor(k) /\ Cursor(k) + (i - Cursor(k)) = i
      BY <1>1, <2>1
    <2>5. i \in DOMAIN Original
      BY <1>1, <1>6, <2>1
    <2>6. Gap(k)[i - Cursor(k)] = Original[i]
      BY <1>3, <2>4, <2>5
    <2> QED
      BY <1>3, <2>3, <2>4, <2>6
  <1> QED
    BY <1>3, <1>5, <1>7 DEF Exact

\* The finding behind it: the content is exact after one finding more.
LEMMA ExactStep ==
  ASSUME NEW T, Original \in Seq(T), HasTags(T, Len(found)),
         found \in Seq(Ranges), ValidFindings, NEW k \in 0 .. Len(found), k < Len(found),
         NEW out \in Seq(T), Exact(out, k)
  PROVE  Exact(out \o Gap(k) \o Tag(k + 1), k + 1)
  <1>0. Cell(0, "nul") \in T
    BY DEF HasTags
  <1>1. /\ Gap(k) \in Seq(T) /\ Len(out) + Len(Gap(k)) = Place(Until(k), k)
        /\ \A i \in Untouched(Until(k)) :
              LET p == Place(i, TagsBefore(i))
              IN  \/ p \in 1 .. Len(out) /\ out[p] = Original[i]
                  \/ /\ p - Len(out) \in 1 .. Len(Gap(k))
                     /\ Gap(k)[p - Len(out)] = Original[i]
    BY <1>0, GapPlaced
  <1> DEFINE new == out \o Gap(k) \o Tag(k + 1)
             tags == Tag(k + 1)
  <1>2. k \in Nat /\ k + 1 \in 1 .. Len(found) /\ k + 1 \in Int /\ TagSize \in Nat
    BY RangeTypes, StagingConstantsOK DEF StagingConstantsOK
  <1>3. tags \in Seq(T) /\ Len(tags) = TagSize
    BY <1>2, TagType DEF HasTags
  <1>4. Len(out) \in Nat /\ Len(Gap(k)) \in Nat /\ Gap(k) \in Seq(T)
    BY <1>1
  <1> HIDE DEF tags
  <1>5. /\ Len(new) = Len(out) + Len(Gap(k)) + TagSize
        /\ \A j \in 1 .. Len(out) : new[j] = out[j]
        /\ \A j \in 1 .. Len(Gap(k)) : new[Len(out) + j] = Gap(k)[j]
        /\ \A j \in 1 .. TagSize : new[Len(out) + Len(Gap(k)) + j] = tags[j]
    <2>1. /\ Len(out \o Gap(k) \o tags) = Len(out) + Len(Gap(k)) + Len(tags)
          /\ \A j \in 1 .. Len(out) : (out \o Gap(k) \o tags)[j] = out[j]
          /\ \A j \in 1 .. Len(Gap(k)) : (out \o Gap(k) \o tags)[Len(out) + j] = Gap(k)[j]
          /\ \A j \in 1 .. Len(tags) : (out \o Gap(k) \o tags)[Len(out) + Len(Gap(k)) + j] = tags[j]
      <3>1. tags \in Seq(T)
        BY <1>3
      <3> HIDE DEF Exact, HasTags
      <3> QED
        BY <1>4, <3>1, ThreeParts, SMTT(30)
    <2> QED
      BY <1>3, <2>1 DEF tags
  <1> HIDE DEF new
  <1>6. Cursor(k + 1) \in Nat /\ Until(k) \in Nat /\ Until(k) <= Cursor(k + 1)
        /\ \A i \in Until(k) + 1 .. Cursor(k + 1) : Found(i)
    <2>1. k + 1 \in 0 .. Len(found)
      BY <1>2
    <2>2. Cursor(k + 1) \in Nat
      BY <2>1, Gaps
    <2> QED
      BY <2>2, Gaps
  <1>7. Len(new) = Place(Cursor(k + 1), k + 1)
    <2>1. Place(Cursor(k + 1), k + 1) = Place(Until(k), k) + TagSize
      BY NextPlace
    <2> QED
      BY <1>1, <1>4, <1>5, <2>1
  <1>8. ASSUME NEW i \in Untouched(Cursor(k + 1))
        PROVE  /\ Place(i, TagsBefore(i)) \in 1 .. Len(new)
               /\ new[Place(i, TagsBefore(i))] = Original[i]
    <2> DEFINE p == Place(i, TagsBefore(i))
    <2>1. i \in Untouched(Until(k))
      BY <1>6 DEF Untouched
    <2>2. \/ p \in 1 .. Len(out) /\ out[p] = Original[i]
          \/ p - Len(out) \in 1 .. Len(Gap(k)) /\ Gap(k)[p - Len(out)] = Original[i]
      BY <1>1, <2>1
    <2>3. p \in Int
      <3>1. i \in Nat
        BY <1>6 DEF Untouched
      <3>2. Cardinality(Untouched(i)) \in Nat
        BY <3>1, UntouchedFinite
      <3>3. TagsBefore(i) \in Nat
        <4>1. IsFiniteSet(DOMAIN found)
          BY RangeTypes, FS_Interval
        <4> QED
          BY <4>1, FS_Subset, FS_CardinalityType DEF TagsBefore
      <3> QED
        BY <1>2, <3>2, <3>3 DEF Place
    <2> HIDE DEF p
    <2>4. p \in 1 .. Len(new) /\ new[p] = Original[i]
      <3>1. CASE p \in 1 .. Len(out) /\ out[p] = Original[i]
        BY <1>2, <1>4, <1>5, <3>1
      <3>2. CASE p - Len(out) \in 1 .. Len(Gap(k)) /\ Gap(k)[p - Len(out)] = Original[i]
        <4>1. Len(out) + (p - Len(out)) = p
          BY <1>4, <2>3
        <4>2. p - Len(out) >= 1 /\ p - Len(out) <= Len(Gap(k))
          BY <3>2
        <4>3. p \in 1 .. Len(new)
          BY <1>2, <1>4, <1>5, <2>3, <4>2
        <4> QED
          BY <1>5, <3>2, <4>1, <4>3
      <3> QED
        BY <2>2, <3>1, <3>2
    <2> QED
      BY <2>4 DEF p
  <1>9. ASSUME NEW j \in 1 .. k + 1, NEW i \in 1 .. TagSize
        PROVE  /\ Place(found[j].from, j - 1) + i \in 1 .. Len(new)
               /\ new[Place(found[j].from, j - 1) + i] = Tag(j)[i]
    <2>1. CASE j = k + 1
      <3>1. Place(found[j].from, j - 1) = Len(out) + Len(Gap(k))
        <4>1. Until(k) = found[k + 1].from /\ j - 1 = k
          BY <1>2, <2>1 DEF Until
        <4> QED
          BY <1>1, <2>1, <4>1
      <3>2. Len(out) + Len(Gap(k)) + i \in 1 .. Len(new)
        BY <1>2, <1>4, <1>5
      <3>3. new[Len(out) + Len(Gap(k)) + i] = Tag(j)[i]
        BY <1>5, <2>1 DEF tags
      <3> QED
        BY <3>1, <3>2, <3>3
    <2>2. CASE j # k + 1
      <3>1. j \in 1 .. k
        BY <1>2, <2>2
      <3>2. /\ Place(found[j].from, j - 1) + i \in 1 .. Len(out)
            /\ out[Place(found[j].from, j - 1) + i] = Tag(j)[i]
        BY <3>1 DEF Exact
      <3>3. Place(found[j].from, j - 1) + i \in 1 .. Len(new)
        BY <1>2, <1>4, <1>5, <3>2
      <3> QED
        BY <1>5, <3>2, <3>3
    <2> QED
      BY <2>1, <2>2
  <1> QED
    BY <1>7, <1>8, <1>9 DEF Exact, new

\* What BuildStagingContent makes of valid findings.
LEMMA ValidReplaced ==
  ASSUME NEW T, Original \in Seq(T), HasTags(T, Len(found)),
         found \in Seq(Ranges), ValidFindings,
         NEW content, content = BuildStagingContent(Original, found)
  PROVE  /\ Len(content) = Place(Len(Text), Len(found))
         /\ \A i \in Untouched(Len(Text)) : content[Place(i, TagsBefore(i))] = Original[i]
         /\ \A k \in DOMAIN found : \A i \in 1 .. TagSize :
               content[Place(found[k].from, k - 1) + i] = Tag(k)[i]
  <1> DEFINE built == Built(Original, found)
             Good(k) == Exact(built[k].out, k)
             S == {k \in Nat : k <= Len(found) => Good(k)}
  <1>0. Len(found) \in Nat /\ DOMAIN found = 1 .. Len(found) /\ Placed(found)
    BY RangeTypes
  <1>1. /\ built[0] = Unbuilt
        /\ \A k \in 1 .. Len(found) : built[k] = Put(Original, built[k - 1], found[k], k)
    BY <1>0, BuiltDef
  <1>2. \A k \in 0 .. Len(found) : built[k].out \in Seq(T) /\ built[k].cursor = Cursor(k)
    BY <1>0, BuiltType DEF Cursor
  <1> HIDE DEF built
  <1>3. Good(0)
    <2>1. built[0].out = << >> /\ Cursor(0) = 0
      BY <1>1 DEF Unbuilt, Cursor
    <2>2. Untouched(0) = {} /\ TagSize \in Nat
      BY StagingConstantsOK DEF Untouched, StagingConstantsOK
    <2>3. Place(0, 0) = 0
      <3>1. TagSize * 0 = 0
        BY <2>2
      <3>2. Cardinality(Untouched(0)) = 0
        BY <2>2, FS_EmptySet
      <3> QED
        BY <3>1, <3>2 DEF Place
    <2> QED
      BY <2>1, <2>2, <2>3 DEF Exact
  <1>4. ASSUME NEW k \in Nat, Good(k), k + 1 <= Len(found) PROVE Good(k + 1)
    <2>1. k \in 0 .. Len(found) /\ k + 1 \in 1 .. Len(found) /\ k < Len(found)
      BY <1>0, <1>4
    <2>2. built[k + 1] = Put(Original, built[k], found[k + 1], k + 1)
      BY <1>1, <2>1
    <2>3. found[k + 1].from = Until(k)
      <3> HIDE DEF Good, S
      <3>0. Len(found) \in Nat /\ k < Len(found)
        BY <1>0, <2>1
      <3>1. k # Len(found)
        BY <3>0
      <3> QED
        BY <3>1 DEF Until
    <2>4. built[k + 1].out = built[k].out \o Gap(k) \o Tag(k + 1)
      <3> HIDE DEF Good, S
      <3>1. Put(Original, built[k], found[k + 1], k + 1).out
               = built[k].out \o Slice(Original, built[k].cursor, found[k + 1].from) \o Tag(k + 1)
        BY DEF Put
      <3> QED
        BY <1>2, <2>1, <2>2, <2>3, <3>1 DEF Gap
    <2>5. built[k].out \in Seq(T)
      BY <1>2, <2>1
    <2> HIDE DEF S
    <2>6. Exact(built[k].out \o Gap(k) \o Tag(k + 1), k + 1)
      BY <1>4, <2>1, <2>5, ExactStep
    <2> QED
      BY <2>4, <2>6
  <1>5. 0 \in S /\ \A k \in Nat : k \in S => k + 1 \in S
    <2> HIDE DEF Good
    <2> QED
      BY <1>0, <1>3, <1>4
  <1>6. Nat \subseteq S
    <2> HIDE DEF S
    <2> QED
      BY <1>5, SetInduction
  <1> DEFINE n == Len(found)
             out == built[n].out
             rest == Gap(n)
  <1>7. Exact(out, n) /\ out \in Seq(T) /\ n \in 0 .. Len(found) /\ Cell(0, "nul") \in T
    BY <1>0, <1>2, <1>6 DEF HasTags
  <1>8. Until(n) = Len(Text) /\ Len(Original) = Len(Text)
    <2>1. Len(Original) = Len(Text)
      <3>1. DOMAIN Original = 1 .. Len(Text) /\ Len(Text) \in Nat
        BY TextLength DEF Original
      <3> QED
        BY <3>1
    <2> QED
      BY <2>1 DEF Until
  <1>9. content = out \o rest
    <2>1. built[n].cursor = Cursor(n)
      BY <1>2, <1>7
    <2> QED
      BY <1>8, <2>1 DEF BuildStagingContent, built, Gap
  <1> HIDE DEF out, rest, n, Good, S
  <1>10. /\ rest \in Seq(T) /\ Len(out) + Len(rest) = Place(Until(n), n)
         /\ \A i \in Untouched(Until(n)) :
               LET p == Place(i, TagsBefore(i))
               IN  \/ p \in 1 .. Len(out) /\ out[p] = Original[i]
                   \/ /\ p - Len(out) \in 1 .. Len(rest)
                      /\ rest[p - Len(out)] = Original[i]
    BY <1>7, GapPlaced DEF rest
  <1>11. /\ Len(content) = Len(out) + Len(rest)
         /\ Len(out) \in Nat /\ Len(rest) \in Nat
         /\ \A j \in 1 .. Len(out) : content[j] = out[j]
         /\ \A j \in 1 .. Len(rest) : content[Len(out) + j] = rest[j]
    BY <1>7, <1>9, <1>10, TwoParts
  <1>12. Len(content) = Place(Len(Text), Len(found))
    BY <1>8, <1>10, <1>11 DEF n
  <1>13. ASSUME NEW i \in Untouched(Len(Text))
         PROVE  content[Place(i, TagsBefore(i))] = Original[i]
    <2> DEFINE p == Place(i, TagsBefore(i))
    <2>1. \/ p \in 1 .. Len(out) /\ out[p] = Original[i]
          \/ p - Len(out) \in 1 .. Len(rest) /\ rest[p - Len(out)] = Original[i]
      BY <1>8, <1>10
    <2>2. p \in Int
      <3>1. i \in Nat /\ TagSize \in Nat
        BY TextLength, StagingConstantsOK DEF Untouched, StagingConstantsOK
      <3>2. Cardinality(Untouched(i)) \in Nat
        BY <3>1, UntouchedFinite
      <3>3. TagsBefore(i) \in Nat
        <4>1. IsFiniteSet(DOMAIN found)
          BY <1>0, FS_Interval
        <4> QED
          BY <4>1, FS_Subset, FS_CardinalityType DEF TagsBefore
      <3> QED
        BY <3>1, <3>2, <3>3 DEF Place
    <2> HIDE DEF p
    <2>3. content[p] = Original[i]
      <3>1. CASE p \in 1 .. Len(out) /\ out[p] = Original[i]
        BY <1>11, <3>1
      <3>2. CASE p - Len(out) \in 1 .. Len(rest) /\ rest[p - Len(out)] = Original[i]
        <4>1. Len(out) + (p - Len(out)) = p
          BY <1>11, <2>2
        <4> QED
          BY <1>11, <3>2, <4>1
      <3> QED
        BY <2>1, <3>1, <3>2
    <2> QED
      BY <2>3 DEF p
  <1>14. ASSUME NEW k \in DOMAIN found, NEW i \in 1 .. TagSize
         PROVE  content[Place(found[k].from, k - 1) + i] = Tag(k)[i]
    <2>1. k \in 1 .. n
      BY <1>0 DEF n
    <2> QED
      BY <1>7, <1>11, <2>1 DEF Exact
  <1> QED
    BY <1>12, <1>13, <1>14

-------------------------------------------------------------------------------
(* Skip zones.                                                             *)

LEMMA MinOf ==
  ASSUME NEW S \in SUBSET Nat, S # {}
  PROVE  Min(S) \in S /\ \A y \in S : Min(S) <= y
  BY LeastNat DEF Min

LEMMA MaxOf ==
  ASSUME NEW n \in Nat, NEW S \in SUBSET (0 .. n), S # {}
  PROVE  Max(S) \in S
  <1> DEFINE R == {n - x : x \in S}
  <1>1. R \in SUBSET Nat /\ R # {}
    <2>1. \A x \in S : n - x \in Nat
      BY SMT
    <2> QED
      BY <2>1
  <1>2. PICK x \in R : \A y \in R : x <= y
    <2> HIDE DEF R
    <2> QED
      BY <1>1, LeastNat
  <1>3. n - x \in S
    BY <1>2
  <1>4. ASSUME NEW y \in S PROVE n - x >= y
    <2>1. x <= n - y /\ x \in Int /\ y \in Int
      BY <1>1, <1>2
    <2> QED
      BY <2>1
  <1> QED
    BY <1>3, <1>4 DEF Max

\* Ranges of the file.
Zones == (0 .. Len(Text)) \X (0 .. Len(Text))

LEMMA ZonePair ==
  /\ \A z \in Zones : z[1] \in 0 .. Len(Text) /\ z[2] \in 0 .. Len(Text)
  /\ \A a, b \in 0 .. Len(Text) : <<a, b>> \in Zones /\ <<a, b>>[1] = a /\ <<a, b>>[2] = b
  /\ IsFiniteSet(Zones)
  <1>1. IsFiniteSet(0 .. Len(Text))
    BY TextLength, FS_Interval
  <1>2. IsFiniteSet(Zones)
    BY <1>1, FS_Product DEF Zones
  <1> QED
    BY <1>2 DEF Zones

\* Merging forgets no zone: each lies in one of the merged zones.
LEMMA MergeCovers ==
  ASSUME NEW zs, zs \subseteq Zones, NEW merged \in MergeSkipZones(zs)
  PROVE  /\ merged \subseteq Zones
         /\ \A z \in zs : \E m \in merged : m[1] <= z[1] /\ z[2] <= m[2]
  <1>1. CASE zs = {}
    BY <1>1 DEF MergeSkipZones
  <1>2. CASE zs # {}
    <2>1. PICK q \in SetToSeqs(zs) :
             /\ \A j, k \in DOMAIN q : j < k => q[j][1] <= q[k][1]
             /\ merged = Merging(q)[Len(q)].done \union {Merging(q)[Len(q)].last}
      BY <1>2 DEF MergeSkipZones
    <2> DEFINE n == Cardinality(zs)
               merging == Merging(q)
               Covered(k, z) == \E m \in merging[k].done \union {merging[k].last} :
                                   m[1] <= z[1] /\ z[2] <= m[2]
               Good(k) == /\ merging[k] \in [done : SUBSET Zones, last : Zones]
                          /\ merging[k].last[1] <= q[k][1]
                          /\ \A j \in 1 .. k : Covered(k, q[j])
               S == {k \in Nat : k + 1 <= n => Good(k + 1)}
    <2>2. IsFiniteSet(zs) /\ n \in Nat /\ n # 0
      BY <1>2, ZonePair, FS_Subset, FS_CardinalityType, FS_EmptySet
    <2> HIDE DEF n
    <2>3. q \in [1 .. n -> zs] /\ \A i, j \in 1 .. n : i # j => q[i] # q[j]
      BY DEF SetToSeqs, n
    <2>4. Len(q) = n /\ DOMAIN q = 1 .. n
      BY <2>2, <2>3
    <2>5. \A z \in zs : \E j \in 1 .. n : q[j] = z
      <3>1. q \in Injection(1 .. n, zs)
        BY <2>3 DEF Injection, IsInjective
      <3>2. Cardinality(1 .. n) = n
        BY <2>2, FS_Interval
      <3>3. q \in Surjection(1 .. n, zs)
        BY <2>2, <3>1, <3>2, FS_Injection DEF n
      <3> QED
        BY <3>3 DEF Surjection
    <2>6. \A j \in 1 .. n : q[j] \in Zones
      BY <2>3
    <2>7. \A j, k \in 1 .. n : j < k => q[j][1] <= q[k][1]
      BY <2>1, <2>4
    <2>8. /\ 1 <= n => merging[1] = [done |-> {}, last |-> q[1]]
          /\ \A k \in 2 .. n : merging[k] = Extend(merging[k - 1], q[k])
      BY <2>2, <2>4, MergingDef
    <2>9. merged = merging[n].done \union {merging[n].last}
      BY <2>1, <2>4
    <2> HIDE DEF merging
    <2>10. Good(1)
      <3>1. 1 \in 1 .. n
        BY <2>2
      <3>2. merging[1] = [done |-> {}, last |-> q[1]] /\ q[1] \in Zones
        BY <2>6, <2>8, <3>1
      <3>3. q[1][1] \in Int /\ q[1][2] \in Int
        BY <3>2, ZonePair
      <3> QED
        BY <3>2, <3>3
    <2>11. ASSUME NEW k \in Nat \ {0}, Good(k), k + 1 <= n PROVE Good(k + 1)
      <3> DEFINE old == merging[k].last
                 z == q[k + 1]
                 high == IF z[2] > old[2] THEN z[2] ELSE old[2]
      <3>1. k \in 1 .. n /\ k + 1 \in 1 .. n /\ k + 1 \in 2 .. n /\ k < k + 1 /\ (k + 1) - 1 = k
        BY <2>2, <2>11
      <3>2. merging[k + 1] = Extend(merging[k], z)
        BY <2>8, <3>1
      <3>3. merging[k] \in [done : SUBSET Zones, last : Zones] /\ old[1] <= q[k][1]
        BY <2>11
      <3>4. old \in Zones /\ z \in Zones /\ q[k] \in Zones /\ merging[k].done \in SUBSET Zones
        BY <2>6, <3>1, <3>3
      <3>5. /\ old[1] \in 0 .. Len(Text) /\ old[2] \in 0 .. Len(Text)
            /\ z[1] \in 0 .. Len(Text) /\ z[2] \in 0 .. Len(Text)
            /\ q[k][1] \in 0 .. Len(Text)
        BY <3>4, ZonePair
      <3>6. q[k][1] <= z[1]
        BY <2>7, <3>1
      <3>7. \A j \in 1 .. k + 1 : j \in 1 .. k \/ j = k + 1
        OBVIOUS
      <3>8. CASE z[1] <= old[2]
        <4>1. merging[k + 1] = [merging[k] EXCEPT !.last = <<old[1], high>>]
          BY <3>2, <3>8 DEF Extend
        <4>2. high \in 0 .. Len(Text) /\ z[2] <= high /\ old[2] <= high
          BY <3>5, TextLength
        <4>3. <<old[1], high>> \in Zones
          BY <3>5, <4>2, ZonePair
        <4> HIDE DEF high
        <4>4. /\ merging[k + 1] \in [done : SUBSET Zones, last : Zones]
              /\ merging[k + 1].last = <<old[1], high>>
              /\ merging[k + 1].done = merging[k].done
          BY <3>3, <4>1, <4>3
        <4>5. old[1] <= z[1]
          BY <3>3, <3>5, <3>6
        <4>6. ASSUME NEW j \in 1 .. k PROVE Covered(k + 1, q[j])
          <5>1. PICK m \in merging[k].done \union {old} : m[1] <= q[j][1] /\ q[j][2] <= m[2]
            BY <2>11
          <5>2. CASE m \in merging[k].done
            BY <4>4, <5>1, <5>2
          <5>3. CASE m = old
            <6>1. q[j] \in Zones
              BY <2>2, <2>6, <3>1
            <6>2. q[j][2] <= high
              BY <3>5, <4>2, <5>1, <5>3, <6>1, ZonePair, SMTT(30)
            <6> QED
              BY <4>4, <5>1, <5>3, <6>2
          <5> QED
            BY <5>1, <5>2, <5>3
        <4>7. Covered(k + 1, z)
          <5>1. <<old[1], high>>[1] = old[1] /\ <<old[1], high>>[2] = high
            BY <3>5, <4>2, ZonePair
          <5> HIDE DEF z, old
          <5> QED
            BY <4>2, <4>4, <4>5, <5>1
        <4>8. merging[k + 1].last[1] <= z[1]
          BY <4>4, <4>5
        <4> QED
          BY <3>7, <4>4, <4>6, <4>7, <4>8
      <3>9. CASE ~(z[1] <= old[2])
        <4>1. merging[k + 1] = [done |-> merging[k].done \union {old}, last |-> z]
          BY <3>2, <3>9 DEF Extend
        <4>2. /\ merging[k + 1] \in [done : SUBSET Zones, last : Zones]
              /\ merging[k + 1].last = z
              /\ merging[k + 1].done = merging[k].done \union {old}
          BY <3>4, <4>1
        <4>3. ASSUME NEW j \in 1 .. k PROVE Covered(k + 1, q[j])
          <5>1. PICK m \in merging[k].done \union {old} : m[1] <= q[j][1] /\ q[j][2] <= m[2]
            BY <2>11
          <5> QED
            BY <4>2, <5>1
        <4>4. Covered(k + 1, z)
          BY <3>5, <4>2
        <4>5. merging[k + 1].last[1] <= z[1]
          BY <3>5, <4>2
        <4> QED
          BY <3>7, <4>2, <4>3, <4>4, <4>5
      <3> QED
        BY <3>8, <3>9
    <2> HIDE DEF Covered
    <2>12. 0 \in S /\ \A k \in Nat : k \in S => k + 1 \in S
      <3> HIDE DEF Good
      <3>1. 0 \in S
        BY <2>10
      <3>2. ASSUME NEW k \in Nat, k \in S, (k + 1) + 1 <= n PROVE Good((k + 1) + 1)
        <4>1. k + 1 \in Nat \ {0} /\ k + 1 <= n
          BY <2>2, <3>2
        <4>2. Good(k + 1)
          BY <3>2, <4>1
        <4> QED
          BY <2>11, <3>2, <4>1, <4>2
      <3> QED
        BY <3>1, <3>2
    <2>13. Nat \subseteq S
      <3> HIDE DEF S
      <3> QED
        BY <2>12, SetInduction
    <2>14. Good(n)
      <3> HIDE DEF Good
      <3>1. n - 1 \in Nat /\ (n - 1) + 1 = n /\ n <= n
        BY <2>2
      <3> QED
        BY <2>13, <3>1
    <2>15. merged \subseteq Zones
      BY <2>9, <2>14
    <2>16. \A z \in zs : Covered(n, z)
      BY <2>5, <2>14
    <2> QED
      BY <2>9, <2>15, <2>16 DEF Covered
  <1> QED
    BY <1>1, <1>2

LEMMA ZonesOfType ==
  ASSUME NEW v \in Seq(STRING)
  PROVE  ZonesOf(Original, v) \subseteq Zones
  <1> DEFINE matches == {<<i, i + Len(v)>> : i \in {j \in 0 .. Len(Original) : OccursAt(Original, v, j)}}
  <1>1. Len(Original) = Len(Text) /\ Len(Text) \in Nat /\ Len(v) \in Nat
    <2>1. DOMAIN Original = 1 .. Len(Text) /\ Len(Text) \in Nat
      BY TextLength DEF Original
    <2> QED
      BY <2>1
  <1>2. matches \subseteq Zones
    <2>1. ASSUME NEW i \in 0 .. Len(Original), OccursAt(Original, v, i)
          PROVE  <<i, i + Len(v)>> \in Zones
      <3>1. i + Len(v) <= Len(Text)
        BY <1>1, <2>1 DEF OccursAt
      <3>2. i \in 0 .. Len(Text) /\ i + Len(v) \in 0 .. Len(Text)
        BY <1>1, <3>1
      <3> QED
        BY <3>2, ZonePair
    <2> QED
      BY <2>1
  <1> HIDE DEF matches
  <1>3. Leftmost(matches) \subseteq matches
    BY DEF Leftmost
  <1> QED
    BY <1>2, <1>3 DEF ZonesOf, matches

LEMMA TemplateType == TemplateSkipZones(Original) \subseteq Zones
  <1> DEFINE matches == {<<i - 1, Min(Closes(Original, i))>> :
                            i \in {j \in 1 .. Len(Original) : Closes(Original, j) # {}}}
  <1>1. Len(Original) = Len(Text) /\ Len(Text) \in Nat
    <2>1. DOMAIN Original = 1 .. Len(Text) /\ Len(Text) \in Nat
      BY TextLength DEF Original
    <2> QED
      BY <2>1
  <1>2. matches \subseteq Zones
    <2>1. ASSUME NEW i \in 1 .. Len(Original), Closes(Original, i) # {}
          PROVE  <<i - 1, Min(Closes(Original, i))>> \in Zones
      <3>1. Closes(Original, i) \subseteq i + 1 .. Len(Text)
        BY <1>1 DEF Closes
      <3>2. \A j \in i + 1 .. Len(Text) : j \in 0 .. Len(Text) /\ j \in Nat
        BY <1>1, <2>1
      <3>3. Closes(Original, i) \in SUBSET Nat
        BY <3>1, <3>2
      <3>4. Min(Closes(Original, i)) \in 0 .. Len(Text)
        BY <2>1, <3>1, <3>2, <3>3, MinOf
      <3>5. i - 1 \in 0 .. Len(Text)
        BY <1>1
      <3> QED
        BY <3>4, <3>5, ZonePair
    <2> QED
      BY <2>1
  <1> HIDE DEF matches
  <1>3. Leftmost(matches) \subseteq matches
    BY DEF Leftmost
  <1> QED
    BY <1>2, <1>3 DEF TemplateSkipZones, matches

LEMMA ProtectedType ==
  ASSUME NEW values \in SUBSET ApprovedValues
  PROVE  Protected(values) \subseteq Zones
  <1>1. \A v \in values : ZonesOf(Original, v) \subseteq Zones
    BY ZonesOfType, FindingsConstantsOK DEF FindingsConstantsOK
  <1>2. GetSkipZones(Original, values) \subseteq Zones
    BY <1>1 DEF GetSkipZones
  <1> QED
    BY <1>2, TemplateType DEF Protected

-------------------------------------------------------------------------------
(* What the layers report has the types that the pipeline relies on.       *)

LEMMA SortsType ==
  ASSUME NEW T, NEW fs \in Seq(T), NEW hs \in Sorts(fs)
  PROVE  /\ hs \in Seq(T) /\ Len(hs) = Len(fs)
         /\ \A i \in DOMAIN hs : \E j \in DOMAIN fs : hs[i] = fs[j]
  <1>1. PICK p \in [DOMAIN fs -> DOMAIN fs] : hs = [i \in DOMAIN fs |-> fs[p[i]]]
    BY DEF Sorts
  <1>2. Len(fs) \in Nat /\ DOMAIN fs = 1 .. Len(fs) /\ \A i \in DOMAIN fs : fs[i] \in T
    OBVIOUS
  <1>3. hs \in [1 .. Len(fs) -> T]
    BY <1>1, <1>2
  <1>4. \A i \in DOMAIN hs : \E j \in DOMAIN fs : hs[i] = fs[j]
    BY <1>1, <1>2
  <1> QED
    BY <1>2, <1>3, <1>4

\* The number of findings that there may be.
Most == MaxReported + Cardinality(Secrets) + 1

LEMMA SecretsFinite ==
  /\ IsFiniteSet(Secrets) /\ Cardinality(Secrets) \in Nat
  /\ Most \in Nat
  <1>1. IsFiniteSet(Secrets)
    BY ZonePair, FS_Subset, FindingsConstantsOK DEF FindingsConstantsOK, Zones
  <1>2. Cardinality(Secrets) \in Nat
    BY <1>1, FS_CardinalityType
  <1> QED
    BY <1>1, <1>2, FindingsConstantsOK DEF FindingsConstantsOK, Most

\* Cells has the cells of the file and those of all tags.
LEMMA CellsHave ==
  /\ \A i \in DOMAIN Text : Cell(i, Text[i]) \in Cells
  /\ \A n \in Nat : n <= Most => HasTags(Cells, n)
  /\ Original \in Seq(Cells)
  <1>1. Cells = [of : -Most .. Len(Text),
                 is : Range(Text) \union {"tag", "reason", "end", "value", "nul"}]
    BY DEF Cells, Most
  <1>2. ASSUME NEW i \in DOMAIN Text PROVE Cell(i, Text[i]) \in Cells
    <2>1. i \in -Most .. Len(Text)
      BY TextLength, SecretsFinite
    <2>2. Text[i] \in Range(Text)
      BY DEF Range
    <2> QED
      BY <1>1, <2>1, <2>2 DEF Cell
  <1>3. ASSUME NEW n \in Nat, n <= Most PROVE HasTags(Cells, n)
    <2>1. 0 \in -Most .. Len(Text)
      BY TextLength, SecretsFinite
    <2>2. Cell(0, "nul") \in Cells
      BY <1>1, <2>1 DEF Cell
    <2>3. ASSUME NEW k \in 1 .. n, NEW symbol \in {"tag", "reason", "end"}
          PROVE  Cell(-k, symbol) \in Cells
      <3>1. -k \in -Most .. Len(Text)
        BY <1>3, TextLength, SecretsFinite
      <3> QED
        BY <1>1, <3>1 DEF Cell
    <2> QED
      BY <2>2, <2>3 DEF HasTags
  <1> QED
    BY <1>2, <1>3, OriginalType

LEMMA IndexType ==
  ASSUME NEW content, NEW value, NEW from \in Nat, NEW to
  PROVE  Index(content, value, from, to) \in Int
  <1> DEFINE at == {i \in from .. to - Len(value) : OccursAt(content, value, i)}
  <1>1. at \in SUBSET Nat
    <2>1. \A i \in from .. to - Len(value) : i \in Nat
      BY SMT
    <2> QED
      BY <2>1
  <1> HIDE DEF at
  <1>2. at # {} => Min(at) \in Nat
    BY <1>1, MinOf
  <1> QED
    BY <1>2 DEF Index, at

LEMMA LocateType ==
  ASSUME NEW content, Len(content) \in Nat, NEW value, NEW line \in Nat
  PROVE  Locate(content, value, line) \in Int
  <1> DEFINE start == IF line > 0 THEN FindLineStart(content, line) ELSE -1
  <1>1. start \in Int
    <2> DEFINE starts == {i \in 0 .. Len(content) - 1 :
                             Cardinality({j \in 1 .. i : content[j].is = "nl"}) = line - 1}
    <2>1. starts \in SUBSET Nat
      OBVIOUS
    <2> HIDE DEF starts
    <2>2. FindLineStart(content, line) = IF starts = {} THEN -1 ELSE Min(starts)
      BY DEF FindLineStart, starts
    <2>3. starts # {} => Min(starts) \in Nat
      BY <2>1, MinOf
    <2>4. FindLineStart(content, line) \in Int
      BY <2>2, <2>3
    <2> QED
      BY <2>4
  <1> DEFINE here == IF start < 0 THEN -1
                     ELSE Index(content, value, start, LineEnd(content, start))
  <1> HIDE DEF start
  <1>2. Index(content, value, 0, Len(content)) \in Int
    BY IndexType
  <1>3. here \in Int
    <2>1. CASE start < 0
      BY <2>1
    <2>2. CASE ~(start < 0)
      <3>1. start \in Nat
        BY <1>1, <2>2
      <3>2. Index(content, value, start, LineEnd(content, start)) \in Int
        BY <3>1, IndexType
      <3> QED
        BY <2>2, <3>2
    <2> QED
      BY <2>1, <2>2
  <1>4. Locate(content, value, line)
           = IF here >= 0 THEN here ELSE Index(content, value, 0, Len(content))
    BY DEF Locate, start
  <1> QED
    BY <1>2, <1>3, <1>4

\* What is kept outside the zones is outside the zones.
AllOutside(fs) == \A k \in DOMAIN fs : ~IsInSkipZone(fs[k].from, fs[k].to, zones)

LEMMA OutsideType ==
  ASSUME NEW fs \in Seq(Ranges)
  PROVE  Outside(fs) \in Seq(Ranges) /\ Len(Outside(fs)) <= Len(fs) /\ AllOutside(Outside(fs))
  <1> DEFINE kept == {f \in Range(fs) : ~IsInSkipZone(f.from, f.to, zones)}
  <1>1. Outside(fs) \in Seq(Ranges \cap kept) /\ Len(Outside(fs)) <= Len(fs)
    <2> HIDE DEF kept
    <2>1. Keep(fs, kept) \in Seq(Ranges \cap kept) /\ Len(Keep(fs, kept)) <= Len(fs)
      BY KeepType
    <2> QED
      BY <2>1 DEF Outside, kept
  <1>2. \A k \in DOMAIN Outside(fs) : Outside(fs)[k] \in kept
    BY <1>1
  <1>3. Outside(fs) \in Seq(Ranges)
    BY <1>1
  <1> QED
    BY <1>1, <1>2, <1>3 DEF AllOutside

LEMMA ColumnType ==
  ASSUME NEW secret \in Secrets, NEW high \in BOOLEAN
  PROVE  Finding(ColumnRange(secret), high) \in Ranges
  <1>1. secret[1] \in 0 .. Len(Text) /\ secret[2] \in 0 .. Len(Text)
    BY ZonePair, FindingsConstantsOK DEF FindingsConstantsOK, Zones
  <1>2. secret[1] \in Nat /\ secret[2] \in Nat
    BY <1>1, TextLength
  <1> DEFINE breaks == {0} \union {i \in 1 .. secret[1] : Text[i] = "nl"}
  <1>3. breaks \in SUBSET (0 .. secret[1]) /\ breaks # {}
    BY <1>2
  <1> HIDE DEF breaks
  <1>4. Max(breaks) \in 0 .. secret[1]
    BY <1>2, <1>3, MaxOf
  <1>5. secret[1] - Max(breaks) \in Nat /\ secret[2] - Max(breaks) \in Int
    BY <1>2, <1>4
  <1>6. ColumnRange(secret) = <<secret[1] - Max(breaks), secret[2] - Max(breaks)>>
    BY DEF ColumnRange, breaks
  <1> QED
    BY <1>5, <1>6 DEF Finding, Ranges

LEMMA LocatedType ==
  ASSUME seen \in Seq(Cells), NEW n \in 0 .. MaxReported, NEW reports \in [1 .. n -> Reported]
  PROVE  LocatedAll(reports) \in Seq(Ranges) /\ Len(LocatedAll(reports)) <= MaxReported
         /\ AllOutside(LocatedAll(reports))
  <1> DEFINE Wide == [from : Int, to : Int, high : BOOLEAN]
             fs == [i \in DOMAIN reports |-> Located(reports[i])]
             kept == {f \in Range(fs) : f.from >= 0}
  <1>0. MaxReported \in Nat /\ n \in Nat /\ n <= MaxReported
    BY FindingsConstantsOK DEF FindingsConstantsOK
  <1>1. ASSUME NEW report \in Reported PROVE Located(report) \in Wide
    <2>1. /\ report.value \in Values /\ report.line \in Lines /\ report.high \in BOOLEAN
      BY DEF Reported
    <2>2. Len(report.value) \in Nat /\ report.line \in Nat
      <3>1. report.value \in Seq(STRING) /\ report.line \in Nat
        BY <2>1, FindingsConstantsOK DEF FindingsConstantsOK
      <3> QED
        BY <3>1
    <2>3. Len(seen) \in Nat
      OBVIOUS
    <2>4. Locate(seen, report.value, report.line) \in Int
      BY <2>2, <2>3, LocateType
    <2> QED
      BY <2>1, <2>2, <2>4 DEF Located, Finding
  <1>2. fs \in [1 .. n -> Wide]
    BY <1>1
  <1>3. fs \in Seq(Wide) /\ Len(fs) = n
    BY <1>0, <1>2
  <1> HIDE DEF fs
  <1>4. Wide \cap kept \subseteq Ranges
    <2>1. ASSUME NEW f \in Wide, f.from >= 0 PROVE f \in Ranges
      BY <2>1 DEF Ranges
    <2> QED
      BY <2>1
  <1>5. Keep(fs, kept) \in Seq(Ranges) /\ Len(Keep(fs, kept)) <= n
    <2> HIDE DEF Wide, kept
    <2>1. Keep(fs, kept) \in Seq(Wide \cap kept) /\ Len(Keep(fs, kept)) <= Len(fs)
      BY <1>3, KeepType
    <2> QED
      BY <1>3, <1>4, <2>1
  <1>6. LocatedAll(reports) = Outside(Keep(fs, kept))
    BY DEF LocatedAll, fs
  <1> HIDE DEF kept
  <1>7. /\ Outside(Keep(fs, kept)) \in Seq(Ranges)
        /\ Len(Outside(Keep(fs, kept))) <= Len(Keep(fs, kept))
        /\ AllOutside(Outside(Keep(fs, kept)))
    BY <1>5, OutsideType
  <1>8. Len(Outside(Keep(fs, kept))) \in Nat /\ Len(Keep(fs, kept)) \in Nat
    BY <1>5, <1>7
  <1> QED
    BY <1>0, <1>5, <1>6, <1>7, <1>8

-------------------------------------------------------------------------------
(* Tags.  Where the intact tags of a set of findings are in a content that *)
(* has no other tags, in the order of the findings.                        *)

AnyCell == [of : Int, is : Range(Text) \union {"tag", "reason", "end", "value", "nul"}]

TagAt(content, k, p) ==
    /\ p \in 1 .. Len(content) /\ p + TagSize - 1 <= Len(content)
    /\ content[p] = Cell(-k, "tag")
    /\ content[p + TagSize - 1].is = "end"
    /\ \A i \in p .. p + TagSize - 2 : content[i].is # "end"

HasTagsAt(content, ks, at) ==
    /\ \A k \in ks : TagAt(content, k, at[k])
    /\ \A i \in 1 .. Len(content) : content[i].is = "tag" => \E k \in ks : i = at[k]
    /\ \A j, k \in ks : j < k => at[j] + TagSize <= at[k]

NoTag(content) == \A i \in 1 .. Len(content) : content[i].is # "tag"

LEMMA TagSizeType == TagSize \in Nat /\ TagSize >= 2
  BY StagingConstantsOK DEF StagingConstantsOK

LEMMA CellFields ==
  \A n, symbol : Cell(n, symbol).of = n /\ Cell(n, symbol).is = symbol
  BY DEF Cell

\* A tag is intact in itself.
LEMMA TagIntact ==
  ASSUME NEW k \in Nat
  PROVE  /\ Tag(k) \in Seq(AnyCell) /\ Len(Tag(k)) = TagSize
         /\ TagAt(Tag(k), k, 1)
         /\ \A i \in 2 .. TagSize : Tag(k)[i].is # "tag"
  <1>1. TagSize \in Nat /\ TagSize >= 2
    BY TagSizeType
  <1>2. \A i \in 1 .. TagSize :
           Tag(k)[i] = Cell(-k, CASE i = 1 -> "tag" [] i = TagSize -> "end" [] OTHER -> "reason")
    BY DEF Tag
  <1>3. -k \in Int /\ k \in Int
    OBVIOUS
  <1>4. \A symbol \in {"tag", "reason", "end"} : Cell(-k, symbol) \in AnyCell
    BY <1>3 DEF Cell, AnyCell
  <1>5. Tag(k) \in Seq(AnyCell) /\ Len(Tag(k)) = TagSize
    BY <1>3, <1>4, TagType
  <1>6. Tag(k)[1] = Cell(-k, "tag") /\ Tag(k)[TagSize] = Cell(-k, "end")
    <2>1. 1 \in 1 .. TagSize /\ TagSize \in 1 .. TagSize /\ TagSize # 1
      BY <1>1
    <2> QED
      BY <1>2, <2>1
  <1>7. \A i \in 2 .. TagSize : Tag(k)[i].is # "tag"
    <2>1. ASSUME NEW i \in 2 .. TagSize PROVE Tag(k)[i].is # "tag"
      <3>1. i \in 1 .. TagSize /\ i # 1
        BY <1>1
      <3> QED
        BY <1>2, <3>1, CellFields
    <2> QED
      BY <2>1
  <1>8. \A i \in 1 .. TagSize - 1 : Tag(k)[i].is # "end"
    <2>1. ASSUME NEW i \in 1 .. TagSize - 1 PROVE Tag(k)[i].is # "end"
      <3>1. i \in 1 .. TagSize /\ i # TagSize
        BY <1>1
      <3> QED
        BY <1>2, <3>1, CellFields
    <2> QED
      BY <2>1
  <1>9. TagAt(Tag(k), k, 1)
    <2>1. 1 \in 1 .. Len(Tag(k)) /\ 1 + TagSize - 1 = TagSize /\ 1 + TagSize - 2 = TagSize - 1
      BY <1>1, <1>5
    <2> QED
      BY <1>1, <1>5, <1>6, <1>8, <2>1, CellFields DEF TagAt
  <1> QED
    BY <1>5, <1>7, <1>9

\* A tag stays a tag when the content around it changes and its cells move.
LEMMA TagMoves ==
  ASSUME NEW a, NEW b, Len(a) \in Nat, Len(b) \in Nat, NEW k, NEW p \in Int, TagAt(a, k, p),
         NEW shift \in Int, p + shift >= 1, p + shift + TagSize - 1 <= Len(b),
         \A i \in p .. p + TagSize - 1 : b[i + shift] = a[i]
  PROVE  TagAt(b, k, p + shift)
  <1>1. TagSize \in Nat /\ TagSize >= 2
    BY TagSizeType
  <1>2. p + shift \in 1 .. Len(b)
    BY <1>1
  <1>3. b[p + shift] = Cell(-k, "tag")
    <2>1. p \in p .. p + TagSize - 1
      BY <1>1
    <2> QED
      BY <2>1 DEF TagAt
  <1>4. b[p + shift + TagSize - 1].is = "end"
    <2>1. p + TagSize - 1 \in p .. p + TagSize - 1
      BY <1>1
    <2>2. p + shift + TagSize - 1 = (p + TagSize - 1) + shift
      BY <1>1
    <2> QED
      BY <2>1, <2>2 DEF TagAt
  <1>5. ASSUME NEW i \in p + shift .. p + shift + TagSize - 2 PROVE b[i].is # "end"
    <2>1. i - shift \in p .. p + TagSize - 2 /\ i - shift \in p .. p + TagSize - 1
      BY <1>1
    <2>2. (i - shift) + shift = i
      OBVIOUS
    <2>3. b[i] = a[i - shift]
      BY <2>1, <2>2
    <2> QED
      BY <2>1, <2>3 DEF TagAt
  <1> QED
    BY <1>2, <1>3, <1>4, <1>5 DEF TagAt

\* A slice of a content without tags has none.
LEMMA SliceNoTag ==
  ASSUME NEW content \in Seq(AnyCell), NoTag(content), NEW from \in Int, NEW to \in Int
  PROVE  /\ Slice(content, from, to) \in Seq(AnyCell)
         /\ NoTag(Slice(content, from, to))
  <1> DEFINE slice == Slice(content, from, to)
  <1>1. Cell(0, "nul") \in AnyCell
    BY DEF Cell, AnyCell
  <1>2. slice \in Seq(AnyCell) /\ Len(slice) = IF from <= to THEN to - from ELSE 0
    BY <1>1, SliceType
  <1>3. DOMAIN content = 1 .. Len(content)
    OBVIOUS
  <1>4. ASSUME NEW i \in 1 .. Len(slice) PROVE slice[i].is # "tag"
    <2>1. i \in 1 .. to - from
      BY <1>2
    <2>2. slice[i] = IF from + i \in DOMAIN content THEN content[from + i] ELSE Cell(0, "nul")
      BY <2>1 DEF Slice
    <2> QED
      BY <1>3, <2>2, CellFields DEF NoTag
  <1> QED
    BY <1>2, <1>4 DEF NoTag

\* The pass adds a tag behind the others.
LEMMA TagAdded ==
  ASSUME NEW out \in Seq(AnyCell), NEW gap \in Seq(AnyCell), NoTag(gap),
         NEW n \in Nat, NEW at, HasTagsAt(out, 1 .. n, at)
  PROVE  /\ out \o gap \o Tag(n + 1) \in Seq(AnyCell)
         /\ \E new : HasTagsAt(out \o gap \o Tag(n + 1), 1 .. n + 1, new)
  <1> DEFINE tag == Tag(n + 1)
             all == out \o gap \o tag
             place == Len(out) + Len(gap) + 1
             new == [k \in 1 .. n + 1 |-> IF k <= n THEN at[k] ELSE place]
  <1>1. TagSize \in Nat /\ TagSize >= 2 /\ Len(out) \in Nat /\ Len(gap) \in Nat
    BY TagSizeType
  <1>2. n + 1 \in Nat
    OBVIOUS
  <1>3. /\ tag \in Seq(AnyCell) /\ Len(tag) = TagSize /\ TagAt(tag, n + 1, 1)
        /\ \A i \in 2 .. TagSize : tag[i].is # "tag"
    BY <1>2, TagIntact
  <1> HIDE DEF tag
  <1>4. /\ all \in Seq(AnyCell)
        /\ Len(all) = Len(out) + Len(gap) + Len(tag)
        /\ \A j \in 1 .. Len(out) : all[j] = out[j]
        /\ \A j \in 1 .. Len(gap) : all[Len(out) + j] = gap[j]
        /\ \A j \in 1 .. Len(tag) : all[Len(out) + Len(gap) + j] = tag[j]
    <2>1. tag \in Seq(AnyCell)
      BY <1>3
    <2> HIDE DEF place, new
    <2> QED
      BY <2>1, ThreeParts
  <1> HIDE DEF all
  <1>5. \A k \in 1 .. n : new[k] = at[k] /\ new[n + 1] = place
    BY <1>2
  <1>6. new[n + 1] = place
    BY <1>2
  <1> HIDE DEF new
  <1>7. \A k \in 1 .. n + 1 : k \in 1 .. n \/ k = n + 1
    OBVIOUS
  <1>8. ASSUME NEW k \in 1 .. n PROVE TagAt(all, k, at[k]) /\ at[k] \in Int /\ at[k] + TagSize <= place
    <2>1. TagAt(out, k, at[k])
      BY DEF HasTagsAt
    <2>2. at[k] \in 1 .. Len(out) /\ at[k] + TagSize - 1 <= Len(out)
      BY <2>1 DEF TagAt
    <2>3. \A i \in at[k] .. at[k] + TagSize - 1 : all[i + 0] = out[i]
      <3>1. \A i \in at[k] .. at[k] + TagSize - 1 : i \in 1 .. Len(out) /\ i + 0 = i
        BY <1>1, <2>2
      <3> QED
        BY <1>4, <3>1
    <2>4. at[k] \in Int /\ at[k] + 0 = at[k] /\ at[k] + 0 >= 1 /\ 0 \in Int
          /\ at[k] + 0 + TagSize - 1 <= Len(all) /\ Len(all) \in Nat
      BY <1>1, <1>3, <1>4, <2>2
    <2>5. TagAt(all, k, at[k] + 0)
      BY <1>1, <2>1, <2>3, <2>4, TagMoves
    <2> QED
      BY <1>1, <2>2, <2>4, <2>5
  <1>9. TagAt(all, n + 1, place)
    <2> DEFINE shift == Len(out) + Len(gap)
    <2>1. shift \in Int /\ 1 + shift = place /\ 1 \in Int /\ 1 + shift >= 1
          /\ 1 + shift + TagSize - 1 <= Len(all) /\ Len(all) \in Nat /\ Len(tag) \in Nat
      BY <1>1, <1>3, <1>4
    <2>2. \A i \in 1 .. 1 + TagSize - 1 : all[i + shift] = tag[i]
      <3>1. \A i \in 1 .. 1 + TagSize - 1 : i \in 1 .. Len(tag) /\ i + shift = Len(out) + Len(gap) + i
        BY <1>1, <1>3
      <3> QED
        BY <1>4, <3>1
    <2> HIDE DEF shift
    <2>3. TagAt(all, n + 1, 1 + shift)
      BY <1>3, <2>1, <2>2, TagMoves
    <2> QED
      BY <2>1, <2>3
  <1>10. \A k \in 1 .. n + 1 : TagAt(all, k, new[k])
    BY <1>5, <1>6, <1>7, <1>8, <1>9
  <1>11. ASSUME NEW i \in 1 .. Len(all), all[i].is = "tag"
         PROVE  \E k \in 1 .. n + 1 : i = new[k]
    <2>1. CASE i <= Len(out)
      <3>1. i \in 1 .. Len(out)
        BY <1>1, <2>1
      <3>2. PICK k \in 1 .. n : i = at[k]
        BY <1>4, <1>11, <3>1 DEF HasTagsAt
      <3>3. k \in 1 .. n + 1
        OBVIOUS
      <3> QED
        BY <1>5, <3>2, <3>3
    <2>2. CASE i > Len(out) /\ i <= Len(out) + Len(gap)
      <3>1. i - Len(out) \in 1 .. Len(gap) /\ Len(out) + (i - Len(out)) = i
        BY <1>1, <2>2
      <3>2. all[i] = gap[i - Len(out)]
        BY <1>4, <3>1
      <3> QED
        BY <1>11, <3>1, <3>2 DEF NoTag
    <2>3. CASE i > Len(out) + Len(gap)
      <3> DEFINE j == i - (Len(out) + Len(gap))
      <3>1. j \in 1 .. TagSize /\ Len(out) + Len(gap) + j = i
        BY <1>1, <1>3, <1>4, <2>3
      <3>2. all[i] = tag[j]
        BY <1>3, <1>4, <3>1
      <3>3. j = 1
        <4>1. j = 1 \/ j \in 2 .. TagSize
          BY <1>1, <3>1
        <4> QED
          BY <1>3, <1>11, <3>2, <4>1
      <3>4. i = place /\ n + 1 \in 1 .. n + 1
        BY <3>1, <3>3
      <3> QED
        BY <1>6, <3>4
    <2> QED
      BY <1>1, <2>1, <2>2, <2>3
  <1>12. ASSUME NEW j \in 1 .. n + 1, NEW k \in 1 .. n + 1, j < k
         PROVE  new[j] + TagSize <= new[k]
    <2>1. j \in 1 .. n
      BY <1>12
    <2>2. CASE k \in 1 .. n
      BY <1>5, <1>12, <2>1, <2>2 DEF HasTagsAt
    <2>3. CASE k = n + 1
      BY <1>5, <1>6, <1>8, <2>1, <2>3
    <2> QED
      BY <1>7, <2>2, <2>3
  <1>13. HasTagsAt(all, 1 .. n + 1, new)
    BY <1>10, <1>11, <1>12 DEF HasTagsAt
  <1> QED
    BY <1>4, <1>13 DEF all, tag

\* The tag of a finding is where it is.
LEMMA PlaceIs ==
  ASSUME NEW content \in Seq(AnyCell), NEW ks \in SUBSET Nat, NEW at,
         HasTagsAt(content, ks, at), NEW k \in ks
  PROVE  PlaceOf(content, k) = at[k]
  <1>1. DOMAIN content = 1 .. Len(content)
    OBVIOUS
  <1>2. at[k] \in DOMAIN content /\ content[at[k]] = Cell(-k, "tag")
    BY <1>1 DEF HasTagsAt, TagAt
  <1>3. ASSUME NEW i \in DOMAIN content, content[i] = Cell(-k, "tag")
        PROVE  i = at[k]
    <2>1. content[i].is = "tag" /\ i \in 1 .. Len(content)
      BY <1>1, <1>3, CellFields
    <2>2. PICK j \in ks : i = at[j]
      BY <2>1 DEF HasTagsAt
    <2>3. content[i] = Cell(-j, "tag")
      BY <2>2 DEF HasTagsAt, TagAt
    <2>4. -j = -k /\ j \in Nat /\ k \in Nat
      BY <1>3, <2>3, CellFields
    <2>5. j = k
      BY <2>4
    <2> QED
      BY <2>2, <2>5
  <1> QED
    BY <1>2, <1>3 DEF PlaceOf

\* A tag is replaced from its first cell to its last.
LEMMA TagEnds ==
  ASSUME NEW content \in Seq(AnyCell), NEW k, NEW p, TagAt(content, k, p), NEW value
  PROVE  ReplaceTag(content, p, value)
            = SubSeq(content, 1, p - 1) \o value \o SubSeq(content, p + TagSize, Len(content))
  <1> DEFINE ends == {j \in p .. Len(content) : content[j].is = "end"}
             last == p + TagSize - 1
  <1>1. TagSize \in Nat /\ TagSize >= 2 /\ Len(content) \in Nat
    BY TagSizeType
  <1>2. p \in 1 .. Len(content) /\ last <= Len(content) /\ content[last].is = "end"
        /\ \A i \in p .. p + TagSize - 2 : content[i].is # "end"
    BY DEF TagAt
  <1>3. last \in ends
    BY <1>1, <1>2
  <1>4. ends \in SUBSET Nat
    <2>1. \A j \in p .. Len(content) : j \in Nat
      BY <1>1, <1>2
    <2> QED
      BY <2>1
  <1>5. \A j \in ends : ~(j < last)
    <2>1. ASSUME NEW j \in ends, j < last PROVE FALSE
      <3>1. j \in p .. p + TagSize - 2 /\ content[j].is = "end"
        BY <1>1, <1>2, <2>1
      <3> QED
        BY <1>2, <3>1
    <2> QED
      BY <2>1
  <1>6. Min(ends) = last
    <2>1. Min(ends) \in ends /\ \A y \in ends : Min(ends) <= y
      <3> HIDE DEF ends
      <3> QED
        BY <1>3, <1>4, MinOf
    <2>2. Min(ends) \in Int /\ last \in Int /\ Min(ends) <= last /\ ~(Min(ends) < last)
      BY <1>1, <1>2, <1>3, <1>4, <1>5, <2>1
    <2> QED
      BY <2>2
  <1>7. last + 1 = p + TagSize
    BY <1>1, <1>2
  <1> HIDE DEF last
  <1>8. ReplaceTag(content, p, value)
           = SubSeq(content, 1, p - 1) \o value \o SubSeq(content, Min(ends) + 1, Len(content))
    BY DEF ReplaceTag
  <1> QED
    BY <1>6, <1>7, <1>8

LEMMA SubSeqIs ==
  ASSUME NEW T, NEW s \in Seq(T), NEW from \in 1 .. Len(s) + 1, NEW to \in 0 .. Len(s),
         from <= to + 1
  PROVE  /\ SubSeq(s, from, to) \in Seq(T)
         /\ Len(SubSeq(s, from, to)) = to - from + 1
         /\ \A i \in 1 .. to - from + 1 : SubSeq(s, from, to)[i] = s[from + i - 1]
  OBVIOUS

\* A resolution leaves the other tags, in their order.
LEMMA TagReplaced ==
  ASSUME NEW content \in Seq(AnyCell), NEW ks \in SUBSET Nat, NEW at,
         HasTagsAt(content, ks, at), NEW k \in ks
  PROVE  /\ ResolveOwn(content, k) \in Seq(AnyCell)
         /\ \E new : HasTagsAt(ResolveOwn(content, k), ks \ {k}, new)
  <1> DEFINE p == at[k]
             before == SubSeq(content, 1, p - 1)
             value == Resolved(k)
             after == SubSeq(content, p + TagSize, Len(content))
             all == before \o value \o after
             new == [j \in ks \ {k} |-> IF j < k THEN at[j] ELSE at[j] - (TagSize - 1)]
  <1>1. TagSize \in Nat /\ TagSize >= 2 /\ Len(content) \in Nat
    BY TagSizeType
  <1>2. TagAt(content, k, p)
    BY DEF HasTagsAt
  <1>3. p \in Nat /\ 1 <= p /\ p + TagSize - 1 <= Len(content) /\ k \in Nat
    BY <1>1, <1>2 DEF TagAt
  <1>4. ResolveOwn(content, k) = all
    <2>1. PlaceOf(content, k) = p
      BY PlaceIs
    <2>2. ReplaceTag(content, p, value) = all
      BY <1>2, TagEnds
    <2> QED
      BY <2>1, <2>2 DEF ResolveOwn
  <1>5. /\ before \in Seq(AnyCell) /\ Len(before) = p - 1
        /\ \A i \in 1 .. p - 1 : before[i] = content[i]
    <2>1. p - 1 \in 0 .. Len(content) /\ 1 \in 1 .. Len(content) + 1 /\ 1 <= (p - 1) + 1
      BY <1>1, <1>3
    <2>2. /\ before \in Seq(AnyCell) /\ Len(before) = (p - 1) - 1 + 1
          /\ \A i \in 1 .. (p - 1) - 1 + 1 : before[i] = content[1 + i - 1]
      <3> HIDE DEF p
      <3> QED
        BY <2>1, SubSeqIs
    <2>3. (p - 1) - 1 + 1 = p - 1 /\ \A i \in 1 .. p - 1 : 1 + i - 1 = i
      BY <1>3
    <2> HIDE DEF before, p
    <2> QED
      BY <2>2, <2>3
  <1>6. value \in Seq(AnyCell) /\ Len(value) = 1 /\ value[1].is = "value"
    <2>1. Cell(-k, "value") \in AnyCell
      BY <1>3 DEF Cell, AnyCell
    <2> QED
      BY <2>1, CellFields DEF Resolved
  <1>7. /\ after \in Seq(AnyCell) /\ Len(after) = Len(content) - (p + TagSize) + 1
        /\ \A i \in 1 .. Len(after) : after[i] = content[p + TagSize - 1 + i]
    <2>1. p + TagSize \in 1 .. Len(content) + 1 /\ Len(content) \in 0 .. Len(content)
          /\ p + TagSize <= Len(content) + 1
      BY <1>1, <1>3
    <2>2. /\ after \in Seq(AnyCell) /\ Len(after) = Len(content) - (p + TagSize) + 1
          /\ \A i \in 1 .. Len(content) - (p + TagSize) + 1 : after[i] = content[p + TagSize + i - 1]
      <3> HIDE DEF p
      <3> QED
        BY <2>1, SubSeqIs
    <2>3. \A i \in Nat : p + TagSize + i - 1 = p + TagSize - 1 + i
      BY <1>1, <1>3
    <2>4. \A i \in 1 .. Len(after) : i \in Nat
      OBVIOUS
    <2> HIDE DEF after, p
    <2> QED
      BY <2>2, <2>3, <2>4
  <1> HIDE DEF before, value, after, p
  <1>8. /\ all \in Seq(AnyCell)
        /\ Len(all) = Len(before) + Len(value) + Len(after)
        /\ \A j \in 1 .. Len(before) : all[j] = before[j]
        /\ \A j \in 1 .. Len(value) : all[Len(before) + j] = value[j]
        /\ \A j \in 1 .. Len(after) : all[Len(before) + Len(value) + j] = after[j]
    <2>1. before \in Seq(AnyCell) /\ value \in Seq(AnyCell) /\ after \in Seq(AnyCell)
      BY <1>5, <1>6, <1>7
    <2> HIDE DEF new
    <2> QED
      BY <2>1, ThreeParts
  <1> HIDE DEF all
  <1>9. /\ Len(all) = Len(content) - TagSize + 1
        /\ \A i \in 1 .. p - 1 : all[i] = content[i]
        /\ all[p].is = "value"
        /\ \A i \in p + 1 .. Len(all) : all[i] = content[i + (TagSize - 1)]
    <2>1. Len(all) = Len(content) - TagSize + 1
      BY <1>1, <1>3, <1>5, <1>6, <1>7, <1>8
    <2>2. \A i \in 1 .. p - 1 : all[i] = content[i]
      BY <1>5, <1>8
    <2>3. all[p].is = "value"
      <3>1. 1 \in 1 .. Len(value) /\ Len(before) + 1 = p
        BY <1>3, <1>5, <1>6
      <3> QED
        BY <1>6, <1>8, <3>1
    <2>4. ASSUME NEW i \in p + 1 .. Len(all) PROVE all[i] = content[i + (TagSize - 1)]
      <3>1. /\ i - p \in 1 .. Len(after) /\ Len(before) + Len(value) + (i - p) = i
            /\ p + TagSize - 1 + (i - p) = i + (TagSize - 1)
        BY <1>1, <1>3, <1>5, <1>6, <1>7, <2>1
      <3> QED
        BY <1>7, <1>8, <3>1
    <2> QED
      BY <2>1, <2>2, <2>3, <2>4
  <1>10. ASSUME NEW j \in ks \ {k}
         PROVE  /\ j \in Nat /\ j # k
                /\ j < k => new[j] = at[j]
                /\ j > k => new[j] = at[j] - (TagSize - 1)
    <2>1. new[j] = IF j < k THEN at[j] ELSE at[j] - (TagSize - 1)
      OBVIOUS
    <2>2. j \in Nat /\ j # k
      OBVIOUS
    <2> HIDE DEF new
    <2> QED
      BY <1>3, <2>1, <2>2
  <1> HIDE DEF new
  <1>11. ASSUME NEW j \in ks \ {k}
         PROVE  /\ TagAt(content, j, at[j]) /\ at[j] \in Nat /\ 1 <= at[j]
                /\ at[j] + TagSize - 1 <= Len(content)
                /\ j < k => at[j] + TagSize <= p
                /\ j > k => p + TagSize <= at[j]
    <2>1. TagAt(content, j, at[j])
      BY DEF HasTagsAt
    <2>2. at[j] \in Nat /\ 1 <= at[j] /\ at[j] + TagSize - 1 <= Len(content)
      BY <1>1, <2>1 DEF TagAt
    <2> QED
      BY <2>1, <2>2 DEF HasTagsAt, p
  <1>12. ASSUME NEW j \in ks \ {k} PROVE TagAt(all, j, new[j])
    <2>0. Len(all) \in Nat
      BY <1>8
    <2>1. CASE j < k
      <3>1. \A i \in at[j] .. at[j] + TagSize - 1 : all[i + 0] = content[i]
        <4>1. \A i \in at[j] .. at[j] + TagSize - 1 : i \in 1 .. p - 1 /\ i + 0 = i
          BY <1>1, <1>3, <1>11, <2>1
        <4> QED
          BY <1>9, <4>1
      <3>2. /\ at[j] + 0 = at[j] /\ at[j] \in Int /\ 0 \in Int /\ at[j] + 0 >= 1
            /\ at[j] + 0 + TagSize - 1 <= Len(all)
        BY <1>1, <1>3, <1>9, <1>11, <2>1
      <3>3. TagAt(all, j, at[j] + 0)
        BY <1>1, <1>11, <2>0, <3>1, <3>2, TagMoves
      <3> QED
        BY <1>10, <2>1, <3>2, <3>3
    <2>2. CASE j > k
      <3> DEFINE shift == 1 - TagSize
      <3>1. \A i \in at[j] .. at[j] + TagSize - 1 : all[i + shift] = content[i]
        <4>1. \A i \in at[j] .. at[j] + TagSize - 1 :
                 i + shift \in p + 1 .. Len(all) /\ (i + shift) + (TagSize - 1) = i
          BY <1>1, <1>3, <1>9, <1>11, <2>2
        <4> QED
          BY <1>9, <4>1
      <3>2. /\ at[j] + shift = at[j] - (TagSize - 1) /\ at[j] \in Int /\ shift \in Int
            /\ at[j] + shift >= 1 /\ at[j] + shift + TagSize - 1 <= Len(all)
        <4>1. at[j] \in Nat /\ p + TagSize <= at[j] /\ at[j] + TagSize - 1 <= Len(content)
          BY <1>11, <2>2
        <4>2. Len(all) = Len(content) - TagSize + 1
          BY <1>9
        <4>3. shift \in Int /\ at[j] + shift = at[j] - (TagSize - 1)
          BY <1>1, <4>1
        <4>4. at[j] + shift >= 1
          BY <1>1, <1>3, <4>1
        <4>5. at[j] + shift + TagSize - 1 <= Len(all)
          BY <1>1, <4>1, <4>2
        <4> QED
          BY <4>1, <4>3, <4>4, <4>5
      <3> HIDE DEF shift
      <3>3. TagAt(all, j, at[j] + shift)
        BY <1>1, <1>11, <2>0, <3>1, <3>2, TagMoves
      <3> QED
        <4>1. new[j] = at[j] + shift
          BY <1>10, <2>2, <3>2
        <4> QED
          BY <3>3, <4>1, Zenon
    <2> QED
      BY <1>3, <1>10, <2>1, <2>2
  <1>13. ASSUME NEW i \in 1 .. Len(all), all[i].is = "tag"
         PROVE  \E j \in ks \ {k} : i = new[j]
    <2>1. i # p
      BY <1>9, <1>13
    <2>2. CASE i < p
      <3>1. i \in 1 .. p - 1 /\ i \in 1 .. Len(content)
        BY <1>1, <1>3, <2>2
      <3>2. PICK j \in ks : i = at[j]
        BY <1>9, <1>13, <3>1 DEF HasTagsAt
      <3>3. j # k
        BY <2>1, <3>2 DEF p
      <3>4. ~(j > k)
        BY <1>1, <1>3, <1>11, <2>2, <3>2, <3>3
      <3>5. new[j] = i
        BY <1>3, <1>10, <3>2, <3>3, <3>4
      <3> QED
        BY <3>3, <3>5
    <2>3. CASE i > p
      <3>1. i \in p + 1 .. Len(all) /\ i + (TagSize - 1) \in 1 .. Len(content) /\ i \in Nat
        BY <1>1, <1>3, <1>9, <2>3
      <3>2. content[i + (TagSize - 1)].is = "tag"
        BY <1>9, <1>13, <3>1
      <3>3. PICK j \in ks : i + (TagSize - 1) = at[j]
        BY <3>1, <3>2 DEF HasTagsAt
      <3>4. j # k
        <4>1. i + (TagSize - 1) # p
          BY <1>1, <1>3, <2>3, <3>1
        <4> QED
          BY <3>3, <4>1 DEF p
      <3>5. ~(j < k)
        BY <1>1, <1>3, <1>11, <2>3, <3>1, <3>3, <3>4
      <3>6. new[j] = i
        <4>1. new[j] = at[j] - (TagSize - 1)
          BY <1>3, <1>10, <3>4, <3>5
        <4> QED
          BY <1>1, <3>1, <3>3, <4>1
      <3> QED
        BY <3>4, <3>6
    <2> QED
      BY <1>3, <2>1, <2>2, <2>3
  <1>14. ASSUME NEW i \in ks \ {k}, NEW j \in ks \ {k}, i < j
         PROVE  new[i] + TagSize <= new[j]
    <2>1. at[i] + TagSize <= at[j]
      BY <1>14 DEF HasTagsAt
    <2>2. i \in Nat /\ j \in Nat /\ i # k /\ j # k /\ at[i] \in Nat /\ at[j] \in Nat
      BY <1>10, <1>11
    <2>3. CASE j < k
      <3>1. new[i] = at[i] /\ new[j] = at[j]
        BY <1>3, <1>10, <1>14, <2>2, <2>3
      <3> QED
        BY <2>1, <3>1
    <2>4. CASE i > k
      <3>1. new[i] = at[i] - (TagSize - 1) /\ new[j] = at[j] - (TagSize - 1)
        BY <1>3, <1>10, <1>14, <2>2, <2>4
      <3> QED
        BY <1>1, <2>1, <2>2, <3>1
    <2>5. CASE i < k /\ j > k
      <3>1. new[i] = at[i] /\ new[j] = at[j] - (TagSize - 1)
        BY <1>10, <2>5
      <3>2. at[i] + TagSize <= p /\ p + TagSize <= at[j]
        BY <1>11, <2>5
      <3> QED
        BY <1>1, <1>3, <2>2, <3>1, <3>2
    <2> QED
      BY <1>3, <1>14, <2>2, <2>3, <2>4, <2>5
  <1>15. HasTagsAt(all, ks \ {k}, new)
    BY <1>12, <1>13, <1>14 DEF HasTagsAt
  <1> QED
    BY <1>4, <1>8, <1>15

\* Distinct findings have tags at distinct places.
LEMMA PlacesCounted ==
  ASSUME NEW content, NEW ks \in SUBSET Nat, IsFiniteSet(ks), NEW at,
         HasTagsAt(content, ks, at), Len(content) \in Nat, NEW some \in SUBSET ks
  PROVE  Cardinality({at[j] : j \in some}) = Cardinality(some)
  <1> DEFINE places == {at[j] : j \in some}
             f == [j \in some |-> at[j]]
  <1>1. TagSize \in Nat /\ TagSize >= 2
    BY TagSizeType
  <1>2. \A j \in ks : at[j] \in Nat
    BY DEF HasTagsAt, TagAt
  <1>3. ASSUME NEW i \in ks, NEW j \in ks, at[i] = at[j] PROVE i = j
    <2>1. i \in Nat /\ j \in Nat /\ at[i] \in Nat /\ at[j] \in Nat
      BY <1>2
    <2>2. ~(i < j) /\ ~(j < i)
      BY <1>1, <1>3, <2>1 DEF HasTagsAt
    <2> QED
      BY <2>1, <2>2
  <1>4. f \in [some -> places]
    OBVIOUS
  <1>5. \A i, j \in some : f[i] = f[j] => i = j
    BY <1>3
  <1>6. \A t \in places : \E j \in some : f[j] = t
    OBVIOUS
  <1>7. f \in Bijection(some, places)
    <2> HIDE DEF f, places
    <2> QED
      BY <1>4, <1>5, <1>6 DEF Bijection, Injection, IsInjective, Surjection
  <1>8. ExistsBijection(some, places)
    <2> HIDE DEF f, places
    <2> QED
      BY <1>7 DEF ExistsBijection
  <1> HIDE DEF places, f
  <1>9. IsFiniteSet(some)
    BY FS_Subset
  <1>10. Cardinality(places) = Cardinality(some)
    BY <1>8, <1>9, FS_Bijection
  <1> QED
    BY <1>10 DEF places

\* A number is known by how many of a finite set are below it.
LEMMA CountBelow ==
  ASSUME NEW ks \in SUBSET Nat, IsFiniteSet(ks), NEW j \in ks, NEW k \in ks,
         Cardinality({i \in ks : i < j}) = Cardinality({i \in ks : i < k})
  PROVE  ~(j < k)
  <1> SUFFICES ASSUME j < k PROVE FALSE
    OBVIOUS
  <1> DEFINE low == {i \in ks : i < j}
             high == {i \in ks : i < k}
  <1>1. high \in SUBSET ks
    OBVIOUS
  <1>2. low \in SUBSET high
    <2>1. \A i \in ks : i < j => i < k
      <3>1. \A i \in ks : i \in Nat /\ j \in Nat /\ k \in Nat
        OBVIOUS
      <3> QED
        BY <3>1
    <2> QED
      BY <2>1
  <1>3. j \in high /\ j \notin low
    OBVIOUS
  <1>4. Cardinality(low) = Cardinality(high)
    OBVIOUS
  <1> HIDE DEF low, high
  <1>5. IsFiniteSet(high)
    BY <1>1, FS_Subset
  <1>6. high = low
    BY <1>2, <1>4, <1>5, FS_Subset
  <1> QED
    BY <1>3, <1>6

\* There are as many tags as findings, and the tag that as many others precede as
\* findings precede k is the one of k.
LEMMA TagsCounted ==
  ASSUME NEW content \in Seq(AnyCell), NEW ks \in SUBSET Nat, IsFiniteSet(ks), NEW at,
         HasTagsAt(content, ks, at), NEW k \in ks
  PROVE  /\ Cardinality(Tags(content)) = Cardinality(ks)
         /\ NthTag(content, Cardinality({j \in ks : j < k})) = at[k]
  <1> DEFINE tags == Tags(content)
             below(m) == {j \in ks : j < m}
  <1>1. TagSize \in Nat /\ TagSize >= 2 /\ Len(content) \in Nat
        /\ DOMAIN content = 1 .. Len(content)
    BY TagSizeType
  <1>2. \A j \in ks : at[j] \in 1 .. Len(content) /\ content[at[j]].is = "tag"
    BY CellFields DEF HasTagsAt, TagAt
  <1>3. tags = {at[j] : j \in ks}
    <2>1. tags = {i \in 1 .. Len(content) : content[i].is = "tag"}
      BY <1>1 DEF Tags
    <2>2. \A i \in tags : \E j \in ks : i = at[j]
      BY <2>1 DEF HasTagsAt
    <2> HIDE DEF tags
    <2> QED
      BY <1>2, <2>1, <2>2
  <1>4. Cardinality(tags) = Cardinality(ks)
    BY <1>1, <1>3, PlacesCounted
  <1>5. ASSUME NEW m \in ks
        PROVE  Cardinality({t \in tags : t < at[m]}) = Cardinality(below(m))
    <2> DEFINE some == below(m)
    <2>1. some \in SUBSET ks /\ some \in SUBSET Nat
      OBVIOUS
    <2>2. {t \in tags : t < at[m]} = {at[j] : j \in some}
      <3>1. ASSUME NEW j \in ks PROVE at[j] < at[m] <=> j < m
        <4>1. j \in Nat /\ m \in Nat /\ at[j] \in Nat /\ at[m] \in Nat
          BY <1>1, <1>2
        <4>2. j < m => at[j] + TagSize <= at[m]
          BY DEF HasTagsAt
        <4>3. m < j => at[m] + TagSize <= at[j]
          BY DEF HasTagsAt
        <4> QED
          BY <1>1, <4>1, <4>2, <4>3
      <3> HIDE DEF tags
      <3> QED
        BY <1>3, <3>1
    <2> HIDE DEF some
    <2>3. Cardinality({at[j] : j \in some}) = Cardinality(some)
      BY <1>1, <2>1, PlacesCounted
    <2> QED
      BY <2>2, <2>3 DEF some
  <1>6. NthTag(content, Cardinality(below(k))) = at[k]
    <2> DEFINE n == Cardinality(below(k))
    <2>1. at[k] \in tags /\ Cardinality({t \in tags : t < at[k]}) = n
      BY <1>3, <1>5
    <2>2. ASSUME NEW i \in tags, Cardinality({t \in tags : t < i}) = n PROVE i = at[k]
      <3>1. PICK m \in ks : i = at[m]
        BY <1>3
      <3>2. Cardinality(below(m)) = Cardinality(below(k))
        BY <1>5, <2>2, <3>1
      <3>3. ~(m < k) /\ ~(k < m)
        BY <3>2, CountBelow
      <3>4. m \in Nat /\ k \in Nat
        OBVIOUS
      <3>5. m = k
        BY <3>3, <3>4
      <3> QED
        BY <3>1, <3>5
    <2> HIDE DEF n
    <2>3. NthTag(content, n) = CHOOSE i \in tags : Cardinality({t \in tags : t < i}) = n
      BY DEF NthTag
    <2> HIDE DEF tags
    <2> QED
      BY <2>1, <2>2, <2>3 DEF n
  <1> QED
    BY <1>4, <1>6

\* The tag that is found by counting is the one of the finding.
LEMMA NthIsOwn ==
  ASSUME NEW content \in Seq(AnyCell), NEW ks \in SUBSET Nat, IsFiniteSet(ks), NEW at,
         HasTagsAt(content, ks, at), NEW k \in ks
  PROVE  NthTag(content, Cardinality({j \in ks : j < k})) = PlaceOf(content, k)
  <1>1. PlaceOf(content, k) = at[k]
    BY PlaceIs
  <1>2. NthTag(content, Cardinality({j \in ks : j < k})) = at[k]
    BY TagsCounted
  <1> QED
    BY <1>1, <1>2

\* A content that ends without a tag.
LEMMA TailAdded ==
  ASSUME NEW out \in Seq(AnyCell), NEW gap \in Seq(AnyCell), NoTag(gap),
         NEW ks, NEW at, HasTagsAt(out, ks, at)
  PROVE  out \o gap \in Seq(AnyCell) /\ HasTagsAt(out \o gap, ks, at)
  <1> DEFINE all == out \o gap
  <1>1. TagSize \in Nat /\ TagSize >= 2
    BY TagSizeType
  <1>2. /\ all \in Seq(AnyCell) /\ Len(all) = Len(out) + Len(gap)
        /\ Len(out) \in Nat /\ Len(gap) \in Nat
        /\ \A j \in 1 .. Len(out) : all[j] = out[j]
        /\ \A j \in 1 .. Len(gap) : all[Len(out) + j] = gap[j]
    BY TwoParts
  <1> HIDE DEF all
  <1>3. ASSUME NEW k \in ks PROVE TagAt(all, k, at[k])
    <2>1. TagAt(out, k, at[k])
      BY DEF HasTagsAt
    <2>2. at[k] \in 1 .. Len(out) /\ at[k] + TagSize - 1 <= Len(out)
      BY <2>1 DEF TagAt
    <2>3. \A i \in at[k] .. at[k] + TagSize - 1 : all[i + 0] = out[i]
      <3>1. \A i \in at[k] .. at[k] + TagSize - 1 : i \in 1 .. Len(out) /\ i + 0 = i
        BY <1>1, <1>2, <2>2
      <3> QED
        BY <1>2, <3>1
    <2>4. at[k] \in Int /\ at[k] + 0 = at[k] /\ at[k] + 0 >= 1 /\ 0 \in Int
          /\ at[k] + 0 + TagSize - 1 <= Len(all) /\ Len(all) \in Nat
      BY <1>1, <1>2, <2>2
    <2>5. TagAt(all, k, at[k] + 0)
      BY <1>2, <2>1, <2>3, <2>4, TagMoves
    <2> QED
      BY <2>4, <2>5
  <1>4. ASSUME NEW i \in 1 .. Len(all), all[i].is = "tag" PROVE \E k \in ks : i = at[k]
    <2>1. CASE i <= Len(out)
      <3>1. i \in 1 .. Len(out)
        BY <1>2, <2>1
      <3> QED
        BY <1>2, <1>4, <3>1 DEF HasTagsAt
    <2>2. CASE i > Len(out)
      <3>1. i - Len(out) \in 1 .. Len(gap) /\ Len(out) + (i - Len(out)) = i
        BY <1>2, <2>2
      <3>2. all[i] = gap[i - Len(out)]
        BY <1>2, <3>1
      <3> QED
        BY <1>4, <3>1, <3>2 DEF NoTag
    <2> QED
      BY <1>2, <2>1, <2>2
  <1>5. HasTagsAt(all, ks, at)
    BY <1>3, <1>4 DEF HasTagsAt
  <1> QED
    BY <1>2, <1>5 DEF all

\* The pass over a content without tags leaves one tag of each finding, in the order
\* of the findings, wherever they are and however they overlap.
LEMMA PassTags ==
  ASSUME NEW content \in Seq(AnyCell), NoTag(content), NEW fs, Placed(fs)
  PROVE  /\ BuildStagingContent(content, fs) \in Seq(AnyCell)
         /\ \E at : HasTagsAt(BuildStagingContent(content, fs), 1 .. Len(fs), at)
  <1> DEFINE built == Built(content, fs)
             Good(k) == \E at : HasTagsAt(built[k].out, 1 .. k, at)
             S == {k \in Nat : k <= Len(fs) => Good(k)}
  <1>0. Len(fs) \in Nat /\ Len(content) \in Nat
    BY DEF Placed
  <1>1. HasTags(AnyCell, Len(fs))
    <2>1. Cell(0, "nul") \in AnyCell
      BY DEF Cell, AnyCell
    <2>2. ASSUME NEW k \in 1 .. Len(fs), NEW symbol \in {"tag", "reason", "end"}
          PROVE  Cell(-k, symbol) \in AnyCell
      <3>1. -k \in Int
        OBVIOUS
      <3> QED
        BY <3>1 DEF Cell, AnyCell
    <2> QED
      BY <2>1, <2>2 DEF HasTags
  <1>2. /\ built[0] = Unbuilt
        /\ \A k \in 1 .. Len(fs) : built[k] = Put(content, built[k - 1], fs[k], k)
        /\ \A k \in 0 .. Len(fs) : built[k].out \in Seq(AnyCell) /\ built[k].cursor \in Int
    BY <1>0, <1>1, BuiltDef, BuiltType
  <1> HIDE DEF built
  <1>3. Good(0)
    <2>1. built[0].out = << >>
      BY <1>2 DEF Unbuilt
    <2>2. HasTagsAt(<< >>, 1 .. 0, << >>)
      <3>1. Len(<< >>) = 0 /\ \A k : k \notin 1 .. 0
        OBVIOUS
      <3> QED
        BY <3>1 DEF HasTagsAt
    <2> QED
      BY <2>1, <2>2
  <1>4. ASSUME NEW k \in Nat, Good(k), k + 1 <= Len(fs) PROVE Good(k + 1)
    <2>1. k + 1 \in 1 .. Len(fs) /\ k \in 0 .. Len(fs) /\ (k + 1) - 1 = k
      BY <1>0, <1>4
    <2>2. built[k].out \in Seq(AnyCell) /\ built[k].cursor \in Int /\ fs[k + 1].from \in Int
      BY <1>2, <2>1 DEF Placed
    <2> DEFINE gap == Slice(content, built[k].cursor, fs[k + 1].from)
    <2>3. gap \in Seq(AnyCell) /\ NoTag(gap)
      BY <2>2, SliceNoTag
    <2>4. built[k + 1].out = built[k].out \o gap \o Tag(k + 1)
      <3> HIDE DEF Good, S
      <3>1. built[k + 1] = Put(content, built[k], fs[k + 1], k + 1)
        BY <1>2, <2>1
      <3>2. Put(content, built[k], fs[k + 1], k + 1).out = built[k].out \o gap \o Tag(k + 1)
        BY DEF Put
      <3> QED
        BY <3>1, <3>2
    <2>5. PICK at : HasTagsAt(built[k].out, 1 .. k, at)
      BY <1>4
    <2> HIDE DEF gap, Good, S
    <2>6. \E new : HasTagsAt(built[k].out \o gap \o Tag(k + 1), 1 .. k + 1, new)
      BY <2>2, <2>3, <2>5, TagAdded
    <2> QED
      BY <2>4, <2>6 DEF Good
  <1>5. 0 \in S /\ \A k \in Nat : k \in S => k + 1 \in S
    <2> HIDE DEF Good
    <2> QED
      BY <1>0, <1>3, <1>4
  <1>6. Nat \subseteq S
    <2> HIDE DEF S
    <2> QED
      BY <1>5, SetInduction
  <1> DEFINE last == built[Len(fs)]
             rest == Slice(content, last.cursor, Len(content))
  <1>7. last.out \in Seq(AnyCell) /\ last.cursor \in Int
    BY <1>0, <1>2
  <1>8. PICK at : HasTagsAt(last.out, 1 .. Len(fs), at)
    BY <1>0, <1>6
  <1> HIDE DEF last
  <1>9. rest \in Seq(AnyCell) /\ NoTag(rest)
    BY <1>0, <1>7, SliceNoTag
  <1> HIDE DEF rest, S
  <1>10. last.out \o rest \in Seq(AnyCell) /\ HasTagsAt(last.out \o rest, 1 .. Len(fs), at)
    BY <1>7, <1>8, <1>9, TailAdded
  <1>11. BuildStagingContent(content, fs) = last.out \o rest
    BY DEF BuildStagingContent, last, rest, built
  <1> QED
    BY <1>10, <1>11

\* ResolveEach(content, ks) before and after each resolution.
LEMMA ResolveEachDef ==
  ASSUME NEW content, NEW ks, Len(ks) \in Nat
  PROVE  /\ ResolveEach(content, ks)[0] = content
         /\ \A n \in 1 .. Len(ks) :
               ResolveEach(content, ks)[n] = ResolveOwn(ResolveEach(content, ks)[n - 1], ks[n])
  <1> DEFINE Step(f, n) == IF n = 0 THEN content ELSE ResolveOwn(f[n - 1], ks[n])
             Solved(m) == \E f : f = [n \in 0 .. m |-> Step(f, n)]
             S == {m \in Nat : Solved(m)}
  <1>1. Solved(0)
    <2> DEFINE f == [n \in 0 .. 0 |-> content]
    <2>1. f = [n \in 0 .. 0 |-> Step(f, n)]
      OBVIOUS
    <2> QED
      BY <2>1
  <1>2. ASSUME NEW m \in Nat, Solved(m) PROVE Solved(m + 1)
    <2>1. PICK f : f = [n \in 0 .. m |-> Step(f, n)]
      BY <1>2
    <2> DEFINE g == [n \in 0 .. m + 1 |-> IF n <= m THEN f[n] ELSE Step(f, m + 1)]
    <2> HIDE DEF Solved, S
    <2>2. \A n \in 0 .. m : g[n] = f[n]
      OBVIOUS
    <2>3. \A n \in 0 .. m + 1 : n # 0 => n - 1 \in 0 .. m
      OBVIOUS
    <2>4. g[m + 1] = Step(f, m + 1)
      OBVIOUS
    <2>5. \A n \in 0 .. m + 1 : Step(g, n) = Step(f, n)
      BY <2>2, <2>3
    <2>6. \A n \in 0 .. m + 1 : g[n] = Step(g, n)
      <3> HIDE DEF g, Step
      <3>1. \A n \in 0 .. m : f[n] = Step(f, n)
        BY <2>1
      <3> QED
        BY <3>1, <2>2, <2>4, <2>5
    <2>7. g = [n \in 0 .. m + 1 |-> Step(g, n)]
      BY <2>6
    <2> HIDE DEF g
    <2> QED
      BY <2>7 DEF Solved
  <1>3. Solved(Len(ks))
    <2> HIDE DEF Solved
    <2>0. 0 \in S /\ \A m \in Nat : m \in S => m + 1 \in S
      BY <1>1, <1>2
    <2>1. Nat \subseteq S
      <3> HIDE DEF S
      <3> QED
        BY <2>0, SetInduction
    <2> QED
      BY <2>1
  <1>4. PICK f : f = [n \in 0 .. Len(ks) |-> Step(f, n)]
    BY <1>3
  <1>5. ResolveEach(content, ks) = CHOOSE g : g = [n \in 0 .. Len(ks) |-> Step(g, n)]
    BY DEF ResolveEach
  <1>6. ResolveEach(content, ks) = [n \in 0 .. Len(ks) |-> Step(ResolveEach(content, ks), n)]
    BY <1>4, <1>5
  <1>7. \A n \in 0 .. Len(ks) : ResolveEach(content, ks)[n] = Step(ResolveEach(content, ks), n)
    <2> HIDE DEF Step
    <2> QED
      BY <1>6
  <1> QED
    BY <1>7

\* A sequence of a finite set has each of its elements once.
LEMMA SequenceOf ==
  ASSUME NEW done, IsFiniteSet(done), NEW ks \in SetToSeqs(done)
  PROVE  /\ Len(ks) \in Nat
         /\ \A i \in 1 .. Len(ks) : ks[i] \in done
         /\ \A i, j \in 1 .. Len(ks) : i # j => ks[i] # ks[j]
         /\ \A k \in done : \E i \in 1 .. Len(ks) : k = ks[i]
  <1> DEFINE n == Cardinality(done)
  <1>1. n \in Nat
    BY FS_CardinalityType
  <1>2. ks \in [1 .. n -> done] /\ \A i, j \in 1 .. n : i # j => ks[i] # ks[j]
    BY DEF SetToSeqs
  <1> HIDE DEF n
  <1>3. Len(ks) = n
    BY <1>1, <1>2
  <1>4. ks \in Injection(1 .. n, done)
    BY <1>2 DEF Injection, IsInjective
  <1>5. Cardinality(1 .. n) = n
    BY <1>1, FS_Interval
  <1>6. ks \in Surjection(1 .. n, done)
    BY <1>4, <1>5, FS_Injection DEF n
  <1> QED
    BY <1>1, <1>2, <1>3, <1>6 DEF Surjection

\* The resolutions of some findings, in any order, leave the tags of the others.
LEMMA OthersStay ==
  ASSUME NEW content \in Seq(AnyCell), NEW all \in SUBSET Nat, NEW at, HasTagsAt(content, all, at),
         NEW done \in SUBSET all, IsFiniteSet(done), NEW ks \in SetToSeqs(done)
  PROVE  /\ ResolveEach(content, ks)[Len(ks)] \in Seq(AnyCell)
         /\ \E new : HasTagsAt(ResolveEach(content, ks)[Len(ks)], all \ done, new)
  <1> DEFINE resolved == ResolveEach(content, ks)
             Left(n) == {k \in all : \A i \in 1 .. n : k # ks[i]}
             Good(n) == /\ resolved[n] \in Seq(AnyCell)
                        /\ \E new : HasTagsAt(resolved[n], Left(n), new)
             S == {n \in Nat : n <= Len(ks) => Good(n)}
  <1>0. /\ Len(ks) \in Nat
        /\ \A i \in 1 .. Len(ks) : ks[i] \in done
        /\ \A i, j \in 1 .. Len(ks) : i # j => ks[i] # ks[j]
        /\ \A k \in done : \E i \in 1 .. Len(ks) : k = ks[i]
    BY SequenceOf
  <1>1. /\ resolved[0] = content
        /\ \A n \in 1 .. Len(ks) : resolved[n] = ResolveOwn(resolved[n - 1], ks[n])
    BY <1>0, ResolveEachDef
  <1> HIDE DEF resolved
  <1>2. Good(0)
    <2>1. Left(0) = all
      OBVIOUS
    <2> HIDE DEF Left
    <2> QED
      BY <1>1, <2>1
  <1>3. ASSUME NEW n \in Nat, Good(n), n + 1 <= Len(ks) PROVE Good(n + 1)
    <2>1. n + 1 \in 1 .. Len(ks) /\ (n + 1) - 1 = n
      BY <1>0, <1>3
    <2>2. resolved[n + 1] = ResolveOwn(resolved[n], ks[n + 1])
      BY <1>1, <2>1
    <2>3. ks[n + 1] \in Left(n)
      <3>1. \A i \in 1 .. n : i \in 1 .. Len(ks) /\ i # n + 1
        BY <1>0, <1>3
      <3> QED
        BY <1>0, <2>1, <3>1
    <2>4. Left(n + 1) = Left(n) \ {ks[n + 1]}
      <3>1. \A i \in 1 .. n + 1 : i \in 1 .. n \/ i = n + 1
        OBVIOUS
      <3>2. \A i \in 1 .. n : i \in 1 .. n + 1
        OBVIOUS
      <3>3. n + 1 \in 1 .. n + 1
        OBVIOUS
      <3> QED
        BY <3>1, <3>2, <3>3
    <2>5. Left(n) \in SUBSET Nat
      OBVIOUS
    <2>6. PICK new : HasTagsAt(resolved[n], Left(n), new)
      BY <1>3
    <2>7. resolved[n] \in Seq(AnyCell)
      BY <1>3
    <2> HIDE DEF Left, Good, S
    <2>8. /\ ResolveOwn(resolved[n], ks[n + 1]) \in Seq(AnyCell)
          /\ \E next : HasTagsAt(ResolveOwn(resolved[n], ks[n + 1]), Left(n) \ {ks[n + 1]}, next)
      BY <2>3, <2>5, <2>6, <2>7, TagReplaced
    <2> QED
      BY <2>2, <2>4, <2>8 DEF Good
  <1>4. 0 \in S /\ \A n \in Nat : n \in S => n + 1 \in S
    <2> HIDE DEF Good
    <2> QED
      BY <1>0, <1>2, <1>3
  <1>5. Nat \subseteq S
    <2> HIDE DEF S
    <2> QED
      BY <1>4, SetInduction
  <1>6. Good(Len(ks))
    <2>1. Len(ks) \in S
      <3> HIDE DEF S
      <3> QED
        BY <1>0, <1>5
    <2> HIDE DEF Good
    <2> QED
      BY <1>0, <2>1
  <1>7. Left(Len(ks)) = all \ done
    BY <1>0
  <1> HIDE DEF Left
  <1> QED
    BY <1>6, <1>7 DEF resolved

\* Of the numbers below k those that are done and those that are left add up.
LEMMA CountLeft ==
  ASSUME NEW n \in Nat, NEW k \in 1 .. n, NEW done \in SUBSET (1 .. n), k \notin done
  PROVE  /\ IsFiniteSet((1 .. n) \ done) /\ IsFiniteSet(done)
         /\ Cardinality({j \in (1 .. n) \ done : j < k}) \in Nat
         /\ Cardinality({j \in (1 .. n) \ done : j < k})
               = k - 1 - Cardinality({j \in done : j < k})
         /\ Cardinality({j \in (1 .. n) \ done : j < k}) < Cardinality((1 .. n) \ done)
         /\ Cardinality((1 .. n) \ done) \in Nat
  <1> DEFINE left == (1 .. n) \ done
             a == {j \in left : j < k}
             b == {j \in done : j < k}
  <1>1. IsFiniteSet(1 .. n)
    BY FS_Interval
  <1>2. left \in SUBSET (1 .. n) /\ a \in SUBSET left /\ b \in SUBSET done /\ k \in left /\ k \notin a
    OBVIOUS
  <1>3. a \cup b = 1 .. k - 1 /\ a \cap b = {}
    <2>1. \A j \in 1 .. k - 1 : j \in 1 .. n /\ j < k
      OBVIOUS
    <2>2. \A j \in 1 .. n : j < k => j \in 1 .. k - 1
      OBVIOUS
    <2>3. a \cup b \subseteq 1 .. k - 1
      BY <2>2
    <2>4. 1 .. k - 1 \subseteq a \cup b
      BY <2>1
    <2> QED
      BY <2>3, <2>4
  <1> HIDE DEF left, a, b
  <1>4. IsFiniteSet(left) /\ IsFiniteSet(done)
    BY <1>1, <1>2, FS_Subset
  <1>5. IsFiniteSet(a) /\ IsFiniteSet(b)
    BY <1>2, <1>4, FS_Subset
  <1>6. /\ Cardinality(a) \in Nat /\ Cardinality(b) \in Nat /\ Cardinality(left) \in Nat
    BY <1>4, <1>5, FS_CardinalityType
  <1>7. Cardinality(1 .. k - 1) = k - 1
    <2>1. k - 1 \in Int /\ 1 \in Int /\ (k - 1) - 1 + 1 = k - 1 /\ (1 > k - 1 => k - 1 = 0)
      OBVIOUS
    <2> QED
      BY <2>1, FS_Interval
  <1>8. Cardinality(a) + Cardinality(b) = k - 1
    <2>1. Cardinality(a \cup b) = Cardinality(a) + Cardinality(b) - Cardinality(a \cap b)
      BY <1>5, FS_Union
    <2>2. Cardinality(a \cap b) = 0
      BY <1>3, FS_EmptySet
    <2>3. Cardinality(a \cup b) = k - 1
      BY <1>3, <1>7, Zenon
    <2>4. Cardinality(a) + Cardinality(b) - 0 = k - 1
      BY <2>1, <2>2, <2>3, Zenon
    <2> QED
      BY <1>6, <2>4
  <1>9. Cardinality(a) < Cardinality(left)
    <2>1. Cardinality(a) <= Cardinality(left) /\ (Cardinality(left) = Cardinality(a) => left = a)
      BY <1>2, <1>4, FS_Subset
    <2>2. left # a
      BY <1>2
    <2> QED
      BY <1>6, <2>1, <2>2
  <1>10. Cardinality(a) = k - 1 - Cardinality(b)
    BY <1>6, <1>8
  <1> QED
    BY <1>4, <1>6, <1>9, <1>10 DEF left, a, b

\* Below some number of a finite set there are as many of it as one likes.
LEMMA BelowExists ==
  ASSUME NEW ks \in SUBSET Nat, IsFiniteSet(ks), NEW t \in Nat, t < Cardinality(ks)
  PROVE  \E j \in ks : Cardinality({i \in ks : i < j}) = t
  <1> DEFINE below(j) == {i \in ks : i < j}
             S == {m \in Nat : m < Cardinality(ks) => \E j \in ks : Cardinality(below(j)) = m}
  <1>1. 0 \in S
    <2> SUFFICES ASSUME 0 < Cardinality(ks) PROVE \E j \in ks : Cardinality(below(j)) = 0
      OBVIOUS
    <2>1. ks # {}
      BY FS_EmptySet
    <2>2. PICK j \in ks : \A i \in ks : j <= i
      BY <2>1, LeastNat
    <2>3. below(j) = {}
      <3>1. \A i \in ks : ~(i < j)
        <4>1. \A i \in ks : i \in Nat /\ j \in Nat /\ j <= i
          BY <2>2
        <4> QED
          BY <4>1
      <3> QED
        BY <3>1
    <2> QED
      BY <2>3, FS_EmptySet
  <1>2. ASSUME NEW m \in Nat, m \in S PROVE m + 1 \in S
    <2> SUFFICES ASSUME m + 1 < Cardinality(ks)
                 PROVE  \E j \in ks : Cardinality(below(j)) = m + 1
      OBVIOUS
    <2>1. Cardinality(ks) \in Nat
      BY FS_CardinalityType
    <2>2. m < Cardinality(ks)
      BY <2>1
    <2>3. PICK j \in ks : Cardinality(below(j)) = m
      BY <1>2, <2>2
    <2> DEFINE next == below(j) \cup {j}
               above == ks \ next
    <2>4. below(j) \in SUBSET ks /\ j \notin below(j)
      OBVIOUS
    <2>5. Cardinality(next) = m + 1
      <3> DEFINE low == below(j)
      <3>1. IsFiniteSet(low)
        BY <2>4, FS_Subset
      <3> HIDE DEF low
      <3> QED
        BY <2>3, <2>4, <3>1, FS_AddElement DEF low
    <2>6. above # {}
      <3>1. next \subseteq ks
        OBVIOUS
      <3>2. next # ks
        BY <2>1, <2>5
      <3> HIDE DEF next
      <3> QED
        BY <3>1, <3>2
    <2>7. above \in SUBSET Nat
      OBVIOUS
    <2>8. PICK k \in above : \A i \in above : k <= i
      <3> HIDE DEF above
      <3> QED
        BY <2>6, <2>7, LeastNat
    <2>9. below(k) = next
      <3>1. \A i \in ks : i \in Nat
        OBVIOUS
      <3>2. k \in Nat /\ j \in Nat /\ j < k
        BY <2>8, <3>1
      <3>3. \A i \in above : ~(i < k)
        BY <2>8, <3>1
      <3>4. below(k) \subseteq next
        BY <3>3
      <3>5. next \subseteq below(k)
        <4>1. \A i \in ks : i < j => i < k
          BY <3>1, <3>2
        <4> QED
          BY <3>2, <4>1
      <3> QED
        BY <3>4, <3>5
    <2> QED
      BY <2>5, <2>8, <2>9
  <1> HIDE DEF S
  <1>3. t \in S
    BY <1>1, <1>2, SetInduction
  <1> QED
    BY <1>3 DEF S

-------------------------------------------------------------------------------
(* The inductive invariant: the types, that every finding lies outside the  *)
(* zones, that the zones are merged from the protected ones, and that the   *)
(* staged file is the one that was built from the findings.                 *)

MostIn(p) == IF p \in {"idle", "read"} THEN 0
             ELSE IF p = "layer1" THEN Cardinality(Secrets)
             ELSE IF p = "layer2" THEN Cardinality(Secrets) + MaxReported
             ELSE Most

FileInv ==
    /\ pass \in {"idle", "read", "layer1", "layer2", "layer3", "filing"}
    /\ scans \in 0 .. MaxScans /\ copies \in 0 .. MaxCopies
    /\ approved \subseteq ApprovedValues
    /\ zones \subseteq Zones
    /\ seen \in Seq(Cells) /\ staged \in Seq(Cells)
    /\ found \in Seq(Ranges) /\ filed \in 0 .. Len(found)
    /\ Len(found) <= MostIn(pass)
    /\ AllOutside(found)
    /\ pass # "idle" => zones \in MergeSkipZones(Protected(approved))
    /\ pass = "filing" => staged = BuildStagingContent(Original, found)

Steps(n) == [at : {"idle", "found", "locked"}, emoji : Emojis \union {"none"}, row : 0 .. n]

RowsInv ==
    /\ rows \in Seq(Rows) /\ stored \in BOOLEAN /\ handled \in 0 .. MaxReactions
    /\ step \in [Handlers -> Steps(Len(rows))]
    /\ settling \subseteq DOMAIN rows /\ lock \in {"free", "held"}

FindingsInv == FileInv /\ RowsInv

LEMMA InitInv == Init => FindingsInv
  <1> SUFFICES ASSUME Init PROVE FindingsInv
    OBVIOUS
  <1> USE DEF Init
  <1>1. FileInv
    <2>1. << >> \in Seq(Cells) /\ << >> \in Seq(Ranges) /\ Len(<< >>) = 0 /\ DOMAIN << >> = {}
      OBVIOUS
    <2>2. 0 \in 0 .. MaxScans /\ 0 \in 0 .. MaxCopies
      BY FindingsConstantsOK DEF FindingsConstantsOK
    <2> QED
      BY <2>1, <2>2 DEF FileInv, MostIn, AllOutside
  <1>2. RowsInv
    <2>1. << >> \in Seq(Rows) /\ Len(<< >>) = 0
      OBVIOUS
    <2>2. Idle \in Steps(0)
      BY DEF Idle, Steps
    <2>3. 0 \in 0 .. MaxReactions /\ stored \in BOOLEAN
      BY FindingsConstantsOK DEF FindingsConstantsOK
    <2> QED
      BY <2>1, <2>2, <2>3 DEF RowsInv
  <1> QED
    BY <1>1, <1>2 DEF FindingsInv

\* A layer adds findings outside the zones, and builds what the next one is given.
LEMMA ScannedStep ==
  ASSUME FileInv, NEW fs \in Seq(Ranges), AllOutside(fs), Scanned(fs),
         Len(found) + Len(fs) <= Most, NEW next, pass' = next,
         pass # "idle", next \in {"layer1", "layer2", "layer3"},
         Len(found) + Len(fs) <= MostIn(next)
  PROVE  FileInv'
  <1>1. /\ found' = found \o fs
        /\ \E high \in Sorts(Keep(fs, {f \in Range(fs) : f.high})) :
              seen' = BuildStagingContent(seen, high)
        /\ UNCHANGED <<scans, copies, approved, zones, filed, staged>>
    BY DEF Scanned
  <1>2. /\ found \in Seq(Ranges) /\ Len(found) \in Nat /\ Len(fs) \in Nat
        /\ Most \in Nat /\ seen \in Seq(Cells)
    BY SecretsFinite DEF FileInv
  <1>3. /\ found' \in Seq(Ranges) /\ Len(found') = Len(found) + Len(fs)
        /\ \A k \in DOMAIN found' :
              \/ \E j \in DOMAIN found : found'[k] = found[j]
              \/ \E j \in DOMAIN fs : found'[k] = fs[j]
    <2>1. \A k \in 1 .. Len(found) + Len(fs) :
             \/ k \in DOMAIN found /\ (found \o fs)[k] = found[k]
             \/ k - Len(found) \in DOMAIN fs /\ (found \o fs)[k] = fs[k - Len(found)]
      BY <1>2
    <2>2. found \o fs \in Seq(Ranges) /\ Len(found \o fs) = Len(found) + Len(fs)
      BY <1>2
    <2>3. DOMAIN (found \o fs) = 1 .. Len(found) + Len(fs)
      BY <2>2
    <2> QED
      BY <1>1, <2>1, <2>2, <2>3
  <1>4. AllOutside(found)'
    <2>1. \A k \in DOMAIN found : ~IsInSkipZone(found[k].from, found[k].to, zones)
      BY DEF FileInv, AllOutside
    <2>2. \A k \in DOMAIN fs : ~IsInSkipZone(fs[k].from, fs[k].to, zones)
      BY DEF AllOutside
    <2>3. zones' = zones
      BY <1>1
    <2>4. \A k \in DOMAIN found' : ~IsInSkipZone(found'[k].from, found'[k].to, zones)
      BY <1>3, <2>1, <2>2
    <2> QED
      BY <2>3, <2>4 DEF AllOutside, IsInSkipZone
  <1>5. seen' \in Seq(Cells)
    <2> DEFINE highs == {f \in Range(fs) : f.high}
               gs == Keep(fs, highs)
    <2>1. gs \in Seq(Ranges) /\ Len(gs) <= Len(fs)
      <3> HIDE DEF highs
      <3>1. gs \in Seq(Ranges \cap highs) /\ Len(gs) <= Len(fs)
        BY KeepType
      <3> QED
        BY <3>1
    <2>2. PICK high \in Sorts(gs) : seen' = BuildStagingContent(seen, high)
      BY <1>1
    <2> HIDE DEF gs
    <2>3. high \in Seq(Ranges) /\ Len(high) = Len(gs)
      BY <2>1, SortsType
    <2>4. Placed(high) /\ Len(high) \in Nat
      BY <2>3, RangeTypes
    <2>5. Len(high) <= Most
      BY <1>2, <2>1, <2>3, <2>4
    <2>6. HasTags(Cells, Len(high))
      BY <2>4, <2>5, CellsHave
    <2> QED
      BY <1>2, <2>2, <2>4, <2>6, BuildType
  <1>6. filed' \in 0 .. Len(found')
    <2>1. filed \in 0 .. Len(found)
      BY DEF FileInv
    <2> QED
      BY <1>1, <1>2, <1>3, <2>1
  <1>7. zones' \in MergeSkipZones(Protected(approved'))
    BY <1>1 DEF FileInv
  <1>8. /\ pass' \in {"idle", "read", "layer1", "layer2", "layer3", "filing"}
        /\ pass' # "filing" /\ Len(found') <= MostIn(pass')
    BY <1>3
  <1>9. (zones \in MergeSkipZones(Protected(approved)))'
    BY <1>7 DEF Protected
  <1> QED
    BY <1>1, <1>3, <1>4, <1>5, <1>6, <1>8, <1>9 DEF FileInv

\* What a step that leaves the file alone, or only copies it, does to FileInv.
LEMMA FileSame ==
  ASSUME FileInv, UNCHANGED <<pass, scans, approved, zones, seen, found, filed>>,
         copies' \in 0 .. MaxCopies,
         \/ staged' = staged
         \/ pass = "idle" /\ staged' = Original
  PROVE  FileInv'
  <1>1. staged' \in Seq(Cells)
    BY CellsHave DEF FileInv
  <1>2. pass' = "filing" => staged' = BuildStagingContent(Original, found)
    BY DEF FileInv
  <1>3. AllOutside(found)'
    BY DEF FileInv, AllOutside, IsInSkipZone
  <1> QED
    BY <1>1, <1>2, <1>3 DEF FileInv, Protected, MostIn

\* The sync forgets the file.
LEMMA Forgotten ==
  ASSUME FileInv, pass' = "idle", approved' = {}, zones' = {}, seen' = << >>, found' = << >>,
         filed' = 0, UNCHANGED <<scans, copies, staged>>
  PROVE  FileInv'
  <1>1. << >> \in Seq(Cells) /\ << >> \in Seq(Ranges) /\ Len(<< >>) = 0 /\ DOMAIN << >> = {}
    OBVIOUS
  <1> QED
    BY <1>1 DEF FileInv, MostIn, AllOutside

LEMMA BeginStep ==
  ASSUME FileInv, Begin
  PROVE  FileInv'
  <1> USE DEF Begin
  <1>1. << >> \in Seq(Ranges) /\ Len(<< >>) = 0 /\ DOMAIN << >> = {}
    OBVIOUS
  <1>2. scans' \in 0 .. MaxScans
    BY FindingsConstantsOK DEF FileInv, FindingsConstantsOK
  <1>3. zones' \subseteq Zones
    <2>1. approved' \in SUBSET ApprovedValues
      OBVIOUS
    <2>2. Protected(approved') \subseteq Zones
      BY <2>1, ProtectedType
    <2> QED
      BY <2>2, MergeCovers
  <1>4. (zones \in MergeSkipZones(Protected(approved)))'
    BY DEF Protected
  <1>5. seen' \in Seq(Cells)
    BY CellsHave
  <1>6. AllOutside(found)' /\ Len(found') <= MostIn(pass') /\ filed' \in 0 .. Len(found')
    BY <1>1 DEF AllOutside, MostIn
  <1>7. found' \in Seq(Ranges)
    BY <1>1
  <1> QED
    BY <1>2, <1>3, <1>4, <1>5, <1>6, <1>7 DEF FileInv

LEMMA Layer1Step ==
  ASSUME FileInv, Layer1
  PROVE  FileInv'
  <1>0. PICK hits \in SUBSET Secrets :
           \E q \in SetToSeqs(hits) :
              Scanned(Outside([i \in DOMAIN q |-> Finding(ColumnRange(q[i]), TRUE)]))
    BY DEF Layer1
  <1>1. PICK q \in SetToSeqs(hits) :
           Scanned(Outside([i \in DOMAIN q |-> Finding(ColumnRange(q[i]), TRUE)]))
    BY <1>0
  <1>2. pass = "read" /\ pass' = "layer1"
    BY DEF Layer1
  <1> DEFINE n == Cardinality(hits)
             fs == [i \in DOMAIN q |-> Finding(ColumnRange(q[i]), TRUE)]
  <1>3. IsFiniteSet(hits) /\ n \in Nat /\ n <= Cardinality(Secrets)
    BY SecretsFinite, FS_Subset, FS_CardinalityType
  <1>4. q \in [1 .. n -> hits]
    BY DEF SetToSeqs
  <1> HIDE DEF n
  <1>5. fs \in [1 .. n -> Ranges]
    <2>1. \A i \in 1 .. n : q[i] \in Secrets
      BY <1>4
    <2>2. \A i \in 1 .. n : Finding(ColumnRange(q[i]), TRUE) \in Ranges
      BY <2>1, ColumnType
    <2> QED
      BY <1>4, <2>2
  <1>6. fs \in Seq(Ranges) /\ Len(fs) = n
    <2> HIDE DEF fs
    <2> QED
      BY <1>3, <1>5
  <1> HIDE DEF fs
  <1>7. /\ Outside(fs) \in Seq(Ranges) /\ Len(Outside(fs)) <= n /\ AllOutside(Outside(fs))
        /\ Len(Outside(fs)) \in Nat
    <2>1. /\ Outside(fs) \in Seq(Ranges) /\ Len(Outside(fs)) <= Len(fs)
          /\ AllOutside(Outside(fs))
      BY <1>6, OutsideType
    <2> QED
      BY <1>6, <2>1
  <1>8. Len(found) = 0
    BY <1>2 DEF FileInv, MostIn
  <1>9. /\ Len(found) + Len(Outside(fs)) <= Most
        /\ Len(found) + Len(Outside(fs)) <= MostIn("layer1")
    <2>1. MostIn("layer1") = Cardinality(Secrets) /\ Most = MaxReported + Cardinality(Secrets) + 1
      BY DEF MostIn, Most
    <2> QED
      BY <1>3, <1>7, <1>8, <2>1, SecretsFinite, FindingsConstantsOK DEF FindingsConstantsOK
  <1>10. Scanned(Outside(fs))
    BY <1>1 DEF fs
  <1> QED
    BY <1>2, <1>7, <1>9, <1>10, ScannedStep

LEMMA Layer2Step ==
  ASSUME FileInv, Layer2
  PROVE  FileInv'
  <1>0. PICK n \in 0 .. MaxReported :
           \E reports \in [1 .. n -> Reported] : Scanned(LocatedAll(reports))
    BY DEF Layer2
  <1>1. PICK reports \in [1 .. n -> Reported] : Scanned(LocatedAll(reports))
    BY <1>0
  <1>2. pass = "layer1" /\ pass' = "layer2"
    BY DEF Layer2
  <1> DEFINE fs == LocatedAll(reports)
  <1>3. fs \in Seq(Ranges) /\ Len(fs) <= MaxReported /\ AllOutside(fs)
    <2>1. seen \in Seq(Cells)
      BY DEF FileInv
    <2> QED
      BY <2>1, LocatedType
  <1>4. Scanned(fs)
    BY <1>1
  <1> HIDE DEF fs
  <1>5. Len(fs) \in Nat /\ Len(found) \in Nat /\ Len(found) <= Cardinality(Secrets)
    BY <1>2, <1>3 DEF FileInv, MostIn
  <1>6. /\ Len(found) + Len(fs) <= Most
        /\ Len(found) + Len(fs) <= MostIn("layer2")
    <2>1. /\ MostIn("layer2") = Cardinality(Secrets) + MaxReported
          /\ Most = MaxReported + Cardinality(Secrets) + 1
      BY DEF MostIn, Most
    <2> QED
      BY <1>3, <1>5, <2>1, SecretsFinite, FindingsConstantsOK DEF FindingsConstantsOK
  <1> QED
    BY <1>2, <1>3, <1>4, <1>6, ScannedStep

LEMMA Layer3Step ==
  ASSUME FileInv, Layer3
  PROVE  FileInv'
  <1>1. pass = "layer2" /\ pass' = "layer3"
    BY DEF Layer3
  <1>2. \E fs \in Seq(Ranges) : Scanned(fs) /\ AllOutside(fs) /\ Len(fs) <= 1
    <2>1. CASE Scanned(<< >>)
      <3>1. << >> \in Seq(Ranges) /\ Len(<< >>) <= 1 /\ DOMAIN << >> = {}
        OBVIOUS
      <3> QED
        BY <2>1, <3>1 DEF AllOutside
    <2>2. ASSUME NEW f \in Claimed, InBounds(f), Scanned(Outside(<<f>>))
          PROVE  \E fs \in Seq(Ranges) : Scanned(fs) /\ AllOutside(fs) /\ Len(fs) <= 1
      <3>1. f \in Ranges
        <4>1. f.from >= 0
          BY <2>2 DEF InBounds
        <4>2. Offsets \subseteq Int
          BY FindingsConstantsOK DEF FindingsConstantsOK
        <4>3. f = [from |-> f.from, to |-> f.to, high |-> f.high]
          BY DEF Claimed
        <4>4. f.from \in Int /\ f.to \in Int /\ f.high \in BOOLEAN
          BY <4>2 DEF Claimed
        <4> QED
          BY <4>1, <4>3, <4>4 DEF Ranges
      <3>2. <<f>> \in Seq(Ranges) /\ Len(<<f>>) = 1
        BY <3>1
      <3>3. /\ Outside(<<f>>) \in Seq(Ranges) /\ Len(Outside(<<f>>)) <= Len(<<f>>)
            /\ AllOutside(Outside(<<f>>))
        BY <3>2, OutsideType
      <3> QED
        BY <2>2, <3>2, <3>3
    <2> QED
      BY <2>1, <2>2 DEF Layer3
  <1>3. PICK fs \in Seq(Ranges) : Scanned(fs) /\ AllOutside(fs) /\ Len(fs) <= 1
    BY <1>2
  <1>4. /\ Len(fs) \in Nat /\ Len(found) \in Nat
        /\ Len(found) <= Cardinality(Secrets) + MaxReported
    BY <1>1 DEF FileInv, MostIn
  <1>5. /\ Len(found) + Len(fs) <= Most
        /\ Len(found) + Len(fs) <= MostIn("layer3")
    <2>1. MostIn("layer3") = Most /\ Most = MaxReported + Cardinality(Secrets) + 1
      BY DEF MostIn, Most
    <2> QED
      BY <1>3, <1>4, <2>1, SecretsFinite, FindingsConstantsOK DEF FindingsConstantsOK
  <1> QED
    BY <1>1, <1>3, <1>5, ScannedStep

LEMMA StageStep ==
  ASSUME FileInv, Stage
  PROVE  FileInv'
  <1>1. PICK fs \in Sorts(found) : found' = fs /\ staged' = BuildStagingContent(Original, fs)
    BY DEF Stage
  <1>2. /\ pass = "layer3" /\ pass' = "filing"
        /\ UNCHANGED <<scans, copies, approved, zones, seen, filed>>
    BY DEF Stage
  <1>3. found \in Seq(Ranges) /\ Len(found) \in Nat /\ Len(found) <= Most
    BY <1>2 DEF FileInv, MostIn
  <1>4. /\ fs \in Seq(Ranges) /\ Len(fs) = Len(found)
        /\ \A i \in DOMAIN fs : \E j \in DOMAIN found : fs[i] = found[j]
    BY <1>3, SortsType
  <1>5. staged' \in Seq(Cells)
    <2>1. Placed(fs) /\ HasTags(Cells, Len(fs)) /\ Original \in Seq(Cells)
      BY <1>3, <1>4, RangeTypes, CellsHave
    <2> QED
      BY <1>1, <2>1, BuildType
  <1>6. AllOutside(found)'
    <2>1. \A k \in DOMAIN found : ~IsInSkipZone(found[k].from, found[k].to, zones)
      BY DEF FileInv, AllOutside
    <2>2. \A k \in DOMAIN fs : ~IsInSkipZone(fs[k].from, fs[k].to, zones)
      BY <1>4, <2>1
    <2> QED
      BY <1>1, <1>2, <2>2 DEF AllOutside, IsInSkipZone
  <1>7. (zones \in MergeSkipZones(Protected(approved)))'
    BY <1>2 DEF FileInv, Protected
  <1>8. Len(found') <= MostIn(pass') /\ filed' \in 0 .. Len(found') /\ found' \in Seq(Ranges)
    BY <1>1, <1>2, <1>3, <1>4 DEF FileInv, MostIn
  <1>9. (staged = BuildStagingContent(Original, found))'
    BY <1>1
  <1> QED
    BY <1>2, <1>5, <1>6, <1>7, <1>8, <1>9 DEF FileInv

LEMMA FileStep ==
  ASSUME FileInv, File
  PROVE  FileInv'
  <1>1. /\ filed' = filed + 1 /\ filed < Len(found)
        /\ UNCHANGED <<pass, scans, copies, approved, zones, seen, found, staged>>
    BY DEF File
  <1>2. filed' \in 0 .. Len(found')
    BY <1>1 DEF FileInv
  <1>3. AllOutside(found)'
    BY <1>1 DEF FileInv, AllOutside, IsInSkipZone
  <1> QED
    BY <1>1, <1>2, <1>3 DEF FileInv, Protected, MostIn

-------------------------------------------------------------------------------
(* The rows and the reactions on them.                                     *)

LEMMA RowFacts ==
  ASSUME RowsInv
  PROVE  /\ Len(rows) \in Nat /\ DOMAIN rows = 1 .. Len(rows)
         /\ \A r \in DOMAIN rows : rows[r] \in Rows
         /\ \A h \in Handlers : step[h] \in Steps(Len(rows))
  BY DEF RowsInv

LEMMA IdleStep == \A n \in Nat : Idle \in Steps(n) /\ Idle.row = 0
  BY DEF Idle, Steps

\* A row is added; all others, and the reactions, stay as they are.
LEMMA Added ==
  ASSUME RowsInv, NEW new \in Rows, rows' = Append(rows, new),
         UNCHANGED <<stored, reactionVars>>
  PROVE  RowsInv'
  <1>1. UNCHANGED <<stored, step, handled, settling, lock>>
    BY DEF reactionVars
  <1>2. /\ rows' \in Seq(Rows) /\ Len(rows') = Len(rows) + 1 /\ Len(rows) \in Nat
        /\ DOMAIN rows = 1 .. Len(rows) /\ DOMAIN rows' = 1 .. Len(rows) + 1
    BY DEF RowsInv
  <1>3. Steps(Len(rows)) \subseteq Steps(Len(rows'))
    <2>1. 0 .. Len(rows) \subseteq 0 .. Len(rows')
      BY <1>2
    <2> QED
      BY <2>1 DEF Steps
  <1>4. step' \in [Handlers -> Steps(Len(rows'))]
    BY <1>1, <1>3 DEF RowsInv
  <1>5. settling' \subseteq DOMAIN rows'
    BY <1>1, <1>2 DEF RowsInv
  <1> QED
    BY <1>1, <1>2, <1>4, <1>5 DEF RowsInv, Steps

\* The status of a row changes.
LEMMA Changed ==
  ASSUME RowsInv, NEW r, NEW status \in {"rejected", "reanalyzing"},
         SetStatus(r, status)
  PROVE  /\ rows' \in Seq(Rows) /\ DOMAIN rows' = DOMAIN rows /\ Len(rows') = Len(rows)
         /\ \A q \in DOMAIN rows : q # r => rows'[q] = rows[q]
  <1>1. /\ Len(rows) \in Nat /\ DOMAIN rows = 1 .. Len(rows)
        /\ \A q \in DOMAIN rows : rows[q] \in Rows
    BY RowFacts
  <1>2. rows' = [rows EXCEPT ![r].status = status]
    BY DEF SetStatus
  <1>3. DOMAIN rows' = 1 .. Len(rows) /\ \A q \in DOMAIN rows : q # r => rows'[q] = rows[q]
    BY <1>1, <1>2
  <1>4. \A q \in DOMAIN rows : rows'[q] \in Rows
    <2>1. TAKE q \in DOMAIN rows
    <2>2. CASE q = r
      <3>1. rows'[q] = [rows[q] EXCEPT !.status = status]
        BY <1>1, <1>2, <2>2
      <3> QED
        BY <1>1, <3>1 DEF Rows
    <2>3. CASE q # r
      BY <1>1, <1>3, <2>3
    <2> QED
      BY <2>2, <2>3
  <1>5. rows' \in [1 .. Len(rows) -> Rows]
    <2>1. rows' = [q \in 1 .. Len(rows) |-> rows'[q]]
      BY <1>1, <1>2
    <2> QED
      BY <1>1, <1>4, <2>1
  <1>6. rows' \in Seq(Rows) /\ Len(rows') = Len(rows)
    BY <1>1, <1>5
  <1> QED
    BY <1>1, <1>3, <1>6

LEMMA IndexOfToken ==
  ASSUME NEW fs, NEW k \in Nat \ {0}, ~fs[k].high
  PROVE  TokenIndex(fs, k) \in Nat \ {0}
  <1> DEFINE waiting == {j \in 1 .. k : ~fs[j].high}
  <1>1. k \in waiting /\ waiting \in SUBSET (1 .. k)
    OBVIOUS
  <1>2. IsFiniteSet(1 .. k)
    BY FS_Interval
  <1> HIDE DEF waiting
  <1>3. Cardinality(waiting) \in Nat /\ Cardinality(waiting) # 0
    BY <1>1, <1>2, FS_Subset, FS_CardinalityType, FS_EmptySet
  <1> QED
    BY <1>3 DEF TokenIndex, waiting

\* The handler asks for the tag of index 0, which no resolution finds.
LEMMA NeverResolves ==
  ASSUME RowsInv, NEW r
  PROVE  ~ResolveTag(r, 0).ok
  <1> DEFINE decided == {q \in DOMAIN rows : rows[q].index < 0
                                             /\ rows[q].status \in {"approved", "rejected"}}
  <1>1. IsFiniteSet(DOMAIN rows) /\ decided \in SUBSET DOMAIN rows
    BY RowFacts, FS_Interval
  <1>2. Cardinality(decided) \in Nat
    <2> HIDE DEF decided
    <2> QED
      BY <1>1, FS_Subset, FS_CardinalityType
  <1>3. CountResolvedPredecessors(rows, 0) = Cardinality(decided)
    BY DEF CountResolvedPredecessors, Counted
  <1> HIDE DEF decided
  <1>4. 0 - 1 - CountResolvedPredecessors(rows, 0) < 0
    BY <1>2, <1>3
  <1> QED
    BY <1>4 DEF ResolveTag, ResolveTokenIndex

\* An approval leaves the file and the rows as they are.
LEMMA ApproveSame ==
  ASSUME RowsInv, NEW h \in Handlers, Approve(h)
  PROVE  UNCHANGED <<fileVars, rows, stored, handled>>
  <1>1. ~ResolveTag(step[h].row, 0).ok
    BY NeverResolves
  <1> QED
    BY <1>1 DEF Approve, fileVars

LEMMA RowsSame ==
  ASSUME RowsInv, UNCHANGED <<rows, stored, reactionVars>>
  PROVE  RowsInv'
  BY DEF RowsInv, reactionVars, Steps

\* A handler goes to another step.
LEMMA Moves ==
  ASSUME RowsInv, NEW h \in Handlers, NEW to \in Steps(Len(rows)), step' = [step EXCEPT ![h] = to],
         rows' \in Seq(Rows), Len(rows') = Len(rows),
         stored' = stored, handled' \in 0 .. MaxReactions,
         settling' \subseteq DOMAIN rows, lock' \in {"free", "held"}
  PROVE  RowsInv'
  <1>1. DOMAIN rows' = DOMAIN rows
    BY DEF RowsInv
  <1>2. step' \in [Handlers -> Steps(Len(rows'))]
    BY DEF RowsInv
  <1> QED
    BY <1>1, <1>2 DEF RowsInv, Steps

LEMMA LookUpStep ==
  ASSUME RowsInv, NEW h \in Handlers, LookUp(h)
  PROVE  RowsInv'
  <1>1. PICK emoji \in Emojis, r \in GetByMessageID \cap Pending :
           /\ step' = [step EXCEPT ![h] = [at |-> "found", emoji |-> emoji, row |-> r]]
           /\ settling' = IF emoji = "approve" THEN settling \union {r} ELSE settling
    BY DEF LookUp
  <1>2. r \in DOMAIN rows /\ r \in 0 .. Len(rows)
    BY RowFacts DEF Pending
  <1>3. [at |-> "found", emoji |-> emoji, row |-> r] \in Steps(Len(rows))
    BY <1>2 DEF Steps
  <1>4. UNCHANGED <<rows, stored, lock>> /\ handled' = handled + 1 /\ handled < MaxReactions
    BY DEF LookUp
  <1>5. settling' \subseteq DOMAIN rows
    BY <1>1, <1>2 DEF RowsInv
  <1>6. handled' \in 0 .. MaxReactions
    BY <1>4, FindingsConstantsOK DEF RowsInv, FindingsConstantsOK
  <1>7. rows' \in Seq(Rows) /\ Len(rows') = Len(rows) /\ lock' \in {"free", "held"}
    BY <1>4 DEF RowsInv
  <1> QED
    BY <1>1, <1>3, <1>4, <1>5, <1>6, <1>7, Moves

LEMMA ReactStep ==
  ASSUME RowsInv, NEW h \in Handlers, React(h)
  PROVE  RowsInv' /\ UNCHANGED fileVars
  <1>1. Idle \in Steps(Len(rows)) /\ Len(rows) \in Nat
    BY RowFacts, IdleStep
  <1>2. /\ rows \in Seq(Rows) /\ handled \in 0 .. MaxReactions /\ settling \subseteq DOMAIN rows
        /\ lock \in {"free", "held"}
    BY DEF RowsInv
  <1>3. CASE Reject(h)
    <2>1. rows' \in Seq(Rows) /\ Len(rows') = Len(rows)
      BY <1>3, Changed DEF Reject
    <2>2. UNCHANGED <<fileVars, stored, handled, settling, lock>> /\ step' = [step EXCEPT ![h] = Idle]
      BY <1>3 DEF Reject
    <2>3. RowsInv'
      BY <1>1, <1>2, <2>1, <2>2, Moves
    <2> QED
      BY <2>2, <2>3
  <1>4. CASE MarkReanalyzing(h)
    <2>1. rows' \in Seq(Rows) /\ Len(rows') = Len(rows)
      BY <1>4, Changed DEF MarkReanalyzing
    <2>2. UNCHANGED <<fileVars, stored, handled, settling, lock>> /\ step' = [step EXCEPT ![h] = Idle]
      BY <1>4 DEF MarkReanalyzing
    <2>3. RowsInv'
      BY <1>1, <1>2, <2>1, <2>2, Moves
    <2> QED
      BY <2>2, <2>3
  <1>5. CASE LockFile(h)
    <2>1. /\ UNCHANGED <<fileVars, rows, stored, handled, settling>> /\ lock' = "held"
          /\ step' = [step EXCEPT ![h].at = "locked"]
      BY <1>5 DEF LockFile
    <2> DEFINE to == [step[h] EXCEPT !.at = "locked"]
    <2>2. to \in Steps(Len(rows)) /\ step' = [step EXCEPT ![h] = to]
      <3>1. step[h] \in Steps(Len(rows))
        BY RowFacts
      <3> QED
        BY <2>1, <3>1 DEF Steps
    <2> HIDE DEF to
    <2>3. /\ rows' \in Seq(Rows) /\ Len(rows') = Len(rows) /\ stored' = stored
          /\ handled' \in 0 .. MaxReactions /\ settling' \subseteq DOMAIN rows
          /\ lock' \in {"free", "held"}
      BY <1>2, <2>1
    <2>4. RowsInv'
      BY <2>2, <2>3, Moves
    <2> QED
      BY <2>1, <2>4
  <1>6. CASE Approve(h)
    <2>1. UNCHANGED <<fileVars, rows, stored, handled>>
      BY <1>6, ApproveSame
    <2>2. /\ step' = [step EXCEPT ![h] = Idle] /\ lock' = "free"
          /\ settling' = settling \ {step[h].row}
      BY <1>6 DEF Approve
    <2>3. settling' \subseteq DOMAIN rows
      BY <1>2, <2>2
    <2>4. RowsInv'
      BY <1>1, <1>2, <2>1, <2>2, <2>3, Moves
    <2> QED
      BY <2>1, <2>4
  <1> QED
    BY <1>3, <1>4, <1>5, <1>6 DEF React

LEMMA RestartStep ==
  ASSUME FindingsInv, Restart
  PROVE  FindingsInv'
  <1>1. FileInv'
    BY Forgotten DEF FindingsInv, Restart
  <1>2. RowsInv'
    <2>1. /\ step' = [h \in Handlers |-> Idle] /\ settling' = {} /\ lock' = "free"
          /\ UNCHANGED <<rows, stored, handled>>
      BY DEF Restart
    <2>2. RowsInv /\ Idle \in Steps(Len(rows))
      BY RowFacts, IdleStep DEF FindingsInv
    <2> QED
      BY <2>1, <2>2 DEF RowsInv, Steps
  <1> QED
    BY <1>1, <1>2 DEF FindingsInv

LEMMA SanitizeStep ==
  ASSUME FindingsInv, Sanitize
  PROVE  FindingsInv'
  <1> USE DEF FindingsInv
  <1>1. CASE Bypass
    <2>1. copies' \in 0 .. MaxCopies
      BY <1>1, FindingsConstantsOK DEF Bypass, FileInv, FindingsConstantsOK
    <2>2. FileInv'
      BY <1>1, <2>1, FileSame DEF Bypass
    <2> QED
      BY <1>1, <2>2, RowsSame DEF Bypass
  <1>2. CASE Begin
    <2>1. UNCHANGED <<rows, stored, reactionVars>>
      BY <1>2 DEF Begin
    <2> QED
      BY <1>2, <2>1, BeginStep, RowsSame
  <1>3. CASE Layer1
    <2>1. UNCHANGED <<rows, stored, reactionVars>>
      BY <1>3 DEF Layer1, Scanned
    <2> QED
      BY <1>3, <2>1, Layer1Step, RowsSame
  <1>4. CASE Layer2
    <2>1. UNCHANGED <<rows, stored, reactionVars>>
      BY <1>4 DEF Layer2, Scanned
    <2> QED
      BY <1>4, <2>1, Layer2Step, RowsSame
  <1>5. CASE Layer3
    <2>1. UNCHANGED <<rows, stored, reactionVars>>
      BY <1>5 DEF Layer3, Scanned
    <2> QED
      BY <1>5, <2>1, Layer3Step, RowsSame
  <1>6. CASE Stage
    <2>1. UNCHANGED <<rows, stored, reactionVars>>
      BY <1>6 DEF Stage
    <2> QED
      BY <1>6, <2>1, StageStep, RowsSame
  <1>7. CASE File
    <2>1. FileInv'
      BY <1>7, FileStep
    <2>2. UNCHANGED <<stored, reactionVars>>
      BY <1>7 DEF File
    <2>3. CASE rows' = rows
      BY <2>1, <2>2, <2>3, RowsSame
    <2>4. CASE rows' # rows
      <3>1. ~found[filed'].high /\ \E posted \in BOOLEAN : Create(filed', posted)
        BY <1>7, <2>4 DEF File
      <3>2. PICK posted \in BOOLEAN : Create(filed', posted)
        BY <3>1
      <3> DEFINE new == [tag |-> filed', index |-> TokenIndex(found, filed'),
                         posted |-> posted, status |-> "pending"]
      <3>3. filed' \in Nat \ {0}
        BY <1>7 DEF File, FileInv
      <3>4. TokenIndex(found, filed') \in Nat \ {0}
        BY <3>1, <3>3, IndexOfToken
      <3>5. new \in Rows
        BY <3>3, <3>4 DEF Rows
      <3>6. rows' = Append(rows, new)
        BY <3>2 DEF Create
      <3> HIDE DEF new
      <3> QED
        BY <2>1, <2>2, <3>5, <3>6, Added
    <2> QED
      BY <2>3, <2>4
  <1>8. CASE EndPass
    <2>1. FileInv'
      BY <1>8, Forgotten DEF EndPass
    <2>2. UNCHANGED <<rows, stored, reactionVars>>
      BY <1>8 DEF EndPass
    <2> QED
      BY <2>1, <2>2, RowsSame
  <1> QED
    BY <1>1, <1>2, <1>3, <1>4, <1>5, <1>6, <1>7, <1>8 DEF Sanitize

LEMMA NextInv == FindingsInv /\ [Next]_vars => FindingsInv'
  <1> SUFFICES ASSUME FindingsInv, [Next]_vars PROVE FindingsInv'
    OBVIOUS
  <1>1. CASE Sanitize
    BY <1>1, SanitizeStep
  <1>2. CASE Crash \/ StagePanics
    BY <1>2, RestartStep DEF Crash, StagePanics
  <1>3. ASSUME NEW h \in Handlers, LookUp(h) PROVE FindingsInv'
    <2>1. UNCHANGED fileVars
      BY <1>3 DEF LookUp
    <2>2. FileInv'
      BY <2>1, FileSame DEF FindingsInv, fileVars, FileInv
    <2> QED
      BY <1>3, <2>2, LookUpStep DEF FindingsInv
  <1>4. ASSUME NEW h \in Handlers, React(h) PROVE FindingsInv'
    <2>1. UNCHANGED fileVars /\ RowsInv'
      BY <1>4, ReactStep DEF FindingsInv
    <2>2. FileInv'
      BY <2>1, FileSame DEF FindingsInv, fileVars, FileInv
    <2> QED
      BY <2>1, <2>2 DEF FindingsInv
  <1>5. CASE UNCHANGED vars
    <2>1. FileInv'
      BY <1>5, FileSame DEF FindingsInv, vars, fileVars, FileInv
    <2> QED
      BY <1>5, <2>1, RowsSame DEF FindingsInv, vars, reactionVars
  <1> QED
    BY <1>1, <1>2, <1>3, <1>4, <1>5 DEF Next

LEMMA AlwaysInv == FindingsSpec => []FindingsInv
  <1> QED
    BY InitInv, NextInv, PTL DEF FindingsSpec

-------------------------------------------------------------------------------
(* The theorems.                                                           *)

\* Every variable has its type, whatever gitleaks, the language models and the
\* operators do: no finding starts before the file, and all tags of a staged file
\* belong to a finding.
THEOREM FindingsTypesCorrect == FindingsSpec => []FindingsTypeOK
  <1>1. FindingsInv => FindingsTypeOK
    BY DEF FindingsInv, FileInv, RowsInv, FindingsTypeOK, Zones, Steps
  <1> QED
    BY <1>1, AlwaysInv, PTL

\* No byte of an approved value or of a template expression is missing from the
\* staged file: merging forgets no zone, every layer drops what reaches into one,
\* and what lies in no finding is copied, in whichever order the findings are.
THEOREM ApprovedStays == FindingsSpec => []ApprovedKept
  <1>1. FindingsInv => ApprovedKept
    <2> SUFFICES ASSUME FindingsInv, pass = "filing",
                        NEW z \in Protected(approved), NEW i \in z[1] + 1 .. z[2]
                 PROVE  Original[i] \in Range(staged)
      BY DEF ApprovedKept
    <2>1. /\ found \in Seq(Ranges) /\ AllOutside(found)
          /\ zones \in MergeSkipZones(Protected(approved))
          /\ staged = BuildStagingContent(Original, found)
          /\ approved \in SUBSET ApprovedValues
          /\ Len(found) <= Most
      BY DEF FindingsInv, FileInv, MostIn
    <2>2. Protected(approved) \subseteq Zones
      BY <2>1, ProtectedType
    <2>3. PICK m \in zones : m[1] <= z[1] /\ z[2] <= m[2]
      BY <2>1, <2>2, MergeCovers
    <2>4. m \in Zones /\ z \in Zones
      BY <2>1, <2>2, <2>3, MergeCovers
    <2>5. /\ m[1] \in 0 .. Len(Text) /\ m[2] \in 0 .. Len(Text)
          /\ z[1] \in 0 .. Len(Text) /\ z[2] \in 0 .. Len(Text)
      BY <2>4, ZonePair
    <2>6. i \in Int /\ z[1] < i /\ i <= z[2] /\ i \in 1 .. Len(Text)
      BY <2>5, TextLength
    <2>7. /\ Len(found) \in Nat /\ DOMAIN found = 1 .. Len(found) /\ Placed(found)
          /\ \A j \in 1 .. Len(found) : found[j].from \in Nat /\ found[j].to \in Int
      BY <2>1, RangeTypes
    <2>8. \A k \in 1 .. Len(found) : ~(found[k].from < i /\ i <= found[k].to)
      <3>1. TAKE k \in 1 .. Len(found)
      <3>2. ~IsInSkipZone(found[k].from, found[k].to, zones)
        BY <2>1, <2>7 DEF AllOutside
      <3>3. ~(found[k].from < m[2] /\ found[k].to > m[1])
        BY <2>3, <3>2 DEF IsInSkipZone
      <3> QED
        BY <2>3, <2>5, <2>6, <2>7, <3>3, SMTT(30)
    <2>9. HasTags(Cells, Len(found)) /\ Original \in Seq(Cells)
      BY <2>1, <2>7, CellsHave
    <2>10. i \in 1 .. Len(Original)
      BY <2>6, CellsHave, OriginalType
    <2>11. In(Original[i], staged)
      <3>1. In(Original[i], BuildStagingContent(Original, found))
        BY <2>7, <2>8, <2>9, <2>10, UncoveredKept
      <3> QED
        BY <2>1, <3>1
    <2>12. staged \in Seq(Cells)
      BY DEF FindingsInv, FileInv
    <2>13. DOMAIN staged = 1 .. Len(staged)
      BY <2>12
    <2> QED
      BY <2>11, <2>13 DEF In, Range
  <1> QED
    BY <1>1, AlwaysInv, PTL

\* Of findings as the comment of BuildStagingContent wants them, the staged file is
\* the file with each replaced by its tag: every cell has its place.
THEOREM ValidAreReplaced == FindingsSpec => []ReplacedWhenValid
  <1>1. FindingsInv => ReplacedWhenValid
    <2> SUFFICES ASSUME FindingsInv, pass = "filing", ValidFindings
                 PROVE  /\ Len(staged) = Place(Len(Text), Len(found))
                        /\ \A i \in Untouched(Len(Text)) :
                              staged[Place(i, TagsBefore(i))] = Original[i]
                        /\ \A k \in DOMAIN found : \A i \in 1 .. TagSize :
                              staged[Place(found[k].from, k - 1) + i] = Tag(k)[i]
      BY DEF ReplacedWhenValid
    <2>1. /\ found \in Seq(Ranges) /\ staged = BuildStagingContent(Original, found)
          /\ Len(found) <= Most
      BY DEF FindingsInv, FileInv, MostIn
    <2>2. HasTags(Cells, Len(found)) /\ Original \in Seq(Cells)
      BY <2>1, RangeTypes, CellsHave
    <2> QED
      BY <2>1, <2>2, ValidReplaced
  <1> QED
    BY <1>1, AlwaysInv, PTL

\* With the number that CountResolvedPredecessors returns, the index of a pending
\* finding leads to an error or to the tag that is as many tags before its own as rows
\* are counted without a tag that is gone: to its own tag if there are none. The tags
\* that are left are in the order of their findings, and they are only counted.
THEOREM TokenIndexLeads == FindingsSpec => []ResolvesOwnUnlessMiscounted
  <1>1. FindingsInv => ResolvesOwnUnlessMiscounted
    <2> SUFFICES ASSUME FindingsInv, pass = "filing", NoTagsInText,
                        \A k \in DOMAIN found : ~found[k].high,
                        NEW status \in [DOMAIN found -> {"pending", "approved", "rejected"}],
                        NEW earlier \in DOMAIN found, NEW ks \in SetToSeqs(Approved(status)),
                        NEW k \in DOMAIN found, status[k] = "pending"
                 PROVE  LeadsBackByStrays(k, ks, status, earlier)
      BY DEF ResolvesOwnUnlessMiscounted
    <2> DEFINE n == Len(found)
               gone == Approved(status)
               left == (1 .. n) \ gone
               before(i) == Cardinality({j \in left : j < i})
               now == ResolveEach(staged, ks)[Len(ks)]
               low == {j \in gone : j < k}
               rs == Decided(status, earlier)
               counted == Counted(rs, k)
               strays == counted \ gone
    <2>1. /\ found \in Seq(Ranges) /\ staged = BuildStagingContent(Original, found)
          /\ n \in Nat /\ DOMAIN found = 1 .. n /\ Placed(found)
      BY RangeTypes DEF FindingsInv, FileInv
    <2>2. Original \in Seq(AnyCell) /\ NoTag(Original)
      <3>1. \A i \in DOMAIN Text : Cell(i, Text[i]) \in AnyCell
        <4>1. \A i \in DOMAIN Text : i \in Int /\ Text[i] \in Range(Text)
          BY TextLength DEF Range
        <4> QED
          BY <4>1 DEF Cell, AnyCell
      <3>2. Original \in Seq(AnyCell) /\ Len(Original) = Len(Text)
        BY <3>1, OriginalType
      <3>3. \A i \in 1 .. Len(Original) : Original[i].is # "tag"
        BY <3>2, TextLength, CellFields DEF Original, NoTagsInText
      <3> QED
        BY <3>2, <3>3 DEF NoTag
    <2>3. PICK at : staged \in Seq(AnyCell) /\ HasTagsAt(staged, 1 .. n, at)
      BY <2>1, <2>2, PassTags
    <2>4. k \in 1 .. n /\ gone \in SUBSET (1 .. n) /\ k \notin gone /\ 1 .. n \in SUBSET Nat
      BY <2>1 DEF Approved
    <2>5. \A j \in 1 .. n : TokenIndex(found, j) = j
      <3> SUFFICES ASSUME NEW j \in 1 .. n PROVE TokenIndex(found, j) = j
        OBVIOUS
      <3>1. {i \in 1 .. j : ~found[i].high} = 1 .. j
        <4>1. \A i \in 1 .. j : i \in DOMAIN found
          BY <2>1
        <4> QED
          BY <4>1
      <3>2. Cardinality(1 .. j) = j
        BY <2>1, FS_Interval
      <3>3. ~found[j].high
        BY <2>1
      <3> QED
        BY <3>1, <3>2, <3>3 DEF TokenIndex
    <2>6. /\ DOMAIN rs = {0} \union 1 .. n
          /\ \A j \in 1 .. n : rs[j].index = j /\ rs[j].status = status[j]
      BY <2>1, <2>5 DEF Decided
    <2>7. counted \in SUBSET ({0} \union 1 .. n)
      BY <2>6 DEF Counted
    <2>8. low \subseteq counted /\ \A j \in counted \ low : j \notin gone
      <3>1. \A j \in gone : rs[j].index = j /\ rs[j].status = "approved" /\ j \in DOMAIN rs
        BY <2>1, <2>4, <2>6 DEF Approved
      <3>2. \A j \in gone : j \in counted <=> j < k
        BY <3>1 DEF Counted
      <3> QED
        BY <3>2
    <2>9. counted = low \cup strays /\ low \cap strays = {}
      <3> HIDE DEF counted
      <3> QED
        BY <2>8
    <2>10. /\ IsFiniteSet(left) /\ IsFiniteSet(gone)
           /\ before(k) \in Nat
           /\ before(k) = k - 1 - Cardinality(low)
           /\ before(k) < Cardinality(left)
           /\ Cardinality(left) \in Nat
      <3> HIDE DEF gone
      <3> QED
        BY <2>1, <2>4, CountLeft
    <2>11. k \in left /\ left \in SUBSET Nat /\ left = DOMAIN found \ gone
      BY <2>1, <2>4
    <2>12. PICK new : now \in Seq(AnyCell) /\ HasTagsAt(now, left, new)
      <3> HIDE DEF n
      <3> QED
        BY <2>3, <2>4, <2>10, OthersStay
    <2> HIDE DEF n, gone, left, now, low, counted, strays, rs
    <2>13. /\ Cardinality(counted) = Cardinality(low) + Cardinality(strays)
           /\ Cardinality(low) \in Nat /\ Cardinality(strays) \in Nat
      <3>1. IsFiniteSet({0} \union 1 .. n)
        <4>1. IsFiniteSet(1 .. n)
          BY <2>1, FS_Interval
        <4>2. IsFiniteSet({0})
          BY FS_Singleton
        <4> QED
          BY <4>1, <4>2, FS_Union
      <3>2. IsFiniteSet(counted)
        BY <2>7, <3>1, FS_Subset
      <3>3. low \in SUBSET counted /\ strays \in SUBSET counted
        BY <2>9
      <3>4. IsFiniteSet(low) /\ IsFiniteSet(strays)
        BY <3>2, <3>3, FS_Subset
      <3>5. Cardinality(low) \in Nat /\ Cardinality(strays) \in Nat
        BY <3>4, FS_CardinalityType
      <3>6. Cardinality(low \cup strays)
               = Cardinality(low) + Cardinality(strays) - Cardinality(low \cap strays)
        BY <3>4, FS_Union
      <3>7. Cardinality(low \cap strays) = 0
        BY <2>9, FS_EmptySet
      <3>8. Cardinality(counted) = Cardinality(low) + Cardinality(strays) - 0
        BY <2>9, <3>6, <3>7, Zenon
      <3> QED
        BY <3>5, <3>8
    <2>14. Cardinality(Tags(now)) = Cardinality(left)
      BY <2>10, <2>11, <2>12, TagsCounted
    <2> DEFINE count == CountResolvedPredecessors(rs, k)
               target == k - 1 - count
               result == ResolveTokenIndex(now, k, count, Resolved(k))
    <2>15. count = Cardinality(counted)
      BY DEF CountResolvedPredecessors, counted
    <2>16. k \in Nat /\ count \in Nat /\ target = before(k) - Cardinality(strays)
      BY <2>4, <2>10, <2>13, <2>15
    <2>17. CASE Cardinality(Tags(now)) < k \/ k <= count
      <3>1. ~result.ok
        BY <2>16, <2>17 DEF ResolveTokenIndex
      <3> QED
        BY <2>4, <2>5, <2>17, <3>1 DEF LeadsBackByStrays, now, rs
    <2>18. CASE ~(Cardinality(Tags(now)) < k \/ k <= count)
      <3>1. target \in Nat /\ target < Cardinality(left)
        BY <2>10, <2>13, <2>16, <2>18
      <3>2. PICK j \in left : before(j) = target
        <4> HIDE DEF target
        <4> QED
          BY <2>10, <2>11, <3>1, BelowExists
      <3>3. NthTag(now, before(j)) = PlaceOf(now, j)
        BY <2>10, <2>11, <2>12, NthIsOwn
      <3>4. ~(target < 0) /\ ~(target >= Cardinality(Tags(now)))
        BY <2>10, <2>14, <3>1
      <3>5. result = [ok |-> TRUE, content |-> ReplaceTag(now, NthTag(now, target), Resolved(k))]
        <4> HIDE DEF count
        <4> QED
          BY <2>18, <3>4 DEF ResolveTokenIndex
      <3>6. result.ok /\ result.content = ReplaceTag(now, PlaceOf(now, j), Resolved(k))
        <4>1. NthTag(now, target) = PlaceOf(now, j)
          BY <3>2, <3>3
        <4> HIDE DEF result, target
        <4> QED
          BY <3>5, <4>1
      <3>7. before(j) = before(k) - Cardinality(strays)
        BY <2>16, <3>2
      <3>8. TokenIndex(found, k) = k
        BY <2>4, <2>5
      <3> QED
        BY <2>11, <2>18, <3>2, <3>6, <3>7, <3>8 DEF LeadsBackByStrays, now, rs, gone, strays, counted
    <2> QED
      BY <2>17, <2>18
  <1> QED
    BY <1>1, AlwaysInv, PTL

\* A decided row that no handler is about to write stays as it is, and no handler
\* takes it again: a reaction looks for pending rows only.
THEOREM DecidedStays == FindingsSpec => SettledStays
  <1> DEFINE Stays == \A r \in DOMAIN rows : Settled(r) =>
                         rows'[r] = rows[r] /\ \A h \in Handlers : step'[h].row # r
  <1>1. FindingsInv /\ [Next]_vars => [Stays]_vars
    <2> SUFFICES ASSUME FindingsInv, Next, NEW r \in DOMAIN rows, Settled(r)
                 PROVE  rows'[r] = rows[r] /\ \A h \in Handlers : step'[h].row # r
      OBVIOUS
    <2>1. RowsInv /\ r \in Nat \ {0} /\ Idle.row # r
      <3>1. RowsInv
        BY DEF FindingsInv
      <3>2. r \in Nat \ {0}
        BY <3>1, RowFacts
      <3> QED
        BY <3>1, <3>2 DEF Idle
    <2>2. rows[r].status # "pending" /\ \A h \in Handlers : step[h].row # r
      BY DEF Settled
    <2>3. DOMAIN step = Handlers
      BY <2>1 DEF RowsInv
    <2>4. CASE Sanitize
      <3>1. step' = step
        BY <2>4 DEF Sanitize, Bypass, Begin, Layer1, Layer2, Layer3, Scanned, Stage, File,
                    EndPass, reactionVars
      <3>2. rows' = rows \/ \E new : rows' = Append(rows, new)
        BY <2>4 DEF Sanitize, Bypass, Begin, Layer1, Layer2, Layer3, Scanned, Stage, File,
                    EndPass, Create
      <3>3. rows'[r] = rows[r]
        <4>1. ASSUME NEW new, rows' = Append(rows, new) PROVE rows'[r] = rows[r]
          <5>1. rows \in Seq(Rows) /\ r \in 1 .. Len(rows)
            BY <2>1, RowFacts DEF RowsInv
          <5> QED
            BY <4>1, <5>1
        <4> QED
          BY <3>2, <4>1
      <3> QED
        BY <2>2, <3>1, <3>3
    <2>5. CASE Crash \/ StagePanics
      BY <2>1, <2>5 DEF Crash, StagePanics, Restart
    <2>6. ASSUME NEW h \in Handlers, LookUp(h)
          PROVE  rows'[r] = rows[r] /\ \A g \in Handlers : step'[g].row # r
      <3>1. PICK emoji \in Emojis, q \in GetByMessageID \cap Pending :
               step' = [step EXCEPT ![h] = [at |-> "found", emoji |-> emoji, row |-> q]]
        BY <2>6 DEF LookUp
      <3>2. q # r
        BY <2>2 DEF Pending
      <3>3. rows' = rows
        BY <2>6 DEF LookUp
      <3> QED
        BY <2>2, <2>3, <3>1, <3>2, <3>3
    <2>7. ASSUME NEW h \in Handlers, Reject(h) \/ MarkReanalyzing(h)
          PROVE  rows'[r] = rows[r] /\ \A g \in Handlers : step'[g].row # r
      <3>1. step' = [step EXCEPT ![h] = Idle]
        BY <2>7 DEF Reject, MarkReanalyzing
      <3>2. \E status : rows' = [rows EXCEPT ![step[h].row].status = status]
        BY <2>7 DEF Reject, MarkReanalyzing, SetStatus
      <3>3. rows'[r] = rows[r]
        BY <2>2, <3>2
      <3> QED
        BY <2>1, <2>2, <2>3, <3>1, <3>3
    <2>8. ASSUME NEW h \in Handlers, LockFile(h)
          PROVE  rows'[r] = rows[r] /\ \A g \in Handlers : step'[g].row # r
      <3>1. step' = [step EXCEPT ![h].at = "locked"] /\ rows' = rows
        BY <2>8 DEF LockFile
      <3>2. step[h] \in Steps(Len(rows))
        BY <2>1, RowFacts
      <3>3. \A g \in Handlers : step'[g].row = step[g].row
        BY <2>3, <3>1, <3>2 DEF Steps
      <3> QED
        BY <2>2, <3>1, <3>3
    <2>9. ASSUME NEW h \in Handlers, Approve(h)
          PROVE  rows'[r] = rows[r] /\ \A g \in Handlers : step'[g].row # r
      <3>1. rows' = rows
        BY <2>1, <2>9, ApproveSame
      <3>2. step' = [step EXCEPT ![h] = Idle]
        BY <2>9 DEF Approve
      <3> QED
        BY <2>1, <2>2, <2>3, <3>1, <3>2
    <2> QED
      BY <2>4, <2>5, <2>6, <2>7, <2>8, <2>9 DEF Next, React
  <1>2. FindingsSpec => []FindingsInv /\ [][Next]_vars
    BY AlwaysInv, PTL DEF FindingsSpec
  <1> QED
    BY <1>1, <1>2, PTL DEF SettledStays
===============================================================================
