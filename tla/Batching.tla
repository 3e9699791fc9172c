------------------------------- MODULE Batching -------------------------------
(***************************************************************************)
(* How the nightly analysis splits a set of diffs into prompts and merges  *)
(* the answers (llm.Batcher): diffs of focus areas first and longer ones   *)
(* before shorter ones, packed greedily into batches that fit the context  *)
(* window of the model; of the answers, one per file and type, the most    *)
(* urgent ones first.                                                      *)
(*                                                                         *)
(* A diff is the position of its file in the list that the pipeline hands  *)
(* over; the sort is stable, so that equal diffs keep this order.          *)
(***************************************************************************)
EXTENDS Naturals, Sequences, FiniteSets, SequencesExt

CONSTANTS Diffs,      \* the files that may differ, as positions
          Estimate,   \* Estimate[d]: EstTokens, a quarter of the diff's bytes
          Lines,      \* Lines[d]: lines added and removed
          Focus,      \* the diffs that match a focus area
          Budget,     \* ContextWindow - ResponseBufferTokens
          Specs,      \* the tasks that the model may name: file, type, prio 1..5 if valid
          MaxTasks    \* max_tasks_per_run, 0 for no cap

ASSUME BatchConstantsOK ==
    /\ Diffs \subseteq Nat /\ IsFiniteSet(Diffs)
    /\ Estimate \in [Diffs -> Nat] /\ Lines \in [Diffs -> Nat]
    /\ Focus \subseteq Diffs
    /\ Budget \in Nat /\ MaxTasks \in Nat
    /\ \A s \in Specs : s.prio \in Nat

-------------------------------------------------------------------------------
(* Partition.                                                              *)

\* A diff too short to be estimated counts as 100 tokens.
Tokens(d) == IF Estimate[d] = 0 THEN 100 ELSE Estimate[d]

Before(d, e) ==
    IF (d \in Focus) # (e \in Focus)
    THEN d \in Focus
    ELSE Lines[d] > Lines[e] \/ (Lines[d] = Lines[e] /\ d < e)

\* sort.SliceStable on a slice that is in the order of the positions: there is
\* one result.
Sorted(ds) ==
    CHOOSE q \in SetToSeqs(ds) : \A i, j \in DOMAIN q : i < j => Before(q[i], q[j])

PackLoosely(packing, d) ==
    IF packing.tokens > Budget /\ packing.current # <<>>
    THEN [full |-> Append(packing.full, packing.current),
          current |-> <<d>>, tokens |-> Tokens(d)]
    ELSE [packing EXCEPT !.current = Append(@, d), !.tokens = @ + Tokens(d)]

\* One step of the greedy packing: close the current batch when the diff does
\* not fit and the batch has one.
Pack(packing, d) ==
    IF packing.tokens + Tokens(d) > Budget /\ packing.current # <<>>
    THEN [full |-> Append(packing.full, packing.current),
          current |-> <<d>>, tokens |-> Tokens(d)]
    ELSE [packing EXCEPT !.current = Append(@, d), !.tokens = @ + Tokens(d)]

Unpacked == [full |-> <<>>, current |-> <<>>, tokens |-> 0]

\* The packing after each diff of a sequence.
Packings(q) ==
    LET packing[i \in 0..Len(q)] ==
            IF i = 0 THEN Unpacked ELSE Pack(packing[i - 1], q[i])
    IN  packing

Partition(ds) ==
    LET packing == Packings(Sorted(ds))[Cardinality(ds)]
    IN  IF packing.current = <<>> THEN packing.full
                                  ELSE Append(packing.full, packing.current)

-------------------------------------------------------------------------------
(* Answers.                                                                *)

Key(s) == <<s.file, s.type>>

DeduplicateFirst(found) ==
    {s \in found : \A t \in found : Key(t) = Key(s) => s.prio >= t.prio}

\* The answers that no answer of the same key undercuts.
Deduplicate(found) ==
    {s \in found : \A t \in found : Key(t) = Key(s) => s.prio <= t.prio}

\* Of those, the map keeps one per key: the first in an order of the answers that
\* the model chose.
OnePerKey(specs) ==
    {kept \in SUBSET specs :
        /\ \A s \in specs : \E t \in kept : Key(t) = Key(s)
        /\ \A s, t \in kept : Key(s) = Key(t) => s = t}

\* sort.Slice is not stable and its input comes out of a map: any order that
\* respects the priorities may result, cut to the cap.
Ranked(specs) ==
    {SubSeq(q, 1, IF MaxTasks > 0 /\ Len(q) > MaxTasks THEN MaxTasks ELSE Len(q)) :
        q \in {p \in SetToSeqs(specs) :
                  \A i, j \in DOMAIN p : i < j => p[i].prio <= p[j].prio}}

-------------------------------------------------------------------------------
(* What a partition promises.                                              *)

\* Weights(batch)[i]: the tokens of its first i diffs.
Weights(batch) ==
    LET weight[i \in 0..Len(batch)] ==
            IF i = 0 THEN 0 ELSE weight[i - 1] + Tokens(batch[i])
    IN  weight

Weight(batch) == Weights(batch)[Len(batch)]

\* Every diff is in one place of one batch, and nothing else is.
Exact(batches, ds) ==
    /\ \A d \in ds : \E i \in DOMAIN batches : \E k \in DOMAIN batches[i] : batches[i][k] = d
    /\ \A i \in DOMAIN batches : \A k \in DOMAIN batches[i] :
          /\ batches[i][k] \in ds
          /\ \A j \in DOMAIN batches : \A l \in DOMAIN batches[j] :
                batches[i][k] = batches[j][l] => i = j /\ k = l

\* A batch fits the budget, unless one diff alone exceeds it.
Fits(batch) == Weight(batch) <= Budget \/ Len(batch) = 1

\* No batch could have taken the diff that starts the next one.
Greedy(batches) ==
    \A i \in 1..Len(batches) - 1 :
        Weight(batches[i]) + Tokens(Head(batches[i + 1])) > Budget

\* Once a batch has a diff outside the focus areas, no focus diff follows, there
\* or in a later batch.
FocusFirst(batches) ==
    \A i, j \in DOMAIN batches : \A k \in DOMAIN batches[i], l \in DOMAIN batches[j] :
        (i < j \/ (i = j /\ k < l)) /\ batches[j][l] \in Focus => batches[i][k] \in Focus

Partitioned(batches, ds) ==
    /\ Exact(batches, ds)
    /\ \A i \in DOMAIN batches : Fits(batches[i])
    /\ Greedy(batches)
    /\ FocusFirst(batches)

-------------------------------------------------------------------------------
(* What merging the answers promises.                                      *)

\* The tasks are in the order of their priorities, one per file and type, and an
\* answer is among them, or undercut in its file and type, or no more urgent than
\* any of a full list.
MostUrgent(q, found) ==
    /\ \A i, j \in DOMAIN q : i < j => q[i].prio <= q[j].prio /\ Key(q[i]) # Key(q[j])
    /\ \A s \in found :
          \/ \E i \in DOMAIN q : Key(q[i]) = Key(s) /\ q[i].prio <= s.prio
          \/ Len(q) = MaxTasks /\ \A i \in DOMAIN q : q[i].prio <= s.prio
===============================================================================
