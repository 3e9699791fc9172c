------------------------------- MODULE Staging -------------------------------
(***************************************************************************)
(* The algorithms on the content of one file: which parts are protected   *)
(* (internal/sanitize/skipzones.go), how findings are located             *)
(* (layer2_llm.go), how findings become tags (staging.go), and how a tag  *)
(* is found again to be resolved (internal/worktree/token_index.go).      *)
(*                                                                         *)
(* A content is a sequence of cells. Each cell says what it is and where  *)
(* it is from: a position of the original file, or (negative) the finding *)
(* whose tag it is a part of. Offsets count from 0, and a range [from, to) *)
(* is a pair.                                                              *)
(***************************************************************************)
EXTENDS Integers, SequencesExt, TLC

CONSTANTS Text,      \* the symbols of the original file, "nl" ends a line
          Brackets,  \* pairs of symbols that open and close a template expression
          TagSize    \* cells of a tag

ASSUME StagingConstantsOK ==
    /\ Text \in Seq(STRING) /\ Brackets \subseteq STRING \X STRING
    /\ TagSize \in Nat \ {0, 1}

Cell(n, symbol) == [of |-> n, is |-> symbol]
Original == [i \in DOMAIN Text |-> Cell(i, Text[i])]

\* content[from:to] of a Go slice: past the length lie the zero bytes of its
\* capacity.
Slice(content, from, to) ==
    [i \in 1 .. to - from |->
        IF from + i \in DOMAIN content THEN content[from + i] ELSE Cell(0, "nul")]

-----------------------------------------------------------------------------
(* Occurrences of a value, and skip zones. *)

OccursAt(content, value, i) ==
    /\ i + Len(value) <= Len(content)
    /\ \A j \in DOMAIN value : content[i + j].is = value[j]

\* bytes.Index of a value in content[from:to], or -1.
Index(content, value, from, to) ==
    LET at == {i \in from .. to - Len(value) : OccursAt(content, value, i)}
    IN  IF at = {} THEN -1 ELSE Min(at)

\* The matches that a scan from left to right finds: it takes a match unless an
\* earlier one that it has taken reaches into it. There is one such set.
Leftmost(matches) ==
    UNION {taken \in SUBSET matches :
              \A m \in matches :
                 m \in taken <=> ~\E t \in taken : t[1] < m[1] /\ m[1] < t[2]}

ZonesOf(content, value) ==
    Leftmost({<<i, i + Len(value)>> :
                 i \in {j \in 0 .. Len(content) : OccursAt(content, value, j)}})

GetSkipZones(content, approved) == UNION {ZonesOf(content, v) : v \in approved}

\* A template expression goes from an opening symbol to the next one that closes it.
Closes(content, i) ==
    {j \in i + 1 .. Len(content) : <<content[i].is, content[j].is>> \in Brackets}

TemplateSkipZones(content) ==
    Leftmost({<<i - 1, Min(Closes(content, i))>> :
                 i \in {j \in 1 .. Len(content) : Closes(content, j) # {}}})

\* A zone that overlaps or touches the last merged one extends it.
Extend(merged, z) ==
    IF z[1] <= merged.last[2]
    THEN [merged EXCEPT !.last = <<@[1], IF z[2] > @[2] THEN z[2] ELSE @[2]>>]
    ELSE [done |-> merged.done \union {merged.last}, last |-> z]

\* The merged zones after each zone of a sequence.
Merging(sorted) ==
    LET merging[k \in 1 .. Len(sorted)] ==
            IF k = 1 THEN [done |-> {}, last |-> sorted[1]]
            ELSE Extend(merging[k - 1], sorted[k])
    IN  merging

\* What merging may result in: the sort by the start is not stable.
MergeSkipZones(zones) ==
    LET Sorted == {q \in SetToSeqs(zones) :
                      \A j, k \in DOMAIN q : j < k => q[j][1] <= q[k][1]}
        Of(q)  == LET merged == Merging(q)[Len(q)]
                  IN  merged.done \union {merged.last}
    IN  IF zones = {} THEN {{}} ELSE {Of(q) : q \in Sorted}

IsInSkipZone(from, to, zones) == \E z \in zones : from < z[2] /\ to > z[1]

-----------------------------------------------------------------------------
(* Where a value reported by a language model is. *)

\* The offset at which a line starts, or -1.
FindLineStart(content, line) ==
    LET starts == {i \in 0 .. Len(content) - 1 :
                      Cardinality({j \in 1 .. i : content[j].is = "nl"}) = line - 1}
    IN  IF starts = {} THEN -1 ELSE Min(starts)

LineEnd(content, start) ==
    LET ends == {i \in start .. Len(content) - 1 : content[i + 1].is = "nl"}
    IN  IF ends = {} THEN Len(content) ELSE Min(ends)

\* A match on the reported line is preferred to the first one of the file.
Locate(content, value, line) ==
    LET start == IF line > 0 THEN FindLineStart(content, line) ELSE -1
        here  == IF start < 0 THEN -1
                 ELSE Index(content, value, start, LineEnd(content, start))
    IN  IF here >= 0 THEN here ELSE Index(content, value, 0, Len(content))

-----------------------------------------------------------------------------
(* Findings become tags. A finding is a range and whether it is redacted   *)
(* without asking.                                                          *)

Tag(k) == [i \in 1 .. TagSize |->
              Cell(-k, CASE i = 1 -> "tag" [] i = TagSize -> "end" [] OTHER -> "reason")]

\* The orders into which an unstable sort by the first byte may put findings.
Sorts(fs) ==
    {[i \in DOMAIN fs |-> fs[p[i]]] :
        p \in {q \in [DOMAIN fs -> DOMAIN fs] :
                  \A i, j \in DOMAIN fs :
                     i < j => q[i] # q[j] /\ fs[q[i]].from <= fs[q[j]].from}}

\* The findings of a sequence that are in a set.
KeptOf(fs, kept) ==
    LET some[k \in 0 .. Len(fs)] ==
            IF k = 0 THEN << >>
            ELSE IF fs[k] \in kept THEN Append(some[k - 1], fs[k]) ELSE some[k - 1]
    IN  some

Keep(fs, kept) == KeptOf(fs, kept)[Len(fs)]

Unbuilt == [out |-> << >>, cursor |-> 0]

\* A pass that copies what follows from the start of the finding.
PutFromStart(content, built, f, k) ==
    [out |-> built.out \o Slice(content, built.cursor, f.from) \o Tag(k), cursor |-> f.from]

\* What lies between the cursor and a finding is copied; the finding is a tag.
Put(content, built, f, k) ==
    [out |-> built.out \o Slice(content, built.cursor, f.from) \o Tag(k), cursor |-> f.to]

\* The pass over the content after each finding.
Built(content, fs) ==
    LET built[k \in 0 .. Len(fs)] ==
            IF k = 0 THEN Unbuilt ELSE Put(content, built[k - 1], fs[k], k)
    IN  built

\* One pass over the content; fs is sorted.
BuildStagingContent(content, fs) ==
    LET built == Built(content, fs)[Len(fs)]
    IN  built.out \o Slice(content, built.cursor, Len(content))

\* The number of a finding among those that wait for an operator.
TokenIndex(fs, k) ==
    IF fs[k].high THEN 0 ELSE Cardinality({j \in 1 .. k : ~fs[j].high})

\* The pass slices out of range: Go panics, unless the slice has the capacity.
OutOfBounds(content, fs) == \E k \in DOMAIN fs : fs[k].from > Len(content) \/ fs[k].to < 0

-----------------------------------------------------------------------------
(* A tag is resolved. *)

Tags(content) == {i \in DOMAIN content : content[i].is = "tag"}

\* The tag that n others precede.
NthTag(content, n) ==
    CHOOSE i \in Tags(content) : Cardinality({j \in Tags(content) : j < i}) = n

\* What an operator's value becomes: it is no tag.
Resolved(k) == << Cell(-k, "value") >>

\* The cells of content from the tag at position i to its end are replaced.
ReplaceTag(content, i, value) ==
    LET end == Min({j \in i .. Len(content) : content[j].is = "end"})
    IN  SubSeq(content, 1, i - 1) \o value \o SubSeq(content, end + 1, Len(content))

\* A resolution that does not count the tags that are gone.
ResolveUnadjusted(content, tokenIndex, resolvedCount, value) ==
    IF tokenIndex \notin 1 .. Cardinality(Tags(content))
    THEN [ok |-> FALSE, content |-> content]
    ELSE [ok |-> TRUE, content |-> ReplaceTag(content, NthTag(content, tokenIndex - 1), value)]

ResolveTokenIndex(content, tokenIndex, resolvedCount, value) ==
    LET total  == Cardinality(Tags(content))
        target == tokenIndex - 1 - resolvedCount
    IN  IF total < tokenIndex \/ target < 0 \/ target >= total
        THEN [ok |-> FALSE, content |-> content]
        ELSE [ok |-> TRUE, content |-> ReplaceTag(content, NthTag(content, target), value)]

=============================================================================
