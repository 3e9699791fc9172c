------------------------------ MODULE Findings -------------------------------
(***************************************************************************)
(* One file of a repository on its way through the sanitization pipeline  *)
(* (internal/sanitize/pipeline.go), the rows of its findings that a sync  *)
(* creates (internal/sync/runner.go:124-209), and the reactions of        *)
(* operators on them (internal/discord/reactions.go).                     *)
(*                                                                         *)
(* stored says whether the row of a posted finding has the id of its      *)
(* message. The sync and the migration never store it, so the daemon as   *)
(* it is has stored = FALSE: every reaction then ends in GetByMessageID.  *)
(* stored = TRUE checks the handlers on the rows they are written for.    *)
(***************************************************************************)
EXTENDS Staging

CONSTANTS Secrets,        \* ranges that gitleaks can report
          ApprovedValues, \* values an operator may have approved
          Values,         \* values a language model may report
          Lines,          \* line numbers it may report
          Offsets,        \* offsets layer 3 may report
          MaxReported,    \* bound: findings layer 2 reports; layer 3 reports one
          Handlers,       \* reactions that may be handled at the same time
          Storing,        \* the values of stored
          MaxScans,       \* bound: syncs that sanitize the file
          MaxCopies,      \* bound: syncs that copy it
          MaxReactions    \* bound: reactions on its findings

ASSUME FindingsConstantsOK ==
    /\ Secrets \subseteq (0 .. Len(Text)) \X (0 .. Len(Text))
    /\ \A s \in Secrets : s[1] < s[2]
    /\ \A v \in ApprovedValues \union Values : v \in Seq(STRING) /\ v # << >>
    /\ Lines \subseteq Nat /\ Offsets \subseteq Int /\ Storing \subseteq BOOLEAN
    /\ MaxReported \in Nat /\ MaxScans \in Nat
    /\ MaxCopies \in Nat /\ MaxReactions \in Nat

VARIABLES pass,      \* where the sync is with the file
          scans, copies,  \* syncs of the file so far
          approved,  \* the approved values of the pass
          zones,     \* its merged skip zones
          seen,      \* the content that the next layer is given
          found,     \* the findings of the pass
          filed,     \* how many of them the sync has handled
          staged,    \* the file in the staging directory
          rows,      \* pending_resolutions of the file
          stored, step, handled, settling, lock

fileVars == <<pass, scans, copies, approved, zones, seen, found, filed, staged>>
reactionVars == <<step, handled, settling, lock>>
vars == <<fileVars, rows, stored, reactionVars>>

Idle == [at |-> "idle", emoji |-> "none", row |-> 0]

Init == /\ pass = "idle" /\ scans = 0 /\ copies = 0 /\ approved = {} /\ zones = {}
        /\ seen = << >> /\ found = << >> /\ filed = 0 /\ staged = << >>
        /\ rows = << >> /\ stored \in Storing
        /\ step = [h \in Handlers |-> Idle] /\ handled = 0
        /\ settling = {}    \* messages whose approval is being handled
        /\ lock = "free"    \* the mutex of the file

Pending == {r \in DOMAIN rows : rows[r].status = "pending"}

-----------------------------------------------------------------------------
(* The sanitization of the file. *)

\* A file with a pending row is copied as it is.
Bypass ==
    /\ pass = "idle" /\ copies < MaxCopies /\ Pending # {}
    /\ copies' = copies + 1 /\ staged' = Original
    /\ UNCHANGED <<pass, scans, approved, zones, seen, found, filed, rows, stored, reactionVars>>

\* What the layers must not touch: approved values and template expressions.
Protected(values) == GetSkipZones(Original, values) \union TemplateSkipZones(Original)

Begin ==
    /\ pass = "idle" /\ scans < MaxScans /\ Pending = {}
    /\ scans' = scans + 1 /\ pass' = "read"
    /\ approved' \in SUBSET ApprovedValues
    /\ zones' \in MergeSkipZones(Protected(approved'))
    /\ seen' = Original /\ found' = << >> /\ filed' = 0
    /\ UNCHANGED <<copies, staged, rows, stored, reactionVars>>

Finding(range, high) == [from |-> range[1], to |-> range[2], high |-> high]
Outside(fs) == Keep(fs, {f \in Range(fs) : ~IsInSkipZone(f.from, f.to, zones)})

\* What a layer found, and the content in which its certain findings are tags.
Scanned(fs) ==
    /\ found' = found \o fs
    /\ \E high \in Sorts(Keep(fs, {f \in Range(fs) : f.high})) :
          seen' = BuildStagingContent(seen, high)
    /\ UNCHANGED <<scans, copies, approved, zones, filed, staged, rows, stored, reactionVars>>

\* StartColumn counts in the line of the secret and is taken for an offset in
\* the file. An error of gitleaks is no finding.
ColumnRange(secret) ==
    LET lineStart == Max({0} \union {i \in 1 .. secret[1] : Text[i] = "nl"})
    IN  <<secret[1] - lineStart, secret[2] - lineStart>>

Layer1 ==
    /\ pass = "read" /\ pass' = "layer1"
    /\ \E hits \in SUBSET Secrets : \E q \in SetToSeqs(hits) :
          Scanned(Outside([i \in DOMAIN q |-> Finding(ColumnRange(q[i]), TRUE)]))

\* SanitizeChunk: what a language model may say of a content. Layer 2 believes
\* the value and the line; no report is also the outcome of an error or a timeout
\* of Ollama and of the fallback, or of an answer that cannot be parsed.
Reported == [value : Values, line : Lines, high : BOOLEAN]

\* The range of a report; it starts at -1 when the value is not in the content.
Located(report) ==
    LET at == Locate(seen, report.value, report.line)
    IN  Finding(<<at, at + Len(report.value)>>, report.high)

\* A layer 2 that keeps a value it did not find.
LocatedOrNot(reports) == Outside([i \in DOMAIN reports |-> Located(reports[i])])

LocatedAll(reports) ==
    LET fs == [i \in DOMAIN reports |-> Located(reports[i])]
    IN  Outside(Keep(fs, {f \in Range(fs) : f.from >= 0}))

Layer2 ==
    /\ pass = "layer1" /\ pass' = "layer2"
    /\ \E n \in 0 .. MaxReported : \E reports \in [1 .. n -> Reported] :
          Scanned(LocatedAll(reports))

\* What the parser of the agent's answer may yield: nothing, or findings.
Claimed == [from : Offsets, to : Offsets, high : BOOLEAN]

\* Layer 3 believes the offsets, within the bounds of what it was given.
InBounds(f) == f.from >= 0 /\ f.to <= Len(seen)

\* A layer 3 that reports into skip zones.
Layer3Everywhere ==
    /\ pass = "layer2" /\ pass' = "layer3"
    /\ \/ Scanned(<< >>)
       \/ \E f \in Claimed : InBounds(f) /\ Scanned(<<f>>)

Layer3 ==
    /\ pass = "layer2" /\ pass' = "layer3"
    /\ \/ Scanned(<< >>)
       \/ \E f \in Claimed : InBounds(f) /\ Scanned(Outside(<<f>>))

\* All findings are applied to the original content, and the file is written
\* before any row exists.
Stage ==
    /\ pass = "layer3" /\ pass' = "filing"
    /\ \E fs \in Sorts(found) :
          /\ found' = fs
          /\ staged' = BuildStagingContent(Original, fs)
    /\ ~\E k \in DOMAIN found : found[k].to < 0
    /\ UNCHANGED <<scans, copies, approved, zones, seen, filed, rows, stored, reactionVars>>

\* The daemon ends between two steps, and starts again: rows and files remain.
Restart ==
    /\ pass' = "idle" /\ approved' = {} /\ zones' = {}
    /\ seen' = << >> /\ found' = << >> /\ filed' = 0
    /\ step' = [h \in Handlers |-> Idle] /\ settling' = {} /\ lock' = "free"
    /\ UNCHANGED <<scans, copies, staged, rows, stored, handled>>

Crash == (pass # "idle" \/ \E h \in Handlers : step[h] # Idle) /\ Restart
StagePanics == pass = "layer3" /\ OutOfBounds(Original, found) /\ Restart

\* The row of a finding: the message id, if one was posted, is the key by which
\* reactions look for it.
Create(k, posted) ==
    rows' = Append(rows, [tag |-> k, index |-> TokenIndex(found, k),
                          posted |-> posted, status |-> "pending"])

\* A finding that is not redacted at once gets a row, and a message unless
\* Discord fails.
File ==
    /\ pass = "filing" /\ filed < Len(found)
    /\ filed' = filed + 1
    /\ \/ found[filed'].high /\ UNCHANGED rows
       \/ /\ ~found[filed'].high
          /\ \E posted \in BOOLEAN : Create(filed', posted)
    /\ UNCHANGED <<pass, scans, copies, approved, zones, seen, found, staged, stored, reactionVars>>

EndPass ==
    /\ pass = "filing" /\ filed = Len(found)
    /\ pass' = "idle" /\ approved' = {} /\ zones' = {}
    /\ seen' = << >> /\ found' = << >> /\ filed' = 0
    /\ UNCHANGED <<scans, copies, staged, rows, stored, reactionVars>>

-----------------------------------------------------------------------------
(* Reactions. *)

Emojis == {"approve", "reject", "reanalyze"}

\* The rows that GetByMessageID finds.
GetByMessageID == IF stored THEN {r \in DOMAIN rows : rows[r].posted} ELSE {}

\* A lookup that takes rows of any status.
LookUpAny(h) ==
    /\ step[h] = Idle /\ handled < MaxReactions
    /\ \E emoji \in Emojis, r \in GetByMessageID :
          /\ emoji = "approve" => r \notin settling
          /\ step' = [step EXCEPT ![h] = [at |-> "found", emoji |-> emoji, row |-> r]]
          /\ settling' = IF emoji = "approve" THEN settling \union {r} ELSE settling
    /\ handled' = handled + 1
    /\ UNCHANGED <<fileVars, rows, stored, lock>>

\* The row of the message must be pending. Only approvals have the guard against
\* a second reaction on the message.
LookUp(h) ==
    /\ step[h] = Idle /\ handled < MaxReactions
    /\ \E emoji \in Emojis, r \in GetByMessageID \cap Pending :
          /\ emoji = "approve" => r \notin settling
          /\ step' = [step EXCEPT ![h] = [at |-> "found", emoji |-> emoji, row |-> r]]
          /\ settling' = IF emoji = "approve" THEN settling \union {r} ELSE settling
    /\ handled' = handled + 1
    /\ UNCHANGED <<fileVars, rows, stored, lock>>

Does(h, at, emoji) == step[h].at = at /\ step[h].emoji = emoji
SetStatus(r, status) == rows' = [rows EXCEPT ![r].status = status]

Reject(h) ==
    /\ Does(h, "found", "reject")
    /\ SetStatus(step[h].row, "rejected") /\ step' = [step EXCEPT ![h] = Idle]
    /\ UNCHANGED <<fileVars, stored, handled, settling, lock>>

MarkReanalyzing(h) ==
    /\ Does(h, "found", "reanalyze")
    /\ SetStatus(step[h].row, "reanalyzing") /\ step' = [step EXCEPT ![h] = Idle]
    /\ UNCHANGED <<fileVars, stored, handled, settling, lock>>

LockFile(h) ==
    /\ Does(h, "found", "approve") /\ lock = "free"
    /\ lock' = "held" /\ step' = [step EXCEPT ![h].at = "locked"]
    /\ UNCHANGED <<fileVars, rows, stored, handled, settling>>

\* The decided rows of the file whose index is lower: those of earlier syncs too, and
\* rejected ones, whose tag no handler has replaced.
Counted(rs, tokenIndex) ==
    {r \in DOMAIN rs : rs[r].index < tokenIndex /\ rs[r].status \in {"approved", "rejected"}}
CountResolvedPredecessors(rs, tokenIndex) == Cardinality(Counted(rs, tokenIndex))

\* The manager reads the staged file and replaces one tag by the value of row r.
ResolveTag(r, tokenIndex) ==
    ResolveTokenIndex(staged, tokenIndex, CountResolvedPredecessors(rows, tokenIndex),
                      Resolved(rows[r].tag))

\* An approval whose error return leaves the file locked.
ApproveKeepsLock(h) ==
    LET r      == step[h].row
        result == ResolveTag(r, 0)
    IN  /\ Does(h, "locked", "approve")
        /\ IF result.ok
           THEN staged' = result.content /\ SetStatus(r, "approved") /\ lock' = "free"
           ELSE UNCHANGED <<staged, rows, lock>>
        /\ step' = [step EXCEPT ![h] = Idle]
        /\ settling' = settling \ {r}
        /\ UNCHANGED <<pass, scans, copies, approved, zones, seen, found, filed, stored,
                       handled>>

\* The handler asks for the tag of index 0, whatever the finding is.
Approve(h) ==
    LET r      == step[h].row
        result == ResolveTag(r, 0)
    IN  /\ Does(h, "locked", "approve")
        /\ IF result.ok
           THEN staged' = result.content /\ SetStatus(r, "approved")
           ELSE UNCHANGED <<staged, rows>>
        /\ step' = [step EXCEPT ![h] = Idle]
        /\ lock' = "free" /\ settling' = settling \ {r}
        /\ UNCHANGED <<pass, scans, copies, approved, zones, seen, found, filed, stored,
                       handled>>

-----------------------------------------------------------------------------
Sanitize == Bypass \/ Begin \/ Layer1 \/ Layer2 \/ Layer3 \/ Stage \/ File \/ EndPass
React(h) == Reject(h) \/ MarkReanalyzing(h) \/ LockFile(h) \/ Approve(h)

Next == \/ Sanitize
        \/ Crash
        \/ StagePanics
        \/ \E h \in Handlers : LookUp(h) \/ React(h)

\* A reaction that is being handled goes on: it is a goroutine that waits for
\* the database and the mutex of the file only.
FindingsSpec == Init /\ [][Next]_vars /\ \A h \in Handlers : WF_vars(React(h))

-----------------------------------------------------------------------------
(* Properties. *)

Cells == [of : -(MaxReported + Cardinality(Secrets) + 1) .. Len(Text),
          is : Range(Text) \union {"tag", "reason", "end", "value", "nul"}]
Ranges == [from : Nat, to : Int, high : BOOLEAN]
Rows == [tag : Nat \ {0}, index : Nat \ {0}, posted : BOOLEAN,
         status : {"pending", "approved", "rejected", "reanalyzing"}]

\* Every variable has its type; a finding starts in the file or after it, never
\* before it.
FindingsTypeOK ==
    /\ pass \in {"idle", "read", "layer1", "layer2", "layer3", "filing"}
    /\ scans \in 0 .. MaxScans /\ copies \in 0 .. MaxCopies
    /\ handled \in 0 .. MaxReactions
    /\ approved \subseteq ApprovedValues
    /\ zones \subseteq (0 .. Len(Text)) \X (0 .. Len(Text))
    /\ seen \in Seq(Cells) /\ staged \in Seq(Cells)
    /\ found \in Seq(Ranges) /\ filed \in 0 .. Len(found)
    /\ rows \in Seq(Rows) /\ stored \in BOOLEAN
    /\ step \in [Handlers -> [at : {"idle", "found", "locked"},
                              emoji : Emojis \union {"none"},
                              row : 0 .. Len(rows)]]
    /\ settling \subseteq DOMAIN rows /\ lock \in {"free", "held"}

\* Whatever the layers report, and although two of them are given a content
\* whose offsets are not those of the file: no byte of an approved value or of a
\* template expression is missing from the staged file (GetSkipZones,
\* templateSkipZones, mergeSkipZones, isInSkipZone).
ApprovedKept ==
    pass = "filing" =>
        \A z \in Protected(approved) : \A i \in z[1] + 1 .. z[2] : Original[i] \in Range(staged)

\* What the comment of BuildStagingContent asks of its caller: offsets in
\* bounds, findings that do not overlap.
ValidFindings ==
    /\ \A k \in DOMAIN found : 0 <= found[k].from /\ found[k].from <= found[k].to
                                /\ found[k].to <= Len(Text)
    /\ \A j, k \in DOMAIN found : j < k => found[j].to <= found[k].from

Found(i) == \E k \in DOMAIN found : found[k].from < i /\ i <= found[k].to
Untouched(limit) == {i \in 1 .. limit : ~Found(i)}

\* Where a cell that follows n cells of the file is in the staged file, when so many
\* tags precede it.
Place(n, tags) == Cardinality(Untouched(n)) + TagSize * tags
TagsBefore(i) == Cardinality({k \in DOMAIN found : found[k].from < i})

\* Of valid findings BuildStagingContent makes what it should: the file with each
\* of them replaced by its tag at its place, and all else as it was.
ReplacedWhenValid ==
    pass = "filing" /\ ValidFindings =>
        /\ Len(staged) = Place(Len(Text), Len(found))
        /\ \A i \in Untouched(Len(Text)) : staged[Place(i, TagsBefore(i))] = Original[i]
        /\ \A k \in DOMAIN found : \A i \in 1 .. TagSize :
              staged[Place(found[k].from, k - 1) + i] = Tag(k)[i]

\* The comment of BuildStagingContent says that all findings are replaced with
\* tags: nothing that a layer has found is in the staged file. The pipeline
\* passes on findings that overlap, and this is not so.
FindingsReplaced ==
    pass = "filing" => \A c \in Range(staged) : c.of > 0 => ~Found(c.of)

\* The tags of the findings of a sequence are resolved one after the other.
PlaceOf(content, k) == CHOOSE i \in DOMAIN content : content[i] = Cell(-k, "tag")
ResolveOwn(content, k) == ReplaceTag(content, PlaceOf(content, k), Resolved(k))
ResolveEach(content, ks) ==
    LET resolved[n \in 0 .. Len(ks)] ==
            IF n = 0 THEN content ELSE ResolveOwn(resolved[n - 1], ks[n])
    IN  resolved

NoTagsInText == \A i \in DOMAIN Text : Text[i] # "tag"

\* Rows of the file: those of the findings as operators have decided them, and, as
\* row 0, one that an earlier sync left, which is counted for the indices above its own.
Decided(status, earlier) ==
    [r \in {0} \union DOMAIN found |->
        IF r = 0 THEN [index |-> earlier, status |-> "rejected"]
        ELSE [index |-> TokenIndex(found, r), status |-> status[r]]]

Approved(status) == {k \in DOMAIN found : status[k] = "approved"}

\* What resolveTokenIndex makes of the tag of finding k when those approved were
\* resolved in the order ks: the tag it replaces is as many tags before that of k as
\* there are strays, rows that are counted although no tag is gone for them.
LeadsBackByStrays(k, ks, status, earlier) ==
    LET now       == ResolveEach(staged, ks)[Len(ks)]
        rs        == Decided(status, earlier)
        index     == TokenIndex(found, k)
        count     == CountResolvedPredecessors(rs, index)
        result    == ResolveTokenIndex(now, index, count, Resolved(k))
        strays    == Counted(rs, index) \ Approved(status)
        left      == DOMAIN found \ Approved(status)
        before(i) == Cardinality({j \in left : j < i})
    IN  IF Cardinality(Tags(now)) < index \/ index <= count
        THEN ~result.ok
        ELSE result.ok /\ \E j \in left :
                /\ before(j) = before(k) - Cardinality(strays)
                /\ result.content = ReplaceTag(now, PlaceOf(now, j), Resolved(k))

\* In a file without tags of its own and without automatic redactions, however the
\* findings overlap and in whichever order some were approved: with the number that
\* CountResolvedPredecessors returns, the index of a pending finding leads
\* resolveTokenIndex to an error or back by the strays, so to its own tag only if
\* there are none. Strays are rejected findings, whose handler replaces no tag, and
\* rows of earlier syncs of the file. The code assumes none ("Each resolved tag has
\* already been replaced with its finalValue", token_index.go:30), and so does
\* docs/architecture.md:317, where a rejection replaces the tag too.
ResolvesOwnUnlessMiscounted ==
    pass = "filing" /\ NoTagsInText /\ (\A k \in DOMAIN found : ~found[k].high) =>
        \A status \in [DOMAIN found -> {"pending", "approved", "rejected"}] :
        \A earlier \in DOMAIN found, ks \in SetToSeqs(Approved(status)), k \in DOMAIN found :
            status[k] = "pending" => LeadsBackByStrays(k, ks, status, earlier)

\* A decided row which no handler is about to write is decided for good: late
\* reactions, in any number, change nothing ("idempotent: already resolved").
Settled(r) == rows[r].status # "pending" /\ \A h \in Handlers : step[h].row # r
SettledStays ==
    [][\A r \in DOMAIN rows : Settled(r) =>
          rows'[r] = rows[r] /\ \A h \in Handlers : step'[h].row # r]_vars

\* Every reaction is handled to its end, also when two approvals want the file
\* and when they fail: the mutex and the guard of the message are given back.
ReactionsEnd == \A h \in Handlers : step[h] # Idle ~> step[h] = Idle
=============================================================================
