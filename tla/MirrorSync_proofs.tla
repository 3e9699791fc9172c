-------------------------- MODULE MirrorSync_proofs ---------------------------
(***************************************************************************)
(* Proofs about MirrorSync, for every set of files, every number of        *)
(* concurrent syncs and every bound.                                       *)
(***************************************************************************)
EXTENDS MirrorSync, TLAPS

-------------------------------------------------------------------------------
(* Types.                                                                  *)

\* The contents that the model builds are contents.
LEMMA ContentFacts ==
    /\ Absent \in Content
    /\ Empty \in [Files -> Content]
    /\ NoHold \in [file : Files \cup {None}, content : Content]
    /\ \A x \in 0..Draft, b \in BOOLEAN : [v |-> x, clean |-> b] \in Content
  BY ConstantsOK DEF Absent, Empty, NoHold, Content, Draft

\* What migration publishes of a commit is a content for each file.
LEMMA MirroredType ==
    ASSUME NEW t \in [Files -> Version]
    PROVE  Mirrored(t) \in [Files -> Content]
  <1> SUFFICES ASSUME NEW f \in Files
               PROVE  (IF t[f] = 0 \/ Skipped(f)
                       THEN Absent
                       ELSE [v |-> t[f], clean |-> f \notin KeepPaths]) \in Content
    BY DEF Mirrored
  <1>1. t[f] \in 0..Draft /\ (f \notin KeepPaths) \in BOOLEAN
    BY ConstantsOK DEF Version, Draft
  <1> QED
    BY <1>1, ContentFacts

\* A returning sync leaves the run variables and the mutex typed.
LEMMA ReturnType ==
    ASSUME TypeOK, NEW c \in Callers, Return(c)
    PROVE  /\ pc' \in [Callers -> {"idle", "ensure", "process", "add", "commit", "send", "record"}]
           /\ target' \in [Callers -> 0..MaxCommits]
           /\ todo' \in [Callers -> SUBSET Files]
           /\ held' \in [Callers -> [file : Files \cup {None}, content : Content]]
           /\ changed' \in [Callers -> SUBSET Files]
           /\ drifting' \in Callers \cup {None}
  BY ContentFacts, ConstantsOK DEF TypeOK, Return

LEMMA InitType == Init => TypeOK
  <1> SUFFICES ASSUME Init PROVE TypeOK
    OBVIOUS
  <1>1. /\ head \in Commits
        /\ tree \in [Commits -> [Files -> Version]]
        /\ tree[1] \in [Files -> Version]
        /\ worktree \in [Files -> 0..Draft]
    BY ConstantsOK DEF Init, InitForgejo, Commits, Version, Draft
  <1>2. PICK mode \in Starts : InitMirror(mode)
    BY DEF Init
  <1>3. Mirrored(tree[1]) \in [Files -> Content]
    BY <1>1, MirroredType
  <1>4. /\ baseline \in 0..MaxCommits
        /\ pending \subseteq Files
        /\ staging \in [Files -> Content]
        /\ index \in [Files -> Content]
        /\ local \in {"unborn", "orphan", "ahead", "synced"}
        /\ unpushed \in [Files -> Content]
        /\ tracked \in BOOLEAN
        /\ mirror \in [Files -> Content]
        /\ born \in BOOLEAN
    BY <1>2, <1>3, ContentFacts, ConstantsOK DEF InitMirror
  <1>5. /\ hooks \in 0..MaxHooks
        /\ pc \in [Callers -> {"idle", "ensure", "process", "add", "commit", "send", "record"}]
        /\ target \in [Callers -> 0..MaxCommits]
        /\ todo \in [Callers -> SUBSET Files]
        /\ held \in [Callers -> [file : Files \cup {None}, content : Content]]
        /\ changed \in [Callers -> SUBSET Files]
        /\ drifting \in Callers \cup {None}
        /\ nightly \in 0..MaxCommits
        /\ crashes \in 0..MaxCrashes
    BY ContentFacts, ConstantsOK DEF Init
  <1> QED
    BY <1>1, <1>4, <1>5 DEF TypeOK

\* Every step keeps the types.
LEMMA NextType == TypeOK /\ [Next]_vars => TypeOK'
  <1> SUFFICES ASSUME TypeOK, [Next]_vars PROVE TypeOK'
    OBVIOUS
  <1> USE ConstantsOK DEF forgejo, store, git, github, run
  <1>1. CASE Commit
    BY <1>1, SMTT(30) DEF Commit, TypeOK, Commits, Version
  <1>2. ASSUME NEW c \in Callers, Trigger(c) PROVE TypeOK'
    BY <1>2 DEF Trigger, TypeOK
  <1>3. ASSUME NEW c \in Callers, DriftCheck(c) PROVE TypeOK'
    <2>1. worktree' \in [Files -> 0..Draft]
      BY <1>3 DEF DriftCheck, TypeOK, Commits, Version, Draft
    <2>2. /\ pc' \in [Callers -> {"idle", "ensure", "process", "add", "commit", "send", "record"}]
          /\ drifting' \in Callers \cup {None}
      BY <1>3 DEF DriftCheck, TypeOK
    <2> QED
      BY <1>3, <2>1, <2>2 DEF DriftCheck, TypeOK
  <1>4. ASSUME NEW c \in Callers, Ensure(c) PROVE TypeOK'
    BY <1>4 DEF Ensure, TypeOK, ChangedFiles, Commits, Version, Draft
  <1>5. ASSUME NEW c \in Callers, EnsureFails(c) PROVE TypeOK'
    <2>1. worktree' \in [Files -> 0..Draft]
      BY <1>5 DEF EnsureFails, TypeOK, Commits, Version, Draft
    <2> QED
      BY <1>5, <2>1, ReturnType DEF EnsureFails, TypeOK
  <1>6. ASSUME NEW c \in Callers, NEW f \in Files, PassOver(c, f) PROVE TypeOK'
    BY <1>6 DEF PassOver, TypeOK
  <1>7. ASSUME NEW c \in Callers, NEW f \in Files, Read(c, f) PROVE TypeOK'
    <2>1. [v |-> worktree[f], clean |-> ~ AsIs(f)] \in Content
      BY ContentFacts DEF TypeOK, AsIs
    <2> QED
      BY <1>7, <2>1 DEF Read, TypeOK
  <1>8. ASSUME NEW c \in Callers, Stage(c) PROVE TypeOK'
    <2>1. held[c].file \in Files \cup {None} /\ held[c].content \in Content
      BY DEF TypeOK
    <2>2. staging' \in [Files -> Content]
      BY <1>8, <2>1 DEF Stage, TypeOK
    <2> QED
      BY <1>8, <2>1, <2>2, ContentFacts DEF Stage, TypeOK
  <1>9. ASSUME NEW c \in Callers, SanitizeFails(c) PROVE TypeOK'
    BY <1>9, ContentFacts DEF SanitizeFails, TypeOK
  <1>10. ASSUME NEW c \in Callers, FastForward(c) PROVE TypeOK'
    BY <1>10, ContentFacts DEF FastForward, TypeOK
  <1>11. ASSUME NEW c \in Callers, Add(c) PROVE TypeOK'
    BY <1>11 DEF Add, TypeOK
  <1>12. ASSUME NEW c \in Callers, CommitStaging(c) PROVE TypeOK'
    BY <1>12 DEF CommitStaging, TypeOK
  <1>13. ASSUME NEW c \in Callers, Send(c) PROVE TypeOK'
    BY <1>13, ContentFacts DEF Send, TypeOK
  <1>14. ASSUME NEW c \in Callers, PushFails(c) PROVE TypeOK'
    BY <1>14, ReturnType DEF PushFails, TypeOK
  <1>15. ASSUME NEW c \in Callers, Record(c) PROVE TypeOK'
    BY <1>15, ReturnType DEF Record, TypeOK
  <1>16. ASSUME NEW c \in Callers, RecordFails(c) PROVE TypeOK'
    BY <1>16, ReturnType DEF RecordFails, TypeOK
  <1>17. CASE NightlyStart
    BY <1>17, SMTT(30) DEF NightlyStart, TypeOK, Commits, Version, Draft
  <1>18. ASSUME NEW f \in Files, NightlyExecute(f) PROVE TypeOK'
    BY <1>18 DEF NightlyExecute, TypeOK, Draft
  <1>19. CASE NightlyRecord
    BY <1>19 DEF NightlyRecord, TypeOK
  <1>22. CASE NightlyEnds
    BY <1>22 DEF NightlyEnds, TypeOK
  <1>20. CASE Crash
    BY <1>20, ContentFacts DEF Crash, TypeOK
  <1>21. CASE UNCHANGED vars
    BY <1>21 DEF vars, TypeOK
  <1> QED
    BY <1>1, <1>2, <1>3, <1>4, <1>5, <1>6, <1>7, <1>8, <1>9, <1>10, <1>11, <1>12, <1>13,
       <1>14, <1>15, <1>16, <1>17, <1>18, <1>19, <1>20, <1>21, <1>22 DEF Next, Sync, Nightly

\* Every variable of a behaviour keeps its type.
THEOREM TypeCorrect == Spec => []TypeOK
  BY InitType, NextType, PTL DEF Spec
-------------------------------------------------------------------------------
(* What may leave: the boundary that a file's content crosses on its way   *)
(* from the worktree to the mirror.                                        *)

\* Content x of file f is fit to be published.
Fit(f, x) ==
    /\ Skipped(f) => x.v = 0
    /\ f \notin KeepPaths \cup Reviewable => x.clean

AllFit(side) == \A f \in Files : Fit(f, side[f])

\* The inductive invariant: what a sync holds, the staging directory, the index,
\* the commit that is not yet on the mirror and the mirror are all fit, and only
\* reviewable files are pending.  Each hands its content to the next.
Boundary ==
    /\ TypeOK
    /\ pending \subseteq Reviewable
    /\ \A c \in Callers : held[c] # NoHold =>
         held[c].file \in Files /\ Fit(held[c].file, held[c].content)
    /\ AllFit(staging)
    /\ AllFit(index)
    /\ AllFit(unpushed)
    /\ AllFit(mirror)

\* Absence is fit for every file.
LEMMA EmptyFit == AllFit(Empty)
  BY DEF AllFit, Fit, Empty, Absent

\* What migration publishes is fit.
LEMMA MirroredFit == ASSUME NEW t PROVE AllFit(Mirrored(t))
  BY DEF AllFit, Fit, Mirrored, Absent

LEMMA InitBoundary == Init => Boundary
  <1> SUFFICES ASSUME Init PROVE Boundary
    OBVIOUS
  <1>1. PICK mode \in Starts : InitMirror(mode)
    BY DEF Init
  <1>2. AllFit(staging) /\ AllFit(index) /\ AllFit(unpushed) /\ AllFit(mirror)
    BY <1>1, EmptyFit, MirroredFit DEF InitMirror
  <1>3. pending \subseteq Reviewable
    BY <1>1 DEF InitMirror
  <1>4. \A c \in Callers : held[c] = NoHold
    BY DEF Init
  <1> QED
    BY InitType, <1>2, <1>3, <1>4 DEF Boundary

\* A returning sync holds nothing; the others hold what they held.
LEMMA ReturnHeld ==
    ASSUME TypeOK, NEW c \in Callers, Return(c), NEW d \in Callers
    PROVE  held'[d] = NoHold \/ held'[d] = held[d]
  BY DEF TypeOK, Return

LEMMA NextBoundary == Boundary /\ [Next]_vars => Boundary'
  <1> SUFFICES ASSUME Boundary, [Next]_vars PROVE Boundary'
    OBVIOUS
  <1> USE DEF forgejo, store, git, github, run
  <1>0. TypeOK /\ TypeOK'
    BY NextType DEF Boundary
  <1>1. CASE UNCHANGED <<pending, staging, git, mirror>> /\
             \A c \in Callers : held'[c] = NoHold \/ held'[c] = held[c]
    BY <1>0, <1>1 DEF Boundary, AllFit
  <1>2. CASE Commit
    BY <1>1, <1>2 DEF Commit
  <1>3. ASSUME NEW c \in Callers, Trigger(c) \/ DriftCheck(c) \/ Ensure(c) PROVE Boundary'
    BY <1>1, <1>3 DEF Trigger, DriftCheck, Ensure
  <1>4. ASSUME NEW c \in Callers,
               EnsureFails(c) \/ PushFails(c) \/ Record(c) \/ RecordFails(c)
        PROVE  Boundary'
    BY <1>0, <1>1, <1>4, ReturnHeld DEF EnsureFails, PushFails, Record, RecordFails
  <1>5. ASSUME NEW c \in Callers, NEW f \in Files, PassOver(c, f) PROVE Boundary'
    BY <1>1, <1>5 DEF PassOver
  <1>6. ASSUME NEW c \in Callers, NEW f \in Files, Read(c, f) PROVE Boundary'
    <2>1. held' = [held EXCEPT ![c] =
                     [file |-> f, content |-> [v |-> worktree[f], clean |-> ~ AsIs(f)]]]
      BY <1>6 DEF Read
    <2>2. Fit(f, [v |-> worktree[f], clean |-> ~ AsIs(f)])
      BY <1>6 DEF Read, Fit, AsIs, Boundary
    <2>3. \A d \in Callers : held'[d] # NoHold =>
            held'[d].file \in Files /\ Fit(held'[d].file, held'[d].content)
      BY <1>0, <2>1, <2>2 DEF TypeOK, Boundary
    <2> QED
      BY <1>0, <1>6, <2>3 DEF Read, Boundary, AllFit
  <1>7. ASSUME NEW c \in Callers, Stage(c) PROVE Boundary'
    <2>1. held[c].file \in Files /\ Fit(held[c].file, held[c].content)
      BY <1>7 DEF Stage, Boundary
    <2>2. AllFit(staging')
      BY <1>0, <1>7, <2>1 DEF Stage, TypeOK, Boundary, AllFit
    <2>3. pending' \subseteq Reviewable
      BY <1>7 DEF Stage, Boundary
    <2>4. \A d \in Callers : held'[d] = NoHold \/ held'[d] = held[d]
      BY <1>0, <1>7 DEF Stage, TypeOK
    <2> QED
      BY <1>0, <1>7, <2>2, <2>3, <2>4 DEF Stage, Boundary, AllFit
  <1>8. ASSUME NEW c \in Callers, SanitizeFails(c) PROVE Boundary'
    <2>1. \A d \in Callers : held'[d] = NoHold \/ held'[d] = held[d]
      BY <1>0, <1>8 DEF SanitizeFails, TypeOK
    <2> QED
      BY <1>1, <1>8, <2>1 DEF SanitizeFails
  <1>9. ASSUME NEW c \in Callers, FastForward(c) PROVE Boundary'
    <2>1. AllFit(index') /\ AllFit(unpushed')
      BY <1>9, EmptyFit DEF FastForward, Boundary
    <2> QED
      BY <1>0, <1>9, <2>1 DEF FastForward, Boundary, AllFit
  <1>10. ASSUME NEW c \in Callers, Add(c) PROVE Boundary'
    <2>1. AllFit(index')
      BY <1>10 DEF Add, Boundary, AllFit
    <2> QED
      BY <1>0, <1>10, <2>1 DEF Add, Boundary, AllFit
  <1>11. ASSUME NEW c \in Callers, CommitStaging(c) PROVE Boundary'
    BY <1>0, <1>11 DEF CommitStaging, Boundary, AllFit
  <1>12. ASSUME NEW c \in Callers, Send(c) PROVE Boundary'
    <2>1. AllFit(mirror') /\ AllFit(unpushed')
      BY <1>12, EmptyFit DEF Send, Boundary
    <2> QED
      BY <1>0, <1>12, <2>1 DEF Send, Boundary, AllFit
  <1>13. CASE NightlyStart
    BY <1>1, <1>13 DEF NightlyStart
  <1>14. CASE NightlyRecord \/ NightlyEnds
    BY <1>1, <1>14 DEF NightlyRecord, NightlyEnds
  <1>15. ASSUME NEW f \in Files, NightlyExecute(f) PROVE Boundary'
    BY <1>1, <1>15 DEF NightlyExecute
  <1>16. CASE Crash
    BY <1>1, <1>16 DEF Crash
  <1>17. CASE UNCHANGED vars
    BY <1>1, <1>17 DEF vars
  <1> QED
    BY <1>2, <1>3, <1>4, <1>5, <1>6, <1>7, <1>8, <1>9, <1>10, <1>11, <1>12, <1>13, <1>14,
       <1>15, <1>16, <1>17 DEF Next, Sync, Nightly

LEMMA BoundaryHolds == Spec => []Boundary
  BY InitBoundary, NextBoundary, PTL DEF Spec

\* Outside keep_paths, a file without pending findings reaches the mirror only
\* through the pipeline, with any number of syncs and nightly sessions at once.
THEOREM OnlySanitizedIsMirrored == Spec => []SanitizedOnly
  <1>1. Boundary => SanitizedOnly
    BY DEF Boundary, AllFit, Fit, SanitizedOnly
  <1> QED
    BY <1>1, BoundaryHolds, PTL

\* A file that matches a skip pattern is never staged, committed or published.
THEOREM SkippedIsNeverMirrored == Spec => []SkipNeverMirrored
  <1>1. Boundary => SkipNeverMirrored
    BY DEF Boundary, AllFit, Fit, SkipNeverMirrored
  <1> QED
    BY <1>1, BoundaryHolds, PTL
-------------------------------------------------------------------------------
(* No push removes a file from the mirror, unless the staging directory    *)
(* started without the files of the mirror (init-sync-state).              *)

\* Every file of one side is a file of the other.
Within(one, other) == \A f \in Files : one[f].v # 0 => other[f].v # 0

\* The inductive invariant: the files of the mirror are files of the commit to
\* be pushed, those are files of the index, and those are on disk; so is every
\* file that a sync is about to add.  AddGlob can then remove nothing.
Preserved ==
    /\ TypeOK
    /\ Within(mirror, index)
    /\ Within(unpushed, index)
    /\ Within(index, staging)
    /\ local \in {"orphan", "ahead"} => Within(mirror, unpushed)
    /\ \A c \in Callers :
         /\ held[c] # NoHold => held[c].file \in Files /\ held[c].content.v # 0
         /\ \A f \in changed[c] : staging[f].v # 0
         /\ pc[c] = "send" => local # "unborn"

LEMMA EmptyWithin == ASSUME NEW other PROVE Within(Empty, other)
  BY DEF Within, Empty, Absent

LEMMA InitPreserved ==
    ASSUME Starts \subseteq {"fresh", "migrated"}
    PROVE  Init => Preserved
  <1> SUFFICES ASSUME Init PROVE Preserved
    OBVIOUS
  <1>1. PICK mode \in Starts : InitMirror(mode)
    BY DEF Init
  <1>2. /\ index = staging /\ mirror = staging /\ unpushed = Empty
        /\ local \notin {"orphan", "ahead"}
    BY <1>1 DEF InitMirror
  <1>3. Within(staging, staging)
    BY DEF Within
  <1>4. \A c \in Callers : held[c] = NoHold /\ changed[c] = {} /\ pc[c] = "idle"
    BY DEF Init
  <1> QED
    BY InitType, EmptyWithin, <1>2, <1>3, <1>4 DEF Preserved

\* A return changes nothing of what Preserved says of the syncs.
LEMMA ReturnRun ==
    ASSUME TypeOK, NEW c \in Callers, Return(c), NEW d \in Callers
    PROVE  /\ held'[d] = NoHold \/ held'[d] = held[d]
           /\ changed'[d] \subseteq changed[d]
           /\ pc'[d] = "send" => pc[d] = "send"
  BY DEF TypeOK, Return

LEMMA NextPreserved == Preserved /\ [Next]_vars => Preserved'
  <1> SUFFICES ASSUME Preserved, [Next]_vars PROVE Preserved'
    OBVIOUS
  <1> USE DEF forgejo, store, git, github, run
  <1>0. TypeOK /\ TypeOK'
    BY NextType DEF Preserved
  <1>1. CASE /\ UNCHANGED <<staging, index, local, unpushed, mirror>>
             /\ \A c \in Callers : /\ held'[c] = NoHold \/ held'[c] = held[c]
                                   /\ changed'[c] \subseteq changed[c]
                                   /\ pc'[c] = "send" => pc[c] = "send"
    BY <1>0, <1>1 DEF Preserved, Within
  <1>2. CASE Commit
    BY <1>1, <1>2 DEF Commit
  <1>3. ASSUME NEW c \in Callers, Trigger(c) \/ DriftCheck(c) \/ Ensure(c) PROVE Preserved'
    BY <1>0, <1>1, <1>3 DEF Trigger, DriftCheck, Ensure, TypeOK
  <1>4. ASSUME NEW c \in Callers,
               EnsureFails(c) \/ PushFails(c) \/ Record(c) \/ RecordFails(c)
        PROVE  Preserved'
    BY <1>0, <1>1, <1>4, ReturnRun DEF EnsureFails, PushFails, Record, RecordFails
  <1>5. ASSUME NEW c \in Callers, NEW f \in Files, PassOver(c, f) PROVE Preserved'
    BY <1>1, <1>5 DEF PassOver
  <1>6. ASSUME NEW c \in Callers, NEW f \in Files, Read(c, f) PROVE Preserved'
    <2>1. \A d \in Callers : held'[d] # NoHold =>
            held'[d].file \in Files /\ held'[d].content.v # 0
      BY <1>0, <1>6 DEF Read, TypeOK, Preserved
    <2> QED
      BY <1>0, <1>6, <2>1 DEF Read, Preserved, Within
  <1>7. ASSUME NEW c \in Callers, Stage(c) PROVE Preserved'
    <2>1. held[c].file \in Files /\ held[c].content.v # 0
      BY <1>7 DEF Stage, Preserved
    <2>2. \A f \in Files : staging[f].v # 0 => staging'[f].v # 0
      BY <1>0, <1>7, <2>1 DEF Stage, TypeOK
    <2>3. staging'[held[c].file].v # 0
      BY <1>0, <1>7, <2>1 DEF Stage, TypeOK
    <2>4. \A d \in Callers : held'[d] = NoHold \/ held'[d] = held[d]
      BY <1>0, <1>7 DEF Stage, TypeOK
    <2>5. \A d \in Callers : changed'[d] \subseteq changed[d] \cup {held[c].file}
      BY <1>0, <1>7 DEF Stage, TypeOK
    <2>6. \A d \in Callers : \A f \in changed'[d] : staging'[f].v # 0
      BY <1>0, <2>2, <2>3, <2>5 DEF TypeOK, Preserved
    <2> QED
      BY <1>0, <1>7, <2>2, <2>4, <2>6 DEF Stage, Preserved, Within
  <1>8. ASSUME NEW c \in Callers, SanitizeFails(c) PROVE Preserved'
    <2>1. \A d \in Callers : held'[d] = NoHold \/ held'[d] = held[d]
      BY <1>0, <1>8 DEF SanitizeFails, TypeOK
    <2> QED
      BY <1>1, <1>8, <2>1 DEF SanitizeFails
  <1>9. ASSUME NEW c \in Callers, FastForward(c) PROVE Preserved'
    <2>1. /\ Within(mirror, index') /\ Within(index', staging)
          /\ Within(unpushed', index')
          /\ local' \in {"orphan", "ahead"} => Within(mirror, unpushed')
      BY <1>9, EmptyWithin DEF FastForward, Preserved, Within
    <2>2. \A d \in Callers : pc'[d] = "send" => local' # "unborn"
      BY <1>0, <1>9 DEF FastForward, Preserved, TypeOK
    <2> QED
      BY <1>0, <1>9, <2>1, <2>2 DEF FastForward, Preserved
  <1>10. ASSUME NEW c \in Callers, Add(c) PROVE Preserved'
    <2>1. \A f \in changed[c] : staging[f].v # 0
      BY DEF Preserved
    <2>2. Within(index, index') /\ Within(index', staging)
      BY <1>10, <2>1 DEF Add, Preserved, Within
    <2>3. Within(mirror, index') /\ Within(unpushed, index')
      BY <2>2 DEF Preserved, Within
    <2>4. \A d \in Callers : pc'[d] = "send" => pc[d] = "send"
      BY <1>0, <1>10 DEF Add, TypeOK
    <2> QED
      BY <1>0, <1>10, <2>2, <2>3, <2>4 DEF Add, Preserved
  <1>11. ASSUME NEW c \in Callers, CommitStaging(c) PROVE Preserved'
    BY <1>0, <1>11 DEF CommitStaging, Preserved, Within
  <1>12. ASSUME NEW c \in Callers, Send(c) PROVE Preserved'
    <2>1. local # "unborn"
      BY <1>12 DEF Send, Preserved
    <2>2. \A d \in Callers : pc'[d] = "send" => pc[d] = "send"
      BY <1>0, <1>12 DEF Send, TypeOK
    <2>3. CASE local = "synced"
      BY <1>0, <1>12, <2>2, <2>3 DEF Send, Preserved
    <2>4. CASE local # "synced"
      <3>1. Within(mirror', index) /\ Within(unpushed', index) /\ local' = "synced"
        BY <1>12, <2>4, EmptyWithin DEF Send, Preserved
      <3> QED
        BY <1>0, <1>12, <2>2, <3>1 DEF Send, Preserved
    <2> QED
      BY <2>3, <2>4
  <1>13. CASE NightlyStart
    BY <1>1, <1>13 DEF NightlyStart
  <1>14. CASE NightlyRecord \/ NightlyEnds
    BY <1>1, <1>14 DEF NightlyRecord, NightlyEnds
  <1>15. ASSUME NEW f \in Files, NightlyExecute(f) PROVE Preserved'
    BY <1>1, <1>15 DEF NightlyExecute
  <1>16. CASE Crash
    BY <1>1, <1>16 DEF Crash
  <1>17. CASE UNCHANGED vars
    BY <1>1, <1>17 DEF vars
  <1> QED
    BY <1>2, <1>3, <1>4, <1>5, <1>6, <1>7, <1>8, <1>9, <1>10, <1>11, <1>12, <1>13, <1>14,
       <1>15, <1>16, <1>17 DEF Next, Sync, Nightly

\* Only Send changes the mirror, and what it sends has the mirror's files.
LEMMA StepPreserves ==
    ASSUME Preserved, [Next]_vars
    PROVE  Within(mirror, mirror')
  <1> USE DEF forgejo, store, git, github, run
  <1>1. ASSUME NEW c \in Callers, Send(c) PROVE Within(mirror, mirror')
    <2>1. local # "unborn"
      BY <1>1 DEF Send, Preserved
    <2>2. CASE local = "synced"
      BY <1>1, <2>2 DEF Send, Within
    <2>3. CASE local # "synced"
      BY <1>1, <2>1, <2>3 DEF Send, Preserved, TypeOK
    <2> QED
      BY <2>2, <2>3
  <1>2. CASE \A c \in Callers : ~ Send(c)
    <2>1. UNCHANGED mirror
      BY <1>2 DEF Next, Sync, Nightly, vars, Commit, Trigger, DriftCheck, Ensure,
                  EnsureFails, PassOver, Read, Stage, SanitizeFails, FastForward, Add,
                  CommitStaging, PushFails, Record, RecordFails, NightlyStart,
                  NightlyExecute, NightlyRecord, NightlyEnds, Crash
    <2> QED
      BY <2>1 DEF Within
  <1> QED
    BY <1>1, <1>2

\* With explicit names or with AddGlob, with any number of overlapping syncs,
\* nightly sessions, failures and restarts: once the staging directory has held
\* every file of the mirror, no push takes a file from the mirror.
THEOREM PushesPreserveFiles ==
    ASSUME Starts \subseteq {"fresh", "migrated"}
    PROVE  Spec => PushPreservesFiles
  <1>1. Init => Preserved
    BY InitPreserved
  <1>2. Preserved /\ [Next]_vars =>
          [\A f \in Files : tree[head][f] # 0 /\ mirror[f].v # 0 => mirror'[f].v # 0]_vars
    BY StepPreserves DEF Within
  <1> QED
    BY <1>1, <1>2, NextPreserved, PTL DEF Spec, PushPreservesFiles

===============================================================================
