--------------------------- MODULE Migration_proofs ----------------------------
(***************************************************************************)
(* Proofs about Migration: the confirmation of a run, the types, and what  *)
(* may reach the mirror, for every number of runs and of syncs, every set  *)
(* of files and every bound.                                               *)
(***************************************************************************)
EXTENDS Migration, MirrorContract_proofs

Phases == {"none", "waiting", "ensure", "reset", "files", "add", "commit", "send",
           "baseline", "complete", "over"}
Answers == {"none", "pending", "confirmed", "rejected", "expired"}

\* What the confirmation rests on: a run that was never started has no row, so
\* only a run's own request opens its row, and Authorized itself.
ConfirmInv ==
    /\ phase \in [Runs -> Phases]
    /\ row \in [Runs -> Answers]
    /\ kind \in [Runs -> {"none", "bootstrap", "command"}]
    /\ \A r \in Runs : kind[r] = "none" => row[r] = "none" /\ phase[r] = "none"
    /\ Authorized

-------------------------------------------------------------------------------
(* The steps, by what they do to the confirmation of a run.                *)

\* A run asks: its row is opened, and it waits.
Asks(r) ==
    /\ kind[r] = "none"
    /\ \E k \in {"bootstrap", "command"} : kind' = [kind EXCEPT ![r] = k]
    /\ row' = [row EXCEPT ![r] = "pending"]
    /\ phase' = [phase EXCEPT ![r] = "waiting"]

\* An operator answers a pending row.
Answered(r) ==
    /\ row[r] = "pending"
    /\ \E answer \in {"confirmed", "rejected"} : row' = [row EXCEPT ![r] = answer]
    /\ UNCHANGED <<kind, phase>>

\* The deadline ends a waiting run.
Expires(r) ==
    /\ phase[r] = "waiting"
    /\ row' = [row EXCEPT ![r] = "expired"]
    /\ phase' = [phase EXCEPT ![r] = "over"]
    /\ UNCHANGED kind

\* A run goes on: it is confirmed, or already past its confirmation, or over.
Proceeds(r) ==
    /\ \E p \in Phases \ {"none"} :
         /\ phase' = [phase EXCEPT ![r] = p]
         /\ phase[r] # "none"
         /\ p = "over" \/ row[r] = "confirmed" \/ Busy(r)
    /\ UNCHANGED <<kind, row>>

\* The runs of a process that ends are over.
Ends ==
    /\ \E S \in SUBSET Runs :
         /\ \A r \in S : phase[r] # "none"
         /\ phase' = [r \in Runs |-> IF r \in S THEN "over" ELSE phase[r]]
    /\ UNCHANGED <<kind, row>>

ConfirmStep ==
    \/ \E r \in Runs : Asks(r) \/ Answered(r) \/ Expires(r) \/ Proceeds(r)
    \/ Ends
    \/ UNCHANGED <<kind, row, phase>>

\* Every step of a run, of the daemon or of a sync is one of these.
LEMMA StepKinds == [MigrationNext]_mvars => ConfirmStep
  <1> SUFFICES ASSUME [MigrationNext]_mvars PROVE ConfirmStep
    OBVIOUS
  <1>1. CASE Mode3
    BY <1>1 DEF Mode3, SyncDiff, SyncPublish, SyncRecord, NoDrift, migration, ConfirmStep
  <1>2. CASE BootstrapPasses
    BY <1>2 DEF BootstrapPasses, ConfirmStep
  <1>3. ASSUME NEW r \in Runs, Migrate(r) PROVE ConfirmStep
    <2>1. CASE Bootstrap(r) \/ \E force \in BOOLEAN : Command(r, force)
      <3>1. Asks(r)
        BY <2>1 DEF Bootstrap, Command, Ask, Asks, Create, Goto
      <3> QED
        BY <3>1 DEF ConfirmStep
    <2>2. CASE \E answer \in {"confirmed", "rejected"} : React(r, answer)
      <3>1. Answered(r)
        BY <2>2 DEF React, Answered
      <3> QED
        BY <3>1 DEF ConfirmStep
    <2>3. CASE Expire(r)
      <3>1. Expires(r)
        BY <2>3 DEF Expire, Expires, SetStatus, Goto
      <3> QED
        BY <3>1 DEF ConfirmStep
    <2>4. CASE Poll(r)
      <3>1. Proceeds(r)
        BY <2>4 DEF Poll, Proceeds, GetByMessageID, Goto, asking, Phases
      <3> QED
        BY <3>1 DEF ConfirmStep
    <2>5. CASE GiveUp(r) \/ ListFiles(r) \/ Reset(r) \/ RemoveSkipped(r)
      <3>1. Proceeds(r)
        BY <2>5 DEF GiveUp, ListFiles, Reset, RemoveSkipped, Proceeds, Busy, Goto,
                    asking, Phases
      <3> QED
        BY <3>1 DEF ConfirmStep
    <2>6. CASE AddAll(r) \/ CommitAll(r) \/ ForcePush(r) \/ ForcePushFails(r)
      <3>1. Proceeds(r)
        BY <2>6 DEF AddAll, CommitAll, ForcePush, ForcePushFails, Proceeds, Busy, Goto,
                    asking, Phases
      <3> QED
        BY <3>1 DEF ConfirmStep
    <2>7. CASE StoreBaseline(r) \/ CompleteMigration(r)
      <3>1. Proceeds(r)
        BY <2>7 DEF StoreBaseline, CompleteMigration, Proceeds, Busy, Goto, asking, Phases
      <3> QED
        BY <3>1 DEF ConfirmStep
    <2>8. CASE (\E f \in Files : LeaveOut(r, f) \/ Take(r, f)) \/ Fill(r) \/ FillFails(r)
      BY <2>8 DEF LeaveOut, Take, Fill, FillFails, asking, ConfirmStep
    <2> QED
      BY <1>3, <2>1, <2>2, <2>3, <2>4, <2>5, <2>6, <2>7, <2>8 DEF Migrate
  <1>4. ASSUME NEW r \in Runs, Kill(r) PROVE ConfirmStep
    <2>1. Ends
      BY <1>4 DEF Kill, Stop, Running, Ends, asking
    <2> QED
      BY <2>1 DEF ConfirmStep
  <1>5. CASE Restart
    <2>1. Ends
      <3> DEFINE S == {r \in Runs : Running(r) /\ kind[r] = "bootstrap"}
      <3>1. S \in SUBSET Runs /\ \A r \in S : phase[r] # "none"
        BY DEF Running
      <3>2. /\ phase' = [r \in Runs |-> IF r \in S THEN "over" ELSE phase[r]]
            /\ UNCHANGED <<kind, row>>
        BY <1>5 DEF Restart, Stop
      <3> QED
        BY <3>1, <3>2 DEF Ends
    <2> QED
      BY <2>1 DEF ConfirmStep
  <1>6. CASE UNCHANGED mvars
    BY <1>6 DEF mvars, ConfirmStep
  <1> QED
    BY <1>1, <1>2, <1>3, <1>4, <1>5, <1>6 DEF MigrationNext

-------------------------------------------------------------------------------
(* The invariant.                                                          *)

LEMMA InitConfirm == MigrationInit => ConfirmInv
  BY DEF MigrationInit, ConfirmInv, Authorized, Busy, Phases, Answers

LEMMA NextConfirm == ConfirmInv /\ [MigrationNext]_mvars => ConfirmInv'
  <1> SUFFICES ASSUME ConfirmInv, ConfirmStep PROVE ConfirmInv'
    BY StepKinds
  <1> USE DEF ConfirmInv, Authorized, Busy, Phases, Answers
  <1>1. ASSUME NEW r \in Runs, Asks(r) PROVE ConfirmInv'
    BY <1>1 DEF Asks
  <1>2. ASSUME NEW r \in Runs, Answered(r) PROVE ConfirmInv'
    BY <1>2 DEF Answered
  <1>3. ASSUME NEW r \in Runs, Expires(r) PROVE ConfirmInv'
    BY <1>3 DEF Expires
  <1>4. ASSUME NEW r \in Runs, Proceeds(r) PROVE ConfirmInv'
    BY <1>4 DEF Proceeds
  <1>5. CASE Ends
    BY <1>5 DEF Ends
  <1>6. CASE UNCHANGED <<kind, row, phase>>
    BY <1>6
  <1> QED
    BY <1>1, <1>2, <1>3, <1>4, <1>5, <1>6 DEF ConfirmStep

LEMMA Confirmed == MigrationSpec => []ConfirmInv
  BY InitConfirm, NextConfirm, PTL DEF MigrationSpec

-------------------------------------------------------------------------------
(* The theorems.                                                           *)

\* Whatever the number of requests, reactions, deadlines, syncs and restarts, a
\* run touches directories and mirror only while its own row is confirmed
\* (ConfirmMigration of manager.go, SetStatusByMessageID of the store).
THEOREM MigrationAuthorized == MigrationSpec => []Authorized
  <1>1. ConfirmInv => Authorized
    BY DEF ConfirmInv
  <1> QED
    BY <1>1, Confirmed, PTL

\* An answer, once stored, is changed only by the deadline of a run that is still
\* waiting and then gives up (the deadline branch of ConfirmMigration).
THEOREM MigrationAnswerIsFinal == MigrationSpec => AnswerIsFinal
  <1> DEFINE Kept == \A r \in Runs :
                row[r] \in {"confirmed", "rejected", "expired"} /\ row'[r] # row[r]
                  => row'[r] = "expired" /\ phase[r] = "waiting" /\ phase'[r] = "over"
  <1>1. ConfirmInv /\ [MigrationNext]_mvars => [Kept]_mvars
    <2> SUFFICES ASSUME ConfirmInv, ConfirmStep PROVE Kept
      BY StepKinds
    <2> USE DEF ConfirmInv
    <2>1. ASSUME NEW r \in Runs, Asks(r) PROVE Kept
      BY <2>1 DEF Asks
    <2>2. ASSUME NEW r \in Runs, Answered(r) PROVE Kept
      BY <2>2 DEF Answered
    <2>3. ASSUME NEW r \in Runs, Expires(r) PROVE Kept
      BY <2>3 DEF Expires
    <2>4. ASSUME NEW r \in Runs, Proceeds(r) PROVE Kept
      BY <2>4 DEF Proceeds
    <2>5. CASE Ends \/ UNCHANGED <<kind, row, phase>>
      BY <2>5 DEF Ends
    <2> QED
      BY <2>1, <2>2, <2>3, <2>4, <2>5 DEF ConfirmStep
  <1>2. MigrationSpec => []ConfirmInv /\ [][MigrationNext]_mvars
    BY Confirmed DEF MigrationSpec
  <1> QED
    BY <1>1, <1>2, PTL DEF AnswerIsFinal

-------------------------------------------------------------------------------
(* Types.                                                                  *)

\* What the runs keep typed.
RunTypes ==
    /\ kind \in [Runs -> {"none", "bootstrap", "command"}]
    /\ phase \in [Runs -> Phases]
    /\ row \in [Runs -> Answers]
    /\ status \in {"pending", "in_progress", "complete"}
    /\ booted \in BOOLEAN
    /\ at \in [Runs -> 0..MaxCommits]
    /\ names \in [Runs -> SUBSET Files]
    /\ copy \in [Runs -> [file : Files \cup {None}, content : Content]]
    /\ calm \in BOOLEAN
    /\ \A r \in Runs : /\ copy[r] # NoHold => phase[r] = "files"
                       /\ phase[r] = "waiting" => row[r] # "none"

LEMMA TypeParts == MigrationTypeOK <=> TypeOK /\ RunTypes
  BY DEF MigrationTypeOK, RunTypes, Phases, Answers

LEMMA InitMigrationType == MigrationInit => MigrationTypeOK
  <1> SUFFICES ASSUME MigrationInit PROVE TypeOK /\ RunTypes
    BY TypeParts
  <1>1. TypeOK
    BY InitType DEF MigrationInit
  <1>2. calm \in BOOLEAN /\ booted \in BOOLEAN
    BY DEF MigrationInit
  <1>3. RunTypes
    BY <1>2, ContentFacts, ConstantsOK DEF MigrationInit, RunTypes, Phases, Answers
  <1> QED
    BY <1>1, <1>3

\* A sync and a commit leave the runs alone.
LEMMA Mode3RunTypes ==
    ASSUME RunTypes, Mode3
    PROVE  RunTypes'
  <1>1. UNCHANGED migration
    BY DEF Mode3, NoDrift, SyncDiff, SyncPublish, SyncRecord
  <1> QED
    BY <1>1 DEF migration, RunTypes

\* The steps of the confirmation keep the types of the runs: a run that asks has
\* not started, so it holds no file.
LEMMA AskRunTypes ==
    ASSUME RunTypes, ConfirmInv, NEW r \in Runs,
           \/ Bootstrap(r) \/ \E force \in BOOLEAN : Command(r, force)
           \/ \E answer \in {"confirmed", "rejected"} : React(r, answer)
           \/ Poll(r) \/ Expire(r)
    PROVE  RunTypes'
  <1> USE DEF RunTypes, Phases, Answers, Goto, filling, asking
  <1>1. CASE Bootstrap(r)
    <2>1. Asks(r)
      BY <1>1 DEF Bootstrap, Ask, Asks, Create
    <2>2. /\ status' = "pending" /\ booted' \in BOOLEAN
          /\ UNCHANGED <<at, names, copy, calm>>
      BY <1>1 DEF Bootstrap, SetMigrationStatus
    <2> QED
      BY <2>1, <2>2 DEF Asks, ConfirmInv
  <1>2. CASE \E force \in BOOLEAN : Command(r, force)
    <2>1. Asks(r)
      BY <1>2 DEF Command, Ask, Asks, Create
    <2>2. UNCHANGED <<status, booted, at, names, copy, calm>>
      BY <1>2 DEF Command
    <2> QED
      BY <2>1, <2>2 DEF Asks, ConfirmInv
  <1>3. CASE \E answer \in {"confirmed", "rejected"} : React(r, answer)
    BY <1>3 DEF React
  <1>4. CASE Poll(r)
    BY <1>4 DEF Poll, GetByMessageID
  <1>5. CASE Expire(r)
    BY <1>5 DEF Expire, SetStatus
  <1> QED
    BY <1>1, <1>2, <1>3, <1>4, <1>5

\* The steps that fill and push keep the types of the runs.
LEMMA FillRunTypes ==
    ASSUME TypeOK, RunTypes, NEW r \in Runs,
           \/ GiveUp(r) \/ ListFiles(r) \/ Reset(r)
           \/ \E f \in Files : LeaveOut(r, f) \/ Take(r, f)
           \/ Fill(r) \/ FillFails(r) \/ RemoveSkipped(r)
           \/ AddAll(r) \/ CommitAll(r) \/ ForcePush(r) \/ ForcePushFails(r)
           \/ StoreBaseline(r) \/ CompleteMigration(r)
    PROVE  RunTypes'
  <1> USE DEF RunTypes, Phases, Answers, Goto, filling, asking
  <1>1. CASE GiveUp(r)
    BY <1>1, ConstantsOK DEF GiveUp
  <1>2. CASE ListFiles(r)
    BY <1>2, ConstantsOK DEF ListFiles, TypeOK, Commits
  <1>3. CASE Reset(r)
    BY <1>3 DEF Reset
  <1>4. ASSUME NEW f \in Files, LeaveOut(r, f) PROVE RunTypes'
    BY <1>4 DEF LeaveOut, NextName
  <1>5. ASSUME NEW f \in Files, Take(r, f) PROVE RunTypes'
    <2>1. [v |-> worktree[f], clean |-> f \notin KeepPaths] \in Content
      BY ContentFacts DEF TypeOK
    <2>2. copy' \in [Runs -> [file : Files \cup {None}, content : Content]]
      BY <1>5, <2>1 DEF Take, ReadForgejoFile
    <2> QED
      BY <1>5, <2>2 DEF Take, NextName
  <1>6. CASE Fill(r) \/ FillFails(r)
    BY <1>6, ContentFacts DEF Fill, FillFails
  <1>7. CASE RemoveSkipped(r) \/ AddAll(r) \/ CommitAll(r) \/ ForcePush(r)
    BY <1>7 DEF RemoveSkipped, AddAll, CommitAll, ForcePush
  <1>8. CASE ForcePushFails(r)
    BY <1>8, ConstantsOK DEF ForcePushFails
  <1>9. CASE StoreBaseline(r)
    BY <1>9 DEF StoreBaseline
  <1>10. CASE CompleteMigration(r)
    BY <1>10, ConstantsOK DEF CompleteMigration
  <1> QED
    BY <1>1, <1>2, <1>3, <1>4, <1>5, <1>6, <1>7, <1>8, <1>9, <1>10

\* Runs that stop leave nothing half done in their own variables.
LEMMA StopRunTypes ==
    ASSUME RunTypes, NEW S \in SUBSET Runs, Stop(S), UNCHANGED <<kind, row, status, calm>>,
           booted' \in BOOLEAN
    PROVE  RunTypes'
  BY ContentFacts, ConstantsOK DEF RunTypes, Stop, Phases, Answers

LEMMA NextRunTypes ==
    TypeOK /\ RunTypes /\ ConfirmInv /\ [MigrationNext]_mvars => RunTypes'
  <1> SUFFICES ASSUME TypeOK, RunTypes, ConfirmInv, [MigrationNext]_mvars PROVE RunTypes'
    OBVIOUS
  <1>1. CASE BootstrapPasses
    BY <1>1 DEF BootstrapPasses, RunTypes, filling
  <1>2. ASSUME NEW r \in Runs, Migrate(r) PROVE RunTypes'
    BY <1>2, AskRunTypes, FillRunTypes DEF Migrate
  <1>3. ASSUME NEW r \in Runs, Kill(r) PROVE RunTypes'
    <2>1. Stop({r}) /\ UNCHANGED <<kind, row, status, calm>> /\ booted' \in BOOLEAN
      BY <1>3 DEF Kill, asking, RunTypes
    <2> QED
      BY <2>1, StopRunTypes
  <1>4. CASE Restart
    <2>1. /\ Stop({r \in Runs : Running(r) /\ kind[r] = "bootstrap"})
          /\ UNCHANGED <<kind, row, status, calm>> /\ booted' \in BOOLEAN
      BY <1>4 DEF Restart
    <2> QED
      BY <2>1, StopRunTypes
  <1>5. CASE UNCHANGED mvars
    BY <1>5 DEF mvars, RunTypes
  <1> QED
    BY <1>1, <1>2, <1>3, <1>4, <1>5, Mode3RunTypes DEF MigrationNext

-------------------------------------------------------------------------------
(* Types, and what may reach the mirror.                                   *)

\* Content x of file f is sanitized, if it has to be. Unlike Fit, this says nothing
\* of skip patterns, which runs and syncs read differently.
CleanFor(f, x) == f \notin KeepPaths \cup Reviewable => x.clean

AllClean(side) == \A f \in Files : CleanFor(f, side[f])

\* What every step keeps of the variables of MirrorSync: each place that content
\* passes through on its way to the mirror has only clean content.
CleanBoundary ==
    /\ TypeOK
    /\ pending \subseteq Reviewable
    /\ \A c \in Callers : held[c] # NoHold =>
         held[c].file \in Files /\ CleanFor(held[c].file, held[c].content)
    /\ AllClean(staging)
    /\ AllClean(index)
    /\ AllClean(unpushed)
    /\ AllClean(mirror)

\* Absence is clean for every file.
LEMMA EmptyClean == AllClean(Empty)
  BY DEF AllClean, CleanFor, Empty, Absent

\* The steps of MirrorSync that Migration has too, and those that change none of
\* its variables.
LEMMA StepBoundary ==
    ASSUME CleanBoundary,
           Commit \/ (\E c \in Callers : DriftCheck(c)) \/ Crash \/ UNCHANGED vars
    PROVE  CleanBoundary'
  <1> USE DEF store, git
  <1>1. TypeOK'
    <2>1. TypeOK
      BY DEF CleanBoundary
    <2>2. [Next]_vars
      BY DEF Next, Sync
    <2> QED
      BY <2>1, <2>2, NextType
  <1>2. UNCHANGED <<pending, staging, index, unpushed, mirror>>
    BY DEF Commit, DriftCheck, Crash, vars, github
  <1>3. \A c \in Callers : held'[c] = NoHold \/ held'[c] = held[c]
    BY DEF Commit, DriftCheck, Crash, vars, run
  <1> QED
    BY <1>1, <1>2, <1>3 DEF CleanBoundary, AllClean

\* What a run has read and not yet written is clean.
CopiesClean ==
    \A r \in Runs : copy[r] # NoHold =>
        copy[r].file \in Files /\ CleanFor(copy[r].file, copy[r].content)

\* The inductive invariant: that of MirrorSync, and that of the runs.
MigrationBoundary == CleanBoundary /\ RunTypes /\ ConfirmInv /\ CopiesClean

\* The sync of Migration keeps the boundary: what it stages is clean, and index,
\* commit and mirror take files of the staging directory, of the index or of the
\* mirror.
LEMMA PublishBoundary ==
    ASSUME CleanBoundary, NEW c \in Callers, SyncPublish(c)
    PROVE  CleanBoundary'
  <1> USE DEF forgejo, github, CleanBoundary
  <1> DEFINE Staged(failed) == {f \in todo[c] \ failed : ~ Skipped(f) /\ worktree[f] # 0}
             Disk(failed) == [f \in Files |->
                                IF f \in Staged(failed)
                                THEN [v |-> worktree[f], clean |-> ~ AsIs(f)]
                                ELSE staging[f]]
             moved == born /\ local # "synced"
             Committed(failed) == [f \in Files |->
                                IF Staged(failed) = {} \/ f \in Staged(failed)
                                THEN Disk(failed)[f]
                                ELSE IF moved THEN mirror[f] ELSE index[f]]
  <1>1. PICK failed \in {{}, Flaky} :
          /\ staging' = Disk(failed)
          /\ pending' = pending \cup {f \in Staged(failed) \cap Reviewable : ~ AsIs(f)}
          /\ index' = Committed(failed)
          /\ mirror' = Committed(failed) \/ mirror' = mirror
          /\ unpushed' \in {Committed(failed), Empty, unpushed}
          /\ local' \in {"orphan", "ahead", "synced", local}
          /\ tracked' = TRUE \/ tracked' = born
          /\ born' = TRUE \/ born' = born
          /\ \/ pc' = [pc EXCEPT ![c] = "record"]
             \/ pc' = [pc EXCEPT ![c] = "idle"]
          /\ target' = target \/ target' = [target EXCEPT ![c] = 0]
    BY DEF SyncPublish
  <1> DEFINE disk == Disk(failed)
             next == Committed(failed)
  <1>2. /\ staging' = disk
        /\ index' = next
        /\ mirror' = next \/ mirror' = mirror
        /\ unpushed' \in {next, Empty, unpushed}
        /\ pending' \subseteq Reviewable
    BY <1>1
  <1>3. /\ local' \in {"unborn", "orphan", "ahead", "synced"}
        /\ tracked' \in BOOLEAN /\ born' \in BOOLEAN
        /\ pc' \in [Callers -> {"idle", "ensure", "process", "add", "commit", "send", "record"}]
        /\ target' \in [Callers -> 0..MaxCommits]
    <2>1. tracked' = TRUE \/ tracked' = born
      BY <1>1
    <2>2. born' = TRUE \/ born' = born
      BY <1>1
    <2>3. born \in BOOLEAN
      BY DEF TypeOK
    <2>4. tracked' \in BOOLEAN /\ born' \in BOOLEAN
      BY <2>1, <2>2, <2>3, Zenon
    <2>5. local' \in {"unborn", "orphan", "ahead", "synced"}
      <3>1. local' \in {"orphan", "ahead", "synced", local}
        BY <1>1
      <3> QED
        BY <3>1 DEF TypeOK
    <2>6. pc' \in [Callers -> {"idle", "ensure", "process", "add", "commit", "send", "record"}]
      <3>1. pc' = [pc EXCEPT ![c] = "record"] \/ pc' = [pc EXCEPT ![c] = "idle"]
        BY <1>1
      <3> QED
        BY <3>1 DEF TypeOK
    <2>7. target' \in [Callers -> 0..MaxCommits]
      <3>1. target' = target \/ target' = [target EXCEPT ![c] = 0]
        BY <1>1
      <3>2. 0 \in 0..MaxCommits
        BY ConstantsOK
      <3>3. target \in [Callers -> 0..MaxCommits]
        BY DEF TypeOK
      <3> HIDE DEF CleanBoundary
      <3> QED
        BY <3>1, <3>2, <3>3
    <2> QED
      BY <2>4, <2>5, <2>6, <2>7
  <1> HIDE DEF moved
  <1>4. \A f \in Files : [v |-> worktree[f], clean |-> ~ AsIs(f)] \in Content
    BY ContentFacts DEF TypeOK, AsIs
  <1>5. disk \in [Files -> Content] /\ next \in [Files -> Content]
    BY <1>4 DEF TypeOK
  <1>6. AllClean(disk)
    BY DEF AllClean, CleanFor, AsIs
  <1>7. AllClean(next)
    BY <1>6 DEF AllClean
  <1> HIDE DEF disk, next
  <1>8. AllClean(staging') /\ AllClean(index') /\ AllClean(unpushed') /\ AllClean(mirror')
    BY <1>2, <1>6, <1>7, EmptyClean
  <1>9. pending' \subseteq Reviewable
    BY <1>2
  <1>10. TypeOK'
    <2>1. /\ staging' \in [Files -> Content] /\ index' \in [Files -> Content]
          /\ unpushed' \in [Files -> Content] /\ mirror' \in [Files -> Content]
      BY <1>2, <1>5, ContentFacts DEF TypeOK
    <2>2. pending' \subseteq Files /\ todo' \in [Callers -> SUBSET Files]
      BY <1>9, ConstantsOK DEF SyncPublish, TypeOK
    <2> QED
      BY <1>3, <2>1, <2>2 DEF SyncPublish, TypeOK
  <1>11. UNCHANGED held
    BY DEF SyncPublish
  <1> QED
    BY <1>8, <1>9, <1>10, <1>11

\* A sync, a commit or a check for drift keeps the boundary.
LEMMA Mode3Boundary ==
    ASSUME CleanBoundary, Mode3
    PROVE  CleanBoundary'
  <1> USE DEF forgejo, store, git, github
  <1>1. CASE Commit \/ \E c \in Callers : NoDrift(c)
    BY <1>1, StepBoundary DEF NoDrift
  <1>2. ASSUME NEW c \in Callers, SyncDiff(c) PROVE CleanBoundary'
    <2>1. UNCHANGED <<pending, staging, index, unpushed, mirror, held>>
      BY <1>2 DEF SyncDiff
    <2>2. TypeOK'
      <3>1. /\ hooks' \in 0..MaxHooks
            /\ worktree' \in [Files -> 0..Draft]
            /\ target' \in [Callers -> 0..MaxCommits]
            /\ todo' \in [Callers -> SUBSET Files]
            /\ pc' \in [Callers -> {"idle", "ensure", "process", "add", "commit", "send", "record"}]
        BY <1>2, ConstantsOK DEF SyncDiff, CleanBoundary, TypeOK, ChangedFiles, Commits, Version, Draft
      <3> QED
        BY <1>2, <3>1 DEF SyncDiff, CleanBoundary, TypeOK
    <2> QED
      BY <2>1, <2>2 DEF CleanBoundary, AllClean
  <1>3. ASSUME NEW c \in Callers, SyncRecord(c) PROVE CleanBoundary'
    <2>1. UNCHANGED <<pending, staging, index, unpushed, mirror, held>>
      BY <1>3 DEF SyncRecord
    <2>2. TypeOK'
      BY <1>3, ConstantsOK DEF SyncRecord, CleanBoundary, TypeOK
    <2> QED
      BY <2>1, <2>2 DEF CleanBoundary, AllClean
  <1> QED
    BY <1>1, <1>2, <1>3, PublishBoundary DEF Mode3

\* The steps of the confirmation do not touch what MirrorSync models.
LEMMA AskBoundary ==
    ASSUME CleanBoundary, CopiesClean, NEW r \in Runs,
           \/ Bootstrap(r) \/ \E force \in BOOLEAN : Command(r, force)
           \/ \E answer \in {"confirmed", "rejected"} : React(r, answer)
           \/ Poll(r) \/ Expire(r)
    PROVE  CleanBoundary' /\ CopiesClean'
  <1>1. UNCHANGED vars /\ UNCHANGED copy
    BY DEF Bootstrap, Command, React, Poll, Expire, filling
  <1>2. CleanBoundary'
    BY <1>1, StepBoundary
  <1>3. CopiesClean'
    BY <1>1 DEF CopiesClean
  <1> QED
    BY <1>2, <1>3

\* The steps that fill the staging directory write only sanitized content outside
\* keep_paths.
LEMMA FillBoundary ==
    ASSUME CleanBoundary, RunTypes, CopiesClean, NEW r \in Runs,
           \/ GiveUp(r) \/ ListFiles(r) \/ Reset(r)
           \/ \E f \in Files : LeaveOut(r, f) \/ Take(r, f)
           \/ Fill(r) \/ FillFails(r) \/ RemoveSkipped(r)
    PROVE  CleanBoundary' /\ CopiesClean'
  <1> USE DEF forgejo, store, git, github, run
  <1>0. TypeOK /\ \A q \in Runs : copy[q] = NoHold \/
                      (copy[q].file \in Files /\ CleanFor(copy[q].file, copy[q].content))
    BY DEF CleanBoundary, CopiesClean
  <1>1. CASE GiveUp(r) \/ ListFiles(r)
    <2>1. worktree' \in [Files -> 0..Draft]
      BY <1>0, <1>1, ConstantsOK DEF GiveUp, ListFiles, TypeOK, Commits, Version, Draft
    <2>2. /\ UNCHANGED <<head, tree, hooks, baseline, pending, staging, index, local,
                         unpushed, tracked, mirror, born, pc, target, todo, held>>
          /\ UNCHANGED <<changed, drifting, nightly, crashes, copy>>
      BY <1>1 DEF GiveUp, ListFiles
    <2>3. TypeOK'
      BY <1>0, <2>1, <2>2 DEF TypeOK
    <2> QED
      BY <2>2, <2>3 DEF CleanBoundary, AllClean, CopiesClean
  <1>2. CASE Reset(r)
    <2>1. TypeOK'
      BY <1>0, <1>2, ContentFacts DEF Reset, TypeOK
    <2>2. UNCHANGED <<pending, held, mirror, copy>>
      BY <1>2 DEF Reset, filling
    <2>3. AllClean(staging') /\ AllClean(index') /\ AllClean(unpushed')
      BY <1>2, EmptyClean DEF Reset
    <2> QED
      BY <2>1, <2>2, <2>3 DEF CleanBoundary, AllClean, CopiesClean
  <1>3. ASSUME NEW f \in Files, LeaveOut(r, f) PROVE CleanBoundary' /\ CopiesClean'
    BY <1>3, StepBoundary DEF LeaveOut, CopiesClean
  <1>4. ASSUME NEW f \in Files, Take(r, f) PROVE CleanBoundary' /\ CopiesClean'
    <2>1. CleanFor(f, [v |-> worktree[f], clean |-> f \notin KeepPaths])
      BY <1>4 DEF Take, CleanFor
    <2>2. copy' = [copy EXCEPT ![r] =
                     [file |-> f, content |-> [v |-> worktree[f], clean |-> f \notin KeepPaths]]]
      BY <1>4 DEF Take, ReadForgejoFile
    <2>3. CopiesClean'
      BY <1>0, <2>1, <2>2 DEF RunTypes, CopiesClean
    <2>4. UNCHANGED vars
      BY <1>4 DEF Take
    <2> QED
      BY <2>3, <2>4, StepBoundary
  <1>5. CASE Fill(r)
    <2>1. copy[r].file \in Files /\ CleanFor(copy[r].file, copy[r].content)
      BY <1>0, <1>5 DEF Fill
    <2>2. copy[r].content \in Content
      BY DEF RunTypes
    <2>3. staging' = [staging EXCEPT ![copy[r].file] = copy[r].content]
      BY <1>5 DEF Fill, WriteGitHubStaging
    <2>4. pending' \in {pending, pending \cup ({copy[r].file} \cap Reviewable)}
      BY <1>5 DEF Fill
    <2>5. AllClean(staging') /\ staging' \in [Files -> Content]
      BY <1>0, <2>1, <2>2, <2>3 DEF CleanBoundary, AllClean, TypeOK
    <2>6. pending' \subseteq Reviewable /\ pending' \subseteq Files
      BY <2>1, <2>4 DEF CleanBoundary, TypeOK
    <2>7. /\ UNCHANGED <<head, tree, hooks, worktree, baseline, index, local, unpushed,
                         tracked, mirror, born, pc, target, todo, held>>
          /\ UNCHANGED <<changed, drifting, nightly, crashes>>
      BY <1>5 DEF Fill
    <2>8. TypeOK'
      BY <1>0, <2>5, <2>6, <2>7 DEF TypeOK
    <2>9. CopiesClean'
      BY <1>0, <1>5 DEF Fill, RunTypes, CopiesClean
    <2> QED
      BY <2>5, <2>6, <2>7, <2>8, <2>9 DEF CleanBoundary, AllClean
  <1>6. CASE FillFails(r)
    <2>1. UNCHANGED vars /\ copy' = [copy EXCEPT ![r] = NoHold]
      BY <1>6 DEF FillFails
    <2>2. CopiesClean'
      BY <1>0, <2>1 DEF RunTypes, CopiesClean
    <2> QED
      BY <2>1, <2>2, StepBoundary
  <1>7. CASE RemoveSkipped(r)
    <2>1. /\ staging' \in [Files -> Content]
          /\ \A f \in Files : staging'[f] = Absent \/ staging'[f] = staging[f]
      BY <1>0, <1>7, ContentFacts DEF RemoveSkipped, RemoveFromGitHubStaging, TypeOK
    <2>2. AllClean(staging')
      BY <2>1 DEF CleanBoundary, AllClean, CleanFor, Absent
    <2>3. TypeOK'
      BY <1>0, <1>7, <2>1 DEF RemoveSkipped, TypeOK
    <2> QED
      BY <1>7, <2>2, <2>3 DEF RemoveSkipped, CleanBoundary, AllClean, CopiesClean, filling
  <1> QED
    BY <1>1, <1>2, <1>3, <1>4, <1>5, <1>6, <1>7

\* The forced push takes what is on disk to the index, to a commit and to the
\* mirror.
LEMMA PushBoundary ==
    ASSUME CleanBoundary, RunTypes, CopiesClean, NEW r \in Runs,
           \/ AddAll(r) \/ CommitAll(r) \/ ForcePush(r) \/ ForcePushFails(r)
           \/ StoreBaseline(r) \/ CompleteMigration(r)
    PROVE  CleanBoundary' /\ CopiesClean'
  <1> USE DEF forgejo, store, git, github, run
  <1>0. TypeOK
    BY DEF CleanBoundary
  <1>1. UNCHANGED copy
    BY DEF AddAll, CommitAll, ForcePush, ForcePushFails, StoreBaseline, CompleteMigration,
           filling
  <1>2. CASE AddAll(r)
    <2>1. index' = staging /\ tracked' = born
          /\ UNCHANGED <<pending, staging, unpushed, mirror, held>>
      BY <1>2 DEF AddAll
    <2>2. tracked' \in BOOLEAN
      BY <1>0, <2>1 DEF TypeOK
    <2>3. TypeOK'
      BY <1>0, <1>2, <2>1, <2>2 DEF AddAll, TypeOK
    <2> QED
      BY <1>1, <2>1, <2>3 DEF CleanBoundary, AllClean, CopiesClean
  <1>3. CASE CommitAll(r)
    <2>1. unpushed' = index /\ UNCHANGED <<pending, staging, index, mirror, held>>
      BY <1>3 DEF CommitAll
    <2>2. TypeOK'
      BY <1>0, <1>3 DEF CommitAll, TypeOK
    <2> QED
      BY <1>1, <2>1, <2>2 DEF CleanBoundary, AllClean, CopiesClean
  <1>4. CASE ForcePush(r)
    <2>1. mirror' = unpushed /\ unpushed' = Empty
          /\ UNCHANGED <<pending, staging, index, held>>
      BY <1>4 DEF ForcePush
    <2>2. TypeOK'
      BY <1>0, <1>4, ContentFacts DEF ForcePush, TypeOK
    <2> QED
      BY <1>1, <2>1, <2>2, EmptyClean DEF CleanBoundary, AllClean, CopiesClean
  <1>5. CASE ForcePushFails(r) \/ CompleteMigration(r)
    <2>1. UNCHANGED vars
      BY <1>5 DEF ForcePushFails, CompleteMigration
    <2> QED
      BY <1>1, <2>1, StepBoundary DEF CopiesClean
  <1>6. CASE StoreBaseline(r)
    <2>1. UNCHANGED <<pending, staging, index, unpushed, mirror, held>>
      BY <1>6 DEF StoreBaseline
    <2>2. TypeOK'
      BY <1>0, <1>6 DEF StoreBaseline, TypeOK, RunTypes
    <2> QED
      BY <1>1, <2>1, <2>2 DEF CleanBoundary, AllClean, CopiesClean
  <1> QED
    BY <1>2, <1>3, <1>4, <1>5, <1>6

LEMMA InitMigrationBoundary == MigrationInit => MigrationBoundary
  <1> SUFFICES ASSUME MigrationInit PROVE MigrationBoundary
    OBVIOUS
  <1>1. CleanBoundary
    <2>1. Boundary
      BY InitBoundary DEF MigrationInit
    <2> QED
      BY <2>1 DEF Boundary, AllFit, Fit, CleanBoundary, AllClean, CleanFor
  <1>2. RunTypes
    BY InitMigrationType, TypeParts
  <1>3. CopiesClean
    BY DEF MigrationInit, CopiesClean
  <1> QED
    BY <1>1, <1>2, <1>3, InitConfirm DEF MigrationBoundary

LEMMA NextMigrationBoundary ==
    MigrationBoundary /\ [MigrationNext]_mvars => MigrationBoundary'
  <1> SUFFICES ASSUME MigrationBoundary, [MigrationNext]_mvars
               PROVE  CleanBoundary' /\ CopiesClean'
    BY NextRunTypes, NextConfirm DEF MigrationBoundary, CleanBoundary
  <1>0. CleanBoundary /\ RunTypes /\ CopiesClean
    BY DEF MigrationBoundary
  <1>1. CASE Mode3
    <2>1. UNCHANGED copy
      BY <1>1 DEF Mode3, NoDrift, SyncDiff, SyncPublish, SyncRecord, migration
    <2> QED
      BY <1>0, <1>1, <2>1, Mode3Boundary DEF CopiesClean
  <1>2. CASE BootstrapPasses
    <2>1. UNCHANGED vars /\ UNCHANGED copy
      BY <1>2 DEF BootstrapPasses, filling
    <2> QED
      BY <1>0, <2>1, StepBoundary DEF CopiesClean
  <1>3. ASSUME NEW r \in Runs, Migrate(r) PROVE CleanBoundary' /\ CopiesClean'
    BY <1>0, <1>3, AskBoundary, FillBoundary, PushBoundary DEF Migrate
  <1>4. ASSUME NEW S \in SUBSET Runs, Stop(S) PROVE CopiesClean'
    BY <1>0, <1>4 DEF Stop, CopiesClean
  <1>5. ASSUME NEW r \in Runs, Kill(r) PROVE CleanBoundary' /\ CopiesClean'
    <2>1. Stop({r})
      BY <1>5 DEF Kill
    <2>2. crashes' \in 0..MaxCrashes
      BY <1>0, <1>5, ConstantsOK DEF Kill, CleanBoundary, TypeOK
    <2>3. /\ UNCHANGED <<head, tree, hooks, worktree, baseline, pending, staging, index,
                         local, unpushed, tracked, mirror, born, pc, target>>
          /\ UNCHANGED <<todo, held, changed, drifting, nightly>>
      BY <1>5 DEF Kill, forgejo, store, git, github, run
    <2>4. TypeOK'
      BY <1>0, <2>2, <2>3 DEF CleanBoundary, TypeOK
    <2> QED
      BY <1>0, <1>4, <2>1, <2>3, <2>4 DEF CleanBoundary, AllClean
  <1>6. CASE Restart
    <2>1. Crash /\ Stop({r \in Runs : Running(r) /\ kind[r] = "bootstrap"})
      BY <1>6 DEF Restart
    <2>2. CleanBoundary'
      BY <1>0, <2>1, StepBoundary
    <2> QED
      BY <1>4, <2>1, <2>2
  <1>7. CASE UNCHANGED mvars
    <2>1. UNCHANGED vars /\ UNCHANGED copy
      BY <1>7 DEF mvars, vars
    <2> QED
      BY <1>0, <2>1, StepBoundary DEF CopiesClean
  <1> QED
    BY <1>1, <1>2, <1>3, <1>5, <1>6, <1>7 DEF MigrationNext

LEMMA MigrationBoundaryHolds == MigrationSpec => []MigrationBoundary
  BY InitMigrationBoundary, NextMigrationBoundary, PTL DEF MigrationSpec

\* Every variable keeps its type; only a run that fills holds a file.
THEOREM MigrationTypeCorrect == MigrationSpec => []MigrationTypeOK
  <1>1. MigrationBoundary => MigrationTypeOK
    BY TypeParts DEF MigrationBoundary, CleanBoundary
  <1> QED
    BY <1>1, MigrationBoundaryHolds, PTL

\* With any number of migrations beside any number of syncs, whatever fails or is
\* killed, content that is neither in keep_paths nor reviewable is mirrored only
\* after the pipeline (MigrateWithKind, Runner.Sync).
THEOREM MigrationMirrorsSanitized == MigrationSpec => []SanitizedOnly
  <1>1. MigrationBoundary => SanitizedOnly
    BY DEF MigrationBoundary, CleanBoundary, AllClean, CleanFor, SanitizedOnly
  <1> QED
    BY <1>1, MigrationBoundaryHolds, PTL

-------------------------------------------------------------------------------
(* Calm behaviours: a run that fills is alone.                             *)

\* Run r works in the staging directory, or has pushed and not yet returned.
Filling(r) == phase[r] \in {"reset", "files", "add", "commit", "send", "baseline", "complete"}

\* No sync and no other run is past its start while a run fills, and the
\* repository of that run has nothing but its commit.
Alone ==
    /\ \A r \in Runs : Filling(r) => /\ \A c \in Callers : pc[c] = "idle"
                                     /\ \A q \in Runs \ {r} : ~ Filling(q)
    /\ \A r \in Runs : Refilling(r) => local = "unborn"
    /\ \A r \in Runs : phase[r] = "send" => local = "orphan"

\* Runs go on, or end; a sync ends: nobody starts to fill or to sync.
Fewer ==
    /\ \A c \in Callers : pc'[c] = pc[c] \/ pc'[c] = "idle"
    /\ \A r \in Runs : phase'[r] = phase[r] \/ ~ Filling(r)'
    /\ UNCHANGED local

LEMMA FewerAlone ==
    ASSUME Alone, Fewer
    PROVE  Alone'
  BY DEF Alone, Fewer, Filling, Refilling

\* A run that fills goes from one step to the next.
LEMMA AdvanceAlone ==
    ASSUME Alone, phase \in [Runs -> Phases], NEW r \in Runs, Filling(r),
           UNCHANGED pc, NEW p \in Phases, phase' = [phase EXCEPT ![r] = p],
           p \in {"files", "add", "commit"} => local' = "unborn",
           p = "send" => local' = "orphan"
    PROVE  Alone'
  BY DEF Alone, Filling, Refilling

\* The steps with which a run, or a process, ends, or goes on before it fills.
LEMMA RetiringFewer ==
    ASSUME MigrationBoundary,
           \/ BootstrapPasses \/ Restart \/ UNCHANGED mvars
           \/ \E c \in Callers : NoDrift(c)
           \/ \E r \in Runs :
                 \/ Bootstrap(r) \/ \E force \in BOOLEAN : Command(r, force)
                 \/ \E answer \in {"confirmed", "rejected"} : React(r, answer)
                 \/ Poll(r) \/ Expire(r) \/ GiveUp(r)
                 \/ ForcePushFails(r) \/ CompleteMigration(r) \/ Kill(r)
    PROVE  Fewer
  <1> USE DEF git, run
  <1>0. phase \in [Runs -> Phases] /\ pc \in [Callers -> {"idle", "ensure", "process", "add", "commit", "send", "record"}]
    BY DEF MigrationBoundary, RunTypes, CleanBoundary, TypeOK
  <1>1. CASE BootstrapPasses \/ UNCHANGED mvars
    BY <1>1 DEF BootstrapPasses, mvars, vars, Fewer
  <1>2. CASE Restart
    BY <1>0, <1>2 DEF Restart, Crash, Stop, Fewer, Filling
  <1>3. ASSUME NEW c \in Callers, NoDrift(c) PROVE Fewer
    BY <1>0, <1>3 DEF NoDrift, DriftCheck, migration, Fewer
  <1>4. ASSUME NEW r \in Runs,
               \/ Bootstrap(r) \/ \E force \in BOOLEAN : Command(r, force)
               \/ \E answer \in {"confirmed", "rejected"} : React(r, answer)
               \/ Poll(r) \/ Expire(r) \/ GiveUp(r)
               \/ ForcePushFails(r) \/ CompleteMigration(r)
        PROVE  Fewer
    <2>1. UNCHANGED <<pc, local>>
      BY <1>4 DEF Bootstrap, Command, React, Poll, Expire, GiveUp, ForcePushFails,
                  CompleteMigration, vars
    <2>2. \/ UNCHANGED phase
          \/ \E p \in {"waiting", "ensure", "over"} : phase' = [phase EXCEPT ![r] = p]
      BY <1>4 DEF Bootstrap, Command, Ask, React, Poll, Expire, GiveUp, ForcePushFails,
                  CompleteMigration, Goto
    <2> QED
      BY <1>0, <2>1, <2>2 DEF Fewer, Filling
  <1>5. ASSUME NEW r \in Runs, Kill(r) PROVE Fewer
    BY <1>0, <1>5 DEF Kill, Stop, Fewer, Filling
  <1> QED
    BY <1>1, <1>2, <1>3, <1>4, <1>5

LEMMA InitAlone == MigrationInit => Alone
  BY DEF MigrationInit, Alone, Filling, Refilling

LEMMA CalmStays == [MigrationNext]_mvars => calm' = calm
  <1> SUFFICES ASSUME [MigrationNext]_mvars PROVE calm' = calm
    OBVIOUS
  <1>1. CASE Mode3
    BY <1>1 DEF Mode3, SyncDiff, SyncPublish, SyncRecord, NoDrift, migration
  <1>2. ASSUME NEW r \in Runs, Migrate(r) PROVE calm' = calm
    <2>1. CASE Bootstrap(r) \/ \E force \in BOOLEAN : Command(r, force)
      BY <2>1 DEF Bootstrap, Command
    <2>2. CASE (\E answer \in {"confirmed", "rejected"} : React(r, answer)) \/ Expire(r)
      BY <2>2 DEF React, Expire
    <2>3. CASE Poll(r) \/ GiveUp(r) \/ ListFiles(r) \/ Reset(r) \/ RemoveSkipped(r)
      BY <2>3 DEF Poll, GiveUp, ListFiles, Reset, RemoveSkipped
    <2>4. CASE (\E f \in Files : LeaveOut(r, f) \/ Take(r, f)) \/ Fill(r) \/ FillFails(r)
      BY <2>4 DEF LeaveOut, Take, Fill, FillFails
    <2>5. CASE AddAll(r) \/ CommitAll(r) \/ ForcePush(r) \/ ForcePushFails(r)
      BY <2>5 DEF AddAll, CommitAll, ForcePush, ForcePushFails
    <2>6. CASE StoreBaseline(r) \/ CompleteMigration(r)
      BY <2>6 DEF StoreBaseline, CompleteMigration
    <2> QED
      BY <1>2, <2>1, <2>2, <2>3, <2>4, <2>5, <2>6 DEF Migrate
  <1>3. CASE BootstrapPasses \/ (\E r \in Runs : Kill(r)) \/ Restart \/ UNCHANGED mvars
    BY <1>3 DEF BootstrapPasses, Kill, Restart, mvars
  <1> QED
    BY <1>1, <1>2, <1>3 DEF MigrationNext

LEMMA NextAlone ==
    ASSUME MigrationBoundary, [MigrationNext]_mvars, calm => Alone
    PROVE  calm' => Alone'
  <1> USE DEF git, run
  <1>0. /\ phase \in [Runs -> Phases]
        /\ pc \in [Callers -> {"idle", "ensure", "process", "add", "commit", "send", "record"}]
        /\ local \in {"unborn", "orphan", "ahead", "synced"}
    BY DEF MigrationBoundary, RunTypes, CleanBoundary, TypeOK
  <1>1. calm' = calm
    BY CalmStays
  <1> SUFFICES ASSUME calm, Alone PROVE Alone'
    BY <1>1
  <1>2. CASE Commit /\ UNCHANGED migration
    BY <1>2 DEF Commit, migration, Alone, Filling, Refilling
  <1>3. ASSUME NEW c \in Callers, SyncDiff(c) PROVE Alone'
    <2>1. \A r \in Runs : ~ Filling(r)
      BY <1>3 DEF SyncDiff, Busy, Filling
    <2>2. UNCHANGED phase
      BY <1>3 DEF SyncDiff, migration
    <2> QED
      BY <2>1, <2>2 DEF Alone, Filling, Refilling
  <1>4. ASSUME NEW c \in Callers, SyncPublish(c) \/ SyncRecord(c) PROVE Alone'
    <2>1. pc[c] # "idle"
      BY <1>4 DEF SyncPublish, SyncRecord
    <2>2. UNCHANGED phase
      BY <1>4 DEF SyncPublish, SyncRecord, migration
    <2> QED
      BY <2>1, <2>2 DEF Alone, Filling, Refilling
  <1>5. ASSUME NEW r \in Runs, ListFiles(r) PROVE Alone'
    <2>1. /\ phase' = [phase EXCEPT ![r] = "reset"] /\ UNCHANGED <<pc, local>>
          /\ \A c \in Callers : pc[c] = "idle"
          /\ \A q \in Runs \ {r} : ~ Filling(q)
      BY <1>5 DEF ListFiles, MayFill, Busy, Filling, Goto
    <2> QED
      BY <1>0, <2>1 DEF Alone, Filling, Refilling
  <1>6. ASSUME NEW r \in Runs, Reset(r) \/ RemoveSkipped(r) \/ AddAll(r) PROVE Alone'
    <2>1. PICK p \in {"files", "add", "commit"} : phase' = [phase EXCEPT ![r] = p]
      BY <1>6 DEF Reset, RemoveSkipped, AddAll, Goto
    <2>2. Filling(r) /\ UNCHANGED pc /\ p \in Phases
      BY <1>6 DEF Reset, RemoveSkipped, AddAll, Filling, Phases
    <2>3. local' = "unborn"
      BY <1>6 DEF Reset, RemoveSkipped, AddAll, Alone, Refilling
    <2> QED
      BY <1>0, <2>1, <2>2, <2>3, AdvanceAlone
  <1>7. ASSUME NEW r \in Runs, CommitAll(r) \/ ForcePush(r) \/ StoreBaseline(r) PROVE Alone'
    <2>1. PICK p \in {"send", "baseline", "complete"} : phase' = [phase EXCEPT ![r] = p]
      BY <1>7 DEF CommitAll, ForcePush, StoreBaseline, Goto
    <2>2. Filling(r) /\ UNCHANGED pc /\ p \in Phases
      BY <1>7 DEF CommitAll, ForcePush, StoreBaseline, Filling, Phases
    <2>3. p = "send" => local' = "orphan"
      BY <1>0, <1>7, <2>1 DEF CommitAll, ForcePush, StoreBaseline, Alone, Refilling, Goto
    <2> QED
      BY <1>0, <2>1, <2>2, <2>3, AdvanceAlone
  <1>8. ASSUME NEW r \in Runs,
               \/ \E f \in Files : LeaveOut(r, f) \/ Take(r, f)
               \/ Fill(r) \/ FillFails(r)
        PROVE  Alone'
    <2>1. UNCHANGED <<pc, local, phase>>
      BY <1>8 DEF LeaveOut, Take, Fill, FillFails, vars
    <2> QED
      BY <2>1 DEF Alone, Filling, Refilling
  <1> QED
    BY <1>2, <1>3, <1>4, <1>5, <1>6, <1>7, <1>8, RetiringFewer, FewerAlone
       DEF MigrationNext, Mode3, Migrate

LEMMA AlwaysAlone == MigrationSpec => [](MigrationBoundary /\ (calm => Alone))
  <1>1. MigrationInit => MigrationBoundary /\ (calm => Alone)
    BY InitMigrationBoundary, InitAlone
  <1>2. MigrationBoundary /\ (calm => Alone) /\ [MigrationNext]_mvars
          => (MigrationBoundary /\ (calm => Alone))'
    BY NextMigrationBoundary, NextAlone
  <1> QED
    BY <1>1, <1>2, PTL DEF MigrationSpec

\* What a calm run pushes is one commit without a parent, whatever earlier runs,
\* syncs and crashes have left in the staging repository (push.go:50).
THEOREM MigrationPushesOneCommit == MigrationSpec => []OneCleanCommit
  <1>1. (calm => Alone) => OneCleanCommit
    BY DEF Alone, OneCleanCommit
  <1> QED
    BY <1>1, AlwaysAlone, PTL

-------------------------------------------------------------------------------
(* Calm behaviours: what is recorded is on the mirror.                     *)

\* A version that was replaced does not come back.
Continuous ==
    \A j, k, l \in 1..head : \A f \in Files :
        j <= k /\ k <= l /\ tree[j][f] = tree[l][f] /\ tree[j][f] # 0 => tree[k][f] = tree[j][f]

\* The worktree shows a commit that is not older than what anybody aims at.
Refreshed ==
    \E w \in 1..head :
        /\ worktree = tree[w]
        /\ baseline <= w
        /\ \A c \in Callers : target[c] <= w
        /\ \A r \in Runs : at[r] <= w

\* Version v of a file is on the mirror, and whatever is pushed next has it too:
\* the index, if main is not moved before, and what is on disk, unless a run fills
\* the directory and will push all of it.
Safe(f, v) ==
    /\ mirror[f].v >= v
    /\ local = "synced" => index[f].v >= v
    /\ (\A r \in Runs : ~ Refilling(r)) => staging[f].v >= v

\* What commit k owes is safe, but for the files of a set.
SafeBut(k, fs) == born /\ \A f \in Owed(k) \ fs : Safe(f, tree[k][f])

\* No mirror was declared up to date without looking at it (init-sync-state).
Trusted == "seeded" \notin Starts

Recorded == Trusted /\ baseline # 0 => SafeBut(baseline, {})

\* Of what a sync aims at, all is safe but the files it has still to process.
SyncSafe(c) ==
    /\ pc[c] \in {"idle", "process", "record"}
    /\ pc[c] # "idle" => target[c] \in 1..head
    /\ Trusted /\ pc[c] = "process" =>
          Owed(target[c]) \subseteq todo[c] \/ SafeBut(target[c], todo[c])
    /\ Trusted /\ pc[c] = "record" => SafeBut(target[c], {})

Has(side, k) == \A f \in Owed(k) : side[f].v >= tree[k][f]

\* Nothing but files of commit k, sanitized outside keep_paths.
Only(side, k) ==
    \A f \in Files : /\ tree[k][f] = 0 => side[f].v = 0
                     /\ f \notin KeepPaths => side[f].clean

\* No file that a migration's skip patterns match.
NoSkips(side) == \A f \in Files : IsSkipPattern(f) => side[f].v = 0

\* How far run r has come with the files of its commit.
Fills(r) ==
    /\ Filling(r) => at[r] \in 1..head /\ baseline <= at[r]
    /\ phase[r] \in {"reset", "files"} => \A f \in names[r] : tree[at[r]][f] # 0
    /\ phase[r] = "reset" => Owed(at[r]) \subseteq names[r]
    /\ copy[r] # NoHold => /\ tree[at[r]][copy[r].file] # 0
                           /\ copy[r].content.v >= tree[at[r]][copy[r].file]
                           /\ copy[r].file \notin KeepPaths => copy[r].content.clean
    /\ phase[r] = "files" =>
          \A f \in Owed(at[r]) : \/ f \in names[r]
                                 \/ copy[r] # NoHold /\ copy[r].file = f
                                 \/ staging[f].v >= tree[at[r]][f]
    /\ Refilling(r) => Only(staging, at[r])
    /\ phase[r] \in {"add", "commit"} => Has(staging, at[r]) /\ NoSkips(staging)
    /\ phase[r] = "commit" => index = staging
    /\ phase[r] = "send" => /\ index = staging /\ unpushed = staging
                            /\ Has(staging, at[r]) /\ Only(staging, at[r])
                            /\ NoSkips(staging)
    /\ phase[r] \in {"baseline", "complete"} =>
          SafeBut(at[r], {}) /\ Only(mirror, at[r]) /\ NoSkips(mirror)

\* What syncs and runs keep as long as a run is alone.
Keeping ==
    /\ History /\ Continuous /\ Refreshed
    /\ Recorded
    /\ \A c \in Callers : SyncSafe(c)
    /\ \A r \in Runs : Fills(r)

\* What an early commit owes, a later one owes too, in that version or a newer one.
LEMMA OwedLater ==
    ASSUME TypeOK, History, NEW j \in 1..head, NEW k \in 1..head, j <= k, NEW f \in Owed(j)
    PROVE  /\ f \in Owed(k) /\ f \in Files /\ ~ Skipped(f) /\ ~ IsSkipPattern(f)
           /\ tree[j][f] \in Nat /\ tree[k][f] \in Nat /\ tree[k][f] # 0
           /\ tree[j][f] <= tree[k][f]
  <1>1. /\ f \in Files /\ f \notin SkipFiles /\ f \notin MigrationSkip
        /\ \A i \in j..head : tree[i][f] # 0
    BY DEF Owed
  <1>2. head \in Nat /\ j \in Commits /\ k \in Commits /\ k \in j..head /\ k..head \subseteq j..head
    BY ConstantsOK DEF TypeOK, Commits
  <1>3. tree[j][f] \in Nat /\ tree[k][f] \in Nat
    BY <1>1, <1>2, ConstantsOK DEF TypeOK, Version
  <1>4. tree[k][f] # 0 /\ f \in Owed(k)
    BY <1>1, <1>2 DEF Owed
  <1> QED
    BY <1>1, <1>3, <1>4 DEF History, Skipped, IsSkipPattern

\* A file that a sync of the head does not take up is as in the recorded commit,
\* which owes it too.
LEMMA UnchangedOwed ==
    ASSUME TypeOK, Continuous, baseline \in 1..head, NEW f \in Owed(head) \ ChangedFiles(baseline, head)
    PROVE  f \in Owed(baseline) /\ tree[baseline][f] = tree[head][f]
  <1>1. head \in Nat /\ head \in 1..head
    BY DEF TypeOK, Commits
  <1>2. f \in Files /\ f \notin SkipFiles /\ f \notin MigrationSkip /\ tree[head][f] # 0
    BY <1>1 DEF Owed
  <1>3. tree[baseline][f] = tree[head][f]
    BY <1>2 DEF ChangedFiles
  <1>4. \A k \in baseline..head : tree[k][f] # 0
    BY <1>1, <1>2, <1>3 DEF Continuous
  <1> QED
    BY <1>2, <1>3, <1>4 DEF Owed

\* A run that does not fill has nothing to show.
LEMMA NotFillingFills == ASSUME RunTypes, NEW r \in Runs, ~ Filling(r) PROVE Fills(r)
  BY DEF RunTypes, Filling, Refilling, Fills

\* Steps that start nothing: runs go on before they fill, or end; syncs end; the
\* worktree may be refreshed. When a run ends that was filling the directory,
\* nothing was recorded yet, or what was has no file left.
Retiring ==
    /\ UNCHANGED <<head, tree, baseline, staging, index, local, unpushed, mirror, born>>
    /\ worktree' \in {worktree, tree[head]}
    /\ \A c \in Callers :
          \/ pc'[c] = pc[c] /\ target'[c] = target[c] /\ todo'[c] = todo[c]
          \/ pc'[c] = "idle" /\ target'[c] = 0
    /\ \A r \in Runs :
          \/ /\ phase'[r] = phase[r] /\ at'[r] = at[r]
             /\ names'[r] = names[r] /\ copy'[r] = copy[r]
          \/ ~ Filling(r)' /\ at'[r] \in {at[r], 0}
    /\ (\E r \in Runs : Refilling(r) /\ ~ Refilling(r)') =>
          /\ Trusted /\ baseline # 0 => Owed(baseline) = {}
          /\ \A c \in Callers : pc'[c] = "idle"
          /\ \A r \in Runs : ~ Filling(r)'

\* Such a step keeps what is safe, unless it is the end of a run that fills.
LEMMA RetiringSafe ==
    ASSUME Retiring, ~ \E r \in Runs : Refilling(r) /\ ~ Refilling(r)',
           NEW k, NEW fs, SafeBut(k, fs)
    PROVE  SafeBut(k, fs)'
  <1>1. UNCHANGED <<head, tree, staging, index, local, mirror, born>>
    BY DEF Retiring
  <1>2. (\A r \in Runs : ~ Refilling(r))' => \A r \in Runs : ~ Refilling(r)
    OBVIOUS
  <1> QED
    BY <1>1, <1>2 DEF SafeBut, Safe, Owed

LEMMA RetiringKeeps ==
    ASSUME TypeOK, RunTypes', Keeping, Retiring
    PROVE  Keeping'
  <1>0. UNCHANGED <<head, tree, baseline, staging, index, local, unpushed, mirror, born>>
    BY DEF Retiring
  <1>1. History' /\ Continuous'
    BY <1>0 DEF Keeping, History, Continuous
  <1>2. Refreshed'
    <2>1. PICK w \in 1..head : /\ worktree = tree[w] /\ baseline <= w
                               /\ \A c \in Callers : target[c] <= w
                               /\ \A r \in Runs : at[r] <= w
      BY DEF Keeping, Refreshed
    <2>2. PICK u \in {w, head} : worktree' = tree[u]
      BY <2>1 DEF Retiring
    <2>3. head \in 1..head /\ w <= u /\ 0 <= u /\ u \in 1..head /\ u \in Nat /\ w \in Nat
      BY <2>1, <2>2 DEF TypeOK, Commits
    <2>4. /\ baseline \in Nat
          /\ \A c \in Callers : target[c] \in Nat /\ target'[c] \in {target[c], 0}
          /\ \A r \in Runs : at'[r] \in {at[r], 0}
      BY DEF TypeOK, Retiring
    <2>5. \A r \in Runs : at'[r] \in Nat
      BY DEF RunTypes
    <2>6. \A r \in Runs : at'[r] <= u
      <3> TAKE r \in Runs
      <3>1. CASE at'[r] = at[r]
        BY <2>1, <2>3, <2>5, <3>1
      <3> QED
        BY <2>3, <2>4, <3>1
    <2>7. \A c \in Callers : target'[c] <= u
      BY <2>1, <2>3, <2>4
    <2>8. baseline' <= u /\ worktree' = tree'[u] /\ u \in 1..head'
      BY <1>0, <2>1, <2>2, <2>3, <2>4
    <2> QED
      BY <2>6, <2>7, <2>8 DEF Refreshed
  <1>3. CASE \E r \in Runs : Refilling(r) /\ ~ Refilling(r)'
    <2>1. /\ Trusted /\ baseline # 0 => Owed(baseline) = {}
          /\ \A c \in Callers : pc'[c] = "idle"
          /\ \A r \in Runs : ~ Filling(r)'
      BY <1>3 DEF Retiring
    <2>2. Recorded'
      BY <1>0, <2>1 DEF Keeping, Recorded, SafeBut, Owed
    <2>3. \A c \in Callers : SyncSafe(c)'
      BY <2>1 DEF SyncSafe
    <2>4. \A r \in Runs : Fills(r)'
      BY <2>1, NotFillingFills DEF RunTypes, Filling, Refilling, Fills
    <2> QED
      BY <1>1, <1>2, <2>2, <2>3, <2>4 DEF Keeping
  <1>4. CASE ~ \E r \in Runs : Refilling(r) /\ ~ Refilling(r)'
    <2>1. Recorded'
      BY <1>0, <1>4, RetiringSafe DEF Keeping, Recorded
    <2>2. ASSUME NEW c \in Callers PROVE SyncSafe(c)'
      <3>1. CASE pc'[c] = "idle"
        BY <3>1 DEF SyncSafe
      <3>2. CASE pc'[c] = pc[c] /\ target'[c] = target[c] /\ todo'[c] = todo[c]
        <4>1. /\ pc[c] = "process" /\ SafeBut(target[c], todo[c]) => SafeBut(target[c], todo[c])'
              /\ pc[c] = "record" /\ SafeBut(target[c], {}) => SafeBut(target[c], {})'
          BY <1>4, <3>2, RetiringSafe
        <4>2. Owed(target[c])' = Owed(target[c])
          BY <1>0, <3>2 DEF Owed
        <4> QED
          BY <1>0, <3>2, <4>1, <4>2 DEF Keeping, SyncSafe
      <3> QED
        BY <3>1, <3>2 DEF Retiring
    <2>3. ASSUME NEW r \in Runs PROVE Fills(r)'
      <3>1. CASE ~ Filling(r)'
        BY <3>1 DEF RunTypes, Filling, Refilling, Fills
      <3>2. CASE /\ phase'[r] = phase[r] /\ at'[r] = at[r]
                 /\ names'[r] = names[r] /\ copy'[r] = copy[r]
        <4>1. SafeBut(at[r], {}) => SafeBut(at[r], {})'
          BY <1>4, <3>2, RetiringSafe
        <4>2. Owed(at[r])' = Owed(at[r])
          BY <1>0, <3>2 DEF Owed
        <4> QED
          BY <1>0, <3>2, <4>1, <4>2 DEF Keeping, Fills, Filling, Refilling, Has, Only
      <3> QED
        BY <3>1, <3>2 DEF Retiring
    <2> QED
      BY <1>1, <1>2, <2>1, <2>2, <2>3 DEF Keeping
  <1> QED
    BY <1>3, <1>4

\* The steps of the confirmation, of a check that finds no drift, and of the end of
\* a run or a process are such steps.
LEMMA StopRetires ==
    ASSUME MigrationBoundary, calm, Alone, Keeping, NEW S \in SUBSET Runs, Stop(S),
           UNCHANGED <<head, tree, worktree, baseline, staging, index, local, unpushed, mirror, born>>,
           \/ UNCHANGED <<pc, target, todo>>
           \/ \A c \in Callers : pc'[c] = "idle" /\ target'[c] = 0
    PROVE  Retiring
  <1>1. \A r \in Runs : \/ /\ phase'[r] = phase[r] /\ at'[r] = at[r]
                           /\ names'[r] = names[r] /\ copy'[r] = copy[r]
                        \/ ~ Filling(r)' /\ at'[r] \in {at[r], 0}
    BY DEF Stop, Filling
  <1>2. ASSUME NEW r \in Runs, Refilling(r), ~ Refilling(r)'
        PROVE  /\ Trusted /\ baseline # 0 => Owed(baseline) = {}
               /\ \A c \in Callers : pc'[c] = "idle"
               /\ \A q \in Runs : ~ Filling(q)'
    <2>1. r \in S /\ ~ born
      BY <1>2 DEF Stop, Refilling
    <2>2. Trusted => baseline = 0
      BY <2>1 DEF Keeping, Recorded, SafeBut
    <2>3. Filling(r) /\ ~ Filling(r)'
      BY <1>2, <2>1 DEF Stop, Refilling, Filling
    <2>4. \A q \in Runs : ~ Filling(q)'
      BY <2>3 DEF Alone, Stop, Filling
    <2>5. \A c \in Callers : pc'[c] = "idle"
      BY <2>3 DEF Alone
    <2> QED
      BY <2>2, <2>4, <2>5
  <1> QED
    BY <1>1, <1>2 DEF Retiring

LEMMA EndRetires ==
    ASSUME MigrationBoundary, calm, Alone, Keeping,
           \/ BootstrapPasses \/ Restart \/ UNCHANGED mvars
           \/ \E c \in Callers : NoDrift(c)
           \/ \E r \in Runs :
                 \/ Bootstrap(r) \/ \E force \in BOOLEAN : Command(r, force)
                 \/ \E answer \in {"confirmed", "rejected"} : React(r, answer)
                 \/ Poll(r) \/ Expire(r) \/ GiveUp(r)
                 \/ ForcePushFails(r) \/ CompleteMigration(r) \/ Kill(r)
    PROVE  Retiring
  <1> USE DEF forgejo, store, git, github, run
  <1>0. /\ phase \in [Runs -> Phases] /\ at \in [Runs -> 0..MaxCommits]
        /\ \A r \in Runs : kind[r] = "none" => phase[r] = "none"
    BY DEF MigrationBoundary, RunTypes, ConfirmInv
  <1>1. CASE BootstrapPasses \/ UNCHANGED mvars
    BY <1>1 DEF BootstrapPasses, mvars, vars, filling, Retiring, Refilling
  <1>2. CASE Restart
    <2>1. /\ Stop({r \in Runs : Running(r) /\ kind[r] = "bootstrap"})
          /\ \A c \in Callers : pc'[c] = "idle" /\ target'[c] = 0
      BY <1>2 DEF Restart, Crash
    <2> QED
      BY <1>2, <2>1, StopRetires DEF Restart, Crash
  <1>3. ASSUME NEW c \in Callers, NoDrift(c) PROVE Retiring
    <2>1. UNCHANGED pc
      BY <1>3 DEF NoDrift, DriftCheck
    <2> QED
      BY <1>3, <2>1 DEF NoDrift, DriftCheck, migration, Retiring, Refilling
  <1>4. ASSUME NEW r \in Runs,
               \/ Bootstrap(r) \/ \E force \in BOOLEAN : Command(r, force)
               \/ \E answer \in {"confirmed", "rejected"} : React(r, answer)
               \/ Poll(r) \/ Expire(r)
        PROVE  Retiring
    <2>1. UNCHANGED vars /\ UNCHANGED <<at, names, copy>>
      BY <1>4 DEF Bootstrap, Command, React, Poll, Expire, filling
    <2>2. \/ UNCHANGED phase
          \/ /\ \E p \in {"waiting", "ensure", "over"} : phase' = [phase EXCEPT ![r] = p]
             /\ phase[r] \in {"none", "waiting"}
      BY <1>0, <1>4 DEF Bootstrap, Command, Ask, React, Poll, Expire, Goto
    <2> QED
      BY <1>0, <2>1, <2>2 DEF vars, Retiring, Filling, Refilling
  <1>5. ASSUME NEW r \in Runs, GiveUp(r) \/ CompleteMigration(r) PROVE Retiring
    <2>1. /\ phase' = [phase EXCEPT ![r] = "over"] /\ at' = [at EXCEPT ![r] = 0]
          /\ phase[r] \in {"ensure", "reset", "complete"}
          /\ UNCHANGED <<names, copy>>
      BY <1>5 DEF GiveUp, CompleteMigration, Goto
    <2>2. /\ UNCHANGED <<head, tree, baseline, staging, index, local, unpushed, mirror, born>>
          /\ UNCHANGED <<pc, target, todo>>
          /\ worktree' \in {worktree, tree[head]}
      BY <1>5 DEF GiveUp, CompleteMigration, vars
    <2> QED
      BY <1>0, <2>1, <2>2 DEF Retiring, Filling, Refilling
  <1>6. ASSUME NEW r \in Runs, ForcePushFails(r) PROVE Retiring
    <2>1. /\ phase' = [phase EXCEPT ![r] = "over"] /\ at' = [at EXCEPT ![r] = 0]
          /\ UNCHANGED vars /\ UNCHANGED <<names, copy>>
          /\ phase[r] \in {"commit", "send"} /\ Filling(r)
      BY <1>6 DEF ForcePushFails, Goto, Filling
    <2>2. /\ \A c \in Callers : pc[c] = "idle"
          /\ \A q \in Runs \ {r} : ~ Filling(q)
      BY <2>1 DEF Alone
    <2>3. \A q \in Runs : ~ Filling(q)'
      BY <1>0, <2>1, <2>2 DEF Filling
    <2>4. ASSUME phase[r] = "commit", baseline # 0 PROVE Owed(baseline) = {}
      <3>1. index = Empty
        BY <1>6, <2>4 DEF ForcePushFails
      <3>2. /\ Has(index, at[r]) /\ at[r] \in 1..head /\ baseline <= at[r]
            /\ baseline \in 1..head /\ TypeOK /\ History
        BY <2>1, <2>4 DEF Keeping, Fills, MigrationBoundary, CleanBoundary, TypeOK, Commits
      <3> SUFFICES ASSUME NEW f \in Owed(baseline) PROVE FALSE
        OBVIOUS
      <3>3. /\ f \in Owed(at[r]) /\ f \in Files
            /\ tree[at[r]][f] \in Nat /\ tree[at[r]][f] # 0
        BY <3>2, OwedLater
      <3>4. 0 >= tree[at[r]][f]
        BY <3>1, <3>2, <3>3 DEF Has, Empty, Absent
      <3> QED
        BY <3>3, <3>4
    <2>5. ASSUME NEW q \in Runs, Refilling(q) PROVE phase[r] = "commit"
      BY <2>1, <2>2, <2>5 DEF Refilling, Filling
    <2> QED
      BY <1>0, <2>1, <2>2, <2>3, <2>4, <2>5 DEF vars, Retiring
  <1>7. ASSUME NEW r \in Runs, Kill(r) PROVE Retiring
    BY <1>7, StopRetires DEF Kill
  <1> QED
    BY <1>1, <1>2, <1>3, <1>4, <1>5, <1>6, <1>7

\* A commit makes nobody owe more.
LEMMA CommitKeeps ==
    ASSUME TypeOK, RunTypes, Keeping, Commit, UNCHANGED migration
    PROVE  Keeping'
  <1>1. /\ History' /\ head' = head + 1 /\ head \in Nat
        /\ \A k \in 1..head : tree'[k] = tree[k]
    BY CommitHistory DEF Keeping, TypeOK, Commits
  <1>2. UNCHANGED <<worktree, baseline, staging, index, local, unpushed, mirror, born, pc,
                    target, todo, phase, at, names, copy>>
    BY DEF Commit, store, git, github, run, migration
  <1>3. \A k \in 1..head : k \in 1..head' /\ Owed(k)' \subseteq Owed(k) /\ tree'[k] = tree[k]
    BY <1>1 DEF Owed
  <1>4. Continuous'
    <2>1. PICK g \in Files, x \in {0, head + 1} :
            tree' = [tree EXCEPT ![head + 1] = [tree[head] EXCEPT ![g] = x]]
      BY DEF Commit
    <2>2. head \in 1..head /\ head + 1 \in Commits /\ 1..head \subseteq Commits
      BY <1>1, ConstantsOK DEF Commit, TypeOK, Commits
    <2>3. \A f \in Files : tree'[head + 1][f] \in {tree[head][f], 0, head + 1}
      BY <2>1, <2>2 DEF TypeOK
    <2> SUFFICES ASSUME NEW j \in 1..head + 1, NEW k \in 1..head + 1, NEW l \in 1..head + 1,
                        NEW f \in Files, j <= k, k <= l,
                        tree'[j][f] = tree'[l][f], tree'[j][f] # 0
                 PROVE  tree'[k][f] = tree'[j][f]
      BY <1>1 DEF Continuous
    <2>4. CASE l # head + 1
      <3>1. j \in 1..head /\ k \in 1..head /\ l \in 1..head
        BY <1>1, <2>4
      <3> QED
        BY <1>1, <3>1 DEF Keeping, Continuous
    <2>5. CASE l = head + 1 /\ j # head + 1 /\ k # head + 1
      <3>1. j \in 1..head /\ k \in 1..head /\ j \in Commits
        BY <1>1, <2>2, <2>5
      <3>2. tree[j][f] <= j /\ tree[j][f] \in Nat
        BY <3>1, ConstantsOK DEF Keeping, History, TypeOK, Version
      <3>3. tree'[l][f] = tree[head][f]
        BY <1>1, <2>3, <2>5, <3>1, <3>2
      <3> QED
        BY <1>1, <2>2, <3>1, <3>3 DEF Keeping, Continuous
    <2>6. CASE l = head + 1 /\ (j = head + 1 \/ k = head + 1)
      BY <1>1, <2>6
    <2> QED
      BY <2>4, <2>5, <2>6
  <1>5. Refreshed'
    <2>1. PICK w \in 1..head : /\ worktree = tree[w] /\ baseline <= w
                               /\ \A c \in Callers : target[c] <= w
                               /\ \A r \in Runs : at[r] <= w
      BY DEF Keeping, Refreshed
    <2> QED
      BY <1>2, <1>3, <2>1 DEF Refreshed
  <1>6. \A fs : \A k \in 1..head : SafeBut(k, fs) => SafeBut(k, fs)'
    BY <1>2, <1>3 DEF SafeBut, Safe, Refilling
  <1>7. Recorded'
    <2>1. PICK w \in 1..head : baseline <= w
      BY DEF Keeping, Refreshed
    <2>2. baseline # 0 => baseline \in 1..head
      BY <1>1, <2>1 DEF TypeOK
    <2> QED
      BY <1>2, <1>6, <2>2 DEF Keeping, Recorded
  <1>8. ASSUME NEW c \in Callers PROVE SyncSafe(c)'
    <2>1. SyncSafe(c) /\ pc'[c] = pc[c] /\ target'[c] = target[c] /\ todo'[c] = todo[c]
      BY <1>2 DEF Keeping
    <2>2. CASE pc[c] = "idle"
      BY <2>1, <2>2 DEF SyncSafe
    <2>3. CASE pc[c] # "idle"
      <3>1. target[c] \in 1..head
        BY <2>1, <2>3 DEF SyncSafe
      <3>2. /\ SafeBut(target[c], todo[c]) => SafeBut(target[c], todo[c])'
            /\ SafeBut(target[c], {}) => SafeBut(target[c], {})'
            /\ Owed(target[c])' \subseteq Owed(target[c])
            /\ target'[c] \in 1..head'
        BY <1>2, <1>3, <1>6, <3>1
      <3> QED
        BY <2>1, <3>2 DEF SyncSafe
    <2> QED
      BY <2>2, <2>3
  <1>9. ASSUME NEW r \in Runs PROVE Fills(r)'
    <2>1. Fills(r) /\ phase'[r] = phase[r] /\ at'[r] = at[r] /\ names'[r] = names[r]
          /\ copy'[r] = copy[r]
      BY <1>2 DEF Keeping
    <2>2. Filling(r)' = Filling(r) /\ Refilling(r)' = Refilling(r)
      BY <1>2 DEF Filling, Refilling
    <2>3. CASE ~ Filling(r)
      <3>1. copy[r] = NoHold
        BY <2>3 DEF RunTypes, Filling
      <3> QED
        BY <2>1, <2>2, <2>3, <3>1 DEF Fills, Filling, Refilling
    <2>4. CASE Filling(r)
      <3>1. at[r] \in 1..head
        BY <2>1, <2>4 DEF Fills
      <3>2. /\ SafeBut(at[r], {}) => SafeBut(at[r], {})'
            /\ Owed(at[r])' \subseteq Owed(at[r])
            /\ tree'[at[r]] = tree[at[r]]
            /\ at'[r] \in 1..head'
        BY <1>2, <1>3, <1>6, <3>1
      <3> QED
        BY <1>2, <2>1, <2>2, <3>2 DEF Fills, Has, Only
    <2> QED
      BY <2>3, <2>4
  <1> QED
    BY <1>1, <1>4, <1>5, <1>7, <1>8, <1>9 DEF Keeping

\* The head is not older than what anybody aims at.
LEMMA HeadIsLast ==
    ASSUME TypeOK, RunTypes, Keeping
    PROVE  /\ head \in 1..head /\ baseline \in 0..head
           /\ \A c \in Callers : target[c] \in 0..head
           /\ \A r \in Runs : at[r] \in 0..head
  <1>1. PICK w \in 1..head : /\ baseline <= w
                             /\ \A c \in Callers : target[c] <= w
                             /\ \A r \in Runs : at[r] <= w
    BY DEF Keeping, Refreshed
  <1>2. /\ head \in Nat /\ head >= 1 /\ baseline \in Nat
        /\ \A c \in Callers : target[c] \in Nat
        /\ \A r \in Runs : at[r] \in Nat
    BY DEF TypeOK, RunTypes, Commits
  <1> QED
    BY <1>1, <1>2

\* A sync computes its diff: what it leaves out is safe already.
LEMMA DiffKeeps ==
    ASSUME TypeOK, TypeOK', RunTypes, calm, Alone, Keeping, NEW c \in Callers, SyncDiff(c)
    PROVE  Keeping'
  <1> USE DEF forgejo, store, git, github
  <1>1. /\ UNCHANGED <<head, tree, baseline, staging, index, local, unpushed, mirror, born>>
        /\ UNCHANGED <<phase, at, names, copy>>
        /\ worktree' = tree[head]
        /\ target' = [target EXCEPT ![c] = head]
        /\ todo' = [todo EXCEPT ![c] = ChangedFiles(baseline, head)]
        /\ pc' = [pc EXCEPT ![c] = "process"]
    BY DEF SyncDiff, migration
  <1>2. /\ pc'[c] = "process" /\ target'[c] = head /\ todo'[c] = ChangedFiles(baseline, head)
        /\ \A d \in Callers \ {c} : /\ pc'[d] = pc[d] /\ target'[d] = target[d]
                                    /\ todo'[d] = todo[d]
    BY <1>1 DEF TypeOK
  <1>3. /\ History' /\ Continuous'
        /\ \A r \in Runs : Refilling(r)' = Refilling(r) /\ Filling(r)' = Filling(r)
    BY <1>1 DEF Keeping, History, Continuous, Refilling, Filling
  <1>4. \A k : Owed(k)' = Owed(k)
    BY <1>1 DEF Owed
  <1>5. \A k, fs : SafeBut(k, fs) => SafeBut(k, fs)'
    BY <1>1, <1>3, <1>4 DEF SafeBut, Safe
  <1>6. Recorded'
    BY <1>1, <1>5 DEF Keeping, Recorded
  <1>7. Refreshed'
    <2>1. /\ baseline' <= head /\ worktree' = tree'[head] /\ head \in 1..head'
          /\ \A r \in Runs : at'[r] <= head
      BY <1>1, HeadIsLast
    <2>2. ASSUME NEW d \in Callers PROVE target'[d] <= head
      BY <1>2, HeadIsLast
    <2> QED
      BY <2>1, <2>2 DEF Refreshed
  <1>8. SyncSafe(c)'
    <2>1. CASE baseline = 0
      <3>1. Owed(head) \subseteq ChangedFiles(baseline, head)
        BY <2>1, HeadIsLast, SMTT(30) DEF Owed, ChangedFiles, TypeOK, Commits
      <3> QED
        BY <1>1, <1>2, <1>4, <3>1, HeadIsLast DEF SyncSafe
    <2>2. CASE Trusted /\ baseline # 0
      <3>1. baseline \in 1..head /\ born
        BY <2>2, HeadIsLast DEF Keeping, Recorded, SafeBut
      <3>2. ASSUME NEW f \in Owed(head) \ ChangedFiles(baseline, head)
            PROVE  Safe(f, tree[head][f])
        <4>1. f \in Owed(baseline) /\ tree[baseline][f] = tree[head][f]
          BY <3>1, UnchangedOwed DEF Keeping
        <4> QED
          BY <2>2, <4>1 DEF Keeping, Recorded, SafeBut
      <3>3. SafeBut(head, ChangedFiles(baseline, head))
        BY <3>1, <3>2 DEF SafeBut
      <3>4. SafeBut(target[c], todo[c])'
        BY <1>1, <1>2, <1>3, <1>4, <3>3 DEF SafeBut, Safe
      <3> QED
        BY <1>1, <1>2, <3>4, HeadIsLast DEF SyncSafe
    <2>3. CASE ~ Trusted
      BY <1>1, <1>2, <2>3, HeadIsLast DEF SyncSafe
    <2> QED
      BY <2>1, <2>2, <2>3
  <1>9. ASSUME NEW d \in Callers \ {c} PROVE SyncSafe(d)'
    <2>1. /\ SafeBut(target[d], todo[d]) => SafeBut(target[d], todo[d])'
          /\ SafeBut(target[d], {}) => SafeBut(target[d], {})'
      BY <1>2, <1>5
    <2> QED
      BY <1>1, <1>2, <1>4, <2>1 DEF Keeping, SyncSafe
  <1>10. \A r \in Runs : Fills(r)'
    <2> TAKE r \in Runs
    <2>1. ~ Filling(r)'
      BY <1>3 DEF SyncDiff, Busy, Filling
    <2> QED
      BY <1>1, <2>1 DEF RunTypes, Filling, Refilling, Fills
  <1> QED
    BY <1>3, <1>6, <1>7, <1>8, <1>9, <1>10 DEF Keeping

\* A sync's commit becomes the baseline.
LEMMA RecordKeeps ==
    ASSUME TypeOK, TypeOK', RunTypes, calm, Alone, Keeping, NEW c \in Callers, SyncRecord(c)
    PROVE  Keeping'
  <1> USE DEF forgejo, git, github
  <1>1. /\ UNCHANGED <<head, tree, worktree, staging, index, local, unpushed, mirror, born, todo>>
        /\ UNCHANGED <<phase, at, names, copy>>
        /\ baseline' = target[c]
        /\ target' = [target EXCEPT ![c] = 0]
        /\ pc' = [pc EXCEPT ![c] = "idle"]
        /\ pc[c] = "record"
    BY DEF SyncRecord, migration
  <1>2. /\ pc'[c] = "idle" /\ target'[c] = 0
        /\ \A d \in Callers \ {c} : /\ pc'[d] = pc[d] /\ target'[d] = target[d]
                                    /\ todo'[d] = todo[d]
    BY <1>1 DEF TypeOK
  <1>3. /\ History' /\ Continuous'
        /\ \A r \in Runs : Refilling(r)' = Refilling(r) /\ Filling(r)' = Filling(r)
    BY <1>1 DEF Keeping, History, Continuous, Refilling, Filling
  <1>4. \A k : Owed(k)' = Owed(k)
    BY <1>1 DEF Owed
  <1>5. \A k, fs : SafeBut(k, fs) => SafeBut(k, fs)'
    BY <1>1, <1>3, <1>4 DEF SafeBut, Safe
  <1>6. Recorded'
    BY <1>1, <1>5 DEF Keeping, SyncSafe, Recorded
  <1>7. Refreshed'
    <2>1. PICK w \in 1..head : /\ worktree = tree[w] /\ baseline <= w
                               /\ \A d \in Callers : target[d] <= w
                               /\ \A r \in Runs : at[r] <= w
      BY DEF Keeping, Refreshed
    <2>2. ASSUME NEW d \in Callers PROVE target'[d] <= w
      BY <1>2, <2>1
    <2> QED
      BY <1>1, <2>1, <2>2 DEF Refreshed
  <1>8. ASSUME NEW d \in Callers PROVE SyncSafe(d)'
    <2>1. CASE d = c
      BY <1>2, <2>1 DEF SyncSafe
    <2>2. CASE d # c
      <3>1. /\ SafeBut(target[d], todo[d]) => SafeBut(target[d], todo[d])'
            /\ SafeBut(target[d], {}) => SafeBut(target[d], {})'
        BY <1>2, <1>5, <2>2
      <3> QED
        BY <1>1, <1>2, <1>4, <2>2, <3>1 DEF Keeping, SyncSafe
    <2> QED
      BY <2>1, <2>2
  <1>9. \A r \in Runs : Fills(r)'
    <2> TAKE r \in Runs
    <2>1. ~ Filling(r)'
      BY <1>1, <1>3 DEF Alone
    <2> QED
      BY <1>1, <2>1 DEF RunTypes, Filling, Refilling, Fills
  <1> QED
    BY <1>3, <1>6, <1>7, <1>8, <1>9 DEF Keeping

\* A sync publishes: what is safe stays safe, and what it has processed becomes so.
LEMMA PublishKeeps ==
    ASSUME TypeOK, TypeOK', RunTypes, calm, Alone, Keeping, NEW c \in Callers, SyncPublish(c)
    PROVE  Keeping'
  <1> USE DEF forgejo, github
  <1> DEFINE files == {f \in todo[c] : ~ Skipped(f) /\ worktree[f] # 0}
             disk == [f \in Files |-> IF f \in files
                                     THEN [v |-> worktree[f], clean |-> ~ AsIs(f)]
                                     ELSE staging[f]]
             moved == born /\ local # "synced"
             next == [f \in Files |-> IF files = {} \/ f \in files THEN disk[f]
                                     ELSE IF moved THEN mirror[f] ELSE index[f]]
  <1>0. \A failed : failed = {} => {f \in todo[c] \ failed : ~ Skipped(f) /\ worktree[f] # 0} = files
    OBVIOUS
  <1>1. PICK landed \in BOOLEAN :
          /\ staging' = disk /\ index' = next
          /\ IF landed
             THEN mirror' = next /\ born' = TRUE /\ pc' = [pc EXCEPT ![c] = "record"]
                  /\ target' = target
             ELSE mirror' = mirror /\ born' = born /\ pc' = [pc EXCEPT ![c] = "idle"]
                  /\ target' = [target EXCEPT ![c] = 0]
    BY <1>0 DEF SyncPublish
  <1>2. /\ pc[c] = "process"
        /\ todo' = [todo EXCEPT ![c] = {}]
        /\ UNCHANGED <<head, tree, worktree, baseline, phase, at, names, copy>>
    BY DEF SyncPublish, migration
  <1>3. /\ todo'[c] = {}
        /\ \/ mirror' = next /\ born' /\ pc'[c] = "record" /\ target'[c] = target[c]
           \/ pc'[c] = "idle" /\ target'[c] = 0
        /\ \A d \in Callers \ {c} : /\ pc'[d] = pc[d] /\ target'[d] = target[d]
                                    /\ todo'[d] = todo[d]
    BY <1>1, <1>2 DEF TypeOK
  <1> HIDE DEF files, disk, next, moved
  <1>4. \A r \in Runs : ~ Filling(r) /\ ~ Filling(r)'
    BY <1>2 DEF Alone, Filling
  <1>5. PICK w \in 1..head : /\ worktree = tree[w] /\ baseline <= w
                             /\ \A d \in Callers : target[d] <= w
                             /\ \A r \in Runs : at[r] <= w
    BY DEF Keeping, Refreshed
  <1>6. History' /\ Continuous' /\ \A k : Owed(k)' = Owed(k)
    BY <1>2 DEF Keeping, History, Continuous, Owed
  <1>7. Refreshed'
    <2>1. w \in Nat
      BY DEF TypeOK, Commits
    <2>2. ASSUME NEW d \in Callers PROVE target'[d] <= w
      BY <1>3, <1>5, <2>1
    <2> QED
      BY <1>2, <1>5, <2>2 DEF Refreshed
  <1>8. /\ \A f \in files : disk[f].v = worktree[f] /\ next[f] = disk[f]
        /\ \A f \in Files \ files :
              /\ disk[f] = staging[f]
              /\ next[f] = disk[f] \/ (moved /\ next[f] = mirror[f]) \/ (~ moved /\ next[f] = index[f])
    <2>1. files \subseteq Files
      BY DEF TypeOK, files
    <2> QED
      BY <2>1 DEF disk, next
  <1>9. ASSUME NEW f \in Files, NEW v, born, Safe(f, v), f \in files => worktree[f] >= v
        PROVE  /\ mirror'[f].v >= v /\ staging'[f].v >= v
               /\ local' = "synced" => index'[f].v >= v
    <2>1. /\ mirror[f].v >= v /\ staging[f].v >= v
          /\ local = "synced" => index[f].v >= v
      BY <1>4, <1>9 DEF Safe, Filling, Refilling
    <2>2. disk[f].v >= v
      BY <1>8, <1>9, <2>1
    <2>3. next[f].v >= v
      BY <1>8, <1>9, <2>1, <2>2 DEF moved
    <2>4. mirror'[f].v >= v
      BY <1>1, <2>1, <2>3
    <2> QED
      BY <1>1, <2>2, <2>3, <2>4 DEF Safe
  <1>10. ASSUME NEW k \in 1..head, k <= w, NEW f \in Owed(k)
         PROVE  /\ worktree[f] >= tree[k][f] /\ worktree[f] # 0
                /\ f \in Files /\ ~ Skipped(f)
    BY <1>5, <1>10, OwedLater DEF Keeping
  <1>11. ASSUME NEW k \in 1..head, k <= w, NEW fs, SafeBut(k, fs) PROVE SafeBut(k, fs)'
    <2>1. born /\ born'
      BY <1>1, <1>11 DEF SafeBut
    <2>2. \A f \in Owed(k) \ fs : Safe(f, tree[k][f])'
      <3> TAKE f \in Owed(k) \ fs
      <3>1. Safe(f, tree[k][f])
        BY <1>11 DEF SafeBut
      <3>2. tree'[k][f] = tree[k][f]
        BY <1>2
      <3> QED
        <4>1. f \in Files /\ worktree[f] >= tree[k][f]
          BY <1>10, <1>11
        <4>2. /\ mirror'[f].v >= tree[k][f] /\ staging'[f].v >= tree[k][f]
              /\ local' = "synced" => index'[f].v >= tree[k][f]
          BY <1>9, <2>1, <3>1, <4>1
        <4> QED
          BY <3>2, <4>2 DEF Safe
    <2> QED
      BY <1>2, <1>6, <2>1, <2>2 DEF SafeBut
  <1>12. Recorded'
    <2>1. baseline # 0 => baseline \in 1..head
      BY HeadIsLast
    <2> QED
      BY <1>2, <1>5, <1>11, <2>1 DEF Keeping, Recorded
  <1>13. ASSUME NEW d \in Callers PROVE SyncSafe(d)'
    <2>1. SyncSafe(d) /\ target[d] <= w
      BY <1>5 DEF Keeping
    <2>2. CASE d = c
      <3>1. CASE pc'[c] = "idle"
        BY <2>2, <3>1 DEF SyncSafe
      <3>2. CASE mirror' = next /\ born' /\ pc'[c] = "record" /\ target'[c] = target[c]
        <4>1. /\ target[c] \in 1..head
              /\ Trusted => Owed(target[c]) \subseteq todo[c] \/ SafeBut(target[c], todo[c])
          BY <1>2, <2>1, <2>2 DEF SyncSafe
        <4>2. ASSUME Trusted, NEW f \in Owed(target[c])
              PROVE  Safe(f, tree[target[c]][f])'
          <5>1. /\ worktree[f] >= tree[target[c]][f] /\ worktree[f] # 0
                /\ f \in Files /\ ~ Skipped(f)
            BY <1>10, <2>1, <2>2, <4>1
          <5>2. CASE f \in todo[c]
            <6>1. f \in files
              BY <5>1, <5>2 DEF files
            <6>2. next[f].v >= tree[target[c]][f] /\ disk[f].v >= tree[target[c]][f]
              BY <1>8, <5>1, <6>1
            <6> QED
              BY <1>1, <1>2, <3>2, <6>2 DEF Safe
          <5>3. CASE f \notin todo[c]
            <6>1. born /\ Safe(f, tree[target[c]][f]) /\ f \notin files
              BY <4>1, <4>2, <5>3 DEF SafeBut, files
            <6> QED
              <7>1. /\ mirror'[f].v >= tree[target[c]][f] /\ staging'[f].v >= tree[target[c]][f]
                    /\ local' = "synced" => index'[f].v >= tree[target[c]][f]
                BY <1>9, <5>1, <6>1
              <7> QED
                BY <1>2, <3>2, <7>1 DEF Safe
          <5> QED
            BY <5>2, <5>3
        <4>3. Trusted => SafeBut(target[c], {})'
          BY <1>2, <1>6, <3>2, <4>2 DEF SafeBut
        <4> QED
          BY <1>2, <2>2, <3>2, <4>1, <4>3 DEF SyncSafe
      <3> QED
        BY <1>3, <3>1, <3>2
    <2>3. CASE d # c
      <3>1. pc'[d] = pc[d] /\ target'[d] = target[d] /\ todo'[d] = todo[d]
        BY <1>3, <2>3
      <3>2. CASE pc[d] = "idle"
        BY <3>1, <3>2 DEF SyncSafe
      <3>3. CASE pc[d] # "idle"
        <4>1. target[d] \in 1..head
          BY <2>1, <3>3 DEF SyncSafe
        <4>2. /\ SafeBut(target[d], todo[d]) => SafeBut(target[d], todo[d])'
              /\ SafeBut(target[d], {}) => SafeBut(target[d], {})'
          BY <1>11, <2>1, <3>1, <4>1
        <4> QED
          BY <1>2, <1>6, <2>1, <3>1, <4>2 DEF SyncSafe
      <3> QED
        BY <3>2, <3>3
    <2> QED
      BY <2>2, <2>3
  <1>14. \A r \in Runs : Fills(r)'
    BY <1>2, <1>4 DEF RunTypes, Filling, Refilling, Fills
  <1> QED
    BY <1>6, <1>7, <1>12, <1>13, <1>14 DEF Keeping

\* While a run fills, it is the only one that has anything to show.
LEMMA SoloKeeps ==
    ASSUME RunTypes', Alone', NEW r \in Runs, Filling(r)', UNCHANGED <<head, tree>>,
           Keeping, Refreshed', Recorded', Fills(r)'
    PROVE  Keeping'
  <1>1. History' /\ Continuous'
    BY DEF Keeping, History, Continuous
  <1>2. \A c \in Callers : SyncSafe(c)'
    BY DEF Alone, SyncSafe
  <1>3. ASSUME NEW q \in Runs PROVE Fills(q)'
    <2>1. CASE q # r
      <3>1. ~ Filling(q)'
        BY <2>1 DEF Alone
      <3> QED
        BY <3>1 DEF RunTypes, Filling, Refilling, Fills
    <2> QED
      BY <2>1
  <1> QED
    BY <1>1, <1>2, <1>3 DEF Keeping

\* While a run fills the directory, what was recorded only has to be on the mirror.
LEMMA RefillRecorded ==
    ASSUME Recorded, NEW r \in Runs, Refilling(r)', local' = "unborn",
           UNCHANGED <<head, tree, baseline, mirror, born>>
    PROVE  Recorded'
  BY DEF Recorded, SafeBut, Safe, Owed

\* What a run has of its commit, it has of what was recorded before.
LEMMA HasRecorded ==
    ASSUME TypeOK, Keeping, NEW r \in Runs, Filling(r), NEW side, Has(side, at[r]),
           side \in [Files -> Content]
    PROVE  baseline # 0 => \A f \in Owed(baseline) : side[f].v >= tree[baseline][f]
  <1>1. at[r] \in 1..head /\ baseline <= at[r] /\ History
    BY DEF Keeping, Fills
  <1> SUFFICES ASSUME baseline # 0, NEW f \in Owed(baseline)
               PROVE  side[f].v >= tree[baseline][f]
    OBVIOUS
  <1>2. baseline \in 1..head
    BY <1>1 DEF TypeOK, Commits
  <1>3. /\ f \in Owed(at[r]) /\ f \in Files /\ tree[baseline][f] <= tree[at[r]][f]
        /\ tree[baseline][f] \in Nat /\ tree[at[r]][f] \in Nat
    BY <1>1, <1>2, OwedLater
  <1>4. side[f].v >= tree[at[r]][f] /\ side[f].v \in Nat
    BY <1>3, ConstantsOK DEF Has, Content, Draft
  <1> QED
    BY <1>3, <1>4

\* A run lists the files of the head.
LEMMA ListKeeps ==
    ASSUME TypeOK, RunTypes, RunTypes', Alone', Keeping, NEW r \in Runs, ListFiles(r)
    PROVE  Keeping'
  <1> USE DEF forgejo, store, git, github, run, asking
  <1>1. /\ UNCHANGED <<head, tree, baseline, staging, index, local, unpushed, mirror, born, target>>
        /\ worktree' = tree[head] /\ at'[r] = head /\ phase[r] = "ensure"
        /\ names'[r] = {f \in Files : tree[head][f] # 0}
        /\ phase'[r] = "reset" /\ copy'[r] = NoHold
        /\ \A q \in Runs \ {r} : phase'[q] = phase[q] /\ at'[q] = at[q]
    BY DEF ListFiles, Goto, RunTypes
  <1>2. Refreshed'
    <2>1. /\ baseline' <= head /\ worktree' = tree'[head] /\ head \in 1..head'
          /\ \A c \in Callers : target'[c] <= head
      BY <1>1, HeadIsLast
    <2>2. ASSUME NEW q \in Runs PROVE at'[q] <= head
      BY <1>1, HeadIsLast
    <2> QED
      BY <2>1, <2>2 DEF Refreshed
  <1>3. Recorded'
    <2>1. \A q \in Runs : Refilling(q)' = Refilling(q)
      BY <1>1 DEF Refilling
    <2> QED
      BY <1>1, <2>1 DEF Keeping, Recorded, SafeBut, Safe, Owed
  <1>4. Fills(r)'
    <2>1. Owed(head) \subseteq {f \in Files : tree[head][f] # 0}
      BY HeadIsLast DEF Owed, TypeOK, Commits
    <2>2. Owed(at[r])' = Owed(head)
      BY <1>1 DEF Owed
    <2>3. at'[r] \in 1..head' /\ baseline' <= at'[r]
      BY <1>1, HeadIsLast
    <2> QED
      BY <1>1, <2>1, <2>2, <2>3 DEF Fills, Filling, Refilling
  <1> QED
    BY <1>1, <1>2, <1>3, <1>4, SoloKeeps DEF Filling

\* It starts with an empty directory.
LEMMA ResetKeeps ==
    ASSUME TypeOK, RunTypes, RunTypes', Alone', Keeping, NEW r \in Runs, Reset(r)
    PROVE  Keeping'
  <1> USE DEF forgejo, store, github, run, asking, filling
  <1>1. /\ UNCHANGED <<head, tree, worktree, baseline, mirror, born, target, at, names, copy>>
        /\ staging' = Empty /\ local' = "unborn"
        /\ phase[r] = "reset" /\ phase'[r] = "files" /\ copy[r] = NoHold
    BY DEF Reset, Goto, RunTypes
  <1>2. Refreshed'
    BY <1>1 DEF Keeping, Refreshed
  <1>3. Recorded'
    BY <1>1, RefillRecorded DEF Keeping, Refilling
  <1>4. Fills(r)'
    <2>1. Fills(r) /\ Owed(at[r])' = Owed(at[r])
      BY <1>1 DEF Keeping, Owed
    <2>2. Only(staging, at[r])'
      BY <1>1 DEF Only, Empty, Absent
    <2> QED
      BY <1>1, <2>1, <2>2 DEF Fills, Filling, Refilling
  <1> QED
    BY <1>1, <1>2, <1>3, <1>4, SoloKeeps DEF Filling

\* It leaves out what nobody is owed.
LEMMA LeaveOutKeeps ==
    ASSUME TypeOK, RunTypes, RunTypes', Alone', Keeping, NEW r \in Runs, NEW f \in Files,
           LeaveOut(r, f)
    PROVE  Keeping'
  <1> USE DEF vars, asking
  <1>1. /\ UNCHANGED <<head, tree, worktree, baseline, staging, index, local, mirror, born, target>>
        /\ UNCHANGED <<phase, at, copy>>
        /\ phase[r] = "files" /\ copy[r] = NoHold /\ names'[r] = names[r] \ {f}
        /\ IsSkipPattern(f) \/ worktree[f] = 0
    BY DEF LeaveOut, NextName, RunTypes, ReadForgejoFile
  <1>2. Refreshed'
    BY <1>1 DEF Keeping, Refreshed
  <1>3. Recorded'
    BY <1>1 DEF Keeping, Recorded, SafeBut, Safe, Owed, Refilling
  <1>4. Fills(r)'
    <2>1. Fills(r) /\ Owed(at[r])' = Owed(at[r])
      BY <1>1 DEF Keeping, Owed
    <2>2. PICK w \in 1..head : worktree = tree[w] /\ at[r] <= w
      BY DEF Keeping, Refreshed
    <2>3. f \notin Owed(at[r])
      <3>1. at[r] \in 1..head
        BY <1>1, <2>1 DEF Fills, Filling
      <3> SUFFICES ASSUME f \in Owed(at[r]) PROVE FALSE
        OBVIOUS
      <3>2. ~ IsSkipPattern(f) /\ tree[w][f] # 0
        BY <2>2, <3>1, OwedLater DEF Keeping
      <3> QED
        BY <1>1, <2>2, <3>2
    <2> QED
      BY <1>1, <2>1, <2>3 DEF Fills, Filling, Refilling, Only
  <1> QED
    BY <1>1, <1>2, <1>3, <1>4, SoloKeeps DEF Filling

\* It reads a file, in the version of its commit or in a newer one.
LEMMA TakeKeeps ==
    ASSUME TypeOK, RunTypes, RunTypes', Alone', Keeping, NEW r \in Runs, NEW f \in Files,
           Take(r, f)
    PROVE  Keeping'
  <1> USE DEF vars, asking
  <1>1. /\ UNCHANGED <<head, tree, worktree, baseline, staging, index, local, mirror, born, target>>
        /\ UNCHANGED <<phase, at>>
        /\ phase[r] = "files" /\ copy[r] = NoHold /\ names'[r] = names[r] \ {f}
        /\ f \in names[r] /\ worktree[f] # 0
        /\ copy'[r] = [file |-> f, content |-> [v |-> worktree[f], clean |-> f \notin KeepPaths]]
    BY DEF Take, NextName, RunTypes, ReadForgejoFile
  <1>2. Refreshed'
    BY <1>1 DEF Keeping, Refreshed
  <1>3. Recorded'
    BY <1>1 DEF Keeping, Recorded, SafeBut, Safe, Owed, Refilling
  <1>4. Fills(r)'
    <2>1. Fills(r) /\ Owed(at[r])' = Owed(at[r])
      BY <1>1 DEF Keeping, Owed
    <2>2. PICK w \in 1..head : worktree = tree[w] /\ at[r] <= w
      BY DEF Keeping, Refreshed
    <2>3. at[r] \in 1..head
      BY <1>1, <2>1 DEF Fills, Filling
    <2>4. tree[at[r]][f] # 0 /\ tree[at[r]][f] <= tree[w][f]
      BY <1>1, <2>1, <2>2, <2>3 DEF Fills, Keeping, History
    <2>5. /\ 1..head \subseteq Commits /\ tree[at[r]][f] \in Nat /\ tree[w][f] \in Nat
      BY <2>2, <2>3, ConstantsOK DEF TypeOK, Commits, Version
    <2>6. copy'[r] # NoHold /\ copy'[r].file = f /\ copy'[r].content.v = tree[w][f]
          /\ copy'[r].content.clean = (f \notin KeepPaths)
      BY <1>1, <2>2, ConstantsOK DEF NoHold
    <2>7. /\ tree'[at'[r]][f] # 0 /\ copy'[r].content.v >= tree'[at'[r]][f]
          /\ f \notin KeepPaths => copy'[r].content.clean
      BY <1>1, <2>4, <2>5, <2>6
    <2> QED
      BY <1>1, <2>1, <2>6, <2>7 DEF Fills, Filling, Refilling, Only
  <1> QED
    BY <1>1, <1>2, <1>3, <1>4, SoloKeeps DEF Filling

\* It writes the file it has read.
LEMMA FillKeeps ==
    ASSUME TypeOK, RunTypes, RunTypes', CopiesClean, Alone', Keeping, NEW r \in Runs, Fill(r)
    PROVE  Keeping'
  <1> USE DEF forgejo, git, github, run, asking
  <1> DEFINE f == copy[r].file
             x == copy[r].content
  <1>1. /\ UNCHANGED <<head, tree, worktree, baseline, index, local, mirror, born, target>>
        /\ UNCHANGED <<phase, at, names>>
        /\ phase[r] = "files" /\ copy[r] # NoHold
        /\ staging' = [staging EXCEPT ![f] = x]
        /\ copy'[r] = NoHold
    BY DEF Fill, WriteGitHubStaging, RunTypes
  <1>2. Refreshed'
    BY <1>1 DEF Keeping, Refreshed
  <1>3. Recorded'
    <2>1. Refilling(r)' /\ local' = "unborn"
      BY <1>1 DEF Alone, Refilling
    <2> QED
      BY <1>1, <2>1, RefillRecorded DEF Keeping
  <1>4. Fills(r)'
    <2>1. Fills(r) /\ Owed(at[r])' = Owed(at[r])
      BY <1>1 DEF Keeping, Owed
    <2>2. /\ f \in Files /\ tree[at[r]][f] # 0 /\ x.v >= tree[at[r]][f]
          /\ f \notin KeepPaths => x.clean
      BY <1>1, <2>1 DEF CopiesClean, Fills
    <2>3. staging'[f] = x /\ \A g \in Files \ {f} : staging'[g] = staging[g]
      BY <1>1, <2>2 DEF TypeOK
    <2>4. Only(staging, at[r])'
      <3>1. Only(staging, at[r])
        BY <1>1, <2>1 DEF Fills, Refilling
      <3> QED
        BY <1>1, <2>2, <2>3, <3>1 DEF Only
    <2>5. \A g \in Owed(at[r]) : g \in names[r] \/ staging'[g].v >= tree[at[r]][g]
      <3> TAKE g \in Owed(at[r])
      <3>1. g \in Files
        BY DEF Owed
      <3>2. g \in names[r] \/ g = f \/ staging[g].v >= tree[at[r]][g]
        BY <1>1, <2>1 DEF Fills
      <3> QED
        BY <2>2, <2>3, <3>1, <3>2
    <2> QED
      BY <1>1, <2>1, <2>4, <2>5 DEF Fills, Filling, Refilling
  <1> QED
    BY <1>1, <1>2, <1>3, <1>4, SoloKeeps DEF Filling

\* It removes the files of skip patterns, which nobody is owed.
LEMMA RemoveKeeps ==
    ASSUME TypeOK, RunTypes, RunTypes', Alone', Keeping, NEW r \in Runs, RemoveSkipped(r)
    PROVE  Keeping'
  <1> USE DEF forgejo, store, git, github, run, asking, filling
  <1>1. /\ UNCHANGED <<head, tree, worktree, baseline, index, local, mirror, born, target>>
        /\ UNCHANGED <<at, names, copy>>
        /\ phase[r] = "files" /\ copy[r] = NoHold /\ names[r] = {} /\ phase'[r] = "add"
        /\ \A g \in Files : staging'[g] = IF IsSkipPattern(g) /\ tree[at[r]][g] # 0
                                          THEN Absent ELSE staging[g]
    BY DEF RemoveSkipped, RemoveFromGitHubStaging, Goto, RunTypes
  <1>2. Refreshed'
    BY <1>1 DEF Keeping, Refreshed
  <1>3. Recorded'
    <2>1. Refilling(r)' /\ local' = "unborn"
      BY <1>1 DEF Alone, Refilling
    <2> QED
      BY <1>1, <2>1, RefillRecorded DEF Keeping
  <1>4. Fills(r)'
    <2>1. Fills(r) /\ Owed(at[r])' = Owed(at[r])
      BY <1>1 DEF Keeping, Owed
    <2>2. Has(staging, at[r])'
      <3>1. \A g \in Owed(at[r]) : g \in Files /\ ~ IsSkipPattern(g)
        BY DEF Owed, IsSkipPattern
      <3>2. \A g \in Owed(at[r]) : staging[g].v >= tree[at[r]][g]
        BY <1>1, <2>1 DEF Fills
      <3>3. \A g \in Owed(at[r]) : staging'[g].v >= tree[at[r]][g]
        BY <1>1, <3>1, <3>2
      <3> QED
        BY <1>1, <2>1, <3>3 DEF Has
    <2>3. Only(staging, at[r])'
      <3>1. Only(staging, at[r])
        BY <1>1, <2>1 DEF Fills, Refilling
      <3> QED
        BY <1>1, <3>1 DEF Only, Absent
    <2>4. NoSkips(staging)'
      BY <1>1, <2>3 DEF NoSkips, Only, Absent
    <2> QED
      BY <1>1, <2>1, <2>2, <2>3, <2>4 DEF Fills, Filling, Refilling
  <1> QED
    BY <1>1, <1>2, <1>3, <1>4, SoloKeeps DEF Filling

\* It adds what is on disk.
LEMMA AddKeeps ==
    ASSUME TypeOK, RunTypes, RunTypes', Alone', Keeping, NEW r \in Runs, AddAll(r)
    PROVE  Keeping'
  <1> USE DEF forgejo, store, github, run, asking, filling
  <1>1. /\ UNCHANGED <<head, tree, worktree, baseline, staging, local, mirror, born, target>>
        /\ UNCHANGED <<at, names, copy>>
        /\ phase[r] = "add" /\ phase'[r] = "commit" /\ copy[r] = NoHold /\ index' = staging
    BY DEF AddAll, Goto, RunTypes
  <1>2. Refreshed'
    BY <1>1 DEF Keeping, Refreshed
  <1>3. Recorded'
    <2>1. Refilling(r)' /\ local' = "unborn"
      BY <1>1 DEF Alone, Refilling
    <2> QED
      BY <1>1, <2>1, RefillRecorded DEF Keeping
  <1>4. Fills(r)'
    <2>1. Fills(r) /\ Owed(at[r])' = Owed(at[r])
      BY <1>1 DEF Keeping, Owed
    <2> QED
      BY <1>1, <2>1 DEF Fills, Filling, Refilling, Has, Only, NoSkips
  <1> QED
    BY <1>1, <1>2, <1>3, <1>4, SoloKeeps DEF Filling

\* It commits: the directory has what was recorded before, and more.
LEMMA CommitAllKeeps ==
    ASSUME TypeOK, RunTypes, RunTypes', Alone, Alone', Keeping, NEW r \in Runs, CommitAll(r)
    PROVE  Keeping'
  <1> USE DEF forgejo, store, github, run, asking, filling
  <1>1. /\ UNCHANGED <<head, tree, worktree, baseline, staging, index, mirror, born, target>>
        /\ UNCHANGED <<at, names, copy>>
        /\ phase[r] = "commit" /\ phase'[r] = "send" /\ copy[r] = NoHold
        /\ unpushed' = index /\ local' # "synced"
    BY DEF CommitAll, Goto, RunTypes
  <1>2. Refreshed'
    BY <1>1 DEF Keeping, Refreshed
  <1>3. Fills(r) /\ Owed(at[r])' = Owed(at[r]) /\ Filling(r)
    BY <1>1 DEF Keeping, Owed, Filling
  <1>4. Recorded'
    <2>1. baseline # 0 => \A f \in Owed(baseline) : staging[f].v >= tree[baseline][f]
      BY <1>1, <1>3, HasRecorded DEF Fills, TypeOK
    <2>2. Trusted /\ baseline # 0 =>
            born /\ \A f \in Owed(baseline) : mirror[f].v >= tree[baseline][f]
      BY DEF Keeping, Recorded, SafeBut, Safe
    <2> QED
      BY <1>1, <2>1, <2>2 DEF Recorded, SafeBut, Safe, Owed
  <1>5. Fills(r)'
    BY <1>1, <1>3 DEF Fills, Filling, Refilling, Has, Only, NoSkips
  <1> QED
    BY <1>1, <1>2, <1>4, <1>5, SoloKeeps DEF Filling

\* It replaces the mirror, which then has all of its commit.
LEMMA ForcePushKeeps ==
    ASSUME TypeOK, RunTypes, RunTypes', Alone', Keeping, NEW r \in Runs, ForcePush(r)
    PROVE  Keeping'
  <1> USE DEF forgejo, store, run, asking, filling
  <1>1. /\ UNCHANGED <<head, tree, worktree, baseline, staging, index, target, at, names, copy>>
        /\ phase[r] = "send" /\ phase'[r] = "baseline" /\ copy[r] = NoHold
        /\ mirror' = unpushed /\ born' = TRUE
    BY DEF ForcePush, Goto, RunTypes
  <1>2. Refreshed'
    BY <1>1 DEF Keeping, Refreshed
  <1>3. Fills(r) /\ Owed(at[r])' = Owed(at[r]) /\ Filling(r)
    BY <1>1 DEF Keeping, Owed, Filling
  <1>4. /\ mirror' = staging /\ index' = staging /\ Has(staging, at[r]) /\ Only(staging, at[r])
        /\ NoSkips(staging)
    BY <1>1, <1>3 DEF Fills
  <1>5. Recorded'
    <2>1. baseline # 0 => \A f \in Owed(baseline) : staging[f].v >= tree[baseline][f]
      BY <1>3, <1>4, HasRecorded DEF TypeOK
    <2> QED
      BY <1>1, <1>4, <2>1 DEF Recorded, SafeBut, Safe, Owed
  <1>6. Fills(r)'
    <2>1. SafeBut(at[r], {})'
      BY <1>1, <1>3, <1>4 DEF SafeBut, Safe, Has
    <2>2. Only(mirror, at[r])' /\ NoSkips(mirror)'
      BY <1>1, <1>4 DEF Only, NoSkips
    <2> QED
      BY <1>1, <1>3, <2>1, <2>2 DEF Fills, Filling, Refilling
  <1> QED
    BY <1>1, <1>2, <1>5, <1>6, SoloKeeps DEF Filling

\* Its commit becomes the baseline.
LEMMA StoreKeeps ==
    ASSUME TypeOK, RunTypes, RunTypes', Alone', Keeping, NEW r \in Runs, StoreBaseline(r)
    PROVE  Keeping'
  <1> USE DEF forgejo, git, github, run, asking, filling
  <1>1. /\ UNCHANGED <<head, tree, worktree, staging, index, local, mirror, born, target>>
        /\ UNCHANGED <<at, names, copy>>
        /\ phase[r] = "baseline" /\ phase'[r] = "complete" /\ copy[r] = NoHold
        /\ \A q \in Runs \ {r} : phase'[q] = phase[q]
        /\ baseline' = at[r]
    BY DEF StoreBaseline, Goto, RunTypes
  <1>2. Refreshed'
    BY <1>1 DEF Keeping, Refreshed
  <1>3. Fills(r) /\ Owed(at[r])' = Owed(at[r])
    BY <1>1 DEF Keeping, Owed
  <1>4. SafeBut(at[r], {})'
    <2>1. \A q \in Runs : Refilling(q)' = Refilling(q)
      BY <1>1 DEF Refilling
    <2>2. SafeBut(at[r], {})
      BY <1>1, <1>3 DEF Fills
    <2> QED
      BY <1>1, <1>3, <2>1, <2>2 DEF SafeBut, Safe
  <1>5. Recorded'
    BY <1>1, <1>4 DEF Recorded, SafeBut, Safe, Owed
  <1>6. Fills(r)'
    <2>1. at[r] <= at[r] /\ at[r] \in 1..head
      BY <1>1, <1>3 DEF Fills, Filling
    <2> QED
      BY <1>1, <1>3, <1>4, <2>1 DEF Fills, Filling, Refilling, Only, NoSkips
  <1> QED
    BY <1>1, <1>2, <1>5, <1>6, SoloKeeps DEF Filling

\* A mirror that was migrated has the first commit; a fresh one records nothing.
LEMMA InitKeeping ==
    ASSUME MigrationInit
    PROVE  Keeping
  <1>1. TypeOK /\ RunTypes
    BY InitMigrationType, TypeParts DEF MigrationTypeOK
  <1>2. /\ head = 1 /\ worktree = tree[1] /\ baseline \in 0..1
        /\ \A c \in Callers : pc[c] = "idle" /\ target[c] = 0
        /\ \A r \in Runs : phase[r] = "none" /\ at[r] = 0
    BY DEF MigrationInit, Init, InitForgejo, InitMirror
  <1>3. 1 \in Commits /\ 1..1 = {1}
    BY ConstantsOK DEF Commits
  <1>4. \A f \in Files : tree[1][f] \in 0..1 /\ \A k \in Commits : k # 1 => tree[k][f] = 0
    BY <1>3 DEF MigrationInit, Init, InitForgejo
  <1>5. History
    <2>1. ASSUME NEW k \in Commits, NEW f \in Files PROVE tree[k][f] <= k
      BY <1>4 DEF Commits
    <2>2. ASSUME NEW k \in 1..head, NEW f \in Files PROVE tree[k][f] <= tree[k][f] /\ k = 1
      BY <1>2, <1>3, <1>4
    <2> QED
      BY <1>2, <1>3, <2>1, <2>2 DEF History
  <1>6. Continuous
    BY <1>2, <1>3 DEF Continuous
  <1>7. Refreshed
    BY <1>2 DEF Refreshed
  <1>8. Recorded
    <2> SUFFICES ASSUME Trusted, baseline # 0 PROVE Recorded
      BY DEF Recorded
    <2>1. InitMirror("migrated")
      <3>1. PICK mode \in Starts : InitMirror(mode)
        BY DEF MigrationInit, Init
      <3>2. mode # "fresh"
        BY <3>1 DEF InitMirror
      <3> QED
        BY <3>1, <3>2, ConstantsOK DEF StartModes, Trusted
    <2>2. /\ baseline = 1 /\ born /\ mirror = Mirrored(tree[1]) /\ staging = Mirrored(tree[1])
          /\ index = staging
      BY <2>1 DEF InitMirror
    <2>3. ASSUME NEW f \in Owed(1)
          PROVE  Mirrored(tree[1])[f].v >= tree[1][f]
      <3>1. f \in Files /\ ~ Skipped(f) /\ tree[1][f] \in 0..1 /\ tree[1][f] # 0
        BY <1>2, <1>3, <1>4 DEF Owed, Skipped
      <3> QED
        BY <3>1 DEF Mirrored
    <2> QED
      BY <2>2, <2>3 DEF Recorded, SafeBut, Safe
  <1>9. \A c \in Callers : SyncSafe(c)
    BY <1>2 DEF SyncSafe
  <1>10. \A r \in Runs : Fills(r)
    BY <1>1, <1>2, NotFillingFills DEF Filling
  <1> QED
    BY <1>5, <1>6, <1>7, <1>8, <1>9, <1>10 DEF Keeping

\* Every step keeps it: a sync's, a run's that fills, or one that starts nothing.
LEMMA NextKeeping ==
    ASSUME MigrationBoundary, MigrationBoundary', calm, Alone, Alone', Keeping,
           [MigrationNext]_mvars
    PROVE  Keeping'
  <1>0. TypeOK /\ TypeOK' /\ RunTypes /\ RunTypes' /\ CopiesClean
    BY DEF MigrationBoundary, CleanBoundary
  <1>1. CASE Commit /\ UNCHANGED migration
    BY <1>0, <1>1, CommitKeeps
  <1>2. ASSUME NEW c \in Callers, SyncDiff(c) \/ SyncPublish(c) \/ SyncRecord(c)
        PROVE  Keeping'
    BY <1>0, <1>2, DiffKeeps, PublishKeeps, RecordKeeps
  <1>3. ASSUME NEW r \in Runs, ListFiles(r) \/ Reset(r) \/ Fill(r) \/ RemoveSkipped(r)
        PROVE  Keeping'
    BY <1>0, <1>3, ListKeeps, ResetKeeps, FillKeeps, RemoveKeeps
  <1>4. ASSUME NEW r \in Runs, NEW f \in Files, LeaveOut(r, f) \/ Take(r, f)
        PROVE  Keeping'
    BY <1>0, <1>4, LeaveOutKeeps, TakeKeeps
  <1>5. ASSUME NEW r \in Runs, AddAll(r) \/ CommitAll(r) \/ ForcePush(r) \/ StoreBaseline(r)
        PROVE  Keeping'
    BY <1>0, <1>5, AddKeeps, CommitAllKeeps, ForcePushKeeps, StoreKeeps
  <1>6. \A r \in Runs : ~ FillFails(r)
    BY DEF FillFails
  <1>7. Retiring => Keeping'
    BY <1>0, RetiringKeeps
  <1> QED
    BY <1>1, <1>2, <1>3, <1>4, <1>5, <1>6, <1>7, EndRetires DEF MigrationNext, Mode3, Migrate

LEMMA AlwaysKeeping == MigrationSpec => [](MigrationBoundary /\ (calm => Alone /\ Keeping))
  <1>1. MigrationInit => MigrationBoundary /\ (calm => Alone /\ Keeping)
    BY InitMigrationBoundary, InitAlone, InitKeeping
  <1>2. MigrationBoundary /\ (calm => Alone /\ Keeping) /\ [MigrationNext]_mvars
          => (MigrationBoundary /\ (calm => Alone /\ Keeping))'
    BY NextMigrationBoundary, NextAlone, NextKeeping, CalmStays
  <1> QED
    BY <1>1, <1>2, PTL DEF MigrationSpec

\* A calm migration leaves exactly the commit it announces, whatever earlier runs,
\* syncs, kills and failed pushes have left in the staging directory, and however
\* many commits land meanwhile (MigrateWithKind).
THEOREM MigrationIsExact == MigrationSpec => []CompleteIsExact
  <1>1. MigrationBoundary /\ (calm => Alone /\ Keeping) => CompleteIsExact
    <2> SUFFICES ASSUME Keeping, NEW r \in Runs, phase[r] \in {"baseline", "complete"}
                 PROVE  /\ \A f \in Owed(at[r]) : /\ mirror[f].v >= tree[at[r]][f]
                                                  /\ f \notin KeepPaths => mirror[f].clean
                        /\ \A f \in Files :
                              tree[at[r]][f] = 0 \/ IsSkipPattern(f) => mirror[f].v = 0
      BY DEF CompleteIsExact
    <2>1. SafeBut(at[r], {}) /\ Only(mirror, at[r]) /\ NoSkips(mirror)
      BY DEF Keeping, Fills
    <2> QED
      BY <2>1 DEF SafeBut, Safe, Only, NoSkips, Owed
  <1> QED
    BY <1>1, AlwaysKeeping, PTL

\* In calm behaviours the recorded baseline is on the mirror, although a migration
\* empties and refills the directory that the syncs push from (manager.go:310).
\* The hypothesis leaves out mirrors that init-sync-state has declared to be up to
\* date without looking at them: the run of MirrorSeeded.cfg shows what becomes of
\* those.
THEOREM MigratedBaselineHolds ==
    ASSUME "seeded" \notin Starts
    PROVE  MigrationSpec => []MigratedBaseline
  <1>1. (calm => Alone /\ Keeping) => MigratedBaseline
    BY DEF Keeping, Recorded, Trusted, SafeBut, Safe, MigratedBaseline
  <1> QED
    BY <1>1, AlwaysKeeping, PTL

===============================================================================
