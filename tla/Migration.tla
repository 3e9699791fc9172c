------------------------------- MODULE Migration -------------------------------
(***************************************************************************)
(* Mode 4: the full migration of one repository, beside the Mode 3 syncs   *)
(* of MirrorSync, whose directories, store and mirror it shares.           *)
(*                                                                         *)
(* A run asks the operator for a confirmation in Discord, waits for a      *)
(* reaction or the deadline, empties the staging directory, fills it with  *)
(* every file of HEAD and force-pushes one commit.  The daemon starts a    *)
(* run when the mirror is empty (bootstrap); the operator starts others    *)
(* from the command line, in a process of their own.                       *)
(***************************************************************************)
EXTENDS MirrorSync

CONSTANTS MigrationSkip, \* files that match a skip pattern, as a migration matches
          MaxRuns,       \* bound on the migration runs
          MaxDisturbed   \* bound on those of a behaviour that is not calm

ASSUME MigrationConstantsOK ==
    /\ MigrationSkip \subseteq Files
    /\ MaxRuns \in Nat \ {0}
    /\ MaxDisturbed \in Nat

VARIABLES
    kind,     \* kind[r]: who started run r, "none" before it starts
    phase,    \* phase[r]: where run r is
    row,      \* row[r]: status of its row in pending_confirmations
    status,   \* migration_status.status
    booted,   \* AutoBootstrap has passed this repository since the daemon started
    at,       \* at[r]: headSHA of run r
    names,    \* names[r]: filenames that run r has still to process
    copy,     \* copy[r]: file read but not yet written to the staging directory
    calm      \* no sync runs while a migration fills and pushes the staging
              \* directory, no file fails, and no re-migration is killed midway

Runs == 1..MaxRuns

asking == <<kind, row, booted>>
filling == <<at, names, copy>>
migration == <<kind, phase, row, status, booted, at, names, copy, calm>>
mvars == <<head, tree, hooks, worktree, baseline, pending, staging, index, local,
           unpushed, tracked, mirror, born, pc, target, todo, held, changed,
           drifting, nightly, crashes, kind, phase, row, status, booted, at, names,
           copy, calm>>

\* Run r is past its confirmation and has not returned.
Busy(r) == phase[r] \in {"ensure", "reset", "files", "add", "commit", "send",
                         "baseline", "complete"}

\* Run r has emptied the staging directory and not yet committed it.
Refilling(r) == phase[r] \in {"files", "add", "commit"}

MigrationInit ==
    /\ Init
    /\ kind = [r \in Runs |-> "none"]
    /\ phase = [r \in Runs |-> "none"]
    /\ row = [r \in Runs |-> "none"]
    /\ status = "pending"
    /\ booted = FALSE
    /\ at = [r \in Runs |-> 0]
    /\ names = [r \in Runs |-> {}]
    /\ copy = [r \in Runs |-> NoHold]
    /\ calm \in BOOLEAN

Goto(r, p) == phase' = [phase EXCEPT ![r] = p]

-------------------------------------------------------------------------------
(* The stores and the directories, as a migration uses them.               *)

\* A row of pending_confirmations is found by the message that asked for it; an
\* answer to the message changes a pending row only.
Create(r) == row' = [row EXCEPT ![r] = "pending"]
GetByMessageID(r) == row[r]
SetStatus(r, answer) == row' = [row EXCEPT ![r] = answer]

SetMigrationStatus(s) == status' = s

\* The manager takes a pattern dir/** for all that is below dir. The runner of the
\* syncs has the same patterns and a matcher of its own (SkipFiles), in which the
\* pattern means what is in dir itself: neither set contains the other.
IsSkipPattern(f) == f \in MigrationSkip

\* The mirror has no commit, or does not exist.
IsEmpty == ~ born

\* What the worktree has of a file, 0 if nothing.
ReadForgejoFile(f) == worktree[f]
WriteGitHubStaging(f, x) == staging' = [staging EXCEPT ![f] = x]
RemoveFromGitHubStaging(fs) ==
    staging' = [f \in Files |-> IF f \in fs THEN Absent ELSE staging[f]]

-------------------------------------------------------------------------------
(* Start and confirmation.                                                 *)

\* The checks are passed, the message with the request is posted, and the row is
\* stored.  A reaction between the two finds no row, as if there was none.
Ask(r, k) ==
    /\ kind[r] = "none"
    /\ calm \/ r <= MaxDisturbed
    /\ \A q \in 1..(r - 1) : kind[q] # "none"
    /\ kind' = [kind EXCEPT ![r] = k]
    /\ Create(r)
    /\ Goto(r, "waiting")

\* AutoBootstrap, once per start of the daemon: an empty mirror is migrated, and
\* a status left by an earlier run is reset first.
Bootstrap(r) ==
    /\ ~ booted
    /\ IsEmpty
    /\ Ask(r, "bootstrap")
    /\ SetMigrationStatus("pending")
    /\ booted' = TRUE
    /\ UNCHANGED <<vars, filling, calm>>

\* The mirror has content, or one of the preflight calls fails.
BootstrapPasses ==
    /\ ~ booted
    /\ booted' = TRUE
    /\ status' \in IF IsEmpty THEN {status, "pending"} ELSE {status}
    /\ UNCHANGED <<vars, kind, phase, row, filling, calm>>

\* --mode migrate: a completed repository is only migrated again with --force.
Command(r, force) ==
    /\ status = "complete" => force
    /\ Ask(r, "command")
    /\ UNCHANGED <<vars, status, booted, filling, calm>>

\* Mutation: the last reaction counts (SetStatusByMessageID without its guard).
ReactAgain(r, answer) ==
    /\ row[r] # "none"
    /\ row' = [row EXCEPT ![r] = answer]
    /\ UNCHANGED <<vars, kind, phase, status, booted, filling, calm>>

\* An operator reacts to the message of run r, which may be over:
\* SetStatusByMessageID changes a pending row only.
React(r, answer) ==
    /\ row[r] = "pending"
    /\ row' = [row EXCEPT ![r] = answer]
    /\ UNCHANGED <<vars, kind, phase, status, booted, filling, calm>>

\* Mutation: the poll reads any confirmation of the repository.
PollRepo(r) ==
    /\ phase[r] = "waiting"
    /\ \/ (\E q \in Runs : row[q] = "confirmed") /\ Goto(r, "ensure")
       \/ row[r] = "rejected" /\ Goto(r, "over")
    /\ UNCHANGED <<vars, asking, status, filling, calm>>

\* The ticker of ConfirmMigration reads the row of its own message.
Poll(r) ==
    /\ phase[r] = "waiting"
    /\ \/ GetByMessageID(r) = "confirmed" /\ Goto(r, "ensure")
       \/ GetByMessageID(r) = "rejected" /\ Goto(r, "over")
    /\ UNCHANGED <<vars, asking, status, filling, calm>>

\* The deadline: the row becomes expired whatever an operator has answered since
\* the last poll, and the run gives up.
Expire(r) ==
    /\ phase[r] = "waiting"
    /\ SetStatus(r, "expired")
    /\ Goto(r, "over")
    /\ UNCHANGED <<vars, kind, status, booted, filling, calm>>

-------------------------------------------------------------------------------
(* Filling the staging directory.                                          *)

\* In calm behaviours a run fills the staging directory while no sync does.
MayFill(r) ==
    calm => /\ \A c \in Callers : pc[c] = "idle"
            /\ \A q \in Runs \ {r} : ~ Busy(q) \/ phase[q] = "ensure"

\* Under the worktree lock: refresh the worktree and list the files of HEAD.
ListFiles(r) ==
    /\ phase[r] = "ensure"
    /\ MayFill(r)
    /\ worktree' = tree[head]
    /\ at' = [at EXCEPT ![r] = head]
    /\ names' = [names EXCEPT ![r] = {f \in Files : tree[head][f] # 0}]
    /\ Goto(r, "reset")
    /\ UNCHANGED <<forgejo, hooks, store, staging, git, github, run, drifting, nightly,
                   crashes, asking, status, copy, calm>>

\* Mutation: the files are removed and the git repository is kept.
ResetKeepsGit(r) ==
    /\ phase[r] = "reset"
    /\ staging' = Empty
    /\ status' = "in_progress"
    /\ Goto(r, "files")
    /\ UNCHANGED <<forgejo, hooks, worktree, store, git, github, run, drifting, nightly,
                   crashes, asking, filling, calm>>

\* Mutation: a new git repository is made and the files stay on disk.
ResetKeepsFiles(r) ==
    /\ phase[r] = "reset"
    /\ index' = Empty
    /\ local' = "unborn"
    /\ unpushed' = Empty
    /\ tracked' = FALSE
    /\ status' = "in_progress"
    /\ Goto(r, "files")
    /\ UNCHANGED <<forgejo, hooks, worktree, store, staging, github, run, drifting, nightly,
                   crashes, asking, filling, calm>>

\* ResetGitHubStaging removes the directory with its git repository, and
\* StartMigration stores the status.
Reset(r) ==
    /\ phase[r] = "reset"
    /\ staging' = Empty
    /\ index' = Empty
    /\ local' = "unborn"
    /\ unpushed' = Empty
    /\ tracked' = FALSE
    /\ status' = "in_progress"
    /\ Goto(r, "files")
    /\ UNCHANGED <<forgejo, hooks, worktree, store, github, run, drifting, nightly,
                   crashes, asking, filling, calm>>

NextName(r, f) ==
    /\ phase[r] = "files" /\ copy[r] = NoHold
    /\ names[r] # {}
    /\ f = CHOOSE g \in names[r] : TRUE   \* the order of the tree
    /\ names' = [names EXCEPT ![r] = @ \ {f}]

\* A file outside keep_paths matches a skip pattern, or the worktree no longer has
\* the file.
LeaveOut(r, f) ==
    /\ NextName(r, f)
    /\ \/ f \notin KeepPaths /\ IsSkipPattern(f)
       \/ ReadForgejoFile(f) = 0
    /\ UNCHANGED <<vars, asking, phase, status, at, copy, calm>>

\* A file is read; one outside keep_paths is then sanitized, pending or not.
Take(r, f) ==
    /\ NextName(r, f)
    /\ f \in KeepPaths \/ ~ IsSkipPattern(f)
    /\ ReadForgejoFile(f) # 0
    /\ copy' = [copy EXCEPT ![r] =
                  [file |-> f, content |-> [v |-> ReadForgejoFile(f), clean |-> f \notin KeepPaths]]]
    /\ UNCHANGED <<vars, asking, phase, status, at, calm>>

\* The content reaches the staging directory; findings below high confidence are
\* stored unless the file has pending ones of an earlier run.
Fill(r) ==
    /\ phase[r] = "files" /\ copy[r] # NoHold
    /\ LET f == copy[r].file
           x == copy[r].content
       IN /\ WriteGitHubStaging(f, x)
          /\ pending' = IF x.clean /\ f \in Reviewable THEN pending \cup {f} ELSE pending
    /\ copy' = [copy EXCEPT ![r] = NoHold]
    /\ UNCHANGED <<forgejo, hooks, worktree, baseline, git, github, run, drifting, nightly,
                   crashes, asking, phase, status, at, names, calm>>

\* Mutation: a file that cannot be sanitized is copied as it is.
FillRaw(r) ==
    /\ phase[r] = "files" /\ copy[r] # NoHold
    /\ copy[r].content.clean /\ copy[r].file \in Flaky
    /\ staging' = [staging EXCEPT ![copy[r].file] = [copy[r].content EXCEPT !.clean = FALSE]]
    /\ copy' = [copy EXCEPT ![r] = NoHold]
    /\ UNCHANGED <<forgejo, hooks, worktree, store, git, github, run, drifting, nightly,
                   crashes, asking, phase, status, at, names, calm>>

\* SanitizeFile returns an error: the file is left out of the migration.
FillFails(r) ==
    /\ phase[r] = "files" /\ copy[r] # NoHold
    /\ copy[r].content.clean /\ copy[r].file \in Flaky
    /\ ~ calm
    /\ copy' = [copy EXCEPT ![r] = NoHold]
    /\ UNCHANGED <<vars, asking, phase, status, at, names, calm>>

\* Mutation: the loop ends although a file is still being written.
RemoveEarly(r) ==
    /\ phase[r] = "files" /\ names[r] = {}
    /\ staging' = [f \in Files |-> IF IsSkipPattern(f) /\ tree[at[r]][f] # 0
                                   THEN Absent ELSE staging[f]]
    /\ Goto(r, "add")
    /\ UNCHANGED <<forgejo, hooks, worktree, store, git, github, run, drifting, nightly,
                   crashes, asking, status, filling, calm>>

\* Files of HEAD that match a skip pattern are removed, keep paths included.
RemoveSkipped(r) ==
    /\ phase[r] = "files" /\ copy[r] = NoHold /\ names[r] = {}
    /\ RemoveFromGitHubStaging({f \in Files : IsSkipPattern(f) /\ tree[at[r]][f] # 0})
    /\ Goto(r, "add")
    /\ UNCHANGED <<forgejo, hooks, worktree, store, git, github, run, drifting, nightly,
                   crashes, asking, status, filling, calm>>

-------------------------------------------------------------------------------
(* PushAllStagingInitial, and the end of the run.                          *)

\* Open or create the repository, fetch, and add everything that is on disk;
\* a forced push does not fast-forward first.
AddAll(r) ==
    /\ phase[r] = "add"
    /\ tracked' = born
    /\ index' = staging
    /\ Goto(r, "commit")
    /\ UNCHANGED <<forgejo, hooks, worktree, store, staging, local, unpushed, github, run,
                   drifting, nightly, crashes, asking, status, filling, calm>>

CommitAll(r) ==
    /\ phase[r] = "commit"
    /\ index # Empty
    /\ unpushed' = index
    /\ local' = IF local \in {"unborn", "orphan"} THEN "orphan" ELSE "ahead"
    /\ Goto(r, "send")
    /\ UNCHANGED <<forgejo, hooks, worktree, store, staging, index, tracked, github, run,
                   drifting, nightly, crashes, asking, status, filling, calm>>

\* +refs/heads/main:refs/heads/main replaces whatever the mirror has.
ForcePush(r) ==
    /\ phase[r] = "send"
    /\ local \in {"orphan", "ahead"}
    /\ mirror' = unpushed
    /\ born' = TRUE
    /\ local' = "synced"
    /\ unpushed' = Empty
    /\ tracked' = TRUE
    /\ Goto(r, "baseline")
    /\ UNCHANGED <<forgejo, hooks, worktree, store, staging, index, run, drifting, nightly,
                   crashes, asking, status, filling, calm>>

\* Nothing to commit, nothing to push, or the push fails: the run ends as
\* complete all the same, but stores neither baseline nor status.
ForcePushFails(r) ==
    /\ \/ phase[r] = "commit" /\ index = Empty
       \/ phase[r] = "send"
    /\ Goto(r, "over")
    /\ at' = [at EXCEPT ![r] = 0]
    /\ UNCHANGED <<vars, asking, status, names, copy, calm>>

\* Mutation: the baseline is the head of the branch by now.
StoreHead(r) ==
    /\ phase[r] = "baseline"
    /\ baseline' = head
    /\ Goto(r, "complete")
    /\ UNCHANGED <<forgejo, hooks, worktree, pending, staging, git, github, run, drifting,
                   nightly, crashes, asking, status, filling, calm>>

StoreBaseline(r) ==
    /\ phase[r] = "baseline"
    /\ baseline' = at[r]
    /\ Goto(r, "complete")
    /\ UNCHANGED <<forgejo, hooks, worktree, pending, staging, git, github, run, drifting,
                   nightly, crashes, asking, status, filling, calm>>

CompleteMigration(r) ==
    /\ phase[r] = "complete"
    /\ status' = "complete"
    /\ Goto(r, "over")
    /\ at' = [at EXCEPT ![r] = 0]
    /\ UNCHANGED <<vars, asking, names, copy, calm>>

\* An early return with an error of the fetch or of the reset.
GiveUp(r) ==
    /\ phase[r] \in {"ensure", "reset"}
    /\ worktree' \in IF phase[r] = "ensure" THEN {worktree, tree[head]} ELSE {worktree}
    /\ Goto(r, "over")
    /\ at' = [at EXCEPT ![r] = 0]
    /\ UNCHANGED <<forgejo, hooks, store, staging, git, github, run, drifting, nightly,
                   crashes, asking, status, names, copy, calm>>

-------------------------------------------------------------------------------
(* Restarts, and what the syncs do meanwhile.                              *)

\* The runs of S are gone with their process; what they wrote stays.
Stop(S) ==
    /\ calm => \A r \in S : ~ (Refilling(r) /\ born)
    /\ phase' = [r \in Runs |-> IF r \in S THEN "over" ELSE phase[r]]
    /\ at' = [r \in Runs |-> IF r \in S THEN 0 ELSE at[r]]
    /\ names' = [r \in Runs |-> IF r \in S THEN {} ELSE names[r]]
    /\ copy' = [r \in Runs |-> IF r \in S THEN NoHold ELSE copy[r]]

Running(r) == phase[r] \notin {"none", "over"}

\* The daemon stops with its syncs and a bootstrap run, and starts again.
Restart ==
    /\ Crash
    /\ Stop({r \in Runs : Running(r) /\ kind[r] = "bootstrap"})
    /\ booted' = FALSE
    /\ UNCHANGED <<kind, row, status, calm>>

\* The process of a run that was started from the command line ends.
Kill(r) ==
    /\ crashes < MaxCrashes
    /\ crashes' = crashes + 1
    /\ Running(r) /\ kind[r] # "bootstrap"
    /\ Stop({r})
    /\ UNCHANGED <<forgejo, hooks, worktree, store, staging, git, github, run, drifting,
                   nightly, asking, status, calm>>

-------------------------------------------------------------------------------
(* Mode 3 in three steps: what happens between them is MirrorSync's subject. *)

\* A queued event, or drift that the reconciler sees, starts a sync: under the
\* lock, the worktree is refreshed and the diff computed.  In calm behaviours no
\* migration is filling or pushing the staging directory.
SyncDiff(c) ==
    /\ pc[c] = "idle"
    /\ calm => \A r \in Runs : ~ Busy(r) \/ phase[r] = "ensure"
    /\ \/ hooks > 0 /\ hooks' = hooks - 1
       \/ head # baseline /\ UNCHANGED hooks
    /\ worktree' = tree[head]
    /\ target' = [target EXCEPT ![c] = head]
    /\ todo' = [todo EXCEPT ![c] = ChangedFiles(baseline, head)]
    /\ pc' = [pc EXCEPT ![c] = "process"]
    /\ UNCHANGED <<forgejo, store, staging, git, github, held, changed, drifting, nightly,
                   crashes, migration>>

\* The files of the diff are staged, except those that fail; main is moved to
\* origin/main if that is known; the changed files, or all files on disk if none
\* changed, are added, committed and pushed, unless commit or push fails.
SyncPublish(c) ==
    /\ pc[c] = "process"
    /\ \E failed \in IF calm THEN {{}} ELSE {{}, Flaky}, landed \in BOOLEAN :
         LET files == {f \in todo[c] \ failed : ~ Skipped(f) /\ worktree[f] # 0}
             disk == [f \in Files |-> IF f \in files
                                     THEN [v |-> worktree[f], clean |-> ~ AsIs(f)]
                                     ELSE staging[f]]
             moved == born /\ local # "synced"
             next == [f \in Files |-> IF files = {} \/ f \in files THEN disk[f]
                                     ELSE IF moved THEN mirror[f] ELSE index[f]]
             main == IF moved THEN "synced" ELSE local
             ahead == IF main \in {"unborn", "orphan"} THEN "orphan" ELSE "ahead"
         IN /\ landed => next # Empty /\ (ahead = "orphan" => ~ born)
            /\ staging' = disk
            /\ pending' = pending \cup {f \in files \cap Reviewable : ~ AsIs(f)}
            /\ index' = next
            /\ IF landed
               THEN /\ mirror' = next /\ born' = TRUE /\ tracked' = TRUE
                    /\ local' = "synced" /\ unpushed' = Empty
                    /\ pc' = [pc EXCEPT ![c] = "record"]
                    /\ UNCHANGED target
               ELSE /\ UNCHANGED <<mirror, born>> /\ tracked' = born
                    /\ local' = IF next = Empty THEN main ELSE ahead
                    /\ unpushed' = IF next # Empty THEN next
                                   ELSE IF moved THEN Empty ELSE unpushed
                    /\ pc' = [pc EXCEPT ![c] = "idle"]
                    /\ target' = [target EXCEPT ![c] = 0]
    /\ todo' = [todo EXCEPT ![c] = {}]
    /\ UNCHANGED <<forgejo, hooks, worktree, baseline, held, changed, drifting,
                   nightly, crashes, migration>>

\* After a push that landed, the sync's commit becomes the baseline.
SyncRecord(c) ==
    /\ pc[c] = "record"
    /\ baseline' = target[c]
    /\ pc' = [pc EXCEPT ![c] = "idle"]
    /\ target' = [target EXCEPT ![c] = 0]
    /\ UNCHANGED <<forgejo, hooks, worktree, pending, staging, git, github, todo, held,
                   changed, drifting, nightly, crashes, migration>>

\* The reconciler refreshes the worktree and finds no drift.
NoDrift(c) ==
    /\ head = baseline
    /\ DriftCheck(c)
    /\ UNCHANGED migration

Mode3 ==
    \/ Commit /\ UNCHANGED migration
    \/ \E c \in Callers : NoDrift(c) \/ SyncDiff(c) \/ SyncPublish(c) \/ SyncRecord(c)

Migrate(r) ==
    \/ Bootstrap(r) \/ \E force \in BOOLEAN : Command(r, force)
    \/ \E answer \in {"confirmed", "rejected"} : React(r, answer)
    \/ Poll(r) \/ Expire(r) \/ GiveUp(r)
    \/ ListFiles(r) \/ Reset(r)
    \/ \E f \in Files : LeaveOut(r, f) \/ Take(r, f)
    \/ Fill(r) \/ FillFails(r) \/ RemoveSkipped(r)
    \/ AddAll(r) \/ CommitAll(r) \/ ForcePush(r) \/ ForcePushFails(r)
    \/ StoreBaseline(r) \/ CompleteMigration(r)

MigrationNext ==
    \/ Mode3
    \/ BootstrapPasses
    \/ \E r \in Runs : Migrate(r) \/ Kill(r)
    \/ Restart

MigrationSpec == MigrationInit /\ [][MigrationNext]_mvars

-------------------------------------------------------------------------------
(* Properties.                                                             *)

\* Every variable keeps its type; only a run that fills holds a file; a
\* waiting run has a row.
MigrationTypeOK ==
    /\ TypeOK
    /\ kind \in [Runs -> {"none", "bootstrap", "command"}]
    /\ phase \in [Runs -> {"none", "waiting", "ensure", "reset", "files",
                           "add", "commit", "send", "baseline", "complete", "over"}]
    /\ row \in [Runs -> {"none", "pending", "confirmed", "rejected", "expired"}]
    /\ status \in {"pending", "in_progress", "complete"}
    /\ booted \in BOOLEAN
    /\ at \in [Runs -> 0..MaxCommits]
    /\ names \in [Runs -> SUBSET Files]
    /\ copy \in [Runs -> [file : Files \cup {None}, content : Content]]
    /\ calm \in BOOLEAN
    /\ \A r \in Runs : /\ copy[r] # NoHold => phase[r] = "files"
                       /\ phase[r] = "waiting" => row[r] # "none"

\* Every migration needs the operator (manager.go:58-60, 117-118): a run touches
\* directories and mirror only while its own row is confirmed, however many
\* requests, late reactions and deadlines there are, and whoever started it.
\* The documentation says less: a confirmation only for --force on a target that
\* exists (docs/architecture.md:198), and a bootstrap that runs automatically
\* (docs/architecture.md:215). The code asks in both cases.
Authorized == \A r \in Runs : Busy(r) => row[r] = "confirmed"

\* The first answer counts: it is changed only by the deadline of the waiting
\* run, which then gives up (SetStatusByMessageID, ConfirmMigration).
AnswerIsFinal ==
    [][\A r \in Runs :
         row[r] \in {"confirmed", "rejected", "expired"} /\ row'[r] # row[r]
           => row'[r] = "expired" /\ phase[r] = "waiting" /\ phase'[r] = "over"]_mvars

\* Files that the mirror is owed of commit k: no later commit has deleted them, and
\* they match no skip pattern, neither a migration's, which takes them from
\* keep_paths too, nor a sync's.
Owed(k) == {f \in Files \ (SkipFiles \cup MigrationSkip) : \A j \in k..head : tree[j][f] # 0}

\* A calm migration leaves on the mirror exactly the commit it announces: each
\* file of it, sanitized, nothing of an earlier run or of another file, and no
\* file of a skip pattern as it reads them, also when a sync, which reads them
\* otherwise, had mirrored it ("we must never push them", manager.go:293).
CompleteIsExact ==
    \A r \in Runs : calm /\ phase[r] \in {"baseline", "complete"} =>
        /\ \A f \in Owed(at[r]) : /\ mirror[f].v >= tree[at[r]][f]
                                  /\ f \notin KeepPaths => mirror[f].clean
        /\ \A f \in Files : tree[at[r]][f] = 0 \/ IsSkipPattern(f) => mirror[f].v = 0

\* Through migrations, syncs, failures and restarts of calm behaviours, the
\* recorded baseline is on the mirror (manager.go:310: only a push that landed
\* is recorded).
MigratedBaseline ==
    calm /\ baseline # 0 => \A f \in Owed(baseline) : mirror[f].v >= tree[baseline][f]

\* GitHub receives exactly one clean commit (push.go:50): what a calm run pushes
\* has no parent, whatever commits earlier runs and syncs left behind.
OneCleanCommit == \A r \in Runs : calm /\ phase[r] = "send" => local = "orphan"

===============================================================================
