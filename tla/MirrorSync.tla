------------------------------ MODULE MirrorSync ------------------------------
(***************************************************************************)
(* The mirror of one repository: Forgejo, the Forgejo worktree, the GitHub *)
(* staging directory with its git repository, the GitHub mirror, the       *)
(* recorded baseline, and the goroutines that run Mode 3 sync.             *)
(*                                                                         *)
(* A sync (sync.Runner.Sync) is started by a push webhook, by the merge of *)
(* a sentinel PR, or by the drift reconciler.  Only its first part, which  *)
(* refreshes the worktree and computes the diff, runs under the worktree   *)
(* lock.  Reading the files, writing the staging directory, the four git   *)
(* operations of the push and the update of the baseline run without any   *)
(* lock, in one goroutine per trigger, over shared directories.            *)
(*                                                                         *)
(* A file's content is a version (the number of the commit that wrote it)  *)
(* and whether it has been through the sanitization pipeline.              *)
(***************************************************************************)
EXTENDS Naturals, FiniteSets

CONSTANTS Files,       \* the files of the repository
          KeepPaths,   \* keep_paths: mirrored as they are
          SkipFiles,   \* files that match a skip pattern
          Reviewable,  \* files in which the pipeline finds medium or low findings
          Flaky,       \* files whose sanitization may fail
          Deletable,   \* files that a commit may delete
          Callers,     \* slots for concurrently running syncs
          None,        \* no file, no caller
          Starts,      \* how the mirror came to be: subset of StartModes
          Drafted,     \* files that nightly tasks edit; without any, Mode 1 does not run
          MaxCommits,  \* bound on the commits of the default branch
          MaxHooks,    \* bound on the undelivered push and merge events
          MaxCrashes   \* bound on the restarts of the daemon

StartModes == {"fresh", "migrated", "seeded"}

ASSUME ConstantsOK ==
    /\ KeepPaths \subseteq Files
    /\ SkipFiles \subseteq Files
    /\ Reviewable \subseteq Files
    /\ Flaky \subseteq Files
    /\ Deletable \subseteq Files
    /\ None \notin Files \cup Callers
    /\ Starts \subseteq StartModes
    /\ Drafted \subseteq Files
    /\ MaxCommits \in Nat \ {0}
    /\ MaxHooks \in Nat
    /\ MaxCrashes \in Nat

VARIABLES
    head,      \* Forgejo: number of commits on the default branch
    tree,      \* Forgejo: tree[k][f] is the version of f in commit k, 0 if absent
    hooks,     \* events queued for the webhook workers
    worktree,  \* the Forgejo worktree: version of each file on disk
    baseline,  \* repo_sync_state.forgejo_sha: a commit, 0 when there is no row
    pending,   \* files with a pending resolution
    staging,   \* the GitHub staging directory: content of each file
    index,     \* the index of the staging repository
    local,     \* where its refs/heads/main stands, relative to the mirror's
    unpushed,  \* tree of its HEAD commit while that commit is not on the mirror
    tracked,   \* refs/remotes/origin/main is known
    mirror,    \* GitHub: content of each file on main
    born,      \* GitHub: main exists
    pc,        \* pc[c]: step of the sync that caller c runs
    target,    \* target[c]: currentSHA of that sync
    todo,      \* todo[c]: diffs not yet processed
    held,      \* held[c]: file read but not yet written to staging
    changed,   \* changed[c]: changedFiles, the files written to staging
    drifting,  \* caller that runs for the reconciler and holds its mutex
    nightly,   \* commit that a running nightly session has analysed, 0 if none
    crashes    \* restarts so far

forgejo == <<head, tree>>
store == <<baseline, pending>>
git == <<index, local, unpushed, tracked>>
github == <<mirror, born>>
run == <<pc, target, todo, held, changed>>
vars == <<head, tree, hooks, worktree, baseline, pending, staging, index, local,
          unpushed, tracked, mirror, born, pc, target, todo, held, changed,
          drifting, nightly, crashes>>

-------------------------------------------------------------------------------
(* Files and their content.                                                *)

\* The version of a file that a nightly task has edited on its own branch: no
\* commit of the default branch has it.
Draft == MaxCommits + 1

Commits == 1..MaxCommits
Version == 0..MaxCommits
Content == [v : 0..Draft, clean : BOOLEAN]

Absent == [v |-> 0, clean |-> TRUE]
Empty == [f \in Files |-> Absent]
NoHold == [file |-> None, content |-> Absent]

Skipped(f) == f \in SkipFiles \ KeepPaths

\* A file copied without sanitization: a keep path, or one with pending findings.
AsIs(f) == f \in KeepPaths \/ f \in pending

\* ChangedFiles(dir, lastSHA): the files of commit k that differ from commit
\* last; deleted files have no entry in the tree of k and are left out.
ChangedFiles(last, k) ==
    {f \in Files : /\ tree[k][f] # 0
                   /\ last # 0 => tree[k][f] # tree[last][f]}

\* What a complete publication of commit k looks like.
Mirrored(t) ==
    [f \in Files |-> IF t[f] = 0 \/ Skipped(f)
                     THEN Absent
                     ELSE [v |-> t[f], clean |-> f \notin KeepPaths]]

-------------------------------------------------------------------------------
(* Initial states: after Mode 4 migration, after init-sync-state on a      *)
(* mirror that already has content, or before anything was mirrored.       *)

InitForgejo ==
    /\ head = 1
    /\ \E t \in [Files -> 0..1] :
         /\ \E f \in Files : t[f] = 1 /\ ~ Skipped(f)
         /\ tree = [k \in Commits |-> IF k = 1 THEN t ELSE [f \in Files |-> 0]]
    /\ worktree = tree[1]

InitMirror(mode) ==
    /\ baseline = IF mode = "fresh" THEN 0 ELSE 1
    /\ born = (mode # "fresh")
    /\ tracked = (mode = "migrated")
    /\ local = IF mode = "migrated" THEN "synced" ELSE "unborn"
    /\ mirror = IF mode = "fresh" THEN Empty ELSE Mirrored(tree[1])
    /\ staging = IF mode = "migrated" THEN Mirrored(tree[1]) ELSE Empty
    /\ index = staging
    /\ unpushed = Empty
    /\ pending = IF mode = "migrated"
                 THEN {f \in Reviewable \ (KeepPaths \cup SkipFiles) : tree[1][f] # 0}
                 ELSE {}

Init ==
    /\ InitForgejo
    /\ \E mode \in Starts : InitMirror(mode)
    /\ hooks = 0
    /\ pc = [c \in Callers |-> "idle"]
    /\ target = [c \in Callers |-> 0]
    /\ todo = [c \in Callers |-> {}]
    /\ held = [c \in Callers |-> NoHold]
    /\ changed = [c \in Callers |-> {}]
    /\ drifting = None
    /\ nightly = 0
    /\ crashes = 0

-------------------------------------------------------------------------------
(* Forgejo.                                                                *)

\* A commit lands on the default branch.  Its webhook may be lost; a push is
\* one event, the merge of a sentinel PR is two (the push and the closed PR).
Commit ==
    /\ head < MaxCommits
    /\ head' = head + 1
    /\ \E f \in Files, v \in {0, head + 1} :
         /\ v = 0 => f \in Deletable
         /\ tree' = [tree EXCEPT ![head + 1] = [tree[head] EXCEPT ![f] = v]]
    /\ \E n \in 0..2 : hooks + n <= MaxHooks /\ hooks' = hooks + n
    /\ UNCHANGED <<worktree, store, staging, git, github, run, drifting, nightly, crashes>>

-------------------------------------------------------------------------------
(* How a sync starts.                                                      *)

\* Mutation: a worker calls Sync although no event is queued.
TriggerUnasked(c) ==
    /\ pc[c] = "idle"
    /\ hooks' = hooks - 1
    /\ pc' = [pc EXCEPT ![c] = "ensure"]
    /\ UNCHANGED <<forgejo, worktree, store, staging, git, github, target, todo, held,
                   changed, drifting, nightly, crashes>>

\* A webhook worker, or the goroutine of a merged PR, calls Sync.
Trigger(c) ==
    /\ pc[c] = "idle"
    /\ hooks > 0
    /\ hooks' = hooks - 1
    /\ pc' = [pc EXCEPT ![c] = "ensure"]
    /\ UNCHANGED <<forgejo, worktree, store, staging, git, github, target, todo, held,
                   changed, drifting, nightly, crashes>>

\* Mutation: no recorded baseline counts as no drift.
DriftCheckNeedsBaseline(c) ==
    /\ pc[c] = "idle"
    /\ drifting = None
    /\ worktree' = tree[head]
    /\ IF baseline # 0 /\ head # baseline
       THEN pc' = [pc EXCEPT ![c] = "ensure"] /\ drifting' = c
       ELSE UNCHANGED <<pc, drifting>>
    /\ UNCHANGED <<forgejo, hooks, store, staging, git, github, target, todo, held,
                   changed, nightly, crashes>>

\* Reconciler.RunOnce: under its own mutex, refresh the worktree and compare
\* its HEAD with the baseline; when they differ, call Sync.
DriftCheck(c) ==
    /\ pc[c] = "idle"
    /\ drifting = None
    /\ worktree' = tree[head]
    /\ IF head # baseline
       THEN /\ pc' = [pc EXCEPT ![c] = "ensure"]
            /\ drifting' = c
       ELSE UNCHANGED <<pc, drifting>>
    /\ UNCHANGED <<forgejo, hooks, store, staging, git, github, target, todo, held,
                   changed, nightly, crashes>>

-------------------------------------------------------------------------------
(* Sync, up to the end of the locked part.                                 *)

\* The sync of c returns; a reconciler pass releases its mutex.
Return(c) ==
    /\ pc' = [pc EXCEPT ![c] = "idle"]
    /\ target' = [target EXCEPT ![c] = 0]
    /\ todo' = [todo EXCEPT ![c] = {}]
    /\ held' = [held EXCEPT ![c] = NoHold]
    /\ changed' = [changed EXCEPT ![c] = {}]
    /\ drifting' = IF drifting = c THEN None ELSE drifting

\* Fetch and hard-reset the worktree, read the baseline, compute the diff.
Ensure(c) ==
    /\ pc[c] = "ensure"
    /\ worktree' = tree[head]
    /\ target' = [target EXCEPT ![c] = head]
    /\ todo' = [todo EXCEPT ![c] = ChangedFiles(baseline, head)]
    /\ pc' = [pc EXCEPT ![c] = "process"]
    /\ UNCHANGED <<forgejo, hooks, store, staging, git, github, held, changed, drifting,
                   nightly, crashes>>

\* The run record, the fetch, the baseline query or the diff fails.
EnsureFails(c) ==
    /\ pc[c] = "ensure"
    /\ worktree' \in {worktree, tree[head]}
    /\ Return(c)
    /\ UNCHANGED <<forgejo, hooks, store, staging, git, github, nightly, crashes>>

-------------------------------------------------------------------------------
(* Sync, file by file, without the worktree lock.                          *)

\* The file matches a skip pattern, or is no longer in the worktree.
PassOver(c, f) ==
    /\ pc[c] = "process" /\ held[c] = NoHold
    /\ f \in todo[c]
    /\ Skipped(f) \/ worktree[f] = 0
    /\ todo' = [todo EXCEPT ![c] = @ \ {f}]
    /\ UNCHANGED <<forgejo, hooks, worktree, store, staging, git, github, pc, target, held,
                   changed, drifting, nightly, crashes>>

\* Mutation: the skip patterns are not consulted before the file is read.
ReadSkipped(c, f) ==
    /\ pc[c] = "process" /\ held[c] = NoHold
    /\ f \in todo[c] /\ worktree[f] # 0
    /\ todo' = [todo EXCEPT ![c] = @ \ {f}]
    /\ held' = [held EXCEPT ![c] =
                  [file |-> f, content |-> [v |-> worktree[f], clean |-> ~ AsIs(f)]]]
    /\ UNCHANGED <<forgejo, hooks, worktree, store, staging, git, github, pc, target,
                   changed, drifting, nightly, crashes>>

\* The file is read from the worktree, whatever the worktree holds by now.
Read(c, f) ==
    /\ pc[c] = "process" /\ held[c] = NoHold
    /\ f \in todo[c]
    /\ ~ Skipped(f) /\ worktree[f] # 0
    /\ todo' = [todo EXCEPT ![c] = @ \ {f}]
    /\ held' = [held EXCEPT ![c] =
                  [file |-> f, content |-> [v |-> worktree[f], clean |-> ~ AsIs(f)]]]
    /\ UNCHANGED <<forgejo, hooks, worktree, store, staging, git, github, pc, target,
                   changed, drifting, nightly, crashes>>

\* The content, sanitized unless it is copied as it is, reaches the staging
\* directory; a medium or low finding leaves a pending resolution.
Stage(c) ==
    /\ pc[c] = "process" /\ held[c] # NoHold
    /\ LET f == held[c].file
           x == held[c].content
       IN /\ staging' = [staging EXCEPT ![f] = x]
          /\ changed' = [changed EXCEPT ![c] = @ \cup {f}]
          /\ pending' = IF x.clean /\ f \in Reviewable THEN pending \cup {f} ELSE pending
    /\ held' = [held EXCEPT ![c] = NoHold]
    /\ UNCHANGED <<forgejo, hooks, worktree, baseline, git, github, pc, target, todo,
                   drifting, nightly, crashes>>

\* Mutation: a file that cannot be sanitized is staged as it is.
SanitizeFailsOpen(c) ==
    /\ pc[c] = "process" /\ held[c] # NoHold
    /\ held[c].content.clean /\ held[c].file \in Flaky
    /\ staging' = [staging EXCEPT ![held[c].file] = [held[c].content EXCEPT !.clean = FALSE]]
    /\ changed' = [changed EXCEPT ![c] = @ \cup {held[c].file}]
    /\ held' = [held EXCEPT ![c] = NoHold]
    /\ UNCHANGED <<forgejo, hooks, worktree, store, git, github, pc, target, todo,
                   drifting, nightly, crashes>>

\* SanitizeFile returns an error: the file is left out of this sync.
SanitizeFails(c) ==
    /\ pc[c] = "process" /\ held[c] # NoHold
    /\ held[c].content.clean /\ held[c].file \in Flaky
    /\ held' = [held EXCEPT ![c] = NoHold]
    /\ UNCHANGED <<forgejo, hooks, worktree, store, staging, git, github, pc, target, todo,
                   changed, drifting, nightly, crashes>>

-------------------------------------------------------------------------------
(* PushStagingFiles: four git operations on the shared staging repository. *)

\* Mutation: the reset to origin/main is hard and also replaces the files on disk.
FastForwardHard(c) ==
    /\ pc[c] = "process" /\ held[c] = NoHold /\ todo[c] = {}
    /\ tracked' \in {tracked, born}
    /\ tracked => tracked'
    /\ IF tracked' /\ local # "synced"
       THEN index' = mirror /\ staging' = mirror /\ local' = "synced" /\ unpushed' = Empty
       ELSE UNCHANGED <<index, staging, local, unpushed>>
    /\ pc' = [pc EXCEPT ![c] = "add"]
    /\ UNCHANGED <<forgejo, hooks, worktree, store, github, target, todo, held,
                   changed, drifting, nightly, crashes>>

\* Fetch origin, whose failure is ignored, then fast-forward: unless main is
\* already where origin/main is, main and the index move there and the files
\* on disk stay.
FastForward(c) ==
    /\ pc[c] = "process" /\ held[c] = NoHold /\ todo[c] = {}
    /\ tracked' \in {tracked, born}
    /\ tracked => tracked'
    /\ IF tracked' /\ local # "synced"
       THEN index' = mirror /\ local' = "synced" /\ unpushed' = Empty
       ELSE UNCHANGED <<index, local, unpushed>>
    /\ pc' = [pc EXCEPT ![c] = "add"]
    /\ UNCHANGED <<forgejo, hooks, worktree, store, staging, github, target, todo, held,
                   changed, drifting, nightly, crashes>>

\* Mutation: the index is rebuilt from the changed files alone.
AddOnly(c) ==
    /\ pc[c] = "add"
    /\ index' = IF changed[c] = {}
                THEN staging
                ELSE [f \in Files |-> IF f \in changed[c] THEN staging[f] ELSE Absent]
    /\ pc' = [pc EXCEPT ![c] = "commit"]
    /\ UNCHANGED <<forgejo, hooks, worktree, store, staging, local, unpushed, tracked, github,
                   target, todo, held, changed, drifting, nightly, crashes>>

\* Add each changed file.  An empty changedFiles is nil, and nil means AddGlob("."):
\* the index becomes what is on disk.
Add(c) ==
    /\ pc[c] = "add"
    /\ index' = IF changed[c] = {}
                THEN staging
                ELSE [f \in Files |-> IF f \in changed[c] THEN staging[f] ELSE index[f]]
    /\ pc' = [pc EXCEPT ![c] = "commit"]
    /\ UNCHANGED <<forgejo, hooks, worktree, store, staging, local, unpushed, tracked, github,
                   target, todo, held, changed, drifting, nightly, crashes>>

\* Commit the index.  On an unborn main the commit has no parent.
CommitStaging(c) ==
    /\ pc[c] = "commit"
    /\ index # Empty
    /\ unpushed' = index
    /\ local' = IF local \in {"unborn", "orphan"} THEN "orphan" ELSE "ahead"
    /\ pc' = [pc EXCEPT ![c] = "send"]
    /\ UNCHANGED <<forgejo, hooks, worktree, store, staging, index, tracked, github, target,
                   todo, held, changed, drifting, nightly, crashes>>

\* Push main, wherever it stands by now.  "Already up to date" counts as
\* success; an orphan is accepted only while the mirror has no main.
Send(c) ==
    /\ pc[c] = "send"
    /\ local = "orphan" => ~ born
    /\ IF local = "synced"
       THEN UNCHANGED <<mirror, born, local, unpushed, tracked>>
       ELSE /\ mirror' = unpushed
            /\ born' = TRUE
            /\ local' = "synced"
            /\ unpushed' = Empty
            /\ tracked' = TRUE
    /\ pc' = [pc EXCEPT ![c] = "record"]
    /\ UNCHANGED <<forgejo, hooks, worktree, store, staging, index, target, todo, held,
                   changed, drifting, nightly, crashes>>

\* Nothing to commit, or the push fails or is rejected: the baseline stays.
PushFails(c) ==
    /\ \/ pc[c] = "commit" /\ index = Empty
       \/ pc[c] = "send"
    /\ Return(c)
    /\ UNCHANGED <<forgejo, hooks, worktree, store, staging, git, github, nightly, crashes>>

\* Mutation: the branch is read again when the baseline is stored.
RecordHead(c) ==
    /\ pc[c] = "record"
    /\ baseline' = head
    /\ Return(c)
    /\ UNCHANGED <<forgejo, hooks, worktree, pending, staging, git, github, nightly, crashes>>

\* After a push that landed, the sync's commit becomes the baseline.
Record(c) ==
    /\ pc[c] = "record"
    /\ baseline' = target[c]
    /\ Return(c)
    /\ UNCHANGED <<forgejo, hooks, worktree, pending, staging, git, github, nightly, crashes>>

\* The error of SetRepoSyncSHA is ignored (a cancelled context at shutdown).
RecordFails(c) ==
    /\ pc[c] = "record"
    /\ Return(c)
    /\ UNCHANGED <<forgejo, hooks, worktree, store, staging, git, github, nightly, crashes>>

-------------------------------------------------------------------------------
(* Mode 1, as far as the mirror sees it.                                   *)

\* A session refreshes the worktree.  It goes on when preflight lets it and there
\* is something to analyse: changes since the baseline, or all files (full scan).
NightlyStart ==
    /\ Drafted # {}
    /\ nightly = 0
    /\ worktree' = tree[head]
    /\ nightly' \in {0, head}
    /\ UNCHANGED <<forgejo, hooks, store, staging, git, github, run, drifting, crashes>>

\* The executor, under the worktree lock, edits a file on the task's branch in
\* the worktree; the worktree stays there until someone refreshes it.
NightlyExecute(f) ==
    /\ nightly # 0
    /\ f \in Drafted
    /\ worktree' = [worktree EXCEPT ![f] = Draft]
    /\ UNCHANGED <<forgejo, hooks, store, staging, git, github, run, drifting, nightly,
                   crashes>>

\* The session ends and stores the commit it analysed in repo_sync_state.
NightlyRecord ==
    /\ nightly # 0
    /\ baseline' = nightly
    /\ nightly' = 0
    /\ UNCHANGED <<forgejo, hooks, worktree, pending, staging, git, github, run, drifting,
                   crashes>>

\* The analysis fails, or the session is stopped, before it stores anything.
NightlyEnds ==
    /\ nightly # 0
    /\ nightly' = 0
    /\ UNCHANGED <<forgejo, hooks, worktree, store, staging, git, github, run, drifting,
                   crashes>>

-------------------------------------------------------------------------------
\* The daemon stops at any point and restarts: goroutines and queued events are
\* gone; directories, refs and the database are as they were.
Crash ==
    /\ crashes < MaxCrashes
    /\ crashes' = crashes + 1
    /\ hooks' = 0
    /\ pc' = [c \in Callers |-> "idle"]
    /\ target' = [c \in Callers |-> 0]
    /\ todo' = [c \in Callers |-> {}]
    /\ held' = [c \in Callers |-> NoHold]
    /\ changed' = [c \in Callers |-> {}]
    /\ drifting' = None
    /\ nightly' = 0
    /\ UNCHANGED <<forgejo, worktree, store, staging, git, github>>

Sync(c) ==
    \/ Ensure(c) \/ EnsureFails(c)
    \/ \E f \in Files : PassOver(c, f) \/ Read(c, f)
    \/ Stage(c) \/ SanitizeFails(c)
    \/ FastForward(c) \/ Add(c) \/ CommitStaging(c) \/ Send(c) \/ PushFails(c)
    \/ Record(c) \/ RecordFails(c)

Nightly ==
    NightlyStart \/ NightlyRecord \/ NightlyEnds \/ \E f \in Files : NightlyExecute(f)

Next ==
    \/ Commit
    \/ \E c \in Callers : Trigger(c) \/ DriftCheck(c) \/ Sync(c)
    \/ Nightly
    \/ Crash

Spec == Init /\ [][Next]_vars

\* The reconciler ticks forever and goroutines run, so a check and every step of
\* a started sync eventually happen.  A request that is tried again and again is
\* assumed to succeed at some time: the fetches, the push, the store.
Fairness ==
    \A c \in Callers :
        /\ WF_vars(DriftCheck(c))
        /\ WF_vars(Sync(c))
        /\ SF_vars(Ensure(c))
        /\ SF_vars(Send(c))
        /\ SF_vars(Record(c))

FairSpec == Spec /\ Fairness

-------------------------------------------------------------------------------
(* Properties.                                                             *)

\* Every variable keeps its type; commits that do not exist yet have no files.
TypeOK ==
    /\ head \in Commits
    /\ tree \in [Commits -> [Files -> Version]]
    /\ hooks \in 0..MaxHooks
    /\ worktree \in [Files -> 0..Draft]
    /\ baseline \in 0..MaxCommits
    /\ pending \subseteq Files
    /\ staging \in [Files -> Content]
    /\ index \in [Files -> Content]
    /\ local \in {"unborn", "orphan", "ahead", "synced"}
    /\ unpushed \in [Files -> Content]
    /\ tracked \in BOOLEAN
    /\ mirror \in [Files -> Content]
    /\ born \in BOOLEAN
    /\ pc \in [Callers -> {"idle", "ensure", "process", "add", "commit", "send", "record"}]
    /\ target \in [Callers -> 0..MaxCommits]
    /\ todo \in [Callers -> SUBSET Files]
    /\ held \in [Callers -> [file : Files \cup {None}, content : Content]]
    /\ changed \in [Callers -> SUBSET Files]
    /\ drifting \in Callers \cup {None}
    /\ nightly \in 0..MaxCommits
    /\ crashes \in 0..MaxCrashes

\* The mirror has every file of commit k that is to be mirrored, in k's version
\* or a later one.
Covers(k) ==
    \A f \in Files : tree[k][f] # 0 /\ ~ Skipped(f) => mirror[f].v >= tree[k][f]

\* The baseline is only advanced when the push landed (runner.go, the guard of
\* SetRepoSyncSHA): a recorded commit is on the mirror.
BaselineMirrored == baseline # 0 => Covers(baseline)

\* Refinement: one sync at a time, with failures, lost and duplicated events
\* and restarts, gives what MirrorContract promises: versions of the branch
\* only, no file replaced by an older version, no baseline ahead of the mirror.
Contract == INSTANCE MirrorContract
              WITH published <- [f \in Files |-> mirror[f].v],
                   Hidden <- {f \in Files : Skipped(f)}

ImplementsContract == Contract!Spec

\* Drift is repaired: when commits cease, the recorded baseline becomes the head
\* and the mirror covers it (RunOnce and the retry of Sync).  A branch left
\* without a file to publish is excepted: its commit fails as empty.
Converges ==
    <>[](\/ baseline = head /\ Covers(head)
         \/ \A f \in Files : tree[head][f] # 0 => Skipped(f))

\* Outside keep_paths, only what went through the pipeline reaches the mirror,
\* however syncs, nightly sessions, failures and restarts interleave.  It is
\* stated for files that never have pending findings.
SanitizedOnly ==
    \A f \in Files \ (KeepPaths \cup Reviewable) : mirror[f].clean

\* The same for every file: reconcile.go says that drift-triggered syncs go
\* through the pipeline and that nothing is pushed unchecked.
SanitizedAlways ==
    \A f \in Files \ KeepPaths : mirror[f].clean

\* A file that matches a skip pattern is never published, staged or committed.
SkipNeverMirrored ==
    \A f \in Files : Skipped(f) =>
        mirror[f].v = 0 /\ staging[f].v = 0 /\ unpushed[f].v = 0

\* A push never removes from the mirror a file that the default branch still
\* has (the reason runner.go gives for passing explicit file names).
PushPreservesFiles ==
    [][\A f \in Files : tree[head][f] # 0 /\ mirror[f].v # 0 => mirror'[f].v # 0]_vars

===============================================================================
