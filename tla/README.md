# TLA+ models of sentinel

Sentinel watches Forgejo repositories, keeps a sanitized mirror of each on
GitHub, and runs nightly analysis whose results become pull requests that an
operator resolves in Discord. This directory holds TLA+ modules of its parts,
TLC configurations that check them on small instances, and TLAPS proofs.
`PROJECT.json` lists components, runs, mutants, hazards, findings, theorems,
and the source lines that each definition models.

## Inventory

The state lives in Forgejo, GitHub and Discord, in SQLite (one connection,
`store/db.go`), and in two directories per repository: the *Forgejo worktree*
(a clone) and the *GitHub staging directory* (sanitized files with a git
repository of its own). The code that changes it runs in webhook workers, the
cron job, the reconciler ticker, Discord reaction handlers and goroutines
started by any of them.

| Component | State | Operations | What is hard | What makes it correct |
|---|---|---|---|---|
| Mode 3 sync (`internal/sync`) | changed files of a run; staging directory; baseline | `Sync`: lock, refresh, diff, unlock; per file read, sanitize, stage; push; store the baseline | only the refresh and the diff are under the worktree lock; one goroutine per trigger; errors per file | the baseline is on the mirror; nothing unsanitized or skipped is mirrored; no file is lost by a push; drift is repaired |
| Worktrees (`internal/worktree`) | clone, staging directory, index, `main`, `origin/main` | refresh, read, stage, reset, remove, resolve a tag, push | push is four git operations on a shared repository, failures leave local commits | versions only move forward along worktree, staging, index, commit, mirror |
| Reconciler (`internal/reconcile`) | a mutex | compare HEAD with the baseline, call `Sync` | lost webhooks, restarts | eventually the baseline is HEAD |
| Migration (`internal/migration`) | staging directory, migration status, confirmation row | full run with force push; bootstrap at startup; confirmation poll | runs beside webhooks; expiry against reaction | the mirror is the sanitized HEAD when the status says so; a confirmation is decided once |
| Nightly (`internal/pipeline`) | session, task rows, cancel function, baseline | preflight, analyse, plan, execute, open PRs, Stop | shares worktree and baseline with sync; Stop against later repositories | a task ends in a final status; Stop starts nothing new |
| Webhooks (`internal/webhook`) | bounded channel | accept or refuse, dispatch, close | full queue, shutdown order | an accepted event is handled, also at shutdown |
| PR lifecycle (`internal/prnotify`, `main.go`) | `sentinel_prs`, task status, Forgejo PR, message | open, approve, close, Forgejo event, housekeeping | three actors resolve one PR; rows appear after the PR | the row's final status agrees with Forgejo |
| Findings (`internal/discord`, `store/findings.go`, `worktree/token_index.go`) | resolution rows, tags in staged files | approve, reject, re-analyse, custom token | index arithmetic after earlier resolutions; concurrent reactions | the operator's value replaces the finding's own tag, once |
| Sanitization (`internal/sanitize`) | none | three layers, zones, staging construction | offsets after replacement, overlaps | outside the findings the content is unchanged |
| LLM and CLI (`internal/llm`, `internal/executor`) | two semaphores | partition into batches, run a task | lock order; batches at the size limit | every file in one batch; no deadlock |
| Documentation (`internal/docs`) | `doc_state` | generate, mark stale | failure after the branch was written | current means generated |
| Clients, configuration, charts | none | HTTP, parsing, deployment | | not modelled, pure input and output |

How they meet: a push event goes through the queue to `HandlePushEvent`, which
calls `Sync` (default branch) or opens the PR of a task (sentinel branch). A
closed sentinel PR is resolved and its merge starts another `Sync` in a
goroutine. The reconciler calls `Sync` too. The nightly pipeline edits the
worktree that `Sync` reads and writes the baseline row that `Sync` diffs from.

## Modules

| Module | What it is |
|---|---|
| `MirrorContract` | what the mirror promises: a history of commits, what the mirror shows, the recorded baseline |
| `MirrorSync` | Mode 3 sync of one repository with its worktree, staging repository, mirror and baseline, the reconciler, and what nightly sessions do to them |
| `MCMirrorSync` | `MirrorSync` for TLC |
| `MirrorSync_proofs` | types; what may reach the mirror; pushes remove nothing |
| `MirrorContract_proofs` | one sync at a time implements `MirrorContract` |
| `WebhookQueue` | the bounded queue between the endpoint and the workers, and the shutdown order |
| `PRContract` | what the PRs of a branch and their rows promise: opened in turn, entered once, resolved once |
| `PRLifecycle` | extends `WebhookQueue`: who opens, resolves and records the PRs of one sentinel branch |
| `MCPRLifecycle` | `PRLifecycle` for TLC |
| `PRLifecycle_proofs` | types; rows agree with Forgejo; a final status is written once; no PR is without a row; the refinement of `PRContract` |
| `Migration` | extends `MirrorSync`: Mode 4 runs, their confirmation, bootstrap and command line, beside the syncs |
| `Migration_proofs` | types; the confirmation of a run; what may reach the mirror with migrations; what a calm run leaves there |
| `Batching` | how diffs are partitioned into prompts and answers become tasks |
| `Batching_proofs` | the batches are a partition that fits and wastes nothing; the tasks are the most urgent |
| `Nightly` | extends `Batching`: Mode 1 runs and sessions, Stop, worktree lock, semaphore of the agent, task rows |
| `MCNightly` | `Nightly` for TLC |
| `Nightly_proofs` | types; the lock and the agent; what a session has analysed, planned and handled; Stop |
| `Staging` | the algorithms on one file: protected zones, location of a reported value, staging construction, token index |
| `Findings` | extends `Staging`: one file through the three layers, the rows of its findings, reactions on them |
| `MCFindings` | `Findings` for TLC |
| `Findings_proofs` | types; what the staged file keeps and what it replaces; where a token index leads; decided rows stay |
| `Induction` | induction over sets of numbers, for the recursive functions of the other modules |

### MirrorSync

A file's content is the number of the commit that wrote it and whether it went
through the sanitization pipeline. State and code:

| Variable | In the code |
|---|---|
| `head`, `tree` | the default branch on Forgejo; the history is linear, without forced pushes |
| `hooks` | events accepted and not yet handled; a commit leaves 0 (lost), 1 or 2 (a merge: the push and the closed PR) |
| `worktree` | the files on disk in the Forgejo clone, shared by syncs and nightly tasks |
| `baseline` | `repo_sync_state.forgejo_sha` |
| `pending` | files with a row in `pending_resolutions` of status pending |
| `staging`, `index`, `local`, `unpushed`, `tracked` | the staging directory; its index; whether `main` is unborn, an orphan, ahead of the mirror or at it; the tree of the local commit that is not on the mirror; whether `origin/main` is known |
| `mirror`, `born` | `main` on GitHub and whether it exists; sentinel is its only writer, so a known `origin/main` is the mirror |
| `pc`, `target`, `todo`, `held`, `changed` | the locals of each running `Sync`: step, `currentSHA`, remaining diffs, the file between its read and its write, `changedFiles` |
| `drifting` | the mutex of the reconciler |
| `nightly` | `currentSHA` of a running nightly session |

Actions follow the code in its order: `Trigger` and `DriftCheck` start a sync;
`Ensure` is the locked part; `PassOver`, `Read`, `Stage` and `SanitizeFails` are
the file loop; `FastForward`, `Add`, `CommitStaging` and `Send` are the git
operations of `pushFiles`; `Record` stores the baseline. `EnsureFails`,
`PushFails` and `RecordFails` are the error returns. `Crash` stops the daemon
between any two of these.

Abstractions, and why they lose nothing that the properties see:

- The refresh, the baseline query and the diff are one step. They run under the
  worktree lock, and only the baseline can change meanwhile, which the model
  allows before or after the step.
- The loop takes the files in any order; the code's order is one of them.
- The adds of one push are one step: two syncs that add at the same moment
  through go-git may lose an entry of the index, which the model leaves out.
- `sync_runs` rows are written and never read by a sync. Discord messages,
  issues and log entries change nothing that a sync reads.
- A pending resolution stays pending: the message id by which a reaction would
  find it is never stored.
- Writes to the local disk do not fail.
- go-git is modelled from how `push.go` uses it: a commit of an empty index is
  an error, already-up-to-date counts as success, `AddGlob(".")` removes from the
  index what is not on disk, a mixed reset leaves the files alone.
- A nightly task is an edit of one file to a version that no commit has.

Three starts are modelled: after a migration, after `init-sync-state` on a mirror
that has content (the staging directory is then empty), and with nothing mirrored.

### WebhookQueue and PRLifecycle

The PRs of one sentinel branch with its task. Forgejo has one open PR per branch at a
time, so a branch has a second PR only after its first is resolved.

| Variable | In the code |
|---|---|
| `queue` | the channel of `queue.go` |
| `handling`, `gone` | the event in `dispatch` of each worker; workers that left the loop of `processor.go` |
| `refused` | events answered with 429, or sent once the server is down |
| `stage` | main's shutdown: the context of workers and cron jobs is cancelled; then the server is stopped and the queue closed |
| `forge`, `declined`, `wire`, `pushed` | Forgejo: the PRs, those of which it declined a merge, webhooks on their way, pushes to the branch |
| `row`, `announced` | `sentinel_prs.status`; PRs with a Discord message |
| `task` | `tasks.status` |
| `step`, `arg` | where a worker is in `HandlePushEvent` or `HandlePRWebhook`, the nightly runner in `executeTask` and `openPR`, and for which PR |
| `approving`, `closing` | the reaction handlers between reading the row, calling Forgejo and writing the row |
| `synced` | PRs whose merge has started the sync that `MirrorSync` models as `Trigger` |

`CreatePR`, `PostPRNotification`, `SavePR` and `SetPRNumber` are the last steps of both
openers. `ReadRow` and `MarkReported` are `HandleForgejoResolution`, whose read and
write a reaction may separate; `ReactApprove`, `MergePR`, `MarkMerged` and `ReactClose`,
`ClosePR`, `MarkClosed` are the reactions.

Abstractions and assumptions:

- Only events of the branch are in the queue. A push to the default branch (`MirrorSync`)
  occupies a worker as these events do; comments change no state here; a PR of a
  developer has no companion, since no code sets `RelatedPRNumber`.
- A store call fails when its context is done, and not otherwise. Calls to Forgejo and
  Discord are not bound to that context and may fail at any time; an opener cannot tell
  a Forgejo failure from a PR that exists.
- Forgejo (external): a merge of a PR that it cannot merge is answered with a status and
  no error; closing a closed PR is accepted, closing a merged one is an error.
- A second approval of one message is dropped while the first is handled, as in the code.
  The close handler has no such guard; a second one that overlaps the first repeats its
  calls to the same effect, and one per PR is modelled.
- Discussion threads, mentions, footers, labels and the pull of a local checkout change
  nothing that these handlers read.
- After the queue is closed the process may exit at any moment (`Exit`).

### Migration

The module shares every variable of `MirrorSync` and adds:

| Variable | In the code |
|---|---|
| `kind`, `phase` | who called `MigrateWithKind` for run `r`, and where it is: `waiting` is `ConfirmMigration`, the others are the steps after it |
| `row` | the run's row in `pending_confirmations` |
| `status`, `booted` | `migration_status.status`; `AutoBootstrap` has passed the repository since the daemon started |
| `at`, `names`, `copy` | `headSHA`, the `filenames` still to come, the file between its read and its write |
| `calm` | a choice of the behaviour, see below |

`Bootstrap`, `BootstrapPasses` and `Command` start a run; `React`, `Poll` and `Expire`
are the confirmation; `ListFiles` to `CompleteMigration` follow `MigrateWithKind` in its
order. `Restart` ends the daemon with its runs and syncs; `Kill` ends a run of the
command line, which is a process of its own.

- Nothing in the code keeps a sync out of a migration: both write one staging
  directory and push it. *Calm* behaviours are those where no sync runs from the
  listing of the files to the push, no file fails, and no run that refills the
  directory of an existing mirror is killed. What a migration promises of the mirror is
  stated for them; what it may never publish, and who may start it, for all. A
  behaviour that is not calm has fewer runs (`MaxDisturbed`), to bound the states.
- A sync has three steps here; its finer steps are `MirrorSync`'s subject.
- The deadline may come at any time, between a reaction and the next poll too.
- The Discord command `migrate` only announces; a migration starts from the command line.
- Migration and sync read the same skip patterns with matchers of their own: to a migration
  (`manager.go:429-447`) `dir/**` is all below `dir`, to a sync (`runner.go:266-279`) it is what lies in
  `dir` itself. With the shipped `testdata/**` a migration leaves `testdata/a/b.txt` out, and a sync in
  which it changes mirrors it. So there are two sets, `MigrationSkip` and `SkipFiles`, of which neither
  contains the other, and `SkipNeverMirrored` is stated of syncs alone (`MirrorSync`). Of migrations
  `CompleteIsExact` says that no file of `MigrationSkip` is on the mirror when a calm run announces its commit.
- `Owed` leaves out files of either set: before its push a migration removes its own
  from the directory, those of `keep_paths` that it has just copied included, and a sync
  of such a file puts it back. No source says which of the two lists wins.
- `Authorized` follows the code and its comments (`manager.go:58-60`, `117-118`): every migration asks. The
  documentation says otherwise: only for `--force` on a target that exists (`docs/architecture.md:198`),
  and bootstrap runs automatically (`docs/architecture.md:215`).

### Batching and Nightly

| Variable | In the code |
|---|---|
| `checkout` | HEAD of the Forgejo worktree: the default branch, or a task's branch |
| `baseline` | `repo_sync_state.forgejo_sha`, which may also be older than both |
| `writer`, `readers` | the worktree lock of a repository (`worktree/lock.go`) |
| `cli` | the holder of the semaphore of the agent (`executor/semaphore.go`) |
| `active`, `cancelled` | whose cancel function `r.cancelFn` is; sessions whose context is done |
| `step`, `at`, `left` | where a run over repositories is, in which one, and which are to come |
| `current`, `differing`, `batches`, `found`, `tasks`, `nth`, `rows` | the locals of a session and the status of its task rows |

`NextSession` to `Finish` follow `RunWithOpts` and `executeTask`. A diff is the position
of its file; `Partition`, `Deduplicate` and `Ranked` are the operators of `llm/batcher.go`
on them, checked against `Partitioned`, which says what a partition is without packing. The packing is
a recursive function of the number of diffs packed. The sort of the tasks is not stable, and
a map decides their order before it: `Ranked` and `OnePerKey` are the sets of possible results.

- New commits of developers are `MirrorSync`'s subject: HEAD is the tip or a task's branch.
- The checks before a session (too many open PRs, an active developer, a failing
  store call) are one choice, `Skip`: they change nothing. So are the outcomes of the
  model's calls.
- A planning loop is one step: it changes only the plans.
- A task row that is complete and one that failed are both `ended`; the PR is
  `PRLifecycle`'s subject.
- A sync takes the same lock for its refresh, and the agent for a file without it.

### Staging and Findings

A content is a sequence of cells; a cell knows which position of the original file it
is from, or of which finding's tag it is a part. So "replaced", "kept" and "its own
tag" can be said exactly, whatever the bytes are.

| Variable | In the code |
|---|---|
| `pass`, `zones`, `seen`, `found`, `filed` | a running `Pipeline.run` and the loop of `Sync` over its findings |
| `staged` | the file in the staging directory |
| `rows` | its rows in `pending_resolutions` with the token index of the finding |
| `stored` | whether a row has the id of its message |
| `step`, `settling`, `lock` | the reaction handlers, the approve handler's set of messages, the mutex of the file |

- `approved` is the operator's list that a pass reads, and `Protected` the zones of it and of the
  template expressions. `MergeSkipZones` sorts zones by their start with a sort that is not
  stable, so it is the set of possible results.
- The detectors are external: gitleaks reports any of `Secrets`, with the column in
  their line; a language model any of `Values` at any of `Lines`; layer 3 any of
  `Offsets`. Errors and timeouts of the models are empty reports.
- `stored = FALSE` is the daemon as it is: neither `Sync` nor a migration stores the
  message id, and every reaction ends in `LookUp`. `stored = TRUE` checks the handlers on
  the rows they are written for.
- An approval is called with index 0, as in the code, and so always fails; what the
  algorithm does with the finding's index is `ResolvesOwnUnlessMiscounted`, with the number that
  `CountResolvedPredecessors` returns. That number takes in rejected rows, whose tag no handler
  replaces, and rows of earlier syncs of the file (strays). The index then leads to the tag that is as many
  tags before the finding's own as there are strays, or to an error. `token_index.go:30-31` assumes that each counted
  tag is gone, and `docs/architecture.md:317` that a rejection replaces it. The property speaks of
  files without automatic redactions, whose tags are counted although they have no index, and without the text of
  a tag (`NoTagsInText`): in the others an index may lead to a tag of another finding anyway.
- A Go slice past the length reads the zero bytes of its capacity (`Slice`); a
  negative bound panics and ends the process (`StagePanics`).
- One sanitization and one raw copy of the file per behaviour. The tag has two cells,
  which is enough to be cut.

## Runs

| Run | Instance | What it shows |
|---|---|---|
| `mirror_serial` | one sync at a time, three files (a deletable keep path, one with findings, a skipped one), three commits, a queued event, a restart | types; a recorded baseline is on the mirror; skipped files never are; refinement of `MirrorContract`; drift is repaired |
| `mirror_overlap` | two syncs, nightly sessions that edit a file whose sanitization may fail, a second file | only sanitized content leaves; pushes remove nothing |
| `seeded_push` | violation | after `init-sync-state`, a sync that writes no file empties the mirror |
| `pending_raw` | violation | a changed file with a pending finding is mirrored as it is |
| `overlap_baseline` | violation | overlapping syncs record a baseline that is not on the mirror |
| `pr_lifecycle` | a nightly session, two workers, one PR, two pushes, a queue of one event, reactions, shutdown | types; the row agrees with Forgejo and is final once; no PR is left without a row; refinement of `PRContract`; a resolved PR's row follows; every merge starts a sync |
| `pr_declined_merge` | violation | a merge that Forgejo declines is recorded as merged |
| `queue_drain` | violation | workers return with accepted events still queued |
| `migration` | two runs (one when not calm), one sync, two files (one deletable whose sanitization may fail, one that only a migration skips), two commits, one crash | types; only a confirmed run acts; an answer is final; the mirror is exactly the commit that a calm run announces, without the files it skips, in one clean commit, and the baseline is on it; only sanitized files, calm or not |
| `nightly` | a run over two repositories, a command for one, a sync, three diffs, six task specs; two starts | types; no two runs work in a worktree under its lock, and one agent runs; batches partition the diffs; the most urgent tasks are taken; they have ended before the commit is recorded; a stopped session starts no agent; every run ends |
| `findings` | a file of five symbols on two lines with a template expression and values that occur twice; two reports of layer 2, one of layer 3; two handlers, two reactions | types; protected text is never lost; valid findings become their tags in place; an index leads to its own tag, or as many tags before it as rows are counted whose tag is not gone, after any decisions; decided rows stay; reactions end |
| `findings_overlap` | violation | of two findings that overlap, bytes of a found value are written again |

Bounds: two published files are enough for one to be published while the other lags; three
commits allow a change, a deletion and a return of a file, or a sync that starts
before and one that ends after another commit; two syncs are enough for every
pair of steps to interleave, and a third adds no new pair on the shared variables.
A queued event beside the reconciler is enough for a repeated sync and for two at
once. The proofs remove these bounds for the safety properties. Symmetry of the sync slots is used only where no
liveness is checked. `nightly` and `findings`
turn deadlock checking off: they end when their starts and reactions are used up.
That nobody waits for ever in them is `RunsEnd` and `ReactionsEnd`.

In `pr_lifecycle` two workers let two reports, or a push and a report, overlap, and the
nightly session and the reactions overlap with both. A queue of one event is full at
once, so that events are refused; two pushes let the branch be pushed again while its
first push is handled. With one PR the second opener always meets an open or resolved
PR; the proofs cover any number.

In `migration` two runs let a second request follow, overlap or replace a first; two
commits let HEAD move while a run fills; the skipped file is one that a sync mirrors, so that a
migration has something to take off the mirror. In `nightly` two goroutines of three kinds
are enough for each pair to meet at a lock, the semaphore and the stop function; the
three diffs have sizes that fill a batch, exceed the window together, and cannot be
estimated; of the six specs two pairs compete for one file and type, one pair by its priority and one
with equal priorities, one is not for the agent and one is invalid. In `findings` three findings can be certain, uncertain, adjacent,
equal or overlapping, inside and outside the zones, out of bounds and before the file.

What the properties of `pr_lifecycle` exclude is what `pr_declined_merge` and `queue_drain`
show, or what the code does not promise: `Early = FALSE` (a PR is resolved in Forgejo only
after its row is stored; earlier, its report is dropped and the row stays open), `declined` (the dropped answer of a merge), `Refused` (an event
answered with 429 is not sent again) and `Cancelled` (a worker may leave
events behind).

Fairness (`FairSpec`): the reconciler's ticker and started goroutines go on (weak
fairness, the Go scheduler and `StartPeriodic`). A fetch, a push or a store that is
tried again and again succeeds at some time (strong fairness of `Ensure`, `Send`,
`Record`): without it no retry scheme
converges. `Converges` makes one exception: a branch that has no file to publish,
whose commit fails as empty for ever.

In `PRLifecycle`, Forgejo delivers the webhooks it has sent, a worker that has an event
goes on, and a worker takes an event of the queue when it can (weak fairness: the HTTP
server and the goroutines of `processor.go`). Nothing is assumed of the operator, the
nightly session, or the shutdown.

In `Nightly` goroutines go on (weak fairness). Starts are bounded, so a lock or semaphore
that others take in turn is free for good in the end; `sync.RWMutex` and channels serve
their waiters in turn, which is stronger. Nothing is assumed of Stop, the command
or the cron job. In `Findings` a handler that has begun goes on; neither the sync nor
the operator has to.

## Proofs

All theorems hold for every set of files, any number of callers, and all bounds;
they assume the `ConstantsOK` of their modules and, where stated, a hypothesis on the
constants.

- `TypeCorrect`: one step per action.
- `OnlySanitizedIsMirrored`, `SkippedIsNeverMirrored`: neither property is inductive,
  since `Send` copies an unconstrained commit to the mirror. `Boundary` says the same
  of every stage a file passes (held, staged, in the index, committed) and that only
  reviewable files are pending, and is inductive.
- `PushesPreserveFiles`, for starts after a migration or from nothing: the inductive
  invariant `Preserved` orders the sides by the files they have (mirror in commit in
  index in staging directory), which `AddGlob` cannot break.
- `SerialBaselineMirrored`, `SerialImplementsContract`, under `OneAtATime` (one sync
  at a time, no nightly session, no failing sanitization, no seeded start): `Serial`
  relates a running sync to its target (the worktree is the target's tree; each file
  due is to do, held, staged or on the mirror already), orders the sides by version,
  and knows that versions grow along the branch. Each hypothesis of `OneAtATime`
  stands for one of the findings or hazards, where the conclusion is not true.
- `PRTypeCorrect`: types and the queue's capacity, with the fact that a worker that marks
  a row handles the report of that PR.
- `ClosedRowsAgree`, `MergedRowsAgree`: what a handler writes was decided earlier, by a
  report it received or an answer of Forgejo, so `Agreement` adds that reports are
  truthful wherever they are (on the wire, in the queue, with a worker), that a handler about to write
  was told so, and that an unsaved PR has one opener and no row. All rest on
  `Onward`: a final state in Forgejo stays.
- `FinalStatusIsWrittenOnce`: both the old and the new status agree with Forgejo, whose
  state did not change; that a final row never becomes open again is `OutcomesKept`.

The theorems about PRs assume `QueueConstantsOK` and `PRConstantsOK` only, so also `Early = TRUE`.

- `MigrationAuthorized`, `MigrationAnswerIsFinal`: to the confirmation a step is one of six
  (`ConfirmStep`: a run asks, is answered, expires, proceeds, ends with its process, or
  nothing); `StepKinds` shows it of each action. `ConfirmInv` adds that a run that was never
  started has no row: without it a new request could reopen an answered row.
- `MigrationTypeCorrect`, `MigrationMirrorsSanitized`: `MigrationBoundary` says of each place that
  content passes on its way to the mirror that it is clean (`CleanBoundary`), and the same of
  what a run has read and not yet written (`CopiesClean`); the types of the runs
  need `ConfirmInv`, since a run that asks must not hold a file.

These four hold of disturbed behaviours as of calm ones, and of any number of runs, syncs,
kills and restarts. The next three are about calm behaviours.

- `MigrationPushesOneCommit`: in a calm behaviour a run that fills is `Alone` (no sync is
  past its start, no other run fills), so that nobody commits between its reset and its
  push.
- `MigrationIsExact`: what a run has still to take, holds or has written is `Fills`, one
  conjunct per step, from the clean-up before the push on without files that the run skips
  (`NoSkips`). With it `Keeping` says what the syncs between two migrations keep:
  what a recorded or aimed at commit owes is `Safe`, which is to be on the mirror and in all that
  can be pushed next (the index, unless main is moved first, and the directory, unless a
  run is about to refill it). A failed run or a killed one may leave any of this behind:
  the lemmas about `Retiring` show that it harms nobody.
- `MigratedBaselineHolds`: the same invariant; the conjuncts under `Trusted` need that no
  start is `seeded`, where the baseline is recorded and the directory is empty. The run
  `seeded_push` shows that this is not a weakness of the proof.
- `NightlyTypesCorrect`, `AgentWorksAlone`, `StoppedStartsNoAgent` (the second is about runs that execute
  or analyse under the lock, and about the agent; reads without the lock are outside it): the invariant `NightlyInv` ties
  each holder of the lock or semaphore to its step (`WriterOK`, `ReadersOK`, `AgentOK`), and a
  run's variables to its step (`SessionOK`). A step is one of one run, one of one sync, or
  takes nothing (`NextKinds`), and leaves everybody else alone (`Only`).
- `BatchesArePartition`, `TasksAreMostUrgent`, `RecordedWhenHandled`: `WorkInv` adds what a session has
  (`WorkOK`): a partition while it analyses, ranked tasks when it plans, and its first `nth`
  tasks ended unless it was stopped. The first two then are the theorems about `Batching`.
- `PartitionCorrect`, `RankedCorrect`: for every set of diffs and any estimates, focus areas and
  budget, `PackInv` holds after each diff; that a merge by key and a sort leave the most
  urgent holds of every order in which they may be done.
- `OpenedIsTracked`: `Held` says of every PR in Forgejo that it has a row or an opener on its way to
  save it, while the daemon runs.
- `PRsFollowContract`: the variables of `PRContract` are those of the model, so the steps that
  change none are stutters; for the others `Agreement` gives the guard: a row is saved
  over no other (`Fresh`), a merge is declined of a PR that exists, and what a handler writes
  is the state in Forgejo, or repeats the row, or follows a declined merge (`MarkFollows`).
- `FindingsTypesCorrect`, `ApprovedStays`: `FindingsInv` says that findings lie outside the zones and the
  zones cover what is protected (`MergeCovers`: merging forgets no zone, in whichever order
  the sort leaves them); what no finding covers is copied (`UncoveredKept`), overlaps
  included. So is no protected byte lost even where `findings_overlap` writes some twice.
- `ValidAreReplaced`: for valid findings, `ExactStep` follows the cursor of
  `BuildStagingContent`; the place of each cell is its offset and what the tags before it
  have added.
- `TokenIndexLeads`: `HasTagsAt` says of a content where the intact tags of a set of findings are, that
  it has no others, and that they are in the order of the findings. The pass of
  `BuildStagingContent` adds one tag behind the others (`PassTags`), overlapping findings
  included; a resolution takes one and moves those behind it (`TagReplaced`); so whatever was
  resolved, in whichever order, leaves the tags of the rest (`OthersStay`). As many tags
  precede that of `k` as findings below `k` are left (`TagsCounted`), which is the index less one
  and less the approved predecessors (`CountLeft`). The code's count has the strays besides, so the index leads
  to the finding with that many fewer left before it, and there is one (`BelowExists`).
- `DecidedStays`: a reaction takes pending rows only, and an approval, which is called with index 0,
  changes none.

Recursive functions: the library's induction theorems take an operator as a parameter and
cannot be cited. `Induction` has the same for a set (`SetInduction`, from the
well-founded order of the numbers): the set of numbers for which a lemma
holds is defined and shown to be all of them. That a recursive definition has a solution at all
is shown the same way (`KeptDef`, `BuiltDef`, `MergingDef`, `ResolveEachDef`, `WeightsDef`, `PackingsDef`), by
functions on longer and longer initial segments.

`AgentAlone`, `MostUrgentFirst` and the others about `Nightly` and `Batching` assume
`NightlyConstantsOK` and `BatchConstantsOK`; those of `Findings` assume `FindingsConstantsOK` and
`StagingConstantsOK`: any text and detectors, any tag of two or more cells, and any number of handlers.

Only model-checked: liveness, which is beyond the prover (`Converges`, `RowFollows`,
`MergeSyncs`, `RunsEnd`, `ReactionsEnd`). Every invariant and every action property of a
passing run is the statement of a theorem.

## Not modelled

- Documentation generator: it is run by hand, in a process of its own; the state it
  stores is read by `UpdateStale` only, which has no caller, as has the changelog manager.
- Configuration, charts, prompts, embeds: data and wording.
- The detectors of the sanitization layers, the agent, Forgejo, GitHub and Discord: external.
- Scrub patterns, which replace configured expressions in the staged file after
  staging.
- The custom reaction, which only prompts for a token; discussion threads and mentions;
  `ReanalyzeFile` and `Supersede`, which nothing calls; the store of reviews, whose
  cooldown nothing reads.
- The pull of a developer's local checkout and the digest, which change nothing that
  another component reads.

## Plan

Done: `MirrorSync`, queue and workers, PR lifecycle, migration, nightly sessions, the algorithms of
batching and staging, findings, with the proofs of all their safety properties.

Left: liveness stays with TLC. Of the hazards, the index of a finding in a file that also has
automatic redactions (see `ResolvesOwnUnlessMiscounted`) deserves a property once the daemon passes the index
on to the algorithm.
