-------------------------------- MODULE Nightly --------------------------------
(***************************************************************************)
(* Mode 1: the sessions that analyse repositories, plan tasks and let the  *)
(* command-line agent carry them out.                                      *)
(*                                                                         *)
(* The cron job and the operator's commands start goroutines, here the     *)
(* members of Runs, that go through repositories one after the other.  A   *)
(* session refreshes the worktree, checks whether it may run, diffs the    *)
(* HEAD of the worktree against the baseline, asks the model for tasks,    *)
(* and executes each on a branch of its own.  Sessions, and the Mode 3     *)
(* syncs that run beside them, share a lock per worktree, one process-wide *)
(* semaphore for the agent, the baseline rows and one stop function.       *)
(***************************************************************************)
EXTENDS Batching

CONSTANTS Repos,        \* the repositories
          Order,        \* the active ones, as the configuration lists them
          Runs,         \* goroutines of the cron job and of commands
          Commanded,    \* those that a command starts for one repository
          Named,        \* the repositories that such commands name
          Syncs,        \* goroutines of Mode 3
          None,         \* nobody
          Elsewhere,    \* specs that AssignExecutor gives to "go" or "llm"
          Answers,      \* the answers that the model may give to one batch
          MaxStarts     \* bound on the starts of runs and syncs

\* What the HEAD of a worktree may be: the tip of the default branch, or the
\* branch of a task.  A baseline may also be older than both.
Heads == {"main", "branch"}

ASSUME NightlyConstantsOK ==
    /\ 0 \notin Repos
    /\ Order \in Seq(Repos)
    /\ Runs \cap Syncs = {} /\ None \notin Runs \cup Syncs
    /\ Commanded \subseteq Runs /\ Named \subseteq Repos
    /\ Elsewhere \subseteq Specs
    /\ \A answer \in Answers : answer \subseteq Specs /\ IsFiniteSet(answer)
    /\ MaxStarts \in Nat

VARIABLES
    checkout,   \* HEAD of the Forgejo worktree
    baseline,   \* repo_sync_state.forgejo_sha
    writer,     \* worktree lock: the run that executes a task under it
    readers,    \* worktree lock: the runs that analyse under it
    cli,        \* who runs the agent: the holder of claudeCodeSemaphore
    active,     \* the run whose session r.cancelFn cancels
    cancelled,  \* runs whose session's context is done
    step,       \* step[r]: where the run is
    at,         \* at[r]: the repository of its session, 0 if none
    left,       \* left[r]: repositories still to come
    current,    \* current[r]: currentSHA
    differing,  \* differing[r]: the diffs handed to AnalyzeAll
    batches,    \* batches[r]: their partition
    nth,        \* nth[r]: number of tasks taken up
    found,      \* found[r]: its answers
    tasks,      \* tasks[r]: the specs of the session, in order
    rows,       \* rows[r]: tasks.status of each
    starts      \* runs and syncs started so far

lock == <<writer, readers>>
session == <<at, current, differing, batches, nth, found, tasks, rows>>
vars == <<checkout, baseline, writer, readers, cli, active, cancelled, step,
          at, left, current, differing, batches, nth, found, tasks, rows, starts>>

Steps == {"idle", "next", "check", "diff", "analysis", "asking", "planning", "task",
          "lock", "semaphore", "agent"}

Init ==
    /\ checkout = [p \in Repos |-> "main"]
    /\ baseline = [p \in Repos |-> "old"]
    /\ writer = [p \in Repos |-> None]
    /\ readers = [p \in Repos |-> {}]
    /\ cli = None
    /\ active = None
    /\ cancelled = {}
    /\ step = [a \in Runs \cup Syncs |-> "idle"]
    /\ at = [a \in Runs \cup Syncs |-> 0]
    /\ left = [r \in Runs |-> <<>>]
    /\ current = [r \in Runs |-> "none"]
    /\ differing = [r \in Runs |-> {}]
    /\ batches = [r \in Runs |-> <<>>]
    /\ nth = [r \in Runs |-> 0]
    /\ found = [r \in Runs |-> {}]
    /\ tasks = [r \in Runs |-> <<>>]
    /\ rows = [r \in Runs |-> <<>>]
    /\ starts = 0

-------------------------------------------------------------------------------
(* Starting and stopping.                                                  *)

Begin(r, repos) ==
    /\ step[r] = "idle"
    /\ starts < MaxStarts
    /\ starts' = starts + 1
    /\ step' = [step EXCEPT ![r] = "next"]
    /\ left' = [left EXCEPT ![r] = repos]
    /\ UNCHANGED <<checkout, baseline, lock, cli, active, cancelled, at, current,
                   differing, batches, nth, found, tasks, rows>>

\* The cron job, or "/sentinel run" and "/sentinel run full".
StartAll(r) ==
    /\ r \notin Commanded
    /\ Begin(r, Order)

\* "/sentinel run <repo>", with or without "full".
StartOne(r) ==
    /\ r \in Commanded
    /\ \E p \in Named : Begin(r, <<p>>)

\* RunWithOpts makes a context of its own for the next repository and stores
\* its cancel function, over the one that was there.
NextSession(r) ==
    /\ step[r] = "next"
    /\ left[r] # <<>>
    /\ at' = [at EXCEPT ![r] = Head(left[r])]
    /\ left' = [left EXCEPT ![r] = Tail(@)]
    /\ step' = [step EXCEPT ![r] = "check"]
    /\ active' = r
    /\ UNCHANGED <<checkout, baseline, lock, cli, cancelled, current,
                   differing, batches, nth, found, tasks, rows, starts>>

RunEnds(r) ==
    /\ step[r] = "next"
    /\ left[r] = <<>>
    /\ step' = [step EXCEPT ![r] = "idle"]
    /\ UNCHANGED <<checkout, baseline, lock, cli, active, cancelled, session,
                   left, starts>>

InSession(r) == step[r] \notin {"idle", "next"}

\* "/sentinel stop".
Stop ==
    /\ active # None
    /\ InSession(active)
    /\ active \notin cancelled
    /\ cancelled' = cancelled \cup {active}
    /\ UNCHANGED <<checkout, baseline, lock, cli, active, step, left, session, starts>>

\* A session returns: its locals and its context are gone.
Return(r) ==
    /\ step' = [step EXCEPT ![r] = "next"]
    /\ cancelled' = cancelled \ {r}
    /\ at' = [at EXCEPT ![r] = 0]
    /\ current' = [current EXCEPT ![r] = "none"]
    /\ differing' = [differing EXCEPT ![r] = {}]
    /\ batches' = [batches EXCEPT ![r] = <<>>]
    /\ nth' = [nth EXCEPT ![r] = 0]
    /\ found' = [found EXCEPT ![r] = {}]
    /\ tasks' = [tasks EXCEPT ![r] = <<>>]
    /\ rows' = [rows EXCEPT ![r] = <<>>]

-------------------------------------------------------------------------------
(* Before the session: refresh, preflight, diff.                           *)

Free(p) == writer[p] = None /\ readers[p] = {}

\* EnsureForgejoWorktree under the write lock: HEAD is the default branch.  The
\* fetch fails when the context is done.
Refresh(r) ==
    /\ step[r] = "check"
    /\ Free(at[r])
    /\ r \notin cancelled
    /\ checkout' = [checkout EXCEPT ![at[r]] = "main"]
    /\ step' = [step EXCEPT ![r] = "diff"]
    /\ UNCHANGED <<baseline, lock, cli, active, cancelled, session, left, starts>>

RefreshFails(r) ==
    /\ step[r] = "check"
    /\ Free(at[r])
    /\ Return(r)
    /\ UNCHANGED <<checkout, baseline, lock, cli, active, left, starts>>

\* The checks and the diff run after the lock was released.  Too many open PRs
\* or recent commits of a developer skip the repository, as do a failing store
\* call and a baseline that equals HEAD.
Skip(r) ==
    /\ step[r] = "diff"
    /\ Return(r)
    /\ UNCHANGED <<checkout, baseline, lock, cli, active, left, starts>>

\* HEAD is compared with the baseline; a run with "full" compares with nothing.
Differs(r, whole) == whole \/ baseline[at[r]] # checkout[at[r]]

\* There is work to do: currentSHA is the HEAD that was found, and a session row
\* is stored.
Diff(r, whole) ==
    /\ step[r] = "diff"
    /\ r \notin cancelled
    /\ Differs(r, whole)
    /\ \E ds \in SUBSET Diffs \ {{}} :
          /\ differing' = [differing EXCEPT ![r] = ds]
          /\ batches' = [batches EXCEPT ![r] = Partition(ds)]
    /\ current' = [current EXCEPT ![r] = checkout[at[r]]]
    /\ step' = [step EXCEPT ![r] = "analysis"]
    /\ UNCHANGED <<checkout, baseline, lock, cli, active, cancelled, at, left,
                   nth, found, tasks, rows, starts>>

RecordAnyway(r) == baseline' = [baseline EXCEPT ![at[r]] = current[r]]

\* When it is through, a session records the commit that it has analysed,
\* whatever became of its tasks; the store refuses when the context is done.
RecordBaseline(r) ==
    baseline' = IF r \in cancelled THEN baseline ELSE [baseline EXCEPT ![at[r]] = current[r]]

-------------------------------------------------------------------------------
(* Analysis and planning.                                                  *)

\* AnalyzeAll runs under the read lock.
LockForAnalysis(r) ==
    /\ step[r] = "analysis"
    /\ writer[at[r]] = None
    /\ readers' = [readers EXCEPT ![at[r]] = @ \cup {r}]
    /\ step' = [step EXCEPT ![r] = "asking"]
    /\ UNCHANGED <<checkout, baseline, writer, cli, active, cancelled, session,
                   left, starts>>

\* Tasks of an unknown type, complexity or priority are dropped from an answer.
Valid(specs) == {s \in specs : s.prio \in 1..5}

\* What one batch yields: a second answer is asked for when the first cannot be
\* parsed, and the call fails once the context is done.
Analyze == {Valid(answer) : answer \in Answers} \cup {{}}

\* What the model may have named after all batches; a batch whose call failed is
\* passed over.  The Ollama semaphore is held during a call only.
Analyzed(r) ==
    IF r \in cancelled THEN {{}}
    ELSE {UNION {answer[i] : i \in DOMAIN answer} :
             answer \in [DOMAIN batches[r] -> Analyze]}

\* Each task gets a row of its own, before any is planned.
Created(q) == [i \in DOMAIN q |-> "pending"]

\* Without a task the session records what it has analysed and is over, unless
\* its context is done.  With tasks it stores a row for each.
Identify(r) ==
    /\ step[r] = "asking"
    /\ readers' = [readers EXCEPT ![at[r]] = @ \ {r}]
    /\ \E named \in Analyzed(r) :
          IF named = {}
          THEN /\ RecordBaseline(r)
               /\ Return(r)
          ELSE /\ found' = [found EXCEPT ![r] = named]
               /\ \E kept \in OnePerKey(Deduplicate(named)) : \E q \in Ranked(kept) :
                     /\ tasks' = [tasks EXCEPT ![r] = q]
                     /\ rows' = [rows EXCEPT ![r] = Created(q)]
               /\ step' = [step EXCEPT ![r] = "planning"]
               /\ differing' = [differing EXCEPT ![r] = {}]
               /\ batches' = [batches EXCEPT ![r] = <<>>]
               /\ UNCHANGED <<baseline, cancelled, at, current, nth>>
    /\ UNCHANGED <<checkout, writer, cli, active, left, starts>>

\* The planning loop calls the model for each task and changes nothing that
\* another goroutine sees; it ends early when the budget is spent.
Plan(r) ==
    /\ step[r] = "planning"
    /\ r \notin cancelled
    /\ step' = [step EXCEPT ![r] = "task"]
    /\ found' = [found EXCEPT ![r] = {}]
    /\ UNCHANGED <<checkout, baseline, lock, cli, active, cancelled, at, left, current, differing,
                   batches, nth, tasks, rows, starts>>

-------------------------------------------------------------------------------
(* Execution.                                                              *)

Task(r) == tasks[r][nth[r] + 1]
HasTask(r) == nth[r] < Len(tasks[r])

\* Either loop looks at the context before each task.  The update of the
\* session's row to "stopped" uses the same context and fails.
Stopped(r) ==
    /\ r \in cancelled
    /\ step[r] \in {"planning", "task"}
    /\ HasTask(r)
    /\ Return(r)
    /\ UNCHANGED <<checkout, baseline, lock, cli, active, left, starts>>

TakeUp(r) ==
    /\ step[r] = "task"
    /\ r \notin cancelled
    /\ HasTask(r)
    /\ IF Task(r) \in Elsewhere
       THEN nth' = [nth EXCEPT ![r] = @ + 1] /\ UNCHANGED step
       ELSE step' = [step EXCEPT ![r] = "lock"] /\ UNCHANGED nth
    /\ UNCHANGED <<checkout, baseline, lock, cli, active, cancelled, at, left,
                   current, differing, batches, found, tasks, rows, starts>>

\* A status update fails when the context is done.
SetStatus(r, status) ==
    rows' = IF r \in cancelled THEN rows
            ELSE [rows EXCEPT ![r] = [@ EXCEPT ![nth[r] + 1] = status]]

TaskDone(r) ==
    /\ step' = [step EXCEPT ![r] = "task"]
    /\ nth' = [nth EXCEPT ![r] = @ + 1]

LockBesideReaders(r) ==
    /\ step[r] = "lock"
    /\ writer[at[r]] = None
    /\ writer' = [writer EXCEPT ![at[r]] = r]
    /\ SetStatus(r, "running")
    /\ step' = [step EXCEPT ![r] = "semaphore"]
    /\ UNCHANGED <<checkout, baseline, readers, cli, active, cancelled, at, left,
                   current, differing, batches, nth, found, tasks, starts>>

\* executeTask takes the write lock and creates the branch on Forgejo; both
\* calls to Forgejo work without the context.
Lock(r) ==
    /\ step[r] = "lock"
    /\ Free(at[r])
    /\ writer' = [writer EXCEPT ![at[r]] = r]
    /\ SetStatus(r, "running")
    /\ step' = [step EXCEPT ![r] = "semaphore"]
    /\ UNCHANGED <<checkout, baseline, readers, cli, active, cancelled, at, left,
                   current, differing, batches, nth, found, tasks, starts>>

BranchFails(r) ==
    /\ step[r] = "lock"
    /\ Free(at[r])
    /\ SetStatus(r, "ended")
    /\ TaskDone(r)
    /\ UNCHANGED <<checkout, baseline, lock, cli, active, cancelled, at, left,
                   current, differing, batches, found, tasks, starts>>

AgentAnyway(r) ==
    /\ step[r] = "semaphore"
    /\ cli = None
    /\ cli' = r
    /\ step' = [step EXCEPT ![r] = "agent"]
    /\ checkout' = [checkout EXCEPT ![at[r]] = "branch"]
    /\ UNCHANGED <<baseline, lock, active, cancelled, session, left, starts>>

\* The agent does not start when the context is done: the task fails as if it
\* had run, and its row keeps its status.  An agent checks out the task's branch.
Agent(r) ==
    /\ step[r] = "semaphore"
    /\ cli = None
    /\ r \notin cancelled
    /\ cli' = r
    /\ step' = [step EXCEPT ![r] = "agent"]
    /\ checkout' = [checkout EXCEPT ![at[r]] = "branch"]
    /\ UNCHANGED <<baseline, lock, active, cancelled, session, left, starts>>

AgentRefusedLocked(r) ==
    /\ step[r] = "semaphore"
    /\ cli = None
    /\ r \in cancelled
    /\ TaskDone(r)
    /\ UNCHANGED <<checkout, baseline, lock, cli, active, cancelled, at, left, current,
                   differing, batches, found, tasks, rows, starts>>

AgentRefused(r) ==
    /\ step[r] = "semaphore"
    /\ cli = None
    /\ r \in cancelled
    /\ writer' = [writer EXCEPT ![at[r]] = None]
    /\ TaskDone(r)
    /\ UNCHANGED <<checkout, baseline, readers, cli, active, cancelled, at, left,
                   current, differing, batches, found, tasks, rows, starts>>

ExitsLocked(r) ==
    /\ step[r] = "agent"
    /\ cli' = None
    /\ TaskDone(r)
    /\ SetStatus(r, "ended")
    /\ UNCHANGED <<checkout, baseline, lock, active, cancelled, at, left,
                   current, differing, batches, found, tasks, starts>>

\* The agent exits, is killed by the timeout, or by a Stop.  executeTask gives
\* the semaphore and, when it returns, the lock back.
Exits(r) ==
    /\ step[r] = "agent"
    /\ cli' = None
    /\ writer' = [writer EXCEPT ![at[r]] = None]
    /\ TaskDone(r)
    /\ SetStatus(r, "ended")
    /\ UNCHANGED <<checkout, baseline, readers, active, cancelled, at, left, current, differing,
                   batches, found, tasks, starts>>

\* After the last task.
Finish(r) ==
    /\ step[r] = "task"
    /\ ~HasTask(r)
    /\ RecordBaseline(r)
    /\ Return(r)
    /\ UNCHANGED <<checkout, lock, cli, active, left, starts>>

-------------------------------------------------------------------------------
(* Around the sessions.                                                    *)

\* A Mode 3 sync, whose steps MirrorSync has: the refresh under the lock, then
\* the agent for a file, then the baseline.
SyncRefresh(c) ==
    /\ step[c] = "idle"
    /\ starts < MaxStarts
    /\ \E p \in Repos :
          /\ Free(p)
          /\ checkout' = [checkout EXCEPT ![p] = "main"]
          /\ at' = [at EXCEPT ![c] = p]
    /\ starts' = starts + 1
    /\ step' = [step EXCEPT ![c] = "semaphore"]
    /\ UNCHANGED <<baseline, lock, cli, active, cancelled, left, current,
                   differing, batches, nth, found, tasks, rows>>

SyncSanitize(c) ==
    /\ step[c] = "semaphore"
    /\ cli = None
    /\ cli' = c
    /\ step' = [step EXCEPT ![c] = "agent"]
    /\ UNCHANGED <<checkout, baseline, lock, active, cancelled, session, left, starts>>

SyncRecord(c) ==
    /\ step[c] = "agent"
    /\ cli' = None
    /\ \/ baseline' = [baseline EXCEPT ![at[c]] = "main"]
       \/ UNCHANGED baseline
    /\ step' = [step EXCEPT ![c] = "idle"]
    /\ at' = [at EXCEPT ![c] = 0]
    /\ UNCHANGED <<checkout, lock, active, cancelled, left, current, differing, batches,
                   nth, found, tasks, rows, starts>>

-------------------------------------------------------------------------------
RunStep(r) ==
    \/ NextSession(r) \/ RunEnds(r) \/ Refresh(r) \/ RefreshFails(r) \/ Skip(r) \/ (\E whole \in BOOLEAN : Diff(r, whole))
    \/ LockForAnalysis(r) \/ Identify(r) \/ Plan(r) \/ Stopped(r) \/ TakeUp(r)
    \/ Lock(r) \/ BranchFails(r) \/ Agent(r) \/ AgentRefused(r)
    \/ Exits(r) \/ Finish(r)

SyncStep(c) == SyncSanitize(c) \/ SyncRecord(c)

Next ==
    \/ \E r \in Runs : StartAll(r) \/ StartOne(r) \/ RunStep(r)
    \/ \E c \in Syncs : SyncRefresh(c) \/ SyncStep(c)
    \/ Stop

\* Goroutines go on.  Only finitely many are started here, so that a lock that
\* some of them take in turn is free for good in the end, and weak fairness is
\* enough; sync.RWMutex and channels serve their waiters in turn.
Fairness ==
    /\ \A r \in Runs : WF_vars(RunStep(r))
    /\ \A c \in Syncs : WF_vars(SyncStep(c))

NightlySpec == Init /\ [][Next]_vars
FairNightlySpec == NightlySpec /\ Fairness

-------------------------------------------------------------------------------
(* Properties.                                                             *)

\* Types, no task of an invalid priority, and what the lock and the semaphore are held for: a run that has
\* taken up the lock for a task is its writer until the agent ended.
NightlyTypeOK ==
    /\ checkout \in [Repos -> Heads]
    /\ baseline \in [Repos -> Heads \cup {"old"}]
    /\ writer \in [Repos -> Runs \cup {None}]
    /\ readers \in [Repos -> SUBSET Runs]
    /\ cli \in Runs \cup Syncs \cup {None}
    /\ active \in Runs \cup {None}
    /\ cancelled \subseteq Runs
    /\ step \in [Runs \cup Syncs -> Steps]
    /\ at \in [Runs \cup Syncs -> Repos \cup {0}]
    /\ left \in [Runs -> Seq(Repos)]
    /\ current \in [Runs -> Heads \cup {"none"}]
    /\ differing \in [Runs -> SUBSET Diffs]
    /\ batches \in [Runs -> Seq(Seq(Diffs))]
    /\ nth \in [Runs -> Nat] /\ \A r \in Runs : nth[r] <= Len(tasks[r])
    /\ found \in [Runs -> SUBSET Valid(Specs)]
    /\ tasks \in [Runs -> Seq(Valid(Specs))]
    /\ rows \in [Runs -> Seq({"pending", "running", "ended"})]
    /\ \A r \in Runs : Len(rows[r]) = Len(tasks[r])
    /\ starts \in 0..MaxStarts
    /\ \A r \in Runs, p \in Repos :
          /\ writer[p] = r <=> at[r] = p /\ step[r] \in {"semaphore", "agent"}
          /\ r \in readers[p] <=> at[r] = p /\ step[r] = "asking"

\* While a run's agent works in a worktree, no other run executes a task there or
\* analyses under the read lock, and no other goroutine runs the agent (executeTask
\* takes the write lock of the repository, then the semaphore). Who reads without
\* the lock is not excluded: the diff of a session (nightly.go:216), its planning,
\* and the files of a sync (runner.go:135).
AgentAlone ==
    \A r \in Runs : step[r] = "agent" =>
        /\ cli = r
        /\ \A a \in (Runs \cup Syncs) \ {r} : step[a] # "agent"
        /\ \A s \in Runs \ {r} : at[s] = at[r] => step[s] \notin {"semaphore", "asking"}

\* A session records a commit only when each of its tasks for the agent has
\* ended with a status of its own (SetRepoSyncSHA after the task loop).
HandledBeforeRecorded ==
    [][\A r \in Runs, p \in Repos :
          (baseline'[p] # baseline[p] /\ at[r] = p /\ at'[r] = 0) =>
              \A i \in DOMAIN rows[r] :
                  tasks[r][i] \in Elsewhere \/ rows[r][i] = "ended"]_vars

\* A session that was stopped starts no agent any more (the loop's check of the
\* context, and CommandContext for a Stop that comes after it).
StoppedStartsNothing ==
    [][\A r \in cancelled : step[r] # "agent" => step'[r] # "agent"]_vars

\* While a session analyses, its batches have every diff once, fit the context
\* window, are packed greedily and have focus files first (Batcher.partition).
BatchesPartition ==
    \A r \in Runs : step[r] \in {"analysis", "asking"} => Partitioned(batches[r], differing[r])

\* The tasks of a session are the most urgent of what the model named, one per
\* file and type, whatever batch an answer came from (Batcher.AnalyzeAll).
MostUrgentFirst ==
    \A r \in Runs : step[r] = "planning" => MostUrgent(tasks[r], found[r])

\* Every run over repositories comes to its end, whatever else holds the locks
\* and the semaphore (lock before semaphore everywhere, both given back on
\* every return).
RunsEnd == \A r \in Runs : step[r] # "idle" ~> step[r] = "idle"
===============================================================================
