------------------------------ MODULE PRLifecycle ------------------------------
(***************************************************************************)
(* The pull requests of one sentinel branch.  The nightly session that     *)
(* runs the branch's task and the push webhook of the branch both open a   *)
(* PR; an operator merges or closes it through a Discord reaction or in    *)
(* Forgejo, whose webhook then reports it.  Forgejo holds the PR, the      *)
(* table sentinel_prs a row with its status, and Discord the message that  *)
(* announces it.                                                           *)
(***************************************************************************)
EXTENDS WebhookQueue

CONSTANTS Nightly,       \* the cron job
          MaxPRs,        \* bound on the PRs of the branch
          MaxPushes,     \* bound on the pushes to the branch
          Early          \* PRs may be resolved in Forgejo before their row exists

PRs == 1..MaxPRs
Pushes == 1..MaxPushes
Openers == Workers \cup {Nightly}

Push(i) == [kind |-> "push", n |-> i]
Report(n, state) == [kind |-> state, n |-> n]  \* action "closed" and its merged flag
Outcomes == {"merged", "closed"}

ASSUME PRConstantsOK ==
    /\ Nightly \notin Workers
    /\ MaxPRs \in Nat /\ MaxPushes \in Nat
    /\ Early \in BOOLEAN
    /\ Events = {Push(i) : i \in Pushes} \cup {Report(n, s) : n \in PRs, s \in Outcomes}

VARIABLES
    forge,      \* Forgejo: state of each PR
    declined,   \* PRs of which Forgejo has declined a merge request
    wire,       \* webhooks sent by Forgejo and not yet delivered
    pushed,     \* pushes to the branch so far
    row,        \* sentinel_prs.status, "none" when there is no row
    announced,  \* PRs with a message in Discord
    task,       \* tasks.status
    step,       \* step[p]: where opener p is in its handler
    arg,        \* arg[p]: the PR that p opens or resolves, 0 if none
    approving,  \* approving[n]: step of the approve handler for n
    closing,    \* closing[n]: step of the close handler for n
    synced      \* PRs whose merge has started a sync

openers == <<step, arg>>
discord == <<approving, closing>>
vars == <<queue, handling, gone, refused, stage, forge, declined, wire, pushed, row,
          announced, task, step, arg, approving, closing, synced>>

Init ==
    /\ QueueInit
    /\ forge = [n \in PRs |-> "none"]
    /\ declined = {}
    /\ wire = {}
    /\ pushed = 0
    /\ row = [n \in PRs |-> "none"]
    /\ announced = {}
    /\ task = "pending"
    /\ step = [p \in Openers |-> "idle"]
    /\ arg = [p \in Openers |-> 0]
    /\ approving = [n \in PRs |-> "idle"]
    /\ closing = [n \in PRs |-> "idle"]
    /\ synced = {}

Goto(p, s) == step' = [step EXCEPT ![p] = s]

\* The PR reaches a final state in Forgejo, which sends the event.
Settle(n, state) ==
    /\ forge' = [forge EXCEPT ![n] = state]
    /\ wire' = wire \cup {Report(n, state)}

-------------------------------------------------------------------------------
(* Forgejo and the people who use it.                                      *)

\* The tool that runs the task pushes to the branch.
PushBranch ==
    /\ step[Nightly] = "execute"
    /\ pushed < MaxPushes
    /\ pushed' = pushed + 1
    /\ wire' = wire \cup {Push(pushed + 1)}
    /\ UNCHANGED <<queueVars, forge, declined, row, announced, task, openers, discord, synced>>

ResolveInForgejo(n) ==
    /\ forge[n] = "open"
    /\ Early \/ row[n] # "none"
    /\ \E state \in Outcomes : Settle(n, state)
    /\ UNCHANGED <<queueVars, declined, pushed, row, announced, task, openers, discord, synced>>

Deliver(e) ==
    /\ e \in wire
    /\ Enqueue(e)
    /\ wire' = wire \ {e}
    /\ UNCHANGED <<forge, declined, pushed, row, announced, task, openers, discord, synced>>
-------------------------------------------------------------------------------
(* Opening a PR: executeTask and openPR of the nightly runner, and         *)
(* HandlePushEvent of a worker, whose last four steps are the same.        *)

\* A worker's event is handled, or the nightly task is over.
Return(p) ==
    /\ arg' = [arg EXCEPT ![p] = 0]
    /\ \/ p \in Workers /\ Finish(p) /\ Goto(p, "idle")
       \/ p = Nightly /\ Goto(p, "done") /\ UNCHANGED queueVars

\* A store call with the context of workers and cron, which fails once it is done.
SetTask(status) == task' = IF Running THEN status ELSE task

\* The branch is created, or the task fails before it runs.
StartTask ==
    /\ step[Nightly] = "idle"
    /\ \/ SetTask("running") /\ Goto(Nightly, "execute") /\ UNCHANGED <<queueVars, arg>>
       \/ SetTask("failed") /\ Return(Nightly)
    /\ UNCHANGED <<forge, declined, wire, pushed, row, announced, discord, synced>>

\* The tool has ended; with the context done it is killed.
EndTask ==
    /\ step[Nightly] = "execute"
    /\ \/ Running /\ SetTask("complete") /\ Goto(Nightly, "create") /\ UNCHANGED <<queueVars, arg>>
       \/ SetTask("failed") /\ Return(Nightly)
    /\ UNCHANGED <<forge, declined, wire, pushed, row, announced, discord, synced>>

\* The task of the branch is looked up.
ReadTask(w) ==
    /\ handling[w] \in {Push(i) : i \in Pushes}
    /\ step[w] = "idle"
    /\ \/ Running /\ Goto(w, "create") /\ UNCHANGED <<queueVars, arg>>
       \/ Cancelled /\ Return(w)
    /\ UNCHANGED <<forge, declined, wire, pushed, row, announced, task, discord, synced>>

\* Forgejo numbers PRs in turn and has one open PR per branch.
CreatePR(p) ==
    /\ step[p] = "create"
    /\ \/ \E n \in PRs :
            /\ forge[n] = "none"
            /\ \A m \in PRs : IF m < n THEN forge[m] \in Outcomes ELSE forge[m] = "none"
            /\ forge' = [forge EXCEPT ![n] = "open"]
            /\ arg' = [arg EXCEPT ![p] = n]
            /\ Goto(p, "announce")
            /\ UNCHANGED queueVars
       \/ Return(p) /\ UNCHANGED forge
    /\ UNCHANGED <<declined, wire, pushed, row, announced, task, discord, synced>>

\* Mutant of PostPRNotification: its error ends the handler.
PostOrReturn(p) ==
    /\ step[p] = "announce"
    /\ \/ /\ announced' = announced \cup {arg[p]}
          /\ Goto(p, "save")
          /\ UNCHANGED <<queueVars, arg>>
       \/ Return(p) /\ UNCHANGED announced
    /\ UNCHANGED <<forge, declined, wire, pushed, row, task, discord, synced>>

\* Whether the message could be posted or not, the PR is saved next.
PostPRNotification(p) ==
    /\ step[p] = "announce"
    /\ announced' \in {announced, announced \cup {arg[p]}}
    /\ Goto(p, "save")
    /\ UNCHANGED <<queueVars, forge, declined, wire, pushed, row, task, arg, discord, synced>>

SavePR(p) ==
    /\ step[p] = "save"
    /\ \/ /\ Running
          /\ row' = [row EXCEPT ![arg[p]] = "open"]
          /\ Goto(p, "link")
          /\ UNCHANGED <<queueVars, arg>>
       \/ Cancelled /\ Return(p) /\ UNCHANGED row
    /\ UNCHANGED <<forge, declined, wire, pushed, announced, task, discord, synced>>

SetPRNumber(p) ==
    /\ step[p] = "link"
    /\ SetTask("pr_opened")
    /\ Return(p)
    /\ UNCHANGED <<forge, declined, wire, pushed, row, announced, discord, synced>>

-------------------------------------------------------------------------------
(* A worker that handles the report of a closed or merged PR.              *)

\* A merge starts a sync in a goroutine of its own, whatever became of the row.
StartSync(e) == synced' = IF e.kind = "merged" THEN synced \cup {e.n} ELSE synced

\* Mutant of ReadRow: the row is looked up by its message.
ReadRowByMessage(w) ==
    /\ handling[w] \in {Report(n, s) : n \in PRs, s \in Outcomes}
    /\ step[w] = "idle"
    /\ LET e == handling[w] IN
       \/ /\ Running /\ row[e.n] = "open" /\ e.n \in announced
          /\ Goto(w, "mark")
          /\ arg' = [arg EXCEPT ![w] = e.n]
          /\ UNCHANGED <<queueVars, synced>>
       \/ /\ Cancelled \/ row[e.n] # "open" \/ e.n \notin announced
          /\ StartSync(e)
          /\ Return(w)
    /\ UNCHANGED <<forge, declined, wire, pushed, row, announced, task, discord>>

\* Mutant of ReadRow: a row that is final already ends the handler.
ReadRowNoSync(w) ==
    /\ handling[w] \in {Report(n, s) : n \in PRs, s \in Outcomes}
    /\ step[w] = "idle"
    /\ LET e == handling[w] IN
       \/ /\ Running /\ row[e.n] = "open"
          /\ Goto(w, "mark")
          /\ arg' = [arg EXCEPT ![w] = e.n]
          /\ UNCHANGED queueVars
       \/ (Cancelled \/ row[e.n] # "open") /\ Return(w)
    /\ UNCHANGED <<forge, declined, wire, pushed, row, announced, task, discord, synced>>

ReadRow(w) ==
    /\ handling[w] \in {Report(n, s) : n \in PRs, s \in Outcomes}
    /\ step[w] = "idle"
    /\ LET e == handling[w] IN
       \/ /\ Running /\ row[e.n] = "open"
          /\ Goto(w, "mark")
          /\ arg' = [arg EXCEPT ![w] = e.n]
          /\ UNCHANGED <<queueVars, synced>>
       \/ /\ Cancelled \/ row[e.n] # "open"
          /\ StartSync(e)
          /\ Return(w)
    /\ UNCHANGED <<forge, declined, wire, pushed, row, announced, task, discord>>

\* Mutant of MarkReported: the merged flag of the event is not read.
MarkReportedClosed(w) ==
    /\ w \in Workers
    /\ step[w] = "mark"
    /\ row' = IF Running THEN [row EXCEPT ![arg[w]] = "closed"] ELSE row
    /\ StartSync(handling[w])
    /\ Return(w)
    /\ UNCHANGED <<forge, declined, wire, pushed, announced, task, discord>>

\* The error of the update is ignored.
MarkReported(w) ==
    /\ w \in Workers
    /\ step[w] = "mark"
    /\ row' = IF Running THEN [row EXCEPT ![arg[w]] = handling[w].kind] ELSE row
    /\ StartSync(handling[w])
    /\ Return(w)
    /\ UNCHANGED <<forge, declined, wire, pushed, announced, task, discord>>

-------------------------------------------------------------------------------
(* Reactions to the message.  Their context never ends.                    *)

\* The row is found by its message, and must be open.
Actionable(n) == n \in announced /\ row[n] = "open"

React ==
    UNCHANGED <<queueVars, forge, declined, wire, pushed, row, announced, task, openers, synced>>

\* A second approval of a message is dropped while the first is handled.
ReactApprove(n) ==
    /\ React
    /\ approving[n] = "idle" /\ Actionable(n)
    /\ approving' = [approving EXCEPT ![n] = "merge"]
    /\ UNCHANGED closing

\* Mutant of MergePR: an error does not end the handler.
MergePRGoOn(n) ==
    /\ approving[n] = "merge"
    /\ \/ forge[n] = "open" /\ Settle(n, "merged") /\ UNCHANGED declined
       \/ declined' = declined \cup {n} /\ UNCHANGED <<forge, wire>>
       \/ UNCHANGED <<forge, wire, declined>>
    /\ approving' = [approving EXCEPT ![n] = "mark"]
    /\ UNCHANGED <<queueVars, pushed, row, announced, task, openers, closing, synced>>

\* A merge that Forgejo declines (a conflict, or a PR that is no longer open)
\* is answered with a status other than 200 and no error; the result that says
\* so is dropped.
MergePR(n) ==
    /\ approving[n] = "merge"
    /\ \/ /\ forge[n] = "open"
          /\ Settle(n, "merged")
          /\ approving' = [approving EXCEPT ![n] = "mark"]
          /\ UNCHANGED declined
       \/ /\ declined' = declined \cup {n}
          /\ approving' = [approving EXCEPT ![n] = "mark"]
          /\ UNCHANGED <<forge, wire>>
       \/ /\ approving' = [approving EXCEPT ![n] = "idle"]
          /\ UNCHANGED <<forge, wire, declined>>
    /\ UNCHANGED <<queueVars, pushed, row, announced, task, openers, closing, synced>>

MarkMerged(n) ==
    /\ approving[n] = "mark"
    /\ row' = [row EXCEPT ![n] = "merged"]
    /\ approving' = [approving EXCEPT ![n] = "idle"]
    /\ UNCHANGED <<queueVars, forge, declined, wire, pushed, announced, task, openers, closing,
                   synced>>

\* Mutant of ReactClose: the row is written before Forgejo is asked.
ReactCloseMarkFirst(n) ==
    /\ React
    /\ closing[n] = "idle" /\ Actionable(n)
    /\ closing' = [closing EXCEPT ![n] = "mark"]
    /\ UNCHANGED approving

ReactClose(n) ==
    /\ React
    /\ closing[n] = "idle" /\ Actionable(n)
    /\ closing' = [closing EXCEPT ![n] = "close"]
    /\ UNCHANGED approving

\* Mutant of ClosePR: an error does not end the handler.
ClosePRGoOn(n) ==
    /\ closing[n] = "close"
    /\ \/ forge[n] = "open" /\ Settle(n, "closed")
       \/ UNCHANGED <<forge, wire>>
    /\ closing' = [closing EXCEPT ![n] = "mark"]
    /\ UNCHANGED <<queueVars, declined, pushed, row, announced, task, openers, approving, synced>>

\* Closing a closed PR changes nothing; the state of a merged one is an error.
ClosePR(n) ==
    /\ closing[n] = "close"
    /\ \/ /\ forge[n] = "open" /\ Settle(n, "closed")
          /\ closing' = [closing EXCEPT ![n] = "mark"]
       \/ /\ forge[n] = "closed"
          /\ closing' = [closing EXCEPT ![n] = "mark"]
          /\ UNCHANGED <<forge, wire>>
       \/ /\ closing' = [closing EXCEPT ![n] = "idle"]
          /\ UNCHANGED <<forge, wire>>
    /\ UNCHANGED <<queueVars, declined, pushed, row, announced, task, openers, approving,
                   synced>>

MarkClosed(n) ==
    /\ closing[n] = "mark"
    /\ row' = [row EXCEPT ![n] = "closed"]
    /\ closing' = [closing EXCEPT ![n] = "idle"]
    /\ UNCHANGED <<queueVars, forge, declined, wire, pushed, announced, task, openers, approving,
                   synced>>

-------------------------------------------------------------------------------
QueueStep ==
    /\ \/ \E w \in Workers : Receive(w) \/ Leave(w)
       \/ Shutdown
    /\ UNCHANGED <<forge, declined, wire, pushed, row, announced, task, openers, discord, synced>>

Open(p) == CreatePR(p) \/ PostPRNotification(p) \/ SavePR(p) \/ SetPRNumber(p)
Work(w) == ReadTask(w) \/ Open(w) \/ ReadRow(w) \/ MarkReported(w)
Task == StartTask \/ EndTask \/ Open(Nightly)
Handle(n) == MergePR(n) \/ MarkMerged(n) \/ ClosePR(n) \/ MarkClosed(n)

\* The process exits, at any time once the queue is closed.
Exit == stage = "closed" /\ UNCHANGED vars

Next ==
    \/ PushBranch
    \/ \E e \in wire : Deliver(e)
    \/ \E n \in PRs : ResolveInForgejo(n) \/ ReactApprove(n) \/ ReactClose(n) \/ Handle(n)
    \/ \E w \in Workers : Work(w)
    \/ Task
    \/ QueueStep
    \/ Exit

Spec == Init /\ [][Next]_vars

\* Forgejo delivers what it has sent; started workers and handlers go on.
Fairness ==
    /\ WF_vars(\E e \in wire : Deliver(e))
    /\ \A w \in Workers :
         /\ WF_vars(Work(w))
         /\ WF_vars(Receive(w) /\ UNCHANGED <<forge, declined, wire, pushed, row, announced, task,
                                              openers, discord, synced>>)

FairSpec == Spec /\ Fairness

-------------------------------------------------------------------------------
(* Properties.                                                             *)

TypeOK ==
    /\ QueueTypeOK
    /\ forge \in [PRs -> {"none", "open"} \cup Outcomes]
    /\ declined \subseteq PRs
    /\ wire \subseteq Events
    /\ pushed \in 0..MaxPushes
    /\ row \in [PRs -> {"none", "open"} \cup Outcomes]
    /\ announced \subseteq PRs
    /\ task \in {"pending", "running", "pr_opened", "complete", "failed"}
    /\ step \in [Openers -> {"idle", "execute", "create", "announce", "save", "link", "mark", "done"}]
    /\ arg \in [Openers -> 0..MaxPRs]
    /\ approving \in [PRs -> {"idle", "merge", "mark"}]
    /\ closing \in [PRs -> {"idle", "close", "mark"}]
    /\ synced \subseteq PRs

\* A row says closed only of a PR that is closed in Forgejo, however approvals,
\* closings and reports of the PR overlap (HandleClose, HandleForgejoResolution).
ClosedAgrees == \A n \in PRs : row[n] = "closed" => forge[n] = "closed"

\* A row says merged only of a PR that is merged in Forgejo.  (notifier.go:1:
\* the package manages "Forgejo-Discord state synchronisation".)
MergedAgrees == \A n \in PRs : row[n] = "merged" => forge[n] = "merged"

\* The one exception to MergedAgrees is a PR of which Forgejo declined a merge
\* (HandleApprove, HandleForgejoResolution).
MergedUnlessDeclined == \A n \in PRs \ declined : row[n] = "merged" => forge[n] = "merged"

\* A final status is written once: what a second handler that had read the row
\* as open writes later is the same status (the status checks of HandleApprove,
\* HandleClose and HandleForgejoResolution come before their calls to Forgejo).
FinalOnce ==
    [][\A n \in PRs \ declined : row[n] \in Outcomes => row'[n] = row[n]]_vars

\* While the daemon runs, a PR that no handler is opening any more has its row,
\* also when its message could not be posted (HandlePushEvent, openPR).
Tracked ==
    Running => \A n \in PRs : forge[n] # "none" /\ (\A p \in Openers : arg[p] # n) => row[n] # "none"

\* Refinement: openers, reactions, reports and the shutdown, however they
\* interleave, do what PRContract says: a PR is entered once and as open, and its
\* entry becomes what the PR has become in Forgejo, once.
Contract == INSTANCE PRContract

FollowsContract == Contract!Spec

Refused(n) == \E s \in Outcomes : Report(n, s) \in refused

\* A PR that is merged or closed gets a row that says that it is resolved,
\* unless its event is refused or the daemon is stopped (HandleForgejoResolution).
RowFollows ==
    \A n \in PRs : forge[n] \in Outcomes ~> row[n] \in Outcomes \/ Refused(n) \/ Cancelled

\* Every merge starts a sync, also when an approval has resolved the row before
\* its event arrives, unless the event is refused or the daemon is stopped
\* (handleSentinelPR).
MergeSyncs ==
    \A n \in PRs : forge[n] = "merged" ~> n \in synced \/ Refused(n) \/ Cancelled
===============================================================================
