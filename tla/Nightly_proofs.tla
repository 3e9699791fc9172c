---------------------------- MODULE Nightly_proofs -----------------------------
(***************************************************************************)
(* Proofs about Nightly: the types, who holds the lock and the agent, what *)
(* a session has done when it records a commit, and what it analyses and   *)
(* plans, for every number of runs, syncs, repositories and answers.       *)
(***************************************************************************)
EXTENDS Nightly, Batching_proofs

Working == {"lock", "semaphore", "agent"}
Statuses == {"pending", "running", "ended"}

\* The types of NightlyTypeOK.
Types ==
    /\ checkout \in [Repos -> Heads]
    /\ baseline \in [Repos -> Heads \cup {"old"}]
    /\ writer \in [Repos -> Runs \cup {None}]
    /\ readers \in [Repos -> SUBSET Runs]
    /\ cli \in Runs \cup Syncs \cup {None}
    /\ active \in Runs \cup {None}
    /\ cancelled \subseteq Runs
    /\ step \in [Runs \cup Syncs -> Steps]
    /\ at \in [Runs \cup Syncs -> Repos \cup {0}]
    /\ left \in [Runs -> Seq(Repos)]
    /\ current \in [Runs -> Heads \cup {"none"}]
    /\ differing \in [Runs -> SUBSET Diffs]
    /\ batches \in [Runs -> Seq(Seq(Diffs))]
    /\ nth \in [Runs -> Nat]
    /\ found \in [Runs -> SUBSET Valid(Specs)]
    /\ tasks \in [Runs -> Seq(Valid(Specs))]
    /\ rows \in [Runs -> Seq(Statuses)]
    /\ starts \in 0..MaxStarts

\* What the variables of a run are at each step: a session has a repository, a
\* commit once it has diffed, tasks once it has analysed, and a row for each; a
\* task that it works on is the next one of the list.
SessionOK(r) ==
    /\ at[r] = 0 <=> step[r] \in {"idle", "next"}
    /\ current[r] = "none" <=> step[r] \in {"idle", "next", "check", "diff"}
    /\ step[r] \notin {"planning", "task"} \cup Working => tasks[r] = <<>>
    /\ step[r] \notin {"task"} \cup Working => nth[r] = 0
    /\ nth[r] <= Len(tasks[r])
    /\ step[r] \in Working => nth[r] < Len(tasks[r])
    /\ Len(rows[r]) = Len(tasks[r])

\* A sync has a repository from its refresh to its end.
SyncOK(c) ==
    /\ step[c] \in {"idle", "semaphore", "agent"}
    /\ at[c] = 0 <=> step[c] = "idle"

\* The lock of a worktree is held by those that their step says.
WriterOK == \A r \in Runs, p \in Repos :
    writer[p] = r <=> at[r] = p /\ step[r] \in {"semaphore", "agent"}
ReadersOK == \A r \in Runs, p \in Repos :
    r \in readers[p] <=> at[r] = p /\ step[r] = "asking"

\* So is the semaphore of the agent.
AgentOK == \A a \in Runs \cup Syncs : cli = a <=> step[a] = "agent"

\* Nobody reads under a lock that somebody writes under.
Exclusive == \A p \in Repos : writer[p] # None => readers[p] = {}

NightlyInv ==
    /\ Types
    /\ \A r \in Runs : SessionOK(r)
    /\ \A c \in Syncs : SyncOK(c)
    /\ WriterOK
    /\ ReadersOK
    /\ Exclusive
    /\ AgentOK

LEMMA NightlyInvTypes == NightlyInv => NightlyTypeOK
  BY DEF NightlyInv, Types, Statuses, SessionOK, WriterOK, ReadersOK, NightlyTypeOK

-------------------------------------------------------------------------------
(* Types.                                                                  *)

LEMMA StepsDiffer ==
  /\ Steps = {"idle", "next", "check", "diff", "analysis", "asking", "planning", "task"} \cup Working
  /\ Heads = {"main", "branch"} /\ "none" \notin Heads
  BY DEF Steps, Working, Heads

\* What the model may have named is a finite set of valid specs.
LEMMA AnalyzedType ==
  ASSUME Types, NEW r \in Runs, NEW named \in Analyzed(r)
  PROVE  named \in SUBSET Valid(Specs) /\ IsFiniteSet(named)
  <1>1. CASE r \in cancelled
    BY <1>1, FS_EmptySet DEF Analyzed
  <1>2. CASE r \notin cancelled
    <2> DEFINE D == DOMAIN batches[r]
    <2>1. PICK answer \in [D -> Analyze] : named = UNION {answer[i] : i \in D}
      BY <1>2 DEF Analyzed
    <2>2. ASSUME NEW S \in Analyze PROVE S \in SUBSET Valid(Specs) /\ IsFiniteSet(S)
      <3>1. CASE S = {}
        BY <3>1, FS_EmptySet
      <3>2. CASE S # {}
        <4>1. PICK a \in Answers : S = Valid(a)
          BY <3>2 DEF Analyze
        <4>2. a \subseteq Specs /\ IsFiniteSet(a)
          BY NightlyConstantsOK
        <4>3. Valid(a) \in SUBSET a /\ Valid(a) \in SUBSET Valid(Specs)
          BY <4>2 DEF Valid
        <4> QED
          BY <4>1, <4>2, <4>3, FS_Subset
      <3> QED
        BY <3>1, <3>2
    <2>3. IsFiniteSet(D)
      <3>1. batches[r] \in Seq(Seq(Diffs))
        BY DEF Types
      <3>2. Len(batches[r]) \in Nat /\ D = 1..Len(batches[r])
        BY <3>1
      <3> QED
        BY <3>2, FS_Interval
    <2> HIDE DEF D
    <2> DEFINE R == {answer[i] : i \in D}
    <2>4. answer \in Surjection(D, R)
      BY <2>1 DEF Surjection
    <2>5. IsFiniteSet(R) /\ \A T \in R : T \in Analyze
      BY <2>1, <2>3, <2>4, FS_Surjection
    <2>6. IsFiniteSet(UNION R)
      BY <2>2, <2>5, FS_UNION
    <2>7. UNION R \in SUBSET Valid(Specs)
      BY <2>2, <2>5
    <2> QED
      BY <2>1, <2>6, <2>7
  <1> QED
    BY <1>1, <1>2

\* The tasks of a session are valid specs, the most urgent, and each has a row.
LEMMA TasksType ==
  ASSUME NEW named \in SUBSET Valid(Specs), IsFiniteSet(named),
         NEW kept \in OnePerKey(Deduplicate(named)), NEW q \in Ranked(kept)
  PROVE  /\ q \in Seq(Valid(Specs)) /\ MostUrgent(q, named)
         /\ Created(q) \in Seq(Statuses) /\ Len(Created(q)) = Len(q)
  <1>1. named \in SUBSET Specs
    BY DEF Valid
  <1>2. q \in Seq(named) /\ MostUrgent(q, named)
    BY <1>1, RankedCorrect
  <1>3. q \in Seq(Valid(Specs))
    BY <1>2
  <1>4. Created(q) \in Seq(Statuses) /\ Len(Created(q)) = Len(q)
    <2>1. Len(q) \in Nat /\ DOMAIN q = 1..Len(q)
      BY <1>3
    <2>2. Created(q) = [i \in 1..Len(q) |-> "pending"]
      BY <2>1 DEF Created
    <2> QED
      BY <2>1, <2>2 DEF Statuses
  <1> QED
    BY <1>2, <1>3, <1>4

\* A session that returns leaves its variables empty.
LEMMA ReturnTypes ==
  ASSUME Types, NEW r \in Runs, Return(r)
  PROVE  /\ step' \in [Runs \cup Syncs -> Steps] /\ cancelled' \subseteq Runs
         /\ at' \in [Runs \cup Syncs -> Repos \cup {0}]
         /\ current' \in [Runs -> Heads \cup {"none"}]
         /\ differing' \in [Runs -> SUBSET Diffs]
         /\ batches' \in [Runs -> Seq(Seq(Diffs))]
         /\ nth' \in [Runs -> Nat]
         /\ found' \in [Runs -> SUBSET Valid(Specs)]
         /\ tasks' \in [Runs -> Seq(Valid(Specs))]
         /\ rows' \in [Runs -> Seq(Statuses)]
  BY SMTT(30) DEF Types, Return, Steps, Statuses

\* Storing a status keeps the rows.
LEMMA SetStatusTypes ==
  ASSUME Types, NEW r \in Runs, NEW status \in Statuses, SetStatus(r, status)
  PROVE  rows' \in [Runs -> Seq(Statuses)] /\ \A s \in Runs : Len(rows'[s]) = Len(rows[s])
  <1> DEFINE n == Len(rows[r])
             q == [rows[r] EXCEPT ![nth[r] + 1] = status]
  <1>1. n \in Nat /\ rows[r] \in [1..n -> Statuses]
    BY SMTT(30) DEF Types
  <1>2. q \in Seq(Statuses) /\ Len(q) = n
    <2> HIDE DEF n
    <2>1. q \in [1..n -> Statuses]
      BY <1>1
    <2> QED
      BY <1>1, <2>1
  <1> HIDE DEF q
  <1>3. rows' = rows \/ rows' = [rows EXCEPT ![r] = q]
    BY DEF SetStatus, q
  <1> QED
    BY <1>2, <1>3 DEF Types

LEMMA TypesInit == Init => Types
  BY NightlyConstantsOK DEF Init, Types, Heads, Steps, Statuses

LEMMA TypesStep ==
  ASSUME Types, \A r \in Runs : SessionOK(r), \A c \in Syncs : SyncOK(c), [Next]_vars
  PROVE  Types'
  <1>0. MaxStarts \in Nat
    BY NightlyConstantsOK
  <1>1. CASE UNCHANGED vars
    BY <1>1 DEF vars, Types
  <1>2. CASE Stop
    BY <1>2 DEF Stop, Types, lock, session
  <1>3. ASSUME NEW r \in Runs, StartAll(r) \/ StartOne(r) PROVE Types'
    <2>1. PICK repos \in Seq(Repos) : Begin(r, repos)
      <3>1. CASE StartAll(r)
        BY <3>1, NightlyConstantsOK DEF StartAll
      <3>2. CASE StartOne(r)
        <4>1. PICK p \in Named : Begin(r, <<p>>)
          BY <3>2 DEF StartOne
        <4>2. <<p>> \in Seq(Repos)
          BY <4>1, NightlyConstantsOK
        <4> QED
          BY <4>1, <4>2
      <3> QED
        BY <1>3, <3>1, <3>2
    <2>2. starts' \in 0..MaxStarts
      BY <1>0, <2>1 DEF Begin, Types
    <2>3. left' \in [Runs -> Seq(Repos)]
      BY <2>1 DEF Begin, Types
    <2> QED
      BY <2>1, <2>2, <2>3 DEF Begin, Types, lock, Steps
  <1>4. ASSUME NEW r \in Runs, RunStep(r) PROVE Types'
    <2>1. CASE NextSession(r)
      <3>1. Head(left[r]) \in Repos /\ Tail(left[r]) \in Seq(Repos)
        BY <2>1 DEF NextSession, Types
      <3> QED
        BY <2>1, <3>1 DEF NextSession, Types, lock, Steps
    <2>2. CASE RunEnds(r)
      BY <2>2 DEF RunEnds, Types, lock, session, Steps
    <2>3. CASE Refresh(r)
      BY <2>3 DEF Refresh, Types, lock, session, Steps, Heads
    <2>4. CASE RefreshFails(r) \/ Skip(r) \/ Stopped(r)
      BY <2>4, ReturnTypes DEF RefreshFails, Skip, Stopped, Types, lock
    <2>5. ASSUME NEW whole \in BOOLEAN, Diff(r, whole) PROVE Types'
      <3>1. PICK ds \in SUBSET Diffs : /\ differing' = [differing EXCEPT ![r] = ds]
                                      /\ batches' = [batches EXCEPT ![r] = Partition(ds)]
        BY <2>5 DEF Diff
      <3>2. Partition(ds) \in Seq(Seq(Diffs))
        BY PartitionCorrect
      <3>3. checkout[at[r]] \in Heads
        BY <2>5 DEF Diff, Types, SessionOK
      <3> QED
        BY <2>5, <3>1, <3>2, <3>3 DEF Diff, Types, lock, Steps
    <2>6. CASE LockForAnalysis(r)
      BY <2>6 DEF LockForAnalysis, Types, lock, session, Steps
    <2>7. CASE Identify(r)
      <3>1. current[r] \in Heads /\ at[r] \in Repos
        BY <2>7 DEF Identify, Types, SessionOK
      <3>2. readers' \in [Repos -> SUBSET Runs]
        BY <2>7 DEF Identify, Types
      <3>3. PICK named \in Analyzed(r) :
               IF named = {}
               THEN RecordBaseline(r) /\ Return(r)
               ELSE /\ found' = [found EXCEPT ![r] = named]
                    /\ \E kept \in OnePerKey(Deduplicate(named)) : \E q \in Ranked(kept) :
                          /\ tasks' = [tasks EXCEPT ![r] = q]
                          /\ rows' = [rows EXCEPT ![r] = Created(q)]
                    /\ step' = [step EXCEPT ![r] = "planning"]
                    /\ differing' = [differing EXCEPT ![r] = {}]
                    /\ batches' = [batches EXCEPT ![r] = <<>>]
                    /\ UNCHANGED <<baseline, cancelled, at, current, nth>>
        BY <2>7 DEF Identify
      <3>4. UNCHANGED <<checkout, writer, cli, active, left, starts>>
        BY <2>7 DEF Identify
      <3>5. CASE named = {}
        <4>1. baseline' \in [Repos -> Heads \cup {"old"}]
          BY <3>1, <3>3, <3>5 DEF RecordBaseline, Types
        <4> QED
          <5>1. Return(r)
            BY <3>3, <3>5
          <5>2. /\ step' \in [Runs \cup Syncs -> Steps] /\ cancelled' \subseteq Runs
                /\ at' \in [Runs \cup Syncs -> Repos \cup {0}]
                /\ current' \in [Runs -> Heads \cup {"none"}]
                /\ differing' \in [Runs -> SUBSET Diffs]
                /\ batches' \in [Runs -> Seq(Seq(Diffs))]
                /\ nth' \in [Runs -> Nat]
                /\ found' \in [Runs -> SUBSET Valid(Specs)]
                /\ tasks' \in [Runs -> Seq(Valid(Specs))]
                /\ rows' \in [Runs -> Seq(Statuses)]
            BY <5>1, ReturnTypes
          <5> QED
            BY <3>2, <3>4, <4>1, <5>2 DEF Types
      <3>6. CASE named # {}
        <4>0. PICK kept \in OnePerKey(Deduplicate(named)) : \E q \in Ranked(kept) :
                 /\ tasks' = [tasks EXCEPT ![r] = q]
                 /\ rows' = [rows EXCEPT ![r] = Created(q)]
          BY <3>3, <3>6
        <4>1. PICK q \in Ranked(kept) : /\ tasks' = [tasks EXCEPT ![r] = q]
                                       /\ rows' = [rows EXCEPT ![r] = Created(q)]
          BY <4>0
        <4>2. named \in SUBSET Valid(Specs) /\ IsFiniteSet(named)
          BY AnalyzedType
        <4>3. q \in Seq(Valid(Specs)) /\ Created(q) \in Seq(Statuses)
          BY <4>2, TasksType
        <4> QED
          <5>1. tasks' \in [Runs -> Seq(Valid(Specs))] /\ rows' \in [Runs -> Seq(Statuses)]
            BY <4>1, <4>3 DEF Types
          <5>2. found' \in [Runs -> SUBSET Valid(Specs)]
            BY <3>3, <3>6, <4>2, ZenonT(30) DEF Types
          <5>3. batches' \in [Runs -> Seq(Seq(Diffs))] /\ differing' \in [Runs -> SUBSET Diffs]
            <6>1. <<>> \in Seq(Seq(Diffs))
              OBVIOUS
            <6>2. batches \in [Runs -> Seq(Seq(Diffs))] /\ differing \in [Runs -> SUBSET Diffs]
              BY DEF Types
            <6> QED
              BY <3>3, <3>6, <6>1, <6>2
          <5>4. step' \in [Runs \cup Syncs -> Steps]
            BY <3>3, <3>6 DEF Types, Steps
          <5>5. UNCHANGED <<baseline, cancelled, at, current, nth>>
            BY <3>3, <3>6
          <5> QED
            BY <3>2, <3>4, <5>1, <5>2, <5>3, <5>4, <5>5 DEF Types
      <3> QED
        BY <3>5, <3>6
    <2>8. CASE Plan(r)
      BY <2>8 DEF Plan, Types, lock, Steps
    <2>9. CASE TakeUp(r)
      <3>1. nth' \in [Runs -> Nat] /\ step' \in [Runs \cup Syncs -> Steps]
        <4>1. nth \in [Runs -> Nat] /\ step \in [Runs \cup Syncs -> Steps] /\ nth[r] + 1 \in Nat
          BY SMTT(30) DEF Types
        <4> QED
          BY <2>9, <4>1 DEF TakeUp, Steps
      <3> QED
        BY <2>9, <3>1 DEF TakeUp, Types, lock
    <2>10. CASE Lock(r)
      <3>1. rows' \in [Runs -> Seq(Statuses)]
        BY <2>10, SetStatusTypes DEF Lock, Statuses
      <3> QED
        BY <2>10, <3>1 DEF Lock, Types, Steps
    <2>11. CASE BranchFails(r) \/ Exits(r)
      <3>1. rows' \in [Runs -> Seq(Statuses)]
        BY <2>11, SetStatusTypes DEF BranchFails, Exits, Statuses
      <3>2. nth' \in [Runs -> Nat] /\ step' \in [Runs \cup Syncs -> Steps]
        <4>1. nth \in [Runs -> Nat] /\ step \in [Runs \cup Syncs -> Steps] /\ nth[r] + 1 \in Nat
          BY SMTT(30) DEF Types
        <4> QED
          BY <2>11, <4>1 DEF BranchFails, Exits, TaskDone, Steps
      <3>3. writer' \in [Repos -> Runs \cup {None}] /\ cli' \in Runs \cup Syncs \cup {None}
        BY <2>11 DEF BranchFails, Exits, Types, lock
      <3> QED
        BY <2>11, <3>1, <3>2, <3>3 DEF BranchFails, Exits, Types, lock
    <2>12. CASE Agent(r)
      BY <2>12 DEF Agent, Types, lock, session, Steps, Heads
    <2>13. CASE AgentRefused(r)
      <3>1. nth' \in [Runs -> Nat] /\ step' \in [Runs \cup Syncs -> Steps]
        BY <2>13 DEF AgentRefused, TaskDone, Types, Steps
      <3> QED
        BY <2>13, <3>1 DEF AgentRefused, Types
    <2>14. CASE Finish(r)
      <3>1. current[r] \in Heads /\ at[r] \in Repos
        BY <2>14 DEF Finish, Types, SessionOK
      <3>2. baseline' \in [Repos -> Heads \cup {"old"}]
        BY <2>14, <3>1 DEF Finish, RecordBaseline, Types
      <3> QED
        BY <2>14, <3>2, ReturnTypes DEF Finish, Types, lock
    <2> QED
      BY <1>4, <2>1, <2>2, <2>3, <2>4, <2>5, <2>6, <2>7, <2>8, <2>9, <2>10, <2>11,
         <2>12, <2>13, <2>14 DEF RunStep
  <1>5. ASSUME NEW c \in Syncs, SyncRefresh(c) PROVE Types'
    BY <1>0, <1>5 DEF SyncRefresh, Types, lock, Steps, Heads
  <1>6. ASSUME NEW c \in Syncs, SyncSanitize(c) PROVE Types'
    BY <1>6 DEF SyncSanitize, Types, lock, session, Steps
  <1>7. ASSUME NEW c \in Syncs, SyncRecord(c) PROVE Types'
    <2>1. baseline' \in [Repos -> Heads \cup {"old"}]
      BY <1>7 DEF SyncRecord, Types, Heads
    <2> QED
      BY <1>7, <2>1 DEF SyncRecord, Types, lock, Steps
  <1> QED
    BY <1>1, <1>2, <1>3, <1>4, <1>5, <1>6, <1>7 DEF Next, SyncStep

-------------------------------------------------------------------------------
(* A step is of one goroutine.                                             *)

\* The others are where they were, with what they had.
Only(a) ==
    /\ \A b \in (Runs \cup Syncs) \ {a} : step'[b] = step[b] /\ at'[b] = at[b]
    /\ \A s \in Runs \ {a} :
          /\ current'[s] = current[s] /\ nth'[s] = nth[s]
          /\ tasks'[s] = tasks[s] /\ rows'[s] = rows[s] /\ found'[s] = found[s]
          /\ batches'[s] = batches[s] /\ differing'[s] = differing[s]
          /\ s \in cancelled' <=> s \in cancelled

LEMMA OnlyReturn ==
  ASSUME Types, NEW r \in Runs, Return(r)
  PROVE  Only(r)
  BY DEF Types, Return, Only

LEMMA OnlySetStatus ==
  ASSUME Types, NEW r \in Runs, NEW status, SetStatus(r, status)
  PROVE  \A s \in Runs \ {r} : rows'[s] = rows[s]
  BY DEF Types, SetStatus

LEMMA OnlyRun ==
  ASSUME Types, NEW r \in Runs, StartAll(r) \/ StartOne(r) \/ RunStep(r)
  PROVE  Only(r)
  <1>1. CASE StartAll(r) \/ StartOne(r)
    BY <1>1 DEF StartAll, StartOne, Begin, Types, Only
  <1>2. CASE NextSession(r)
    BY <1>2 DEF NextSession, Types, Only
  <1>3. CASE RunEnds(r) \/ Refresh(r) \/ LockForAnalysis(r) \/ Agent(r)
    BY <1>3 DEF RunEnds, Refresh, LockForAnalysis, Agent, session, Types, Only
  <1>4. CASE RefreshFails(r) \/ Skip(r) \/ Stopped(r) \/ Finish(r)
    BY <1>4, OnlyReturn DEF RefreshFails, Skip, Stopped, Finish
  <1>5. ASSUME NEW whole \in BOOLEAN, Diff(r, whole) PROVE Only(r)
    BY <1>5 DEF Diff, Types, Only
  <1>6. CASE Identify(r)
    <2>1. CASE Return(r)
      BY <2>1, OnlyReturn
    <2>2. CASE ~ Return(r)
      <3>1. PICK named, q :
               /\ found' = [found EXCEPT ![r] = named]
               /\ tasks' = [tasks EXCEPT ![r] = q]
               /\ rows' = [rows EXCEPT ![r] = Created(q)]
               /\ step' = [step EXCEPT ![r] = "planning"]
               /\ differing' = [differing EXCEPT ![r] = {}]
               /\ batches' = [batches EXCEPT ![r] = <<>>]
               /\ UNCHANGED <<baseline, cancelled, at, current, nth>>
        BY <1>6, <2>2 DEF Identify
      <3> QED
        BY <3>1 DEF Types, Only
    <2> QED
      BY <2>1, <2>2
  <1>7. CASE Plan(r)
    BY <1>7 DEF Plan, Types, Only
  <1>8. CASE TakeUp(r)
    BY <1>8 DEF TakeUp, Types, Only
  <1>9. CASE Lock(r)
    BY <1>9, OnlySetStatus DEF Lock, Types, Only
  <1>10. CASE BranchFails(r) \/ Exits(r)
    BY <1>10, OnlySetStatus DEF BranchFails, Exits, TaskDone, Types, Only
  <1>11. CASE AgentRefused(r)
    BY <1>11 DEF AgentRefused, TaskDone, Types, Only
  <1> QED
    BY <1>1, <1>2, <1>3, <1>4, <1>5, <1>6, <1>7, <1>8, <1>9, <1>10, <1>11 DEF RunStep

LEMMA OnlySync ==
  ASSUME Types, NEW c \in Syncs, SyncRefresh(c) \/ SyncStep(c)
  PROVE  Only(c) /\ UNCHANGED <<current, nth, tasks, rows, found, batches, differing, cancelled>>
  BY DEF SyncRefresh, SyncStep, SyncSanitize, SyncRecord, session, Types, Only

LEMMA OnlyNobody ==
  ASSUME Stop \/ UNCHANGED vars
  PROVE  UNCHANGED <<step, at, current, nth, tasks, rows, found, batches, differing,
                     writer, readers, cli>>
  BY DEF Stop, lock, session, vars

\* What a run's own variables decide stays as long as they do.
LEMMA SessionKept ==
  ASSUME NEW s \in Runs, SessionOK(s), step'[s] = step[s], at'[s] = at[s],
         current'[s] = current[s], nth'[s] = nth[s], tasks'[s] = tasks[s], rows'[s] = rows[s]
  PROVE  SessionOK(s)'
  BY DEF SessionOK

-------------------------------------------------------------------------------
(* Sessions.                                                               *)

LEMMA ReturnSession ==
  ASSUME Types, NEW r \in Runs, Return(r)
  PROVE  SessionOK(r)'
  BY DEF Return, Types, SessionOK, Working

LEMMA SessionStep ==
  ASSUME Types, NEW r \in Runs, SessionOK(r), StartAll(r) \/ StartOne(r) \/ RunStep(r)
  PROVE  SessionOK(r)'
  <1>0. 0 \notin Repos
    BY NightlyConstantsOK
  <1>00. Len(tasks[r]) \in Nat /\ Len(rows[r]) \in Nat /\ nth[r] \in Nat
    BY SMTT(30) DEF Types
  <1>1. CASE StartAll(r) \/ StartOne(r)
    BY <1>1 DEF StartAll, StartOne, Begin, Types, SessionOK, Working
  <1>2. CASE NextSession(r)
    <2>1. Head(left[r]) \in Repos
      BY <1>2 DEF NextSession, Types
    <2> QED
      BY <1>0, <1>2, <2>1 DEF NextSession, Types, SessionOK, Working
  <1>3. CASE RunEnds(r) \/ Refresh(r) \/ LockForAnalysis(r) \/ Agent(r)
    BY <1>3 DEF RunEnds, Refresh, LockForAnalysis, Agent, session, Types, SessionOK, Working
  <1>4. CASE RefreshFails(r) \/ Skip(r) \/ Stopped(r) \/ Finish(r)
    BY <1>4, ReturnSession DEF RefreshFails, Skip, Stopped, Finish
  <1>5. ASSUME NEW whole \in BOOLEAN, Diff(r, whole) PROVE SessionOK(r)'
    <2>1. checkout[at[r]] \in Heads
      BY <1>5 DEF Diff, SessionOK, Types
    <2> QED
      BY <1>5, <2>1, StepsDiffer DEF Diff, Types, SessionOK, Working
  <1>6. CASE Identify(r)
    <2>1. CASE Return(r)
      BY <2>1, ReturnSession
    <2>2. CASE ~ Return(r)
      <3>1. PICK named \in Analyzed(r) : named # {} /\
               \E kept \in OnePerKey(Deduplicate(named)) : \E q \in Ranked(kept) :
                 /\ tasks' = [tasks EXCEPT ![r] = q]
                 /\ rows' = [rows EXCEPT ![r] = Created(q)]
                 /\ step' = [step EXCEPT ![r] = "planning"]
                 /\ UNCHANGED <<baseline, cancelled, at, current, nth>>
        BY <1>6, <2>2 DEF Identify
      <3>2. PICK kept \in OnePerKey(Deduplicate(named)) : \E q \in Ranked(kept) :
                 /\ tasks' = [tasks EXCEPT ![r] = q]
                 /\ rows' = [rows EXCEPT ![r] = Created(q)]
                 /\ step' = [step EXCEPT ![r] = "planning"]
                 /\ UNCHANGED <<baseline, cancelled, at, current, nth>>
        BY <3>1
      <3>3. PICK q \in Ranked(kept) :
                 /\ tasks' = [tasks EXCEPT ![r] = q]
                 /\ rows' = [rows EXCEPT ![r] = Created(q)]
                 /\ step' = [step EXCEPT ![r] = "planning"]
                 /\ UNCHANGED <<baseline, cancelled, at, current, nth>>
        BY <3>2
      <3>4. Len(Created(q)) = Len(q) /\ Len(q) \in Nat
        BY <3>1, AnalyzedType, TasksType
      <3>5. step[r] = "asking" /\ nth[r] = 0 /\ at[r] # 0 /\ current[r] # "none"
        BY <1>6 DEF Identify, SessionOK, Working
      <3>6. tasks'[r] = q /\ rows'[r] = Created(q) /\ step'[r] = "planning"
            /\ nth'[r] = 0 /\ at'[r] # 0 /\ current'[r] # "none"
        BY <3>3, <3>5 DEF Types
      <3> QED
        BY <3>4, <3>6 DEF SessionOK, Working
    <2> QED
      BY <2>1, <2>2
  <1>7. CASE Plan(r)
    BY <1>7 DEF Plan, Types, SessionOK, Working
  <1>8. CASE TakeUp(r)
    <2>1. /\ step[r] = "task" /\ nth[r] < Len(tasks[r])
          /\ \/ nth'[r] = nth[r] + 1 /\ step'[r] = "task"
             \/ nth'[r] = nth[r] /\ step'[r] = "lock"
          /\ UNCHANGED <<at, current, tasks, rows>>
      BY <1>8 DEF TakeUp, HasTask, Types
    <2> QED
      BY <1>00, <2>1 DEF SessionOK, Working
  <1>9. CASE Lock(r)
    <2>1. Len(rows'[r]) = Len(rows[r])
      BY <1>9, SetStatusTypes DEF Lock, Statuses
    <2>2. step[r] = "lock" /\ step'[r] = "semaphore" /\ UNCHANGED <<at, current, tasks, nth>>
      BY <1>9 DEF Lock, Types
    <2> QED
      BY <1>00, <2>1, <2>2 DEF SessionOK, Working
  <1>10. CASE BranchFails(r) \/ Exits(r) \/ AgentRefused(r)
    <2>1. Len(rows'[r]) = Len(rows[r])
      <3>1. CASE BranchFails(r) \/ Exits(r)
        BY <3>1, SetStatusTypes DEF BranchFails, Exits, Statuses
      <3>2. CASE AgentRefused(r)
        BY <3>2 DEF AgentRefused
      <3> QED
        BY <1>10, <3>1, <3>2
    <2>2. /\ step[r] \in Working /\ step'[r] = "task" /\ nth'[r] = nth[r] + 1
          /\ UNCHANGED <<at, current, tasks>>
      BY <1>10 DEF BranchFails, Exits, AgentRefused, TaskDone, Types, Working
    <2> QED
      BY <1>00, <2>1, <2>2 DEF SessionOK, Working
  <1> QED
    BY <1>1, <1>2, <1>3, <1>4, <1>5, <1>6, <1>7, <1>8, <1>9, <1>10 DEF RunStep

LEMMA SyncStepOK ==
  ASSUME Types, NEW c \in Syncs, SyncOK(c), SyncRefresh(c) \/ SyncStep(c)
  PROVE  SyncOK(c)'
  <1>1. 0 \notin Repos
    BY NightlyConstantsOK
  <1> QED
    BY <1>1 DEF SyncRefresh, SyncStep, SyncSanitize, SyncRecord, session, Types, SyncOK

\* The steps, by whose they are.
LEMMA NextKinds ==
  ASSUME [Next]_vars
  PROVE  \/ \E r \in Runs : StartAll(r) \/ StartOne(r) \/ RunStep(r)
         \/ \E c \in Syncs : SyncRefresh(c) \/ SyncStep(c)
         \/ Stop \/ UNCHANGED vars
  BY DEF Next

LEMMA SessionsStep ==
  ASSUME Types, \A r \in Runs : SessionOK(r), \A c \in Syncs : SyncOK(c), [Next]_vars
  PROVE  (\A r \in Runs : SessionOK(r))' /\ (\A c \in Syncs : SyncOK(c))'
  <1>0. Runs \cap Syncs = {}
    BY NightlyConstantsOK
  <1>1. ASSUME NEW r \in Runs, StartAll(r) \/ StartOne(r) \/ RunStep(r)
        PROVE  (\A s \in Runs : SessionOK(s))' /\ (\A c \in Syncs : SyncOK(c))'
    <2>1. Only(r)
      BY <1>1, OnlyRun
    <2>2. SessionOK(r)'
      BY <1>1, SessionStep
    <2>3. ASSUME NEW s \in Runs, s # r PROVE SessionOK(s)'
      BY <2>1, <2>3, SessionKept DEF Only
    <2>4. ASSUME NEW c \in Syncs PROVE SyncOK(c)'
      BY <1>0, <2>1 DEF Only, SyncOK
    <2> QED
      BY <2>2, <2>3, <2>4
  <1>2. ASSUME NEW c \in Syncs, SyncRefresh(c) \/ SyncStep(c)
        PROVE  (\A s \in Runs : SessionOK(s))' /\ (\A d \in Syncs : SyncOK(d))'
    <2>1. Only(c) /\ UNCHANGED <<current, nth, tasks, rows>>
      BY <1>2, OnlySync
    <2>2. SyncOK(c)'
      BY <1>2, SyncStepOK
    <2>3. ASSUME NEW s \in Runs PROVE SessionOK(s)'
      BY <1>0, <2>1, SessionKept DEF Only
    <2>4. ASSUME NEW d \in Syncs, d # c PROVE SyncOK(d)'
      BY <2>1, <2>4 DEF Only, SyncOK
    <2> QED
      BY <2>2, <2>3, <2>4
  <1>3. CASE Stop \/ UNCHANGED vars
    <2>1. UNCHANGED <<step, at, current, nth, tasks, rows>>
      BY <1>3, OnlyNobody
    <2> QED
      BY <2>1, SessionKept DEF SyncOK
  <1> QED
    BY <1>1, <1>2, <1>3, NextKinds

-------------------------------------------------------------------------------
(* The lock and the agent.                                                 *)

\* Whether a goroutine writes or reads under the lock, or has the agent.
Writes(r, p) == at[r] = p /\ step[r] \in {"semaphore", "agent"}
Reads(r, p) == at[r] = p /\ step[r] = "asking"

\* A run's step and the lock: nothing changes, or the run takes the lock or gives
\* it back.
RunLocks(r) ==
    \/ /\ \A p \in Repos : (Writes(r, p)' <=> Writes(r, p)) /\ (Reads(r, p)' <=> Reads(r, p))
       /\ UNCHANGED <<writer, readers>>
    \/ /\ step[r] = "lock" /\ step'[r] = "semaphore" /\ at'[r] = at[r]
       /\ Free(at[r]) /\ writer' = [writer EXCEPT ![at[r]] = r]
       /\ UNCHANGED readers
    \/ /\ step[r] \in {"semaphore", "agent"} /\ step'[r] = "task" /\ at'[r] = at[r]
       /\ writer' = [writer EXCEPT ![at[r]] = None]
       /\ UNCHANGED readers
    \/ /\ step[r] = "analysis" /\ step'[r] = "asking" /\ at'[r] = at[r]
       /\ writer[at[r]] = None /\ readers' = [readers EXCEPT ![at[r]] = @ \cup {r}]
       /\ UNCHANGED writer
    \/ /\ step[r] = "asking" /\ step'[r] \in {"next", "planning"}
       /\ readers' = [readers EXCEPT ![at[r]] = @ \ {r}]
       /\ UNCHANGED writer

LEMMA LockKinds ==
  ASSUME Types, NEW r \in Runs, SessionOK(r), StartAll(r) \/ StartOne(r) \/ RunStep(r)
  PROVE  RunLocks(r)
  <1>1. ASSUME step[r] \notin {"semaphore", "agent", "asking"},
               step'[r] \notin {"semaphore", "agent", "asking"}, UNCHANGED <<writer, readers>>
        PROVE  RunLocks(r)
    BY <1>1 DEF RunLocks, Writes, Reads
  <1>2. CASE StartAll(r) \/ StartOne(r)
    BY <1>1, <1>2 DEF StartAll, StartOne, Begin, lock, Types
  <1>3. CASE NextSession(r) \/ RunEnds(r) \/ Refresh(r)
    BY <1>1, <1>3 DEF NextSession, RunEnds, Refresh, lock, Types
  <1>4. CASE RefreshFails(r) \/ Skip(r) \/ Stopped(r) \/ Finish(r)
    BY <1>1, <1>4 DEF RefreshFails, Skip, Stopped, Finish, Return, lock, Types
  <1>5. ASSUME NEW whole \in BOOLEAN, Diff(r, whole) PROVE RunLocks(r)
    BY <1>1, <1>5 DEF Diff, lock, Types
  <1>6. CASE LockForAnalysis(r)
    BY <1>6 DEF LockForAnalysis, RunLocks, session, Types
  <1>7. CASE Identify(r)
    <2>1. step'[r] \in {"next", "planning"}
      BY <1>7 DEF Identify, Return, Types
    <2> QED
      BY <1>7, <2>1 DEF Identify, RunLocks
  <1>8. CASE Plan(r) \/ TakeUp(r) \/ BranchFails(r)
    BY <1>1, <1>8 DEF Plan, TakeUp, BranchFails, TaskDone, lock, Types
  <1>9. CASE Lock(r)
    BY <1>9 DEF Lock, RunLocks, Types
  <1>10. CASE Agent(r)
    <2>1. step[r] = "semaphore" /\ step'[r] = "agent" /\ UNCHANGED <<at, writer, readers>>
      BY <1>10 DEF Agent, lock, session, Types
    <2> QED
      BY <2>1 DEF RunLocks, Writes, Reads
  <1>11. CASE AgentRefused(r) \/ Exits(r)
    BY <1>11 DEF AgentRefused, Exits, TaskDone, RunLocks, Types
  <1> QED
    BY <1>2, <1>3, <1>4, <1>5, <1>6, <1>7, <1>8, <1>9, <1>10, <1>11 DEF RunStep

LEMMA LocksInit == Init => WriterOK /\ ReadersOK /\ Exclusive /\ AgentOK
  BY NightlyConstantsOK DEF Init, WriterOK, ReadersOK, Exclusive, AgentOK

LEMMA LocksStep ==
  ASSUME NightlyInv, [Next]_vars
  PROVE  WriterOK' /\ ReadersOK'
  <1>0. Runs \cap Syncs = {} /\ None \notin Runs /\ 0 \notin Repos
    BY NightlyConstantsOK
  <1>00. /\ Types /\ \A r \in Runs : SessionOK(r)
         /\ \A r \in Runs, p \in Repos : writer[p] = r <=> Writes(r, p)
         /\ \A r \in Runs, p \in Repos : r \in readers[p] <=> Reads(r, p)
         /\ writer \in [Repos -> Runs \cup {None}] /\ readers \in [Repos -> SUBSET Runs]
    BY DEF NightlyInv, WriterOK, ReadersOK, Writes, Reads, Types
  <1> SUFFICES (\A r \in Runs, p \in Repos : /\ writer[p] = r <=> Writes(r, p)
                                             /\ r \in readers[p] <=> Reads(r, p))'
    BY DEF WriterOK, ReadersOK, Writes, Reads
  <1>1. ASSUME NEW r \in Runs, StartAll(r) \/ StartOne(r) \/ RunStep(r),
               NEW s \in Runs, NEW p \in Repos
        PROVE  (writer'[p] = s <=> Writes(s, p)') /\ (s \in readers'[p] <=> Reads(s, p)')
    <2>1. Only(r) /\ RunLocks(r)
      BY <1>00, <1>1, OnlyRun, LockKinds
    <2>2. at[r] \in Repos \/ at[r] = 0
      BY <1>00 DEF Types
    <2>3. s # r => (Writes(s, p)' <=> Writes(s, p)) /\ (Reads(s, p)' <=> Reads(s, p))
      BY <2>1 DEF Only, Writes, Reads
    <2>4. CASE /\ \A o \in Repos : (Writes(r, o)' <=> Writes(r, o)) /\ (Reads(r, o)' <=> Reads(r, o))
               /\ UNCHANGED <<writer, readers>>
      BY <1>00, <2>3, <2>4
    <2>5. CASE /\ step[r] = "lock" /\ step'[r] = "semaphore" /\ at'[r] = at[r]
               /\ Free(at[r]) /\ writer' = [writer EXCEPT ![at[r]] = r]
               /\ UNCHANGED readers
      BY <1>0, <1>00, <2>2, <2>3, <2>5 DEF Writes, Reads, Free
    <2>6. CASE /\ step[r] \in {"semaphore", "agent"} /\ step'[r] = "task" /\ at'[r] = at[r]
               /\ writer' = [writer EXCEPT ![at[r]] = None]
               /\ UNCHANGED readers
      BY <1>0, <1>00, <2>2, <2>3, <2>6 DEF Writes, Reads
    <2>7. CASE /\ step[r] = "analysis" /\ step'[r] = "asking" /\ at'[r] = at[r]
               /\ writer[at[r]] = None /\ readers' = [readers EXCEPT ![at[r]] = @ \cup {r}]
               /\ UNCHANGED writer
      BY <1>0, <1>00, <2>2, <2>3, <2>7 DEF Writes, Reads
    <2>8. CASE /\ step[r] = "asking" /\ step'[r] \in {"next", "planning"}
               /\ readers' = [readers EXCEPT ![at[r]] = @ \ {r}]
               /\ UNCHANGED writer
      BY <1>0, <1>00, <2>2, <2>3, <2>8 DEF Writes, Reads
    <2> QED
      BY <2>1, <2>4, <2>5, <2>6, <2>7, <2>8 DEF RunLocks
  <1>2. ASSUME NEW c \in Syncs, SyncRefresh(c) \/ SyncStep(c), NEW s \in Runs, NEW p \in Repos
        PROVE  (writer'[p] = s <=> Writes(s, p)') /\ (s \in readers'[p] <=> Reads(s, p)')
    <2>1. Only(c)
      BY <1>00, <1>2, OnlySync
    <2>2. UNCHANGED <<writer, readers>>
      BY <1>2 DEF SyncRefresh, SyncStep, SyncSanitize, SyncRecord, lock
    <2>3. at'[s] = at[s] /\ step'[s] = step[s]
      BY <1>0, <2>1 DEF Only
    <2> QED
      BY <1>00, <2>2, <2>3 DEF Writes, Reads
  <1>3. ASSUME Stop \/ UNCHANGED vars, NEW s \in Runs, NEW p \in Repos
        PROVE  (writer'[p] = s <=> Writes(s, p)') /\ (s \in readers'[p] <=> Reads(s, p)')
    <2>1. UNCHANGED <<writer, readers, step, at>>
      BY <1>3, OnlyNobody
    <2> QED
      BY <1>00, <2>1 DEF Writes, Reads
  <1> QED
    BY <1>1, <1>2, <1>3, NextKinds

LEMMA ExclusiveStep ==
  ASSUME NightlyInv, [Next]_vars
  PROVE  Exclusive'
  <1>00. /\ Types /\ \A r \in Runs : SessionOK(r)
         /\ \A p \in Repos : writer[p] # None => readers[p] = {}
         /\ writer \in [Repos -> Runs \cup {None}] /\ readers \in [Repos -> SUBSET Runs]
    BY DEF NightlyInv, Exclusive, Types
  <1>1. ASSUME NEW r \in Runs, StartAll(r) \/ StartOne(r) \/ RunStep(r) PROVE Exclusive'
    <2>1. RunLocks(r)
      BY <1>00, <1>1, LockKinds
    <2>2. CASE UNCHANGED <<writer, readers>>
      BY <1>00, <2>2 DEF Exclusive
    <2>3. CASE Free(at[r]) /\ writer' = [writer EXCEPT ![at[r]] = r] /\ UNCHANGED readers
      BY <1>00, <2>3 DEF Exclusive, Free
    <2>4. CASE writer' = [writer EXCEPT ![at[r]] = None] /\ UNCHANGED readers
      BY <1>00, <2>4 DEF Exclusive
    <2>5. CASE /\ writer[at[r]] = None /\ readers' = [readers EXCEPT ![at[r]] = @ \cup {r}]
               /\ UNCHANGED writer
      BY <1>00, <2>5 DEF Exclusive
    <2>6. CASE readers' = [readers EXCEPT ![at[r]] = @ \ {r}] /\ UNCHANGED writer
      BY <1>00, <2>6 DEF Exclusive
    <2> QED
      BY <2>1, <2>2, <2>3, <2>4, <2>5, <2>6 DEF RunLocks
  <1>2. ASSUME NEW c \in Syncs, SyncRefresh(c) \/ SyncStep(c) PROVE Exclusive'
    <2>1. UNCHANGED <<writer, readers>>
      BY <1>2 DEF SyncRefresh, SyncStep, SyncSanitize, SyncRecord, lock
    <2> QED
      BY <1>00, <2>1 DEF Exclusive
  <1>3. CASE Stop \/ UNCHANGED vars
    <2>1. UNCHANGED <<writer, readers>>
      BY <1>3, OnlyNobody
    <2> QED
      BY <1>00, <2>1 DEF Exclusive
  <1> QED
    BY <1>1, <1>2, <1>3, NextKinds

\* Who has the agent: nobody is given it while somebody has it.
LEMMA AgentStep ==
  ASSUME NightlyInv, [Next]_vars
  PROVE  AgentOK'
  <1>0. Runs \cap Syncs = {} /\ None \notin Runs \cup Syncs
    BY NightlyConstantsOK
  <1>00. Types /\ AgentOK
    BY DEF NightlyInv
  <1>1. ASSUME NEW a \in Runs \cup Syncs, Only(a), a \in Runs => RunStep(a) \/ StartAll(a) \/ StartOne(a),
               \/ (step[a] = "agent" <=> step'[a] = "agent") /\ UNCHANGED cli
               \/ cli = None /\ cli' = a /\ step'[a] = "agent"
               \/ step[a] = "agent" /\ cli' = None /\ step'[a] # "agent"
        PROVE  AgentOK'
    BY <1>0, <1>00, <1>1 DEF Only, AgentOK
  <1>2. ASSUME NEW r \in Runs, StartAll(r) \/ StartOne(r) \/ RunStep(r) PROVE AgentOK'
    <2>1. Only(r)
      BY <1>00, <1>2, OnlyRun
    <2>2. CASE Agent(r)
      BY <1>1, <1>2, <2>1, <2>2, <1>00 DEF Agent, Types
    <2>3. CASE Exits(r)
      BY <1>1, <1>2, <2>1, <2>3, <1>00 DEF Exits, TaskDone, Types
    <2>4. ASSUME ~ Agent(r), ~ Exits(r)
          PROVE  step[r] # "agent" /\ step'[r] # "agent" /\ UNCHANGED cli
      <3>1. CASE StartAll(r) \/ StartOne(r) \/ NextSession(r) \/ RunEnds(r) \/ Refresh(r)
        BY <1>00, <3>1 DEF StartAll, StartOne, Begin, NextSession, RunEnds, Refresh, Types
      <3>2. CASE RefreshFails(r) \/ Skip(r) \/ Stopped(r) \/ Finish(r)
        BY <1>00, <3>2 DEF RefreshFails, Skip, Stopped, Finish, Return, Types
      <3>3. CASE (\E whole \in BOOLEAN : Diff(r, whole)) \/ LockForAnalysis(r) \/ Plan(r)
        BY <1>00, <3>3 DEF Diff, LockForAnalysis, Plan, Types
      <3>4. CASE Identify(r)
        BY <1>00, <3>4 DEF Identify, Return, Types
      <3>5. CASE TakeUp(r) \/ Lock(r) \/ BranchFails(r) \/ AgentRefused(r)
        BY <1>00, <3>5 DEF TakeUp, Lock, BranchFails, AgentRefused, TaskDone, Types
      <3> QED
        BY <1>2, <2>4, <3>1, <3>2, <3>3, <3>4, <3>5 DEF RunStep
    <2> QED
      BY <1>1, <1>2, <2>1, <2>2, <2>3, <2>4
  <1>3. ASSUME NEW c \in Syncs, SyncRefresh(c) \/ SyncStep(c) PROVE AgentOK'
    <2>1. Only(c) /\ c \notin Runs
      BY <1>0, <1>00, <1>3, OnlySync
    <2>2. \/ (step[c] = "agent" <=> step'[c] = "agent") /\ UNCHANGED cli
          \/ cli = None /\ cli' = c /\ step'[c] = "agent"
          \/ step[c] = "agent" /\ cli' = None /\ step'[c] # "agent"
      BY <1>00, <1>3 DEF SyncRefresh, SyncStep, SyncSanitize, SyncRecord, Types
    <2> QED
      BY <1>1, <2>1, <2>2
  <1>4. CASE Stop \/ UNCHANGED vars
    BY <1>00, <1>4, OnlyNobody DEF AgentOK
  <1> QED
    BY <1>2, <1>3, <1>4, NextKinds

-------------------------------------------------------------------------------
(* The invariant, and the exclusion that follows from it.                  *)

LEMMA NightlyInvInit == Init => NightlyInv
  <1> SUFFICES ASSUME Init PROVE NightlyInv
    OBVIOUS
  <1>1. Types /\ WriterOK /\ ReadersOK /\ Exclusive /\ AgentOK
    BY TypesInit, LocksInit
  <1>2. \A r \in Runs : SessionOK(r)
    BY DEF Init, SessionOK, Working
  <1>3. \A c \in Syncs : SyncOK(c)
    BY DEF Init, SyncOK
  <1> QED
    BY <1>1, <1>2, <1>3 DEF NightlyInv

LEMMA NightlyInvStep == NightlyInv /\ [Next]_vars => NightlyInv'
  <1> SUFFICES ASSUME NightlyInv, [Next]_vars PROVE NightlyInv'
    OBVIOUS
  <1>1. Types' /\ (\A r \in Runs : SessionOK(r))' /\ (\A c \in Syncs : SyncOK(c))'
    BY TypesStep, SessionsStep DEF NightlyInv
  <1>2. WriterOK' /\ ReadersOK' /\ Exclusive' /\ AgentOK'
    BY LocksStep, ExclusiveStep, AgentStep
  <1> QED
    BY <1>1, <1>2 DEF NightlyInv

LEMMA NightlyInvariant == NightlySpec => []NightlyInv
  BY NightlyInvInit, NightlyInvStep, PTL DEF NightlySpec

\* NightlyTypeOK: types, and what the lock of a worktree is held for.
THEOREM NightlyTypesCorrect == NightlySpec => []NightlyTypeOK
  BY NightlyInvariant, NightlyInvTypes, PTL

\* AgentAlone: while a run's agent works in a worktree, no other run executes a task
\* there or analyses under the read lock, and no other goroutine runs the agent.
THEOREM AgentWorksAlone == NightlySpec => []AgentAlone
  <1>1. NightlyInv => AgentAlone
    <2> SUFFICES ASSUME NightlyInv, NEW r \in Runs, step[r] = "agent"
                 PROVE  /\ cli = r
                        /\ \A a \in (Runs \cup Syncs) \ {r} : step[a] # "agent"
                        /\ \A s \in Runs \ {r} :
                              at[s] = at[r] => step[s] \notin {"semaphore", "asking"}
      BY DEF AgentAlone
    <2>1. cli = r
      BY DEF NightlyInv, AgentOK
    <2>2. ASSUME NEW a \in (Runs \cup Syncs) \ {r} PROVE step[a] # "agent"
      BY <2>1 DEF NightlyInv, AgentOK
    <2>3. at[r] \in Repos
      BY DEF NightlyInv, Types, SessionOK
    <2>4. writer[at[r]] = r
      BY <2>3 DEF NightlyInv, WriterOK
    <2>5. readers[at[r]] = {}
      BY <2>3, <2>4, NightlyConstantsOK DEF NightlyInv, Exclusive
    <2>6. ASSUME NEW s \in Runs \ {r}, at[s] = at[r]
          PROVE  step[s] \notin {"semaphore", "asking"}
      <3>1. step[s] # "semaphore"
        BY <2>3, <2>4, <2>6 DEF NightlyInv, WriterOK
      <3>2. step[s] # "asking"
        BY <2>3, <2>5, <2>6 DEF NightlyInv, ReadersOK
      <3> QED
        BY <3>1, <3>2
    <2> QED
      BY <2>1, <2>2, <2>6
  <1> QED
    BY <1>1, NightlyInvariant, PTL

-------------------------------------------------------------------------------
(* What a session analyses and plans.                                      *)

\* What a session has: its batches while it analyses, its answers and tasks when
\* it plans, and its tasks done as far as it is, unless it was stopped.
WorkOK(r) ==
    /\ step[r] \in {"analysis", "asking"} => Partitioned(batches[r], differing[r])
    /\ step[r] = "planning" => MostUrgent(tasks[r], found[r])
    /\ step[r] \in {"task"} \cup Working /\ r \notin cancelled =>
          \A i \in 1..nth[r] : tasks[r][i] \in Elsewhere \/ rows[r][i] = "ended"

LEMMA WorkKept ==
  ASSUME NEW s \in Runs, WorkOK(s), step'[s] = step[s], nth'[s] = nth[s],
         tasks'[s] = tasks[s], rows'[s] = rows[s], found'[s] = found[s],
         batches'[s] = batches[s], differing'[s] = differing[s],
         s \in cancelled => s \in cancelled'
  PROVE  WorkOK(s)'
  BY DEF WorkOK

\* A task that is done is the next one.
LEMMA HandledMore ==
  ASSUME Types, NEW r \in Runs, SessionOK(r), WorkOK(r), step[r] \in {"task"} \cup Working,
         r \notin cancelled, nth[r] < Len(tasks[r]),
         UNCHANGED tasks, nth'[r] = nth[r] + 1,
         \/ tasks[r][nth[r] + 1] \in Elsewhere /\ UNCHANGED rows
         \/ SetStatus(r, "ended")
  PROVE  \A i \in 1..nth'[r] : tasks'[r][i] \in Elsewhere \/ rows'[r][i] = "ended"
  <1>1. nth[r] \in Nat /\ Len(rows[r]) \in Nat /\ Len(tasks[r]) \in Nat
        /\ DOMAIN rows[r] = 1..Len(rows[r])
    BY SMTT(30) DEF Types
  <1>2. \A i \in 1..nth[r] : tasks[r][i] \in Elsewhere \/ rows[r][i] = "ended"
    BY DEF WorkOK
  <1>3. CASE tasks[r][nth[r] + 1] \in Elsewhere /\ UNCHANGED rows
    BY <1>1, <1>2, <1>3
  <1>4. CASE SetStatus(r, "ended")
    <2>1. rows'[r] = [rows[r] EXCEPT ![nth[r] + 1] = "ended"]
      BY <1>4 DEF SetStatus, Types
    <2>2. \A i \in 1..Len(rows[r]) :
             rows'[r][i] = IF i = nth[r] + 1 THEN "ended" ELSE rows[r][i]
      BY <1>1, <2>1
    <2>3. Len(rows[r]) = Len(tasks[r])
      BY DEF SessionOK
    <2> QED
      BY <1>1, <1>2, <2>2, <2>3
  <1> QED
    BY <1>3, <1>4

LEMMA WorkStep ==
  ASSUME Types, NEW r \in Runs, SessionOK(r), WorkOK(r), StartAll(r) \/ StartOne(r) \/ RunStep(r)
  PROVE  WorkOK(r)'
  <1>0. nth[r] \in Nat /\ Len(tasks[r]) \in Nat
    BY DEF Types
  <1>1. ASSUME step'[r] \in {"idle", "next", "check", "diff"} PROVE WorkOK(r)'
    BY <1>1 DEF WorkOK, Working
  <1>2. CASE StartAll(r) \/ StartOne(r) \/ NextSession(r) \/ RunEnds(r) \/ Refresh(r)
    BY <1>1, <1>2 DEF StartAll, StartOne, Begin, NextSession, RunEnds, Refresh, Types
  <1>3. CASE RefreshFails(r) \/ Skip(r) \/ Stopped(r) \/ Finish(r)
    BY <1>1, <1>3 DEF RefreshFails, Skip, Stopped, Finish, Return, Types
  <1>4. ASSUME NEW whole \in BOOLEAN, Diff(r, whole) PROVE WorkOK(r)'
    <2>1. PICK ds \in SUBSET Diffs : /\ differing' = [differing EXCEPT ![r] = ds]
                                    /\ batches' = [batches EXCEPT ![r] = Partition(ds)]
      BY <1>4 DEF Diff
    <2>2. differing'[r] = ds /\ batches'[r] = Partition(ds) /\ step'[r] = "analysis"
      BY <1>4, <2>1 DEF Diff, Types
    <2>3. Partitioned(Partition(ds), ds)
      BY PartitionCorrect
    <2> QED
      BY <2>2, <2>3 DEF WorkOK, Working
  <1>5. CASE LockForAnalysis(r)
    <2>1. step[r] = "analysis" /\ step'[r] = "asking" /\ UNCHANGED <<batches, differing>>
      BY <1>5 DEF LockForAnalysis, session, Types
    <2> QED
      BY <2>1 DEF WorkOK, Working
  <1>6. CASE Identify(r)
    <2>1. CASE Return(r)
      BY <1>1, <2>1 DEF Return, Types
    <2>2. CASE ~ Return(r)
      <3>1. PICK named \in Analyzed(r) :
               /\ found' = [found EXCEPT ![r] = named]
               /\ \E kept \in OnePerKey(Deduplicate(named)) : \E q \in Ranked(kept) :
                     tasks' = [tasks EXCEPT ![r] = q]
               /\ step' = [step EXCEPT ![r] = "planning"]
        BY <1>6, <2>2 DEF Identify
      <3>2. PICK kept \in OnePerKey(Deduplicate(named)) : \E q \in Ranked(kept) :
               tasks' = [tasks EXCEPT ![r] = q]
        BY <3>1
      <3>3. PICK q \in Ranked(kept) : tasks' = [tasks EXCEPT ![r] = q]
        BY <3>2
      <3>4. MostUrgent(q, named)
        BY <3>1, AnalyzedType, TasksType
      <3>5. tasks'[r] = q /\ found'[r] = named /\ step'[r] = "planning"
        BY <3>1, <3>3 DEF Types
      <3> QED
        BY <3>4, <3>5 DEF WorkOK, Working
    <2> QED
      BY <2>1, <2>2
  <1>7. CASE Plan(r)
    <2>1. nth'[r] = 0 /\ step'[r] = "task"
      BY <1>7 DEF Plan, SessionOK, Working, Types
    <2> QED
      BY <2>1 DEF WorkOK, Working
  <1>8. CASE TakeUp(r)
    <2>1. step[r] = "task" /\ r \notin cancelled /\ nth[r] < Len(tasks[r])
          /\ UNCHANGED <<tasks, rows, cancelled>>
      BY <1>8 DEF TakeUp, HasTask
    <2>2. CASE Task(r) \in Elsewhere
      <3>1. nth'[r] = nth[r] + 1 /\ step'[r] = "task" /\ tasks[r][nth[r] + 1] \in Elsewhere
        BY <1>8, <2>1, <2>2 DEF TakeUp, Task, Types
      <3>2. \A i \in 1..nth'[r] : tasks'[r][i] \in Elsewhere \/ rows'[r][i] = "ended"
        BY <2>1, <3>1, HandledMore
      <3> QED
        BY <3>1, <3>2 DEF WorkOK
    <2>3. CASE Task(r) \notin Elsewhere
      <3>1. nth'[r] = nth[r] /\ step'[r] = "lock"
        BY <1>8, <2>3 DEF TakeUp, Types
      <3> QED
        BY <2>1, <3>1 DEF WorkOK, Working
    <2> QED
      BY <2>2, <2>3
  <1>9. CASE Lock(r)
    <2>1. step[r] = "lock" /\ step'[r] = "semaphore" /\ UNCHANGED <<tasks, nth, cancelled>>
      BY <1>9 DEF Lock, Types
    <2>2. ASSUME r \notin cancelled, NEW i \in 1..nth[r]
          PROVE  tasks[r][i] \in Elsewhere \/ rows'[r][i] = "ended"
      <3>1. rows'[r] = [rows[r] EXCEPT ![nth[r] + 1] = "running"]
        BY <1>9, <2>2 DEF Lock, SetStatus, Types
      <3>2. i # nth[r] + 1 /\ (tasks[r][i] \in Elsewhere \/ rows[r][i] = "ended")
        BY <1>0, <2>1, <2>2 DEF WorkOK, Working
      <3>3. i \in DOMAIN rows[r]
        <4>1. Len(rows[r]) = Len(tasks[r]) /\ nth[r] <= Len(tasks[r]) /\ DOMAIN rows[r] = 1..Len(rows[r])
          BY DEF SessionOK, Types
        <4> QED
          BY <1>0, <4>1
      <3> QED
        BY <3>1, <3>2, <3>3
    <2> QED
      BY <2>1, <2>2 DEF WorkOK, Working
  <1>10. CASE Agent(r)
    <2>1. step[r] = "semaphore" /\ step'[r] = "agent" /\ UNCHANGED <<nth, tasks, rows, cancelled>>
      BY <1>10 DEF Agent, session, Types
    <2> QED
      BY <2>1 DEF WorkOK, Working
  <1>11. CASE BranchFails(r) \/ Exits(r)
    <2>1. step[r] \in Working /\ step'[r] = "task" /\ nth'[r] = nth[r] + 1
          /\ UNCHANGED <<tasks, cancelled>> /\ SetStatus(r, "ended")
      BY <1>11 DEF BranchFails, Exits, TaskDone, Working, Types
    <2>2. nth[r] < Len(tasks[r])
      BY <2>1 DEF SessionOK
    <2>3. r \notin cancelled =>
             \A i \in 1..nth'[r] : tasks'[r][i] \in Elsewhere \/ rows'[r][i] = "ended"
      BY <2>1, <2>2, HandledMore
    <2> QED
      BY <2>1, <2>3 DEF WorkOK
  <1>12. CASE AgentRefused(r)
    <2>1. r \in cancelled' /\ step'[r] = "task"
      BY <1>12 DEF AgentRefused, TaskDone, Types
    <2> QED
      BY <2>1 DEF WorkOK
  <1> QED
    BY <1>2, <1>3, <1>4, <1>5, <1>6, <1>7, <1>8, <1>9, <1>10, <1>11, <1>12 DEF RunStep

WorkInv == NightlyInv /\ \A r \in Runs : WorkOK(r)

LEMMA WorkInvStep == WorkInv /\ [Next]_vars => WorkInv'
  <1> SUFFICES ASSUME WorkInv, [Next]_vars PROVE WorkInv'
    OBVIOUS
  <1>0. Runs \cap Syncs = {} /\ cancelled \subseteq Runs
    BY NightlyConstantsOK DEF WorkInv, NightlyInv, Types
  <1>00. Types /\ (\A r \in Runs : SessionOK(r)) /\ (\A r \in Runs : WorkOK(r))
    BY DEF WorkInv, NightlyInv
  <1>1. NightlyInv'
    BY NightlyInvStep DEF WorkInv
  <1>2. ASSUME NEW r \in Runs, StartAll(r) \/ StartOne(r) \/ RunStep(r), NEW s \in Runs
        PROVE  WorkOK(s)'
    <2>1. CASE s = r
      BY <1>00, <1>2, <2>1, WorkStep
    <2>2. CASE s # r
      <3>1. Only(r)
        BY <1>00, <1>2, OnlyRun
      <3> QED
        BY <1>00, <2>2, <3>1, WorkKept DEF Only
    <2> QED
      BY <2>1, <2>2
  <1>3. ASSUME NEW c \in Syncs, SyncRefresh(c) \/ SyncStep(c), NEW s \in Runs
        PROVE  WorkOK(s)'
    <2>1. Only(c) /\ UNCHANGED <<nth, tasks, rows, found, batches, differing, cancelled>>
      BY <1>00, <1>3, OnlySync
    <2>2. step'[s] = step[s]
      BY <1>0, <2>1 DEF Only
    <2> QED
      BY <1>00, <2>1, <2>2, WorkKept
  <1>4. ASSUME Stop \/ UNCHANGED vars, NEW s \in Runs PROVE WorkOK(s)'
    <2>1. UNCHANGED <<step, nth, tasks, rows, found, batches, differing>>
      BY <1>4, OnlyNobody
    <2>2. cancelled \subseteq cancelled'
      BY <1>4 DEF Stop, vars
    <2> QED
      BY <1>00, <2>1, <2>2, WorkKept
  <1>5. \A s \in Runs : WorkOK(s)'
    BY <1>2, <1>3, <1>4, NextKinds
  <1> QED
    BY <1>1, <1>5 DEF WorkInv

LEMMA WorkInvariant == NightlySpec => []WorkInv
  <1>1. Init => WorkInv
    BY NightlyInvInit DEF Init, WorkInv, WorkOK, Working
  <1> QED
    BY <1>1, WorkInvStep, PTL DEF NightlySpec

\* BatchesPartition: while a session analyses, its batches have every diff once, fit
\* the context window, are packed greedily and have focus files first.
THEOREM BatchesArePartition == NightlySpec => []BatchesPartition
  <1>1. WorkInv => BatchesPartition
    BY DEF WorkInv, WorkOK, BatchesPartition
  <1> QED
    BY <1>1, WorkInvariant, PTL

\* MostUrgentFirst: the tasks of a session are the most urgent of what the model
\* named, one per file and type.
THEOREM TasksAreMostUrgent == NightlySpec => []MostUrgentFirst
  <1>1. WorkInv => MostUrgentFirst
    BY DEF WorkInv, WorkOK, MostUrgentFirst
  <1> QED
    BY <1>1, WorkInvariant, PTL

-------------------------------------------------------------------------------
(* What a step may do.                                                     *)

\* HandledBeforeRecorded: a session records a commit only when each of its tasks
\* for the agent has ended with a status of its own.
THEOREM RecordedWhenHandled == NightlySpec => HandledBeforeRecorded
  <1> DEFINE Handled(r) == \A i \in DOMAIN rows[r] : tasks[r][i] \in Elsewhere \/ rows[r][i] = "ended"
  <1>1. ASSUME WorkInv, [Next]_vars, NEW r \in Runs, NEW p \in Repos,
               baseline'[p] # baseline[p], at[r] = p, at'[r] = 0
        PROVE  Handled(r)
    <2>0. 0 \notin Repos /\ Runs \cap Syncs = {}
      BY NightlyConstantsOK
    <2>00. Types /\ SessionOK(r) /\ WorkOK(r)
      BY <1>1 DEF WorkInv, NightlyInv
    <2>1. at'[r] # at[r]
      BY <1>1, <2>0
    <2>2. PICK s \in Runs : StartAll(s) \/ StartOne(s) \/ RunStep(s)
      <3>1. ASSUME NEW c \in Syncs, SyncRefresh(c) \/ SyncStep(c) PROVE FALSE
        <4>1. Only(c)
          BY <2>00, <3>1, OnlySync
        <4> QED
          BY <2>0, <2>1, <4>1 DEF Only
      <3>2. ~ (Stop \/ UNCHANGED vars)
        BY <2>1, OnlyNobody
      <3> QED
        BY <1>1, <3>1, <3>2, NextKinds
    <2>3. s = r
      <3>1. Only(s)
        BY <2>00, <2>2, OnlyRun
      <3> QED
        BY <2>1, <3>1 DEF Only
    <2>4. baseline' # baseline
      BY <1>1
    <2>5. Identify(r) \/ Finish(r)
      <3>1. ~ (StartAll(r) \/ StartOne(r) \/ NextSession(r) \/ RunEnds(r) \/ Refresh(r)
               \/ RefreshFails(r) \/ Skip(r))
        BY <2>4 DEF StartAll, StartOne, Begin, NextSession, RunEnds, Refresh, RefreshFails, Skip
      <3>2. ~ ((\E whole \in BOOLEAN : Diff(r, whole)) \/ LockForAnalysis(r) \/ Plan(r)
               \/ Stopped(r) \/ TakeUp(r) \/ Lock(r))
        BY <2>4 DEF Diff, LockForAnalysis, Plan, Stopped, TakeUp, Lock
      <3>3. ~ (BranchFails(r) \/ Agent(r) \/ AgentRefused(r) \/ Exits(r))
        BY <2>4 DEF BranchFails, Agent, AgentRefused, Exits
      <3> QED
        BY <2>2, <2>3, <3>1, <3>2, <3>3 DEF RunStep
    <2>6. Len(rows[r]) = Len(tasks[r]) /\ DOMAIN rows[r] = 1..Len(rows[r])
      BY <2>00 DEF SessionOK, Types
    <2>7. CASE Identify(r)
      <3>1. step[r] = "asking"
        BY <2>7 DEF Identify
      <3>2. tasks[r] = <<>> /\ Len(<<>>) = 0
        BY <2>00, <3>1 DEF SessionOK, Working
      <3> QED
        BY <2>6, <3>2
    <2>8. CASE Finish(r)
      <3>1. step[r] = "task" /\ ~ (nth[r] < Len(tasks[r])) /\ r \notin cancelled
        BY <2>4, <2>8 DEF Finish, HasTask, RecordBaseline
      <3>2. nth[r] = Len(tasks[r])
        BY <2>00, <3>1 DEF SessionOK, Types
      <3> QED
        BY <2>00, <2>6, <3>1, <3>2 DEF WorkOK
    <2> QED
      BY <2>5, <2>7, <2>8
  <1>2. WorkInv /\ [Next]_vars =>
           [\A r \in Runs, p \in Repos :
               (baseline'[p] # baseline[p] /\ at[r] = p /\ at'[r] = 0) =>
                 \A i \in DOMAIN rows[r] : tasks[r][i] \in Elsewhere \/ rows[r][i] = "ended"]_vars
    BY <1>1
  <1> QED
    BY <1>2, WorkInvariant, PTL DEF NightlySpec, HandledBeforeRecorded

\* StoppedStartsNothing: a session that was stopped starts no agent any more.
THEOREM StoppedStartsNoAgent == NightlySpec => StoppedStartsNothing
  <1>1. ASSUME NightlyInv, [Next]_vars, NEW r \in cancelled, step[r] # "agent"
        PROVE  step'[r] # "agent"
    <2>0. Runs \cap Syncs = {} /\ r \in Runs
      BY <1>1, NightlyConstantsOK DEF NightlyInv, Types
    <2>00. Types
      BY <1>1 DEF NightlyInv
    <2>1. ASSUME NEW s \in Runs, StartAll(s) \/ StartOne(s) \/ RunStep(s) PROVE step'[r] # "agent"
      <3>1. CASE s # r
        <4>1. Only(s)
          BY <2>00, <2>1, OnlyRun
        <4> QED
          BY <1>1, <2>0, <3>1, <4>1 DEF Only
      <3>2. CASE s = r
        <4>1. CASE StartAll(r) \/ StartOne(r) \/ NextSession(r) \/ RunEnds(r) \/ Refresh(r)
          BY <2>00, <2>0, <4>1 DEF StartAll, StartOne, Begin, NextSession, RunEnds, Refresh, Types
        <4>2. CASE RefreshFails(r) \/ Skip(r) \/ Stopped(r) \/ Finish(r)
          BY <2>00, <2>0, <4>2 DEF RefreshFails, Skip, Stopped, Finish, Return, Types
        <4>3. CASE (\E whole \in BOOLEAN : Diff(r, whole)) \/ LockForAnalysis(r) \/ Plan(r)
          BY <2>00, <2>0, <4>3 DEF Diff, LockForAnalysis, Plan, Types
        <4>4. CASE Identify(r)
          BY <2>00, <2>0, <4>4 DEF Identify, Return, Types
        <4>5. CASE TakeUp(r) \/ Lock(r) \/ BranchFails(r) \/ AgentRefused(r) \/ Exits(r)
          BY <1>1, <2>00, <2>0, <4>5
             DEF TakeUp, Lock, BranchFails, AgentRefused, Exits, TaskDone, Types
        <4>6. ~ Agent(r)
          BY <1>1 DEF Agent
        <4> QED
          BY <2>1, <3>2, <4>1, <4>2, <4>3, <4>4, <4>5, <4>6 DEF RunStep
      <3> QED
        BY <3>1, <3>2
    <2>2. ASSUME NEW c \in Syncs, SyncRefresh(c) \/ SyncStep(c) PROVE step'[r] # "agent"
      <3>1. Only(c)
        BY <2>00, <2>2, OnlySync
      <3> QED
        BY <1>1, <2>0, <3>1 DEF Only
    <2>3. CASE Stop \/ UNCHANGED vars
      BY <1>1, <2>3, OnlyNobody
    <2> QED
      BY <1>1, <2>1, <2>2, <2>3, NextKinds
  <1>2. NightlyInv /\ [Next]_vars =>
           [\A r \in cancelled : step[r] # "agent" => step'[r] # "agent"]_vars
    BY <1>1
  <1> QED
    BY <1>2, NightlyInvariant, PTL DEF NightlySpec, StoppedStartsNothing
===============================================================================
