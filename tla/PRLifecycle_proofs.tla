-------------------------- MODULE PRLifecycle_proofs --------------------------
(***************************************************************************)
(* Proofs about PRLifecycle, for any numbers of workers, PRs and pushes.   *)
(***************************************************************************)
EXTENDS PRLifecycle, TLAPS

USE DEF Outcomes

\* The events: pushes, and reports of a PR with its outcome.
LEMMA EventShape ==
    ASSUME NEW e \in Events
    PROVE  /\ e.kind \in {"push"} \cup Outcomes
           /\ e.kind \in Outcomes => e.n \in PRs /\ e = Report(e.n, e.kind)
           /\ e.kind = "push" => e \in {Push(i) : i \in Pushes}
BY PRConstantsOK DEF PRConstantsOK, Push, Report

LEMMA EventsExist ==
    /\ \A n \in PRs, s \in Outcomes : Report(n, s) \in Events
    /\ \A i \in Pushes : Push(i) \in Events
BY PRConstantsOK DEF PRConstantsOK

-------------------------------------------------------------------------------
(* Types.  A worker that marks a row handles the report of that PR.        *)

Marking == \A w \in Workers : step[w] = "mark" =>
    /\ handling[w] \in Events
    /\ handling[w].kind \in Outcomes
    /\ handling[w].n = arg[w]
Opening == \A p \in Openers : step[p] \in {"announce", "save"} => arg[p] \in PRs

Steps == {"idle", "execute", "create", "announce", "save", "link", "mark", "done"}

Typed == TypeOK /\ Marking /\ Opening

LEMMA TypedInit == Init => Typed
BY PRConstantsOK, QueueConstantsOK
   DEF PRConstantsOK, QueueConstantsOK, Init, QueueInit, Typed, TypeOK, QueueTypeOK, Marking, Opening,
       Stages, Openers, PRs

\* The queue and the workers keep their types when an event is delivered.
LEMMA EnqueueTyped ==
    ASSUME Typed, NEW e \in wire, Enqueue(e)
    PROVE  QueueTypeOK' /\ handling' = handling
<1>1. e \in Events /\ queue \in Seq(Events) /\ Len(queue) \in Nat /\ Capacity \in Nat
  BY QueueConstantsOK DEF QueueConstantsOK, Typed, TypeOK, QueueTypeOK
<1>2. CASE stage # "closed" /\ Len(queue) < Capacity
  <2>1. queue' = Append(queue, e) /\ UNCHANGED <<handling, gone, stage, refused>>
    BY <1>2 DEF Enqueue
  <2>2. queue' \in Seq(Events) /\ Len(queue') = Len(queue) + 1
    BY <1>1, <2>1
  <2>3. QED
    BY <1>1, <1>2, <2>1, <2>2 DEF Typed, TypeOK, QueueTypeOK
<1>3. CASE ~(stage # "closed" /\ Len(queue) < Capacity)
  BY <1>1, <1>3 DEF Enqueue, Typed, TypeOK, QueueTypeOK
<1>4. QED
  BY <1>2, <1>3

LEMMA ReturnTyped ==
    ASSUME Typed, NEW p \in Openers, Return(p)
    PROVE  /\ QueueTypeOK'
           /\ step' \in [Openers -> Steps]
           /\ arg' \in [Openers -> 0..MaxPRs]
           /\ Marking' /\ Opening'
<1>1. MaxPRs \in Nat /\ Nightly \notin Workers
  BY PRConstantsOK DEF PRConstantsOK
<1>2. /\ step \in [Openers -> Steps]
      /\ arg \in [Openers -> 0..MaxPRs]
      /\ handling \in [Workers -> Events \cup {None}]
  BY DEF Typed, TypeOK, QueueTypeOK, Steps
<1>3. arg' = [arg EXCEPT ![p] = 0] /\ arg' \in [Openers -> 0..MaxPRs]
  BY <1>1, <1>2 DEF Return
<1>4. \E s \in {"idle", "done"} : step' = [step EXCEPT ![p] = s]
  BY DEF Return, Goto
<1>5. step' \in [Openers -> Steps]
  BY <1>2, <1>4 DEF Steps
<1>6. QueueTypeOK' /\ \A w \in Workers : w # p => handling'[w] = handling[w]
  <2>1. CASE p \in Workers
    BY <1>1, <1>2, <2>1 DEF Return, Finish, Typed, TypeOK, QueueTypeOK
  <2>2. CASE p = Nightly
    BY <1>1, <2>2 DEF Return, Typed, TypeOK, QueueTypeOK, queueVars
  <2>3. QED
    BY <2>1, <2>2 DEF Openers
<1>7. \A q \in Openers : q # p => step'[q] = step[q] /\ arg'[q] = arg[q]
  BY <1>2, <1>3, <1>4
<1>8. step'[p] \in {"idle", "done"}
  BY <1>2, <1>4
<1>9. Marking'
  BY <1>6, <1>7, <1>8 DEF Marking, Typed, Openers
<1>10. Opening'
  BY <1>7, <1>8 DEF Opening, Typed
<1>11. QED
  BY <1>3, <1>5, <1>6, <1>9, <1>10

\* Going on to a step other than the marking and the opening ones.
LEMMA GotoTyped ==
    ASSUME Typed, NEW p \in Openers, NEW s \in {"execute", "create", "link"},
           Goto(p, s), UNCHANGED <<queueVars, arg>>
    PROVE  /\ QueueTypeOK'
           /\ step' \in [Openers -> Steps]
           /\ arg' \in [Openers -> 0..MaxPRs]
           /\ Marking' /\ Opening'
<1>1. step \in [Openers -> Steps] /\ step' = [step EXCEPT ![p] = s]
  BY DEF Typed, TypeOK, Goto, Steps
<1>2. step' \in [Openers -> Steps]
  BY <1>1 DEF Steps
<1>3. UNCHANGED <<queue, handling, gone, refused, stage, arg>>
  BY DEF queueVars
<1>4. QueueTypeOK' /\ arg' \in [Openers -> 0..MaxPRs]
  BY <1>3 DEF Typed, TypeOK, QueueTypeOK
<1>5. Marking' /\ Opening'
  BY <1>1, <1>3 DEF Typed, Marking, Opening, Openers
<1>6. QED
  BY <1>2, <1>4, <1>5

LEMMA TypedNext == Typed /\ [Next]_vars => Typed'
<1> SUFFICES ASSUME Typed, [Next]_vars PROVE Typed'
  OBVIOUS
<1> USE DEF discord, openers
<1>a. /\ MaxPRs \in Nat /\ MaxPushes \in Nat /\ Nightly \notin Workers
      /\ Workers \subseteq Openers /\ Nightly \in Openers
  BY PRConstantsOK DEF PRConstantsOK, Openers
<1>1. CASE PushBranch
  <2>1. wire' \subseteq Events /\ pushed' \in 0..MaxPushes
    <3>1. pushed + 1 \in Pushes
      BY <1>1, <1>a DEF PushBranch, Typed, TypeOK, Pushes
    <3>2. QED
      BY <1>1, <1>a, <3>1, EventsExist DEF PushBranch, Typed, TypeOK, Pushes
  <2>2. QED
    BY <1>1, <2>1 DEF PushBranch, Typed, TypeOK, QueueTypeOK, queueVars, Marking, Opening
<1>2. ASSUME NEW n \in PRs, ResolveInForgejo(n) PROVE Typed'
  BY <1>2, EventsExist
     DEF ResolveInForgejo, Settle, Typed, TypeOK, QueueTypeOK, queueVars, Marking, Opening
<1>3. ASSUME NEW e \in wire, Deliver(e) PROVE Typed'
  <2>1. QueueTypeOK' /\ handling' = handling
    BY <1>3, EnqueueTyped DEF Deliver
  <2>2. QED
    BY <1>3, <2>1 DEF Deliver, Typed, TypeOK, Marking, Opening
<1>4. CASE StartTask
  <2>1. QueueTypeOK' /\ step' \in [Openers -> Steps] /\ arg' \in [Openers -> 0..MaxPRs]
        /\ Marking' /\ Opening'
    BY <1>4, <1>a, GotoTyped, ReturnTyped DEF StartTask
  <2>2. QED
    BY <1>4, <2>1 DEF StartTask, SetTask, Typed, TypeOK, Steps
<1>5. CASE EndTask
  <2>1. QueueTypeOK' /\ step' \in [Openers -> Steps] /\ arg' \in [Openers -> 0..MaxPRs]
        /\ Marking' /\ Opening'
    BY <1>5, <1>a, GotoTyped, ReturnTyped DEF EndTask
  <2>2. QED
    BY <1>5, <2>1 DEF EndTask, SetTask, Typed, TypeOK, Steps
<1>6. ASSUME NEW w \in Workers, ReadTask(w) PROVE Typed'
  <2>1. QueueTypeOK' /\ step' \in [Openers -> Steps] /\ arg' \in [Openers -> 0..MaxPRs]
        /\ Marking' /\ Opening'
    BY <1>6, <1>a, GotoTyped, ReturnTyped DEF ReadTask
  <2>2. QED
    BY <1>6, <2>1 DEF ReadTask, Typed, TypeOK, Steps
<1>7. ASSUME NEW p \in Openers, CreatePR(p) PROVE Typed'
  <2>1. CASE Return(p) /\ UNCHANGED forge
    <3>1. QueueTypeOK' /\ step' \in [Openers -> Steps] /\ arg' \in [Openers -> 0..MaxPRs]
          /\ Marking' /\ Opening'
      BY <2>1, ReturnTyped
    <3>2. QED
      BY <1>7, <2>1, <3>1 DEF CreatePR, Typed, TypeOK, Steps
  <2>2. ASSUME NEW n \in PRs, forge' = [forge EXCEPT ![n] = "open"],
               arg' = [arg EXCEPT ![p] = n], Goto(p, "announce"), UNCHANGED queueVars
        PROVE Typed'
    <3>1. step' = [step EXCEPT ![p] = "announce"] /\ step \in [Openers -> Steps]
          /\ arg \in [Openers -> 0..MaxPRs] /\ n \in 0..MaxPRs
      BY <2>2, <1>a DEF Goto, Typed, TypeOK, Steps, PRs
    <3>2. step' \in [Openers -> Steps] /\ arg' \in [Openers -> 0..MaxPRs]
      BY <2>2, <3>1 DEF Steps
    <3>3. Marking'
      BY <2>2, <3>1, <1>a DEF Typed, Marking, queueVars
    <3>4. Opening'
      BY <2>2, <3>1 DEF Typed, Opening
    <3>5. QED
      BY <1>7, <2>2, <3>2, <3>3, <3>4 DEF CreatePR, Typed, TypeOK, QueueTypeOK, queueVars, Steps
  <2>3. QED
    BY <1>7, <2>1, <2>2 DEF CreatePR
<1>8. ASSUME NEW p \in Openers, PostPRNotification(p) PROVE Typed'
  <2>1. step' = [step EXCEPT ![p] = "save"] /\ step \in [Openers -> Steps] /\ arg[p] \in PRs
    BY <1>8 DEF PostPRNotification, Goto, Typed, TypeOK, Opening, Steps
  <2>2. step' \in [Openers -> Steps]
    BY <2>1 DEF Steps
  <2>3. Marking' /\ Opening'
    BY <1>8, <1>a, <2>1 DEF PostPRNotification, Typed, Marking, Opening, queueVars
  <2>4. announced' \subseteq PRs
    BY <1>8, <2>1 DEF PostPRNotification, Typed, TypeOK
  <2>5. QueueTypeOK'
    BY <1>8 DEF PostPRNotification, Typed, TypeOK, QueueTypeOK, queueVars
  <2>6. QED
    BY <1>8, <2>2, <2>3, <2>4, <2>5 DEF PostPRNotification, Typed, TypeOK, Steps
<1>9. ASSUME NEW p \in Openers, SavePR(p) PROVE Typed'
  <2>1. QueueTypeOK' /\ step' \in [Openers -> Steps] /\ arg' \in [Openers -> 0..MaxPRs]
        /\ Marking' /\ Opening'
    BY <1>9, GotoTyped, ReturnTyped DEF SavePR
  <2>2. row' \in [PRs -> {"none", "open"} \cup Outcomes]
    BY <1>9 DEF SavePR, Typed, TypeOK
  <2>3. QED
    BY <1>9, <2>1, <2>2 DEF SavePR, Typed, TypeOK, Steps
<1>10. ASSUME NEW p \in Openers, SetPRNumber(p) PROVE Typed'
  <2>1. QueueTypeOK' /\ step' \in [Openers -> Steps] /\ arg' \in [Openers -> 0..MaxPRs]
        /\ Marking' /\ Opening'
    BY <1>10, ReturnTyped DEF SetPRNumber
  <2>2. QED
    BY <1>10, <2>1 DEF SetPRNumber, SetTask, Typed, TypeOK, Steps
<1>11. ASSUME NEW w \in Workers, ReadRow(w) PROVE Typed'
  <2>1. handling[w] \in Events /\ handling[w].kind \in Outcomes /\ handling[w].n \in PRs
    <3>1. PICK n \in PRs, s \in Outcomes : handling[w] = Report(n, s)
      BY <1>11 DEF ReadRow
    <3>2. handling[w].kind = s /\ handling[w].n = n
      BY <3>1 DEF Report
    <3>3. QED
      BY <3>1, <3>2, EventsExist
  <2>2. CASE Return(w)
    <3>1. QueueTypeOK' /\ step' \in [Openers -> Steps] /\ arg' \in [Openers -> 0..MaxPRs]
          /\ Marking' /\ Opening'
      BY <2>2, <1>a, ReturnTyped
    <3>2. synced' \subseteq PRs
      BY <1>11, <2>1 DEF ReadRow, StartSync, Typed, TypeOK
    <3>3. QED
      BY <1>11, <3>1, <3>2 DEF ReadRow, Typed, TypeOK, Steps
  <2>3. CASE /\ Goto(w, "mark")
             /\ arg' = [arg EXCEPT ![w] = handling[w].n]
             /\ UNCHANGED <<queueVars, synced>>
    <3>1. step' = [step EXCEPT ![w] = "mark"] /\ step \in [Openers -> Steps]
          /\ arg \in [Openers -> 0..MaxPRs] /\ handling[w].n \in 0..MaxPRs /\ w \in Openers
      BY <2>1, <2>3, <1>a DEF Goto, Typed, TypeOK, Steps, PRs
    <3>2. step' \in [Openers -> Steps] /\ arg' \in [Openers -> 0..MaxPRs]
      BY <2>3, <3>1 DEF Steps
    <3>3. Marking'
      BY <2>1, <2>3, <3>1, <1>a DEF Typed, Marking, queueVars
    <3>4. Opening'
      BY <2>3, <3>1 DEF Typed, Opening
    <3>5. QED
      BY <1>11, <2>3, <3>2, <3>3, <3>4 DEF ReadRow, Typed, TypeOK, QueueTypeOK, queueVars, Steps
  <2>4. QED
    BY <1>11, <2>2, <2>3 DEF ReadRow
<1>12. ASSUME NEW w \in Workers, MarkReported(w) PROVE Typed'
  <2>1. QueueTypeOK' /\ step' \in [Openers -> Steps] /\ arg' \in [Openers -> 0..MaxPRs]
        /\ Marking' /\ Opening'
    BY <1>12, <1>a, ReturnTyped DEF MarkReported
  <2>2. handling[w].kind \in Outcomes /\ handling[w].n \in PRs
    BY <1>12, EventShape DEF MarkReported, Typed, Marking
  <2>3. row' \in [PRs -> {"none", "open"} \cup Outcomes] /\ synced' \subseteq PRs
    BY <1>12, <2>2 DEF MarkReported, StartSync, Typed, TypeOK
  <2>4. QED
    BY <1>12, <2>1, <2>3 DEF MarkReported, Typed, TypeOK, Steps
<1>13. ASSUME NEW n \in PRs, ReactApprove(n) \/ ReactClose(n) PROVE Typed'
  BY <1>13, ZenonT(30) DEF ReactApprove, ReactClose, React, Typed, TypeOK, QueueTypeOK, queueVars, Marking, Opening
<1>14. ASSUME NEW n \in PRs, MergePR(n) PROVE Typed'
  BY <1>14, EventsExist, SMTT(30)
     DEF MergePR, Settle, Typed, TypeOK, QueueTypeOK, queueVars, Marking, Opening
<1>15. ASSUME NEW n \in PRs, ClosePR(n) PROVE Typed'
  <2>1. wire' \subseteq Events /\ forge' \in [PRs -> {"none", "open"} \cup Outcomes]
    BY <1>15, EventsExist DEF ClosePR, Settle, Typed, TypeOK
  <2>2. closing' \in [PRs -> {"idle", "close", "mark"}]
    BY <1>15 DEF ClosePR, Typed, TypeOK
  <2>3. QED
    BY <1>15, <2>1, <2>2
       DEF ClosePR, Typed, TypeOK, QueueTypeOK, queueVars, Marking, Opening
<1>16. ASSUME NEW n \in PRs, MarkMerged(n) \/ MarkClosed(n) PROVE Typed'
  BY <1>16, ZenonT(30) DEF MarkMerged, MarkClosed, Typed, TypeOK, QueueTypeOK, queueVars, Marking, Opening
<1>17. ASSUME NEW w \in Workers, Receive(w), QueueStep PROVE Typed'
  <2>1. /\ queue \in Seq(Events) /\ queue # <<>> /\ Capacity \in Nat /\ Len(queue) <= Capacity
        /\ step[w] \in Steps
    BY <1>17, <1>a, QueueConstantsOK
       DEF QueueConstantsOK, Receive, Typed, TypeOK, QueueTypeOK, Steps
  <2>2. Head(queue) \in Events /\ Tail(queue) \in Seq(Events) /\ Len(Tail(queue)) <= Capacity
    BY <2>1
  <2>3. QueueTypeOK'
    BY <1>17, <2>2 DEF Receive, Typed, TypeOK, QueueTypeOK
  <2>4. step[w] # "mark"
    BY <1>17, QueueConstantsOK DEF QueueConstantsOK, Receive, Idle, Typed, Marking
  <2>5. Marking'
    BY <1>17, <2>4 DEF Receive, QueueStep, Typed, TypeOK, QueueTypeOK, Marking
  <2>6. QED
    BY <1>17, <2>3, <2>5 DEF QueueStep, Typed, TypeOK, Opening
<1>18. ASSUME QueueStep, (\E w \in Workers : Leave(w)) \/ Shutdown PROVE Typed'
  BY <1>18 DEF QueueStep, Leave, Shutdown, Typed, TypeOK, QueueTypeOK, Stages, Marking, Opening
<1>19. CASE Exit \/ UNCHANGED vars
  BY <1>19 DEF Exit, vars, Typed, TypeOK, QueueTypeOK, Marking, Opening
<1>20. QED
  <2>1. CASE \E w \in Workers : Work(w)
    BY <2>1, <1>6, <1>7, <1>8, <1>9, <1>10, <1>11, <1>12, <1>a DEF Work, Open
  <2>2. CASE Task
    BY <2>2, <1>4, <1>5, <1>7, <1>8, <1>9, <1>10, <1>a DEF Task, Open
  <2>3. CASE \E n \in PRs : ResolveInForgejo(n) \/ ReactApprove(n) \/ ReactClose(n) \/ Handle(n)
    BY <2>3, <1>2, <1>13, <1>14, <1>15, <1>16 DEF Handle
  <2>4. CASE QueueStep
    BY <2>4, <1>17, <1>18 DEF QueueStep
  <2>5. QED
    BY <2>1, <2>2, <2>3, <2>4, <1>1, <1>3, <1>19 DEF Next

\* Every variable keeps its type, and the queue its capacity (the channel of
\* queue.go and the columns of sentinel_prs and tasks).
THEOREM PRTypeCorrect == Spec => []TypeOK
<1>1. Spec => []Typed
  BY TypedInit, TypedNext, PTL DEF Spec
<1>2. Typed => TypeOK
  BY DEF Typed
<1>3. QED
  BY <1>1, <1>2, PTL

-------------------------------------------------------------------------------
(* Agreement of rows and Forgejo.  It is not inductive as it stands: what  *)
(* a handler writes was decided by an event or by an answer of Forgejo in  *)
(* an earlier step, so these have to be truthful, too.                     *)

Truthful(e) == e.kind \in Outcomes => forge[e.n] = e.kind

Reports ==
    /\ \A e \in wire : Truthful(e)
    /\ \A i \in 1..Len(queue) : Truthful(queue[i])
    /\ \A w \in Workers : handling[w] \in Events => Truthful(handling[w])

Decided == \A n \in PRs :
    /\ approving[n] = "mark" => forge[n] = "merged" \/ n \in declined
    /\ closing[n] = "mark" => forge[n] = "closed"

\* A PR has no row until its one opener saves it.
Fresh ==
    /\ \A p \in Openers : step[p] \in {"announce", "save"} =>
         forge[arg[p]] # "none" /\ row[arg[p]] = "none"
    /\ \A p, q \in Openers :
         step[p] \in {"announce", "save"} /\ step[q] \in {"announce", "save"} /\ p # q =>
           arg[p] # arg[q]
    /\ \A n \in PRs : row[n] # "none" => forge[n] # "none"
    /\ \A n \in PRs : approving[n] # "idle" \/ closing[n] # "idle" => row[n] # "none"
    /\ \A w \in Workers : step[w] = "mark" => row[arg[w]] # "none"

Agreement == Reports /\ Decided /\ Fresh /\ ClosedAgrees /\ MergedUnlessDeclined

\* The step that handlers take leaves the events of the other workers alone.
LEMMA ReturnKeeps ==
    ASSUME Typed, NEW p \in Openers, Return(p)
    PROVE  /\ queue' = queue
           /\ \A w \in Workers : handling'[w] \in {handling[w], None}
           /\ \A q \in Openers : q # p => step'[q] = step[q] /\ arg'[q] = arg[q]
           /\ step'[p] \in {"idle", "done"}
<1>1. /\ step \in [Openers -> Steps]
      /\ arg \in [Openers -> 0..MaxPRs]
      /\ handling \in [Workers -> Events \cup {None}]
  BY DEF Typed, TypeOK, QueueTypeOK, Steps
<1>2. queue' = queue /\ \A w \in Workers : handling'[w] \in {handling[w], None}
  BY <1>1 DEF Return, Finish, queueVars
<1>3. \E s \in {"idle", "done"} : step' = [step EXCEPT ![p] = s]
  BY DEF Return, Goto
<1>4. arg' = [arg EXCEPT ![p] = 0]
  BY DEF Return
<1>5. QED
  BY <1>1, <1>2, <1>3, <1>4

\* How far a step can take the PRs: no status is forgotten, and a final state
\* in Forgejo stays.
Onward == \A n \in PRs :
    /\ forge[n] \in Outcomes => forge'[n] = forge[n]
    /\ forge[n] # "none" => forge'[n] # "none"
    /\ row[n] # "none" => row'[n] # "none"
    /\ n \in declined => n \in declined'

LEMMA StepsOnward == Typed /\ Agreement /\ [Next]_vars => Onward
<1> SUFFICES ASSUME Typed, Agreement, [Next]_vars PROVE Onward
  OBVIOUS
<1> USE DEF discord, openers
<1>1. /\ forge \in [PRs -> {"none", "open"} \cup Outcomes]
      /\ row \in [PRs -> {"none", "open"} \cup Outcomes]
      /\ \A w \in Workers : step[w] = "mark" => handling[w].kind \in Outcomes
  BY DEF Typed, TypeOK, Marking
<1>2. CASE UNCHANGED <<forge, row, declined>>
  BY <1>2 DEF Onward
<1>3. ASSUME NEW n \in PRs, ResolveInForgejo(n) \/ MergePR(n) \/ ClosePR(n) PROVE Onward
  BY <1>1, <1>3 DEF ResolveInForgejo, MergePR, ClosePR, Settle, Onward
<1>4. ASSUME NEW n \in PRs, MarkMerged(n) \/ MarkClosed(n) PROVE Onward
  BY <1>1, <1>4 DEF MarkMerged, MarkClosed, Onward
<1>5. ASSUME NEW p \in Openers, CreatePR(p) PROVE Onward
  BY <1>1, <1>5 DEF CreatePR, Onward
<1>6. ASSUME NEW p \in Openers, SavePR(p) PROVE Onward
  BY <1>1, <1>6 DEF SavePR, Onward
<1>7. ASSUME NEW w \in Workers, MarkReported(w) PROVE Onward
  BY <1>1, <1>7 DEF MarkReported, Onward
<1>8. Workers \subseteq Openers /\ Nightly \in Openers
  BY DEF Openers
<1>9. CASE \E w \in Workers : Work(w)
  <2>1. PICK w \in Workers : Work(w)
    BY <1>9
  <2>2. CASE ReadTask(w) \/ ReadRow(w) \/ PostPRNotification(w) \/ SetPRNumber(w)
    BY <1>2, <2>2 DEF ReadTask, ReadRow, PostPRNotification, SetPRNumber
  <2>3. QED
    BY <2>1, <2>2, <1>5, <1>6, <1>7, <1>8 DEF Work, Open
<1>10. CASE Task
  <2>1. CASE StartTask \/ EndTask \/ PostPRNotification(Nightly) \/ SetPRNumber(Nightly)
    BY <1>2, <2>1 DEF StartTask, EndTask, PostPRNotification, SetPRNumber
  <2>2. QED
    BY <1>10, <2>1, <1>5, <1>6, <1>8 DEF Task, Open
<1>11. CASE \E n \in PRs : ResolveInForgejo(n) \/ ReactApprove(n) \/ ReactClose(n) \/ Handle(n)
  <2>1. PICK n \in PRs : ResolveInForgejo(n) \/ ReactApprove(n) \/ ReactClose(n) \/ Handle(n)
    BY <1>11
  <2>2. CASE ReactApprove(n) \/ ReactClose(n)
    BY <1>2, <2>2 DEF ReactApprove, ReactClose, React
  <2>3. QED
    BY <2>1, <2>2, <1>3, <1>4 DEF Handle
<1>12. CASE PushBranch \/ (\E e \in wire : Deliver(e)) \/ QueueStep \/ Exit \/ UNCHANGED vars
  BY <1>2, <1>12 DEF PushBranch, Deliver, QueueStep, Exit, vars
<1>13. QED
  BY <1>9, <1>10, <1>11, <1>12 DEF Next

LEMMA TruthStays ==
    ASSUME Typed, Onward, NEW e \in Events, Truthful(e)
    PROVE  forge'[e.n] = e.kind \/ e.kind \notin Outcomes
BY EventShape DEF Truthful, Onward

\* Only a step of Forgejo or of a handler that asks it adds an event, and the
\* event says what the step did.
LEMMA WireTruthful ==
    ASSUME Typed, [Next]_vars, NEW e \in wire', e \notin wire
    PROVE  e.kind \in Outcomes => forge'[e.n] = e.kind
<1> USE DEF discord, openers
<1>1. ASSUME NEW n \in PRs, NEW s \in Outcomes, Settle(n, s) PROVE e.kind \in Outcomes => forge'[e.n] = e.kind
  <2>1. e = Report(n, s)
    BY <1>1 DEF Settle
  <2>2. forge'[n] = s
    BY <1>1 DEF Settle, Typed, TypeOK
  <2>3. QED
    BY <2>1, <2>2 DEF Report
<1>2. CASE PushBranch
  BY <1>2 DEF PushBranch, Push
<1>3. ASSUME NEW n \in PRs, ResolveInForgejo(n) \/ MergePR(n) \/ ClosePR(n)
      PROVE  e.kind \in Outcomes => forge'[e.n] = e.kind
  BY <1>1, <1>3 DEF ResolveInForgejo, MergePR, ClosePR
<1>4. CASE UNCHANGED wire \/ \E f \in wire : Deliver(f)
  BY <1>4 DEF Deliver
<1>5. ASSUME NEW p \in Openers, Open(p) PROVE UNCHANGED wire
  BY <1>5 DEF Open, CreatePR, PostPRNotification, SavePR, SetPRNumber
<1>6. ASSUME NEW w \in Workers, Work(w) PROVE UNCHANGED wire
  BY <1>5, <1>6 DEF Work, ReadTask, ReadRow, MarkReported, Openers
<1>7. CASE Task
  BY <1>5, <1>7 DEF Task, StartTask, EndTask, Openers
<1>8. ASSUME NEW n \in PRs, ReactApprove(n) \/ ReactClose(n) \/ MarkMerged(n) \/ MarkClosed(n)
      PROVE  UNCHANGED wire
  BY <1>8 DEF ReactApprove, ReactClose, React, MarkMerged, MarkClosed
<1>9. CASE QueueStep \/ Exit \/ UNCHANGED vars
  BY <1>9 DEF QueueStep, Exit, vars
<1>10. QED
  BY <1>2, <1>3, <1>4, <1>6, <1>7, <1>8, <1>9 DEF Next, Handle

\* An event moves from the wire to the queue and from there to a worker.
LEMMA EventsMove ==
    ASSUME Typed, [Next]_vars
    PROVE  /\ \A i \in 1..Len(queue') :
                queue'[i] \in wire \/ \E j \in 1..Len(queue) : queue'[i] = queue[j]
           /\ \A w \in Workers : handling'[w] \in Events =>
                handling'[w] = handling[w] \/ \E j \in 1..Len(queue) : handling'[w] = queue[j]
<1> USE DEF discord, openers
<1> DEFINE Moves == /\ \A i \in 1..Len(queue') :
                         queue'[i] \in wire \/ \E j \in 1..Len(queue) : queue'[i] = queue[j]
                    /\ \A w \in Workers : handling'[w] \in Events =>
                         handling'[w] = handling[w] \/ \E j \in 1..Len(queue) : handling'[w] = queue[j]
<1>0. /\ queue \in Seq(Events) /\ handling \in [Workers -> Events \cup {None}] /\ None \notin Events
      /\ Workers \subseteq Openers /\ Nightly \in Openers
  BY QueueConstantsOK DEF QueueConstantsOK, Typed, TypeOK, QueueTypeOK, Openers
<1>1. CASE UNCHANGED <<queue, handling>>
  BY <1>1
<1>2. ASSUME NEW p \in Openers, Return(p) PROVE Moves
  BY <1>0, <1>2, ReturnKeeps
<1>3. ASSUME NEW e \in wire, Deliver(e) PROVE Moves
  <2>1. CASE queue' = Append(queue, e) /\ handling' = handling
    <3>1. Len(queue') = Len(queue) + 1 /\ Len(queue) \in Nat
      BY <1>0, <2>1
    <3>2. \A i \in 1..Len(queue') : queue'[i] = IF i = Len(queue) + 1 THEN e ELSE queue[i]
      BY <1>0, <2>1
    <3>3. \A i \in 1..Len(queue') : i # Len(queue) + 1 => i \in 1..Len(queue)
      BY <3>1
    <3>4. QED
      BY <2>1, <3>2, <3>3
  <2>2. QED
    BY <1>1, <1>3, <2>1 DEF Deliver, Enqueue
<1>4. ASSUME NEW w \in Workers, Receive(w) PROVE Moves
  <2>1. queue # <<>> /\ Len(queue) \in Nat /\ Len(queue) > 0 /\ Head(queue) = queue[1]
    BY <1>0, <1>4 DEF Receive
  <2>2. Len(queue') = Len(queue) - 1 /\ \A i \in 1..Len(queue') : queue'[i] = queue[i + 1]
    BY <1>0, <1>4, <2>1 DEF Receive
  <2>3. \A i \in 1..Len(queue') : i + 1 \in 1..Len(queue)
    BY <2>1, <2>2
  <2>4. handling'[w] = queue[1] /\ 1 \in 1..Len(queue)
    BY <1>0, <1>4, <2>1 DEF Receive
  <2>5. \A v \in Workers : v # w => handling'[v] = handling[v]
    BY <1>0, <1>4 DEF Receive
  <2>6. QED
    BY <2>2, <2>3, <2>4, <2>5
<1>5. ASSUME NEW p \in Openers, Open(p) PROVE Moves
  BY <1>1, <1>2, <1>5 DEF Open, CreatePR, PostPRNotification, SavePR, SetPRNumber, queueVars
<1>6. ASSUME NEW w \in Workers, Work(w) PROVE Moves
  BY <1>0, <1>1, <1>2, <1>5, <1>6 DEF Work, ReadTask, ReadRow, MarkReported, queueVars
<1>7. CASE Task
  BY <1>0, <1>1, <1>2, <1>5, <1>7 DEF Task, StartTask, EndTask, queueVars
<1>8. ASSUME NEW n \in PRs, ResolveInForgejo(n) \/ ReactApprove(n) \/ ReactClose(n) \/ Handle(n) PROVE Moves
  BY <1>1, <1>8 DEF ResolveInForgejo, ReactApprove, ReactClose, React, Handle, MergePR, MarkMerged,
                    ClosePR, MarkClosed, queueVars
<1>9. CASE QueueStep
  BY <1>1, <1>4, <1>9 DEF QueueStep, Leave, Shutdown
<1>10. CASE PushBranch \/ Exit \/ UNCHANGED vars
  BY <1>1, <1>10 DEF PushBranch, Exit, vars, queueVars
<1>11. QED
  BY <1>3, <1>6, <1>7, <1>8, <1>9, <1>10 DEF Next

LEMMA ReportsNext == Typed /\ Typed' /\ Agreement /\ [Next]_vars => Reports'
<1> SUFFICES ASSUME Typed, Typed', Agreement, [Next]_vars PROVE Reports'
  OBVIOUS
<1> DEFINE After(e) == e.kind \in Outcomes => forge'[e.n] = e.kind
<1>1. Onward
  BY StepsOnward
<1>2. wire \subseteq Events /\ queue \in Seq(Events) /\ handling \in [Workers -> Events \cup {None}]
  BY DEF Typed, TypeOK, QueueTypeOK
<1>3. \A e \in wire : After(e)
  BY <1>1, <1>2, TruthStays DEF Agreement, Reports
<1>4. \A j \in 1..Len(queue) : After(queue[j])
  BY <1>1, <1>2, TruthStays DEF Agreement, Reports
<1>5. \A w \in Workers : handling[w] \in Events => After(handling[w])
  BY <1>1, <1>2, TruthStays DEF Agreement, Reports
<1>6. \A e \in wire' : After(e)
  BY <1>3, WireTruthful
<1>7. \A i \in 1..Len(queue') : After(queue'[i])
  BY <1>3, <1>4, EventsMove
<1>8. \A w \in Workers : handling'[w] \in Events => After(handling'[w])
  <2>1. TAKE w \in Workers
  <2>2. HAVE handling'[w] \in Events
  <2>3. CASE handling'[w] = handling[w]
    BY <1>5, <2>2, <2>3
  <2>4. CASE \E j \in 1..Len(queue) : handling'[w] = queue[j]
    BY <1>4, <2>4
  <2>5. QED
    BY <2>2, <2>3, <2>4, EventsMove
<1>9. QED
  BY <1>6, <1>7, <1>8 DEF Reports, Truthful

LEMMA DecidedNext == Typed /\ Agreement /\ [Next]_vars => Decided'
<1> SUFFICES ASSUME Typed, Agreement, [Next]_vars PROVE Decided'
  OBVIOUS
<1> USE DEF discord, openers
<1>1. Onward /\ Decided
  BY StepsOnward DEF Agreement
<1>2. /\ approving \in [PRs -> {"idle", "merge", "mark"}]
      /\ closing \in [PRs -> {"idle", "close", "mark"}]
      /\ forge \in [PRs -> {"none", "open"} \cup Outcomes]
  BY DEF Typed, TypeOK
<1>3. CASE UNCHANGED <<approving, closing>>
  BY <1>1, <1>3 DEF Decided, Onward
<1>4. ASSUME NEW n \in PRs, MergePR(n) PROVE Decided'
  <2>1. approving'[n] = "mark" => forge'[n] = "merged" \/ n \in declined'
    BY <1>2, <1>4 DEF MergePR, Settle
  <2>2. closing' = closing /\ \A m \in PRs : m # n => approving'[m] = approving[m]
    BY <1>2, <1>4 DEF MergePR
  <2>3. QED
    BY <1>1, <2>1, <2>2 DEF Decided, Onward
<1>5. ASSUME NEW n \in PRs, ClosePR(n) PROVE Decided'
  <2>1. closing'[n] = "mark" => forge'[n] = "closed"
    BY <1>2, <1>5 DEF ClosePR, Settle
  <2>2. approving' = approving /\ \A m \in PRs : m # n => closing'[m] = closing[m]
    BY <1>2, <1>5 DEF ClosePR
  <2>3. QED
    BY <1>1, <2>1, <2>2 DEF Decided, Onward
<1>6. ASSUME NEW n \in PRs, ReactApprove(n) \/ ReactClose(n) \/ MarkMerged(n) \/ MarkClosed(n)
      PROVE  Decided'
  BY <1>1, <1>2, <1>6 DEF ReactApprove, ReactClose, MarkMerged, MarkClosed, Decided, Onward
<1>7. ASSUME NEW p \in Openers, Open(p) PROVE UNCHANGED <<approving, closing>>
  BY <1>7 DEF Open, CreatePR, PostPRNotification, SavePR, SetPRNumber
<1>8. ASSUME NEW w \in Workers, Work(w) PROVE UNCHANGED <<approving, closing>>
  BY <1>7, <1>8 DEF Work, ReadTask, ReadRow, MarkReported, Openers
<1>9. CASE Task
  BY <1>3, <1>7, <1>9 DEF Task, StartTask, EndTask, Openers
<1>10. CASE PushBranch \/ (\E n \in PRs : ResolveInForgejo(n)) \/ (\E e \in wire : Deliver(e))
            \/ QueueStep \/ Exit \/ UNCHANGED vars
  BY <1>3, <1>10 DEF PushBranch, ResolveInForgejo, Deliver, QueueStep, Exit, vars
<1>11. QED
  BY <1>3, <1>4, <1>5, <1>6, <1>8, <1>9, <1>10 DEF Next, Handle

LEMMA RowsNext == Typed /\ Agreement /\ [Next]_vars => (ClosedAgrees /\ MergedUnlessDeclined)'
<1> SUFFICES ASSUME Typed, Agreement, [Next]_vars PROVE (ClosedAgrees /\ MergedUnlessDeclined)'
  OBVIOUS
<1> USE DEF discord, openers
<1> DEFINE Agrees(n) == /\ row'[n] = "closed" => forge'[n] = "closed"
                        /\ row'[n] = "merged" => forge'[n] = "merged" \/ n \in declined'
<1>1. Onward /\ row \in [PRs -> {"none", "open"} \cup Outcomes]
  BY StepsOnward DEF Typed, TypeOK
<1>2. \A n \in PRs : row'[n] = row[n] => Agrees(n)
  BY <1>1 DEF Agreement, ClosedAgrees, MergedUnlessDeclined, Onward
<1>3. ASSUME NEW n \in PRs, MarkMerged(n) PROVE \A m \in PRs : Agrees(m)
  <2>1. Agrees(n)
    BY <1>1, <1>3 DEF MarkMerged, Agreement, Decided, Onward
  <2>2. \A m \in PRs : m # n => row'[m] = row[m]
    BY <1>1, <1>3 DEF MarkMerged
  <2>3. QED
    BY <1>2, <2>1, <2>2
<1>4. ASSUME NEW n \in PRs, MarkClosed(n) PROVE \A m \in PRs : Agrees(m)
  <2>1. Agrees(n)
    BY <1>1, <1>4 DEF MarkClosed, Agreement, Decided, Onward
  <2>2. \A m \in PRs : m # n => row'[m] = row[m]
    BY <1>1, <1>4 DEF MarkClosed
  <2>3. QED
    BY <1>2, <2>1, <2>2
<1>5. ASSUME NEW w \in Workers, MarkReported(w) PROVE \A m \in PRs : Agrees(m)
  <2>1. /\ handling[w] \in Events /\ handling[w].kind \in Outcomes
        /\ handling[w].n = arg[w] /\ arg[w] \in PRs
    BY <1>5, EventShape DEF MarkReported, Typed, Marking
  <2>2. forge[arg[w]] = handling[w].kind
    BY <2>1 DEF Agreement, Reports, Truthful
  <2>3. forge'[arg[w]] = handling[w].kind
    BY <1>1, <2>1, <2>2 DEF Onward
  <2>4. row'[arg[w]] \in {row[arg[w]], handling[w].kind}
    BY <1>1, <1>5, <2>1 DEF MarkReported
  <2>5. Agrees(arg[w])
    BY <1>2, <2>1, <2>3, <2>4
  <2>6. \A m \in PRs : m # arg[w] => row'[m] = row[m]
    BY <1>1, <1>5 DEF MarkReported
  <2>7. QED
    BY <1>2, <2>5, <2>6
<1>6. ASSUME NEW p \in Openers, SavePR(p) PROVE \A m \in PRs : Agrees(m)
  <2>1. \A m \in PRs : row'[m] = row[m] \/ row'[m] = "open"
    BY <1>1, <1>6 DEF SavePR
  <2>2. QED
    BY <1>2, <2>1
<1>7. CASE UNCHANGED row
  BY <1>2, <1>7 DEF ClosedAgrees, MergedUnlessDeclined
<1>8. ASSUME NEW p \in Openers, Open(p) PROVE UNCHANGED row \/ SavePR(p)
  BY <1>8 DEF Open, CreatePR, PostPRNotification, SetPRNumber
<1>9. ASSUME NEW w \in Workers, Work(w) PROVE UNCHANGED row \/ SavePR(w) \/ MarkReported(w)
  BY <1>8, <1>9 DEF Work, ReadTask, ReadRow, Openers
<1>10. CASE Task
  BY <1>6, <1>7, <1>8, <1>10 DEF Task, StartTask, EndTask, Openers, ClosedAgrees, MergedUnlessDeclined
<1>11. ASSUME NEW n \in PRs, ResolveInForgejo(n) \/ ReactApprove(n) \/ ReactClose(n) \/ Handle(n)
       PROVE  UNCHANGED row \/ MarkMerged(n) \/ MarkClosed(n)
  BY <1>11 DEF ResolveInForgejo, ReactApprove, ReactClose, React, Handle, MergePR, ClosePR
<1>12. CASE PushBranch \/ (\E e \in wire : Deliver(e)) \/ QueueStep \/ Exit \/ UNCHANGED vars
  BY <1>7, <1>12 DEF PushBranch, Deliver, QueueStep, Exit, vars
<1>13. (\A m \in PRs : Agrees(m)) => (ClosedAgrees /\ MergedUnlessDeclined)'
  BY DEF ClosedAgrees, MergedUnlessDeclined
<1>14. Workers \subseteq Openers
  BY DEF Openers
<1>15. QED
  BY <1>3, <1>4, <1>5, <1>6, <1>7, <1>9, <1>10, <1>11, <1>12, <1>13, <1>14 DEF Next

LEMMA FreshNext == Typed /\ Agreement /\ [Next]_vars => Fresh'
<1> SUFFICES ASSUME Typed, Agreement, [Next]_vars PROVE Fresh'
  OBVIOUS
<1> USE DEF discord, openers
<1>0. Onward /\ Fresh
  BY StepsOnward DEF Agreement
<1>1. /\ step \in [Openers -> Steps] /\ arg \in [Openers -> 0..MaxPRs]
      /\ forge \in [PRs -> {"none", "open"} \cup Outcomes]
      /\ row \in [PRs -> {"none", "open"} \cup Outcomes]
      /\ approving \in [PRs -> {"idle", "merge", "mark"}]
      /\ closing \in [PRs -> {"idle", "close", "mark"}]
      /\ \A p \in Openers : step[p] \in {"announce", "save"} => arg[p] \in PRs
      /\ \A w \in Workers : step[w] = "mark" => arg[w] \in PRs
      /\ Workers \subseteq Openers /\ Nightly \in Openers
  BY EventShape DEF Typed, TypeOK, Opening, Marking, Openers, Steps
\* A step that opens nothing keeps Fresh when it writes no row that is missing.
<1>2. ASSUME \A p \in Openers : step'[p] \in {"announce", "save", "mark"} =>
               step'[p] = step[p] /\ arg'[p] = arg[p],
             \A n \in PRs : row[n] = "none" => row'[n] = "none",
             \A n \in PRs : approving'[n] # "idle" \/ closing'[n] # "idle" => row[n] # "none"
      PROVE  Fresh'
  BY <1>0, <1>1, <1>2 DEF Fresh, Onward
<1>3. ASSUME NEW n \in PRs, ResolveInForgejo(n) \/ ReactApprove(n) \/ ReactClose(n) \/ Handle(n)
      PROVE  Fresh'
  <2>1. step' = step /\ arg' = arg
    BY <1>3 DEF ResolveInForgejo, ReactApprove, ReactClose, React, Handle, MergePR, MarkMerged,
                ClosePR, MarkClosed
  <2>2. approving[n] # "idle" \/ closing[n] # "idle" => row[n] # "none"
    BY <1>0 DEF Fresh
  <2>3. \A m \in PRs : row[m] = "none" => row'[m] = "none"
    BY <1>1, <1>3, <2>2 DEF ResolveInForgejo, ReactApprove, ReactClose, React, Handle, MergePR,
                            MarkMerged, ClosePR, MarkClosed
  <2>4. \A m \in PRs : m # n => approving'[m] = approving[m] /\ closing'[m] = closing[m]
    BY <1>1, <1>3 DEF ResolveInForgejo, ReactApprove, ReactClose, React, Handle, MergePR,
                      MarkMerged, ClosePR, MarkClosed
  <2>5. approving'[n] # "idle" \/ closing'[n] # "idle" => row[n] # "none"
    BY <1>1, <1>3, <2>2 DEF ResolveInForgejo, ReactApprove, ReactClose, Actionable, Handle, MergePR,
                            MarkMerged, ClosePR, MarkClosed
  <2>6. \A m \in PRs : approving'[m] # "idle" \/ closing'[m] # "idle" => row[m] # "none"
    BY <1>0, <2>4, <2>5 DEF Fresh
  <2>7. QED
    BY <1>2, <2>1, <2>3, <2>6
<1>4. ASSUME NEW p \in Openers, Return(p), UNCHANGED <<row, approving, closing>> PROVE Fresh'
  <2>1. \A q \in Openers : step'[q] \in {"announce", "save", "mark"} =>
          step'[q] = step[q] /\ arg'[q] = arg[q]
    BY <1>4, ReturnKeeps
  <2>2. QED
    BY <1>0, <1>2, <1>4, <2>1 DEF Fresh
<1>5. ASSUME NEW p \in Openers, NEW s \in {"execute", "create"}, Goto(p, s), arg' = arg,
             UNCHANGED <<row, approving, closing>>
      PROVE  Fresh'
  <2>1. \A q \in Openers : step'[q] \in {"announce", "save", "mark"} => step'[q] = step[q]
    BY <1>1, <1>5 DEF Goto
  <2>2. QED
    BY <1>0, <1>2, <1>5, <2>1 DEF Fresh
<1>6. ASSUME NEW p \in Openers, CreatePR(p) PROVE Fresh'
  <2>1. ASSUME NEW n \in PRs, forge[n] = "none", forge' = [forge EXCEPT ![n] = "open"],
               arg' = [arg EXCEPT ![p] = n], Goto(p, "announce"), UNCHANGED <<row, approving, closing>>
        PROVE  Fresh'
    <3>1. row[n] = "none"
      BY <1>0, <2>1 DEF Fresh
    <3>2. step' = [step EXCEPT ![p] = "announce"]
      BY <2>1 DEF Goto
    <3>3. \A q \in Openers : step[q] \in {"announce", "save"} => arg[q] # n
      BY <1>0, <2>1 DEF Fresh
    <3>4. QED
      BY <1>0, <1>1, <2>1, <3>1, <3>2, <3>3 DEF Fresh, Onward
  <2>2. QED
    BY <1>4, <1>6, <2>1 DEF CreatePR
<1>7. ASSUME NEW p \in Openers, PostPRNotification(p) PROVE Fresh'
  <2>1. step' = [step EXCEPT ![p] = "save"] /\ step[p] = "announce"
        /\ UNCHANGED <<arg, row, forge, approving, closing>>
    BY <1>7 DEF PostPRNotification, Goto
  <2>2. QED
    BY <1>0, <1>1, <2>1 DEF Fresh
<1>8. ASSUME NEW p \in Openers, SavePR(p) PROVE Fresh'
  <2>1. CASE row' = [row EXCEPT ![arg[p]] = "open"] /\ Goto(p, "link") /\ arg' = arg
    <3>1. step' = [step EXCEPT ![p] = "link"] /\ step[p] = "save" /\ arg[p] \in PRs
          /\ UNCHANGED <<forge, approving, closing>>
      BY <1>1, <1>8, <2>1 DEF SavePR, Goto
    <3>2. \A q \in Openers : step'[q] \in {"announce", "save"} => q # p /\ arg[q] # arg[p]
      BY <1>0, <1>1, <3>1 DEF Fresh
    <3>3. \A n \in PRs : n # arg[p] => row'[n] = row[n]
      BY <1>1, <2>1
    <3>4. QED
      BY <1>0, <1>1, <2>1, <3>1, <3>2, <3>3 DEF Fresh, Onward
  <2>2. QED
    BY <1>4, <1>8, <2>1 DEF SavePR
<1>9. ASSUME NEW w \in Workers, ReadRow(w) PROVE Fresh'
  <2>1. CASE /\ row[handling[w].n] = "open" /\ Goto(w, "mark")
             /\ arg' = [arg EXCEPT ![w] = handling[w].n]
    <3>1. step' = [step EXCEPT ![w] = "mark"] /\ UNCHANGED <<row, forge, approving, closing>>
          /\ w \in Openers
      BY <1>1, <1>9, <2>1 DEF ReadRow, Goto
    <3>2. QED
      BY <1>0, <1>1, <2>1, <3>1 DEF Fresh
  <2>2. QED
    BY <1>1, <1>4, <1>9, <2>1 DEF ReadRow
<1>10. ASSUME NEW w \in Workers, MarkReported(w) PROVE Fresh'
  <2>1. \A q \in Openers : step'[q] \in {"announce", "save", "mark"} =>
          step'[q] = step[q] /\ arg'[q] = arg[q]
    BY <1>1, <1>10, ReturnKeeps DEF MarkReported
  <2>2. \A n \in PRs : row[n] = "none" => row'[n] = "none"
    BY <1>0, <1>1, <1>10 DEF MarkReported, Fresh
  <2>3. UNCHANGED <<approving, closing>>
    BY <1>10 DEF MarkReported
  <2>4. QED
    BY <1>0, <1>2, <2>1, <2>2, <2>3 DEF Fresh
<1>11. ASSUME NEW p \in Openers, SetPRNumber(p) PROVE Fresh'
  BY <1>4, <1>11 DEF SetPRNumber
<1>12. ASSUME NEW w \in Workers, Work(w) PROVE Fresh'
  <2>1. CASE ReadTask(w)
    BY <1>1, <1>4, <1>5, <2>1 DEF ReadTask
  <2>2. QED
    BY <1>1, <1>6, <1>7, <1>8, <1>9, <1>10, <1>11, <1>12, <2>1 DEF Work, Open
<1>13. CASE Task
  <2>1. CASE StartTask \/ EndTask
    BY <1>1, <1>4, <1>5, <2>1 DEF StartTask, EndTask
  <2>2. QED
    BY <1>1, <1>6, <1>7, <1>8, <1>11, <1>13, <2>1 DEF Task, Open
<1>14. CASE PushBranch \/ (\E e \in wire : Deliver(e)) \/ QueueStep \/ Exit \/ UNCHANGED vars
  <2>1. UNCHANGED <<step, arg, row, approving, closing>>
    BY <1>14 DEF PushBranch, Deliver, QueueStep, Exit, vars
  <2>2. QED
    BY <1>0, <1>2, <2>1 DEF Fresh
<1>15. QED
  BY <1>3, <1>12, <1>13, <1>14 DEF Next

LEMMA AgreementInit == Init => Agreement
<1> SUFFICES ASSUME Init PROVE Agreement
  OBVIOUS
<1>1. Reports
  BY QueueConstantsOK DEF QueueConstantsOK, Init, QueueInit, Reports
<1>2. /\ \A p \in Openers : step[p] = "idle"
      /\ \A n \in PRs : row[n] = "none" /\ approving[n] = "idle" /\ closing[n] = "idle"
      /\ Workers \subseteq Openers
  BY DEF Init, Openers
<1>3. Decided /\ Fresh /\ ClosedAgrees /\ MergedUnlessDeclined
  BY <1>2 DEF Decided, Fresh, ClosedAgrees, MergedUnlessDeclined
<1>4. QED
  BY <1>1, <1>3 DEF Agreement

LEMMA AgreementAlways == Spec => [](Typed /\ Agreement)
<1>1. Init => Typed /\ Agreement
  BY TypedInit, AgreementInit
<1>2. Typed /\ Agreement /\ [Next]_vars => (Typed /\ Agreement)'
  BY TypedNext, ReportsNext, DecidedNext, FreshNext, RowsNext DEF Agreement
<1>3. QED
  BY <1>1, <1>2, PTL DEF Spec

\* A row says closed only of a PR that is closed in Forgejo (HandleClose,
\* HandleForgejoResolution).
THEOREM ClosedRowsAgree == Spec => []ClosedAgrees
<1>1. Agreement => ClosedAgrees
  BY DEF Agreement
<1>2. QED
  BY <1>1, AgreementAlways, PTL

\* A row says merged only of a PR that is merged in Forgejo, or of which Forgejo
\* declined a merge (HandleApprove, HandleForgejoResolution).
THEOREM MergedRowsAgree == Spec => []MergedUnlessDeclined
<1>1. Agreement => MergedUnlessDeclined
  BY DEF Agreement
<1>2. QED
  BY <1>1, AgreementAlways, PTL

\* A final status gives way to a final status only, and to none in the step in
\* which Forgejo declines a merge.
LEMMA OutcomesKept ==
    ASSUME Typed, Agreement, [Next]_vars, NEW n \in PRs, row[n] \in Outcomes
    PROVE  /\ row'[n] \in Outcomes
           /\ n \notin declined /\ n \in declined' => row'[n] = row[n]
<1> USE DEF discord, openers
<1> DEFINE Kept == /\ row'[n] \in Outcomes
                   /\ n \notin declined /\ n \in declined' => row'[n] = row[n]
<1>1. row \in [PRs -> {"none", "open"} \cup Outcomes] /\ Workers \subseteq Openers
  BY DEF Typed, TypeOK, Openers
<1>2. CASE UNCHANGED row
  BY <1>2
<1>3. ASSUME NEW m \in PRs, MarkMerged(m) \/ MarkClosed(m) PROVE Kept
  BY <1>1, <1>3 DEF MarkMerged, MarkClosed
<1>4. ASSUME NEW w \in Workers, MarkReported(w) PROVE Kept
  <2>1. handling[w].kind \in Outcomes
    BY <1>4 DEF MarkReported, Typed, Marking
  <2>2. row' = row \/ row' = [row EXCEPT ![arg[w]] = handling[w].kind]
    BY <1>4 DEF MarkReported
  <2>3. declined' = declined
    BY <1>4 DEF MarkReported
  <2>4. QED
    BY <1>1, <2>1, <2>2, <2>3
<1>5. ASSUME NEW p \in Openers, SavePR(p) PROVE Kept
  <2>1. row[arg[p]] = "none"
    BY <1>5 DEF SavePR, Agreement, Fresh
  <2>2. row' = row \/ row' = [row EXCEPT ![arg[p]] = "open"]
    BY <1>5 DEF SavePR
  <2>3. arg[p] # n
    BY <2>1
  <2>4. QED
    BY <1>1, <2>2, <2>3
<1>6. ASSUME NEW p \in Openers, Open(p) PROVE UNCHANGED row \/ SavePR(p)
  BY <1>6 DEF Open, CreatePR, PostPRNotification, SetPRNumber
<1>7. ASSUME NEW w \in Workers, Work(w) PROVE UNCHANGED row \/ SavePR(w) \/ MarkReported(w)
  BY <1>1, <1>6, <1>7 DEF Work, ReadTask, ReadRow
<1>8. CASE Task
  BY <1>2, <1>5, <1>6, <1>8 DEF Task, StartTask, EndTask, Openers
<1>9. ASSUME NEW m \in PRs, ResolveInForgejo(m) \/ ReactApprove(m) \/ ReactClose(m) \/ Handle(m)
      PROVE  UNCHANGED row \/ MarkMerged(m) \/ MarkClosed(m)
  BY <1>9 DEF ResolveInForgejo, ReactApprove, ReactClose, React, Handle, MergePR, ClosePR
<1>10. CASE PushBranch \/ (\E e \in wire : Deliver(e)) \/ QueueStep \/ Exit \/ UNCHANGED vars
  BY <1>2, <1>10 DEF PushBranch, Deliver, QueueStep, Exit, vars
<1>11. QED
  BY <1>1, <1>2, <1>3, <1>4, <1>5, <1>7, <1>8, <1>9, <1>10 DEF Next

\* Whatever a second handler writes over a final status is the same status:
\* both agree with Forgejo, where a final state stays (HandleApprove,
\* HandleClose, HandleForgejoResolution).
THEOREM FinalStatusIsWrittenOnce == Spec => FinalOnce
<1>1. Typed /\ Agreement /\ (Typed /\ Agreement)' /\ [Next]_vars =>
        [\A n \in PRs \ declined : row[n] \in Outcomes => row'[n] = row[n]]_vars
  <2> SUFFICES ASSUME Typed, Agreement, Agreement', Typed', Next,
                      NEW n \in PRs, n \notin declined, row[n] \in Outcomes
               PROVE  row'[n] = row[n]
    OBVIOUS
  <2>1. Onward
    BY StepsOnward
  <2>2. forge[n] = row[n] /\ forge'[n] = row[n]
    BY <2>1 DEF Agreement, ClosedAgrees, MergedUnlessDeclined, Onward
  <2>3. row'[n] \in Outcomes /\ (n \in declined' => row'[n] = row[n])
    BY OutcomesKept
  <2>4. QED
    BY <2>2, <2>3 DEF Agreement, ClosedAgrees, MergedUnlessDeclined
<1>2. QED
  BY <1>1, AgreementAlways, PTL DEF Spec, FinalOnce
-------------------------------------------------------------------------------
(* Tracked.  A PR without a row is still in the hands of its opener, which *)
(* is on its way to save it: only a store call with the context done can   *)
(* end the handler in between, and then the daemon does not run any more.  *)

Saving(n) == \E p \in Openers : arg[p] = n /\ step[p] \in {"announce", "save"}
Held == Running => \A n \in PRs : forge[n] # "none" => row[n] # "none" \/ Saving(n)

\* What a step must do to lose no PR, seen from the openers that it leaves
\* alone.
LEMMA HeldStays ==
    ASSUME Typed, Held, Onward, Running' => Running, NEW n \in PRs,
           Running', forge[n] # "none",
           \A p \in Openers : arg[p] = n /\ step[p] \in {"announce", "save"} =>
               row'[n] # "none" \/ (arg'[p] = n /\ step'[p] \in {"announce", "save"})
    PROVE  row'[n] # "none" \/ Saving(n)'
<1>1. CASE row[n] # "none"
  BY <1>1 DEF Onward
<1>2. CASE Saving(n)
  BY <1>2 DEF Saving
<1>3. QED
  BY <1>1, <1>2 DEF Held

LEMMA HeldNext == Typed /\ Agreement /\ Held /\ [Next]_vars => Held'
<1> SUFFICES ASSUME Typed, Agreement, Held, [Next]_vars, Running'
             PROVE  \A n \in PRs : forge'[n] # "none" => row'[n] # "none" \/ Saving(n)'
  BY DEF Held
<1> USE DEF discord, openers
<1> DEFINE Keeps == \A n \in PRs : forge'[n] # "none" => row'[n] # "none" \/ Saving(n)'
<1> DEFINE Opens(p) == step[p] \in {"announce", "save"}
<1>0. Onward
  BY StepsOnward
<1>1. /\ step \in [Openers -> Steps] /\ arg \in [Openers -> 0..MaxPRs]
      /\ forge \in [PRs -> {"none", "open"} \cup Outcomes]
      /\ row \in [PRs -> {"none", "open"} \cup Outcomes]
      /\ \A p \in Openers : Opens(p) => arg[p] \in PRs
      /\ Workers \subseteq Openers /\ Nightly \in Openers
  BY DEF Typed, TypeOK, Opening, Openers, Steps
<1>2. Running' => Running
  <2>0. ASSUME NEW p \in Openers, Return(p) PROVE UNCHANGED stage
    BY <2>0 DEF Return, Finish, queueVars
  <2>1. ASSUME NEW p \in Openers, Open(p) PROVE UNCHANGED stage
    BY <2>0, <2>1 DEF Open, CreatePR, PostPRNotification, SavePR, SetPRNumber, queueVars
  <2>2. ASSUME NEW w \in Workers, Work(w) PROVE UNCHANGED stage
    BY <1>1, <2>0, <2>1, <2>2 DEF Work, ReadTask, ReadRow, MarkReported, queueVars
  <2>3. CASE Task
    <3>1. CASE StartTask \/ EndTask
      BY <1>1, <2>0, <3>1 DEF StartTask, EndTask, queueVars, Running
    <3>2. QED
      BY <1>1, <2>1, <2>3, <3>1 DEF Task, Running
  <2>4. ASSUME NEW n \in PRs, ResolveInForgejo(n) \/ ReactApprove(n) \/ ReactClose(n) \/ Handle(n)
        PROVE  UNCHANGED stage
    BY <2>4 DEF ResolveInForgejo, ReactApprove, ReactClose, React, Handle, MergePR, MarkMerged,
                ClosePR, MarkClosed, queueVars
  <2>5. CASE QueueStep
    BY <2>5 DEF QueueStep, Receive, Leave, Shutdown, Running
  <2>6. CASE PushBranch \/ (\E e \in wire : Deliver(e)) \/ Exit \/ UNCHANGED vars
    BY <2>6 DEF PushBranch, Deliver, Enqueue, Exit, vars, queueVars, Running
  <2>7. QED
    BY <2>2, <2>3, <2>4, <2>5, <2>6 DEF Next, Running
\* A step that creates no PR and takes none from an opener.
<1>3. ASSUME \A n \in PRs : forge'[n] # "none" => forge[n] # "none",
             \A p \in Openers : Opens(p) =>
                 row'[arg[p]] # "none" \/ (arg'[p] = arg[p] /\ step'[p] \in {"announce", "save"})
      PROVE  Keeps
  BY <1>0, <1>2, <1>3, HeldStays
<1>4. ASSUME NEW n \in PRs, ResolveInForgejo(n) \/ ReactApprove(n) \/ ReactClose(n) \/ Handle(n)
      PROVE  Keeps
  <2>1. UNCHANGED <<step, arg>>
    BY <1>4 DEF ResolveInForgejo, ReactApprove, ReactClose, React, Handle, MergePR, MarkMerged,
                ClosePR, MarkClosed
  <2>2. \A m \in PRs : forge'[m] # "none" => forge[m] # "none"
    BY <1>1, <1>4 DEF ResolveInForgejo, ReactApprove, ReactClose, React, Handle, MergePR, MarkMerged,
                      ClosePR, MarkClosed, Settle
  <2>3. QED
    BY <1>3, <2>1, <2>2
\* An opener that is not opening returns.
<1>5. ASSUME NEW p \in Openers, ~Opens(p), Return(p), UNCHANGED forge PROVE Keeps
  BY <1>3, <1>5, ReturnKeeps
<1>6. ASSUME NEW p \in Openers, NEW s \in Steps, ~Opens(p), Goto(p, s), UNCHANGED forge,
             \A q \in Openers : q # p => arg'[q] = arg[q]
      PROVE  Keeps
  <2>1. \A q \in Openers : q # p => step'[q] = step[q]
    BY <1>1, <1>6 DEF Goto
  <2>2. QED
    BY <1>3, <1>6, <2>1
<1>7. ASSUME NEW p \in Openers, CreatePR(p) PROVE Keeps
  <2>1. ASSUME NEW n \in PRs, forge[n] = "none", forge' = [forge EXCEPT ![n] = "open"],
               arg' = [arg EXCEPT ![p] = n], Goto(p, "announce")
        PROVE  Keeps
    <3>1. step' = [step EXCEPT ![p] = "announce"] /\ step[p] = "create"
      BY <1>7, <2>1 DEF CreatePR, Goto
    <3>2. arg'[p] = n /\ step'[p] = "announce"
      BY <1>1, <2>1, <3>1
    <3>3. Saving(n)'
      BY <3>2 DEF Saving
    <3>4. \A q \in Openers : Opens(q) => arg'[q] = arg[q] /\ step'[q] = step[q]
      BY <1>1, <2>1, <3>1
    <3>5. \A m \in PRs : m # n => (forge'[m] # "none" => row'[m] # "none" \/ Saving(m)')
      <4>1. TAKE m \in PRs
      <4>2. HAVE m # n
      <4>3. HAVE forge'[m] # "none"
      <4>4. forge[m] # "none"
        BY <1>1, <2>1, <4>2, <4>3
      <4>5. QED
        BY <1>0, <1>2, <3>4, <4>4, HeldStays
    <3>6. QED
      BY <3>3, <3>5
  <2>2. QED
    BY <1>5, <1>7, <2>1 DEF CreatePR
<1>8. ASSUME NEW p \in Openers, PostPRNotification(p) PROVE Keeps
  <2>1. step' = [step EXCEPT ![p] = "save"] /\ UNCHANGED <<arg, forge>>
    BY <1>8 DEF PostPRNotification, Goto
  <2>2. QED
    BY <1>1, <1>3, <2>1
<1>9. ASSUME NEW p \in Openers, SavePR(p) PROVE Keeps
  <2>1. /\ row' = [row EXCEPT ![arg[p]] = "open"] /\ step' = [step EXCEPT ![p] = "link"]
        /\ UNCHANGED <<arg, forge>> /\ Opens(p)
    BY <1>2, <1>9 DEF SavePR, Cancelled, Goto
  <2>2. row'[arg[p]] = "open" /\ \A q \in Openers : q # p => step'[q] = step[q]
    BY <1>1, <2>1
  <2>3. \A q \in Openers : Opens(q) =>
          row'[arg[q]] # "none" \/ (arg'[q] = arg[q] /\ step'[q] \in {"announce", "save"})
    <3>1. TAKE q \in Openers
    <3>2. CASE q = p
      BY <2>2, <3>2
    <3>3. CASE q # p
      BY <2>1, <2>2, <3>3
    <3>4. QED
      BY <3>2, <3>3
  <2>4. QED
    BY <1>3, <2>1, <2>3
<1>10. ASSUME NEW p \in Openers, SetPRNumber(p) PROVE Keeps
  BY <1>5, <1>10 DEF SetPRNumber
<1>11. ASSUME NEW w \in Workers, ReadTask(w) PROVE Keeps
  BY <1>1, <1>5, <1>6, <1>11 DEF ReadTask, Steps
<1>12. ASSUME NEW w \in Workers, ReadRow(w) PROVE Keeps
  <2>1. CASE Goto(w, "mark") /\ arg' = [arg EXCEPT ![w] = handling[w].n]
    BY <1>1, <1>6, <1>12, <2>1 DEF ReadRow, Steps
  <2>2. QED
    BY <1>1, <1>5, <1>12, <2>1 DEF ReadRow
<1>13. ASSUME NEW w \in Workers, MarkReported(w) PROVE Keeps
  BY <1>1, <1>5, <1>13 DEF MarkReported
<1>14. CASE StartTask \/ EndTask
  BY <1>1, <1>5, <1>6, <1>14 DEF StartTask, EndTask, Steps
<1>15. CASE PushBranch \/ (\E e \in wire : Deliver(e)) \/ QueueStep \/ Exit \/ UNCHANGED vars
  <2>1. UNCHANGED <<step, arg, forge>>
    BY <1>15 DEF PushBranch, Deliver, QueueStep, Exit, vars
  <2>2. QED
    BY <1>3, <2>1
<1>16. ASSUME NEW p \in Openers, Open(p) PROVE Keeps
  BY <1>7, <1>8, <1>9, <1>10, <1>16 DEF Open
<1>17. ASSUME NEW w \in Workers, Work(w) PROVE Keeps
  BY <1>1, <1>11, <1>12, <1>13, <1>16, <1>17 DEF Work
<1>18. CASE Task
  BY <1>1, <1>14, <1>16, <1>18 DEF Task
<1>19. QED
  BY <1>4, <1>15, <1>17, <1>18 DEF Next

\* While the daemon runs, a PR that no handler is opening any more has its row,
\* whichever of its messages and store calls failed (HandlePushEvent, openPR).
THEOREM OpenedIsTracked == Spec => []Tracked
<1>1. Init => Held
  BY DEF Init, Held
<1>2. Spec => []Held
  BY <1>1, HeldNext, AgreementAlways, PTL DEF Spec
<1>3. Held => Tracked
  BY DEF Held, Tracked, Saving
<1>4. QED
  BY <1>2, <1>3, PTL
-------------------------------------------------------------------------------
(* The contract.  Its variables are those of the model, so each step that   *)
(* changes one of them is a step of the contract; Agreement gives what the  *)
(* contract asks of it.                                                     *)

LEMMA ContractSets == Contract!PRs = PRs /\ Contract!Outcomes = Outcomes
BY DEF PRs, Outcomes, Contract!PRs, Contract!Outcomes

Follows == Contract!Next \/ UNCHANGED Contract!vars

LEMMA Stutters == UNCHANGED <<forge, row, declined>> => Follows
BY DEF Follows, Contract!vars

\* Of a PR that is open.
LEMMA SettleFollows ==
    ASSUME NEW n \in PRs, NEW s \in Outcomes, forge[n] = "open", Settle(n, s),
           UNCHANGED <<row, declined>>
    PROVE  Follows
<1>1. Contract!Resolve(n)
  BY ContractSets DEF Settle, Contract!Resolve
<1>2. QED
  BY <1>1, ContractSets DEF Follows, Contract!Next

\* A handler writes the outcome that Forgejo has told it.
LEMMA MarkFollows ==
    ASSUME Typed, Agreement, NEW n \in PRs, NEW s \in Outcomes, row[n] # "none",
           s = "closed" => forge[n] = "closed",
           s = "merged" => forge[n] = "merged" \/ n \in declined,
           row' = [row EXCEPT ![n] = s], UNCHANGED <<forge, declined>>
    PROVE  Follows
<1>1. row \in [PRs -> {"none", "open"} \cup Outcomes]
  BY DEF Typed, TypeOK
<1>2. CASE n \in declined
  <2>1. Contract!Misread(n)
    BY <1>2, ContractSets DEF Contract!Misread
  <2>2. QED
    BY <2>1, ContractSets DEF Follows, Contract!Next
<1>3. CASE n \notin declined /\ row[n] = "open"
  <2>1. forge[n] = s
    BY <1>3 DEF Outcomes
  <2>2. Contract!Follow(n)
    BY <1>3, <2>1, ContractSets DEF Contract!Follow
  <2>3. QED
    BY <2>2, ContractSets DEF Follows, Contract!Next
<1>4. CASE n \notin declined /\ row[n] \in Outcomes
  <2>1. forge[n] = s /\ forge[n] = row[n]
    BY <1>4 DEF Outcomes, Agreement, ClosedAgrees, MergedUnlessDeclined
  <2>2. row' = row
    BY <1>1, <2>1
  <2>3. QED
    BY <2>2, Stutters
<1>5. QED
  BY <1>1, <1>2, <1>3, <1>4

LEMMA StepFollows == Typed /\ Agreement /\ [Next]_vars => Follows
<1> SUFFICES ASSUME Typed, Agreement, [Next]_vars PROVE Follows
  OBVIOUS
<1> USE DEF discord, openers
<1>1. /\ \A p \in Openers : step[p] \in {"announce", "save"} => arg[p] \in PRs
      /\ Workers \subseteq Openers
  BY DEF Typed, Opening, Openers
<1>2. ASSUME NEW p \in Openers, CreatePR(p) PROVE Follows
  <2>1. ASSUME NEW n \in PRs, forge' = [forge EXCEPT ![n] = "open"],
               \A m \in PRs : IF m < n THEN forge[m] \in Outcomes ELSE forge[m] = "none"
        PROVE  Follows
    <3>1. Contract!Open(n)
      BY <1>2, <2>1, ContractSets DEF CreatePR, Contract!Open
    <3>2. QED
      BY <3>1, ContractSets DEF Follows, Contract!Next
  <2>2. QED
    BY <1>2, <2>1, Stutters DEF CreatePR
<1>3. ASSUME NEW p \in Openers, SavePR(p) PROVE Follows
  <2>1. CASE row' = [row EXCEPT ![arg[p]] = "open"]
    <3>1. arg[p] \in PRs /\ forge[arg[p]] # "none" /\ row[arg[p]] = "none"
      BY <1>1, <1>3 DEF SavePR, Agreement, Fresh
    <3>2. Contract!Enter(arg[p])
      BY <1>3, <2>1, <3>1 DEF SavePR, Contract!Enter
    <3>3. QED
      BY <3>1, <3>2, ContractSets DEF Follows, Contract!Next
  <2>2. QED
    BY <1>3, <2>1, Stutters DEF SavePR
<1>4. ASSUME NEW n \in PRs, ResolveInForgejo(n) PROVE Follows
  BY <1>4, SettleFollows DEF ResolveInForgejo
<1>5. ASSUME NEW n \in PRs, MergePR(n) PROVE Follows
  <2>1. CASE forge[n] = "open" /\ Settle(n, "merged") /\ UNCHANGED declined
    BY <1>5, <2>1, SettleFollows DEF MergePR, Outcomes
  <2>2. CASE declined' = declined \cup {n} /\ UNCHANGED forge
    <3>1. forge[n] # "none"
      BY <1>5 DEF MergePR, Agreement, Fresh
    <3>2. Contract!Decline(n)
      BY <1>5, <2>2, <3>1 DEF MergePR, Contract!Decline
    <3>3. QED
      BY <3>2, ContractSets DEF Follows, Contract!Next
  <2>3. QED
    BY <1>5, <2>1, <2>2, Stutters DEF MergePR
<1>6. ASSUME NEW n \in PRs, ClosePR(n) PROVE Follows
  <2>1. CASE forge[n] = "open" /\ Settle(n, "closed")
    BY <1>6, <2>1, SettleFollows DEF ClosePR, Outcomes
  <2>2. QED
    BY <1>6, <2>1, Stutters DEF ClosePR
<1>7. ASSUME NEW n \in PRs, MarkMerged(n) PROVE Follows
  <2>1. row[n] # "none" /\ (forge[n] = "merged" \/ n \in declined)
    BY <1>7 DEF MarkMerged, Agreement, Fresh, Decided
  <2>2. QED
    BY <1>7, <2>1, MarkFollows DEF MarkMerged, Outcomes
<1>8. ASSUME NEW n \in PRs, MarkClosed(n) PROVE Follows
  <2>1. row[n] # "none" /\ forge[n] = "closed"
    BY <1>8 DEF MarkClosed, Agreement, Fresh, Decided
  <2>2. QED
    BY <1>8, <2>1, MarkFollows DEF MarkClosed, Outcomes
<1>9. ASSUME NEW w \in Workers, MarkReported(w) PROVE Follows
  <2>1. /\ handling[w] \in Events /\ handling[w].kind \in Outcomes
        /\ handling[w].n = arg[w] /\ arg[w] \in PRs
    BY <1>9, EventShape DEF MarkReported, Typed, Marking
  <2>2. forge[arg[w]] = handling[w].kind /\ row[arg[w]] # "none"
    BY <1>9, <2>1 DEF MarkReported, Agreement, Reports, Truthful, Fresh
  <2>3. UNCHANGED <<forge, declined>>
    BY <1>9 DEF MarkReported
  <2>4. CASE row' = [row EXCEPT ![arg[w]] = handling[w].kind]
    BY <2>1, <2>2, <2>3, <2>4, MarkFollows
  <2>5. CASE row' = row
    BY <2>3, <2>5, Stutters
  <2>6. QED
    BY <1>9, <2>4, <2>5 DEF MarkReported
<1>10. ASSUME NEW p \in Openers, Open(p) PROVE Follows
  <2>1. CASE PostPRNotification(p) \/ SetPRNumber(p)
    BY <2>1, Stutters DEF PostPRNotification, SetPRNumber
  <2>2. QED
    BY <1>2, <1>3, <1>10, <2>1 DEF Open
<1>11. ASSUME NEW w \in Workers, Work(w) PROVE Follows
  <2>1. CASE ReadTask(w) \/ ReadRow(w)
    BY <2>1, Stutters DEF ReadTask, ReadRow
  <2>2. QED
    BY <1>1, <1>9, <1>10, <1>11, <2>1 DEF Work
<1>12. CASE Task
  <2>1. CASE StartTask \/ EndTask
    BY <2>1, Stutters DEF StartTask, EndTask
  <2>2. QED
    BY <1>10, <1>12, <2>1 DEF Task, Openers
<1>13. ASSUME NEW n \in PRs, ResolveInForgejo(n) \/ ReactApprove(n) \/ ReactClose(n) \/ Handle(n)
       PROVE  Follows
  <2>1. CASE ReactApprove(n) \/ ReactClose(n)
    BY <2>1, Stutters DEF ReactApprove, ReactClose, React
  <2>2. QED
    BY <1>4, <1>5, <1>6, <1>7, <1>8, <1>13, <2>1 DEF Handle
<1>14. CASE PushBranch \/ (\E e \in wire : Deliver(e)) \/ QueueStep \/ Exit \/ UNCHANGED vars
  BY <1>14, Stutters DEF PushBranch, Deliver, QueueStep, Exit, vars
<1>15. QED
  BY <1>11, <1>12, <1>13, <1>14 DEF Next

\* The PRs of a branch with their rows do what PRContract says: each is entered
\* once and as open, and its row becomes what the PR has become in Forgejo, for
\* any number of PRs, workers and events (HandlePushEvent, openPR, HandleApprove,
\* HandleClose, HandleForgejoResolution).
THEOREM PRsFollowContract == Spec => FollowsContract
<1>1. Init => Contract!Init
  BY DEF Init, Contract!Init, PRs, Contract!PRs
<1>2. Follows => [Contract!Next]_(Contract!vars)
  BY DEF Follows
<1>3. Typed /\ Agreement /\ [Next]_vars => [Contract!Next]_(Contract!vars)
  BY <1>2, StepFollows
<1>4. QED
  BY <1>1, <1>3, AgreementAlways, PTL DEF Spec, FollowsContract, Contract!Spec
===============================================================================
