----------------------------- MODULE PRContract ------------------------------
(***************************************************************************)
(* What the pull requests of one branch promise, with no mention of        *)
(* queues, workers, messages or reactions.                                 *)
(*                                                                         *)
(* Forgejo decides: it opens the PRs of the branch one after another, and  *)
(* each of them is merged or closed once.  The table of sentinel follows:  *)
(*   - a PR is entered once, after it was opened, and as open;             *)
(*   - an entry that is open becomes what the PR has become in Forgejo;    *)
(*   - that is the last word, unless Forgejo has declined a merge: then    *)
(*     the entry may also say merged, and what it says may change.         *)
(***************************************************************************)
EXTENDS Naturals

CONSTANT MaxPRs     \* bound on the PRs of the branch

VARIABLES forge,    \* state of each PR in Forgejo
          row,      \* its status in the table, "none" when it is not entered
          declined  \* PRs of which Forgejo has declined a merge

vars == <<forge, row, declined>>

PRs == 1..MaxPRs
Outcomes == {"merged", "closed"}

Init ==
    /\ forge = [n \in PRs |-> "none"]
    /\ row = [n \in PRs |-> "none"]
    /\ declined = {}

\* A branch has a new PR only when its earlier ones are resolved.
Open(n) ==
    /\ \A m \in PRs : IF m < n THEN forge[m] \in Outcomes ELSE forge[m] = "none"
    /\ forge' = [forge EXCEPT ![n] = "open"]
    /\ UNCHANGED <<row, declined>>

Resolve(n) ==
    /\ forge[n] = "open"
    /\ \E outcome \in Outcomes : forge' = [forge EXCEPT ![n] = outcome]
    /\ UNCHANGED <<row, declined>>

Decline(n) ==
    /\ forge[n] # "none"
    /\ declined' = declined \cup {n}
    /\ UNCHANGED <<forge, row>>

Enter(n) ==
    /\ forge[n] # "none" /\ row[n] = "none"
    /\ row' = [row EXCEPT ![n] = "open"]
    /\ UNCHANGED <<forge, declined>>

Follow(n) ==
    /\ row[n] = "open" /\ forge[n] \in Outcomes
    /\ row' = [row EXCEPT ![n] = forge[n]]
    /\ UNCHANGED <<forge, declined>>

\* After a declined merge.
Misread(n) ==
    /\ n \in declined /\ row[n] # "none"
    /\ \E outcome \in Outcomes : /\ outcome = "closed" => forge[n] = "closed"
                                 /\ row' = [row EXCEPT ![n] = outcome]
    /\ UNCHANGED <<forge, declined>>

Next == \E n \in PRs : \/ Open(n) \/ Resolve(n) \/ Decline(n)
                       \/ Enter(n) \/ Follow(n) \/ Misread(n)

Spec == Init /\ [][Next]_vars

===============================================================================
