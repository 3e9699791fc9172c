------------------------------- MODULE MCNightly -------------------------------
(* An instance of Nightly: three files, one of a focus area and one whose     *)
(* diff is too short to be estimated; tasks of which some are for the same    *)
(* file and type, with another priority or only another complexity, one that  *)
(* is not for the agent, and one whose priority is invalid.                   *)
EXTENDS Nightly

CONSTANTS cron, command, sync

MCEstimate == [d \in 1..3 |-> CASE d = 1 -> 60 [] d = 2 -> 0 [] d = 3 -> 40]
MCLines == [d \in 1..3 |-> CASE d = 1 -> 5 [] d = 2 -> 1 [] d = 3 -> 9]

TaskSpec(file, type, prio, complexity) ==
    [file |-> file, type |-> type, prio |-> prio, complexity |-> complexity]

FixLater == TaskSpec(1, "fix", 3, "small")
FixNow == TaskSpec(1, "fix", 1, "small")
Large == TaskSpec(2, "chore", 2, "large")
Small == TaskSpec(2, "chore", 2, "small")
Feature == TaskSpec(3, "feature", 1, "small")
Unranked == TaskSpec(2, "chore", 0, "small")

MCOrder == <<1, 2>>
MCSpecs == {FixLater, FixNow, Large, Small, Feature, Unranked}
\* A type that the executors do not know goes to the model when it is large.
MCElsewhere == {Large}
MCAnswers == {{FixLater, Large, Feature}, {FixNow, Small, Unranked}}
===============================================================================
