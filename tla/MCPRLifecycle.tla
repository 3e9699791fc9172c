---------------------------- MODULE MCPRLifecycle ----------------------------
(* Values for the model checker.                                           *)
EXTENDS PRLifecycle

MCEvents == {Push(i) : i \in Pushes} \cup {Report(n, s) : n \in PRs, s \in Outcomes}
===============================================================================
