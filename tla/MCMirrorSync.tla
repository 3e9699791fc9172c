----------------------------- MODULE MCMirrorSync -----------------------------
(* Values for the model checker.                                           *)
EXTENDS MirrorSync, TLC

\* Syncs in progress differ only in what they hold: their slots may be swapped
\* in runs that check no temporal property.
CallerSymmetry == Permutations(Callers)
===============================================================================
