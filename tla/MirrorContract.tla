---------------------------- MODULE MirrorContract ----------------------------
(***************************************************************************)
(* What the mirror of one repository promises, with no mention of staging  *)
(* directories, git or goroutines.                                         *)
(*                                                                         *)
(* Forgejo is the source of truth: a history of commits, each giving every *)
(* file a version.  The mirror shows a version of each file.  The recorded *)
(* baseline says how far the mirror has come.  Three things are promised:  *)
(*   - the mirror shows only versions that the default branch has had;     *)
(*   - a published file is never replaced by an older version of itself;   *)
(*   - a baseline is recorded only when the mirror covers it, and it never *)
(*     goes back.                                                          *)
(***************************************************************************)
EXTENDS Naturals

CONSTANTS Files,       \* the files of the repository
          Hidden,      \* files that are never published (skip patterns)
          MaxCommits   \* bound on the length of the history

VARIABLES head,        \* number of commits on the default branch
          tree,        \* tree[k][f]: version of f in commit k, 0 when absent
          published,   \* published[f]: version of f on the mirror, 0 when absent
          baseline     \* commit recorded as mirrored, 0 when none is

vars == <<head, tree, published, baseline>>

\* The mirror shows, of every file that commit k has and that is not hidden,
\* the version of k or a later one.
Covers(shown, k) ==
    \A f \in Files \ Hidden : tree[k][f] # 0 => shown[f] >= tree[k][f]

Init ==
    /\ head = 1
    /\ baseline \in 0..1
    /\ baseline = 1 => Covers(published, 1)

\* A commit gives one file a version of its own, or removes the file.
Commit ==
    /\ head < MaxCommits
    /\ head' = head + 1
    /\ \E f \in Files, v \in {0, head + 1} :
         tree' = [tree EXCEPT ![head + 1] = [tree[head] EXCEPT ![f] = v]]
    /\ UNCHANGED <<published, baseline>>

\* Some files of the mirror move forward to versions the branch has had.
Publish ==
    /\ \A f \in Files :
         \/ published'[f] = published[f]
         \/ /\ published'[f] > published[f]
            /\ f \notin Hidden
            /\ \E k \in 1..head : tree[k][f] = published'[f]
    /\ UNCHANGED <<head, tree, baseline>>

\* A commit that the mirror covers becomes the baseline.
Record ==
    /\ \E k \in 1..head :
         /\ k >= baseline
         /\ Covers(published, k)
         /\ baseline' = k
    /\ UNCHANGED <<head, tree, published>>

Next == Commit \/ Publish \/ Record

Spec == Init /\ [][Next]_vars

===============================================================================
