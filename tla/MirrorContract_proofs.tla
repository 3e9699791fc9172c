------------------------- MODULE MirrorContract_proofs ------------------------
(***************************************************************************)
(* One sync at a time implements MirrorContract: for every set of files,   *)
(* every history, and any failures, lost or duplicated events and restarts.*)
(* What must not happen is what breaks it: a second sync over the same     *)
(* directories, a nightly session that stores a baseline of its own, a     *)
(* file whose sanitization fails, and a staging directory that starts      *)
(* without the files of the mirror.                                        *)
(***************************************************************************)
EXTENDS MirrorSync_proofs

OneAtATime ==
    /\ \A c, d \in Callers : c = d
    /\ Drafted = {}
    /\ Flaky = {}
    /\ Starts \subseteq {"fresh", "migrated"}

\* Along the branch a file only takes newer versions, unless it is removed.
History ==
    /\ \A k \in Commits, f \in Files : tree[k][f] <= k
    /\ \A j, k \in 1..head : \A f \in Files :
         j <= k /\ tree[k][f] # 0 => tree[j][f] <= tree[k][f]

\* The branch has had version v of file f by commit k, or v is no version.
Had(f, v, k) == v = 0 \/ \E j \in 1..k : tree[j][f] = v

AllHad(side, k) == \A f \in Files : Had(f, side[f].v, k)

AtMost(one, other) == \A f \in Files : one[f].v <= other[f].v

\* What commit k asks of a side: its version of each file to publish, or later.
Holds(side, k) ==
    \A f \in Files : tree[k][f] # 0 /\ ~ Skipped(f) => side[f].v >= tree[k][f]

\* No side is ahead of the one it is filled from, and all show the branch.
Ordered ==
    /\ AtMost(mirror, index)
    /\ AtMost(unpushed, index)
    /\ AtMost(index, staging)
    /\ local \in {"orphan", "ahead"} => AtMost(mirror, unpushed)
    /\ AllHad(staging, head)
    /\ AllHad(index, head)
    /\ AllHad(unpushed, head)
    /\ AllHad(mirror, head)

Working(c) == pc[c] \notin {"idle", "ensure"}

\* A running sync sees the commit it set out to publish.
OnTarget(c) ==
    /\ target[c] \in 1..head
    /\ baseline <= target[c]
    /\ worktree = tree[target[c]]
    /\ AllHad(staging, target[c])
    /\ \A f \in changed[c] : staging[f].v >= tree[target[c]][f]
    /\ held[c] # NoHold => /\ held[c].file \in Files
                           /\ held[c].content.v = tree[target[c]][held[c].file]
                           /\ held[c].content.v # 0

\* A file of the target is staged by this sync, or on the mirror already.
Done(c, f) == f \in changed[c] \/ mirror[f].v >= tree[target[c]][f]

Due(c, f) == tree[target[c]][f] # 0 /\ ~ Skipped(f)

\* How far the target's files have come, step by step.
Progress(c) ==
    /\ pc[c] \in {"idle", "ensure"} => held[c] = NoHold /\ changed[c] = {}
    /\ pc[c] = "process" =>
         \A f \in Files : Due(c, f) => \/ f \in todo[c]
                                       \/ held[c] # NoHold /\ held[c].file = f
                                       \/ Done(c, f)
    /\ pc[c] = "add" => \A f \in Files : Due(c, f) => Done(c, f)
    /\ pc[c] = "commit" => Holds(index, target[c])
    /\ pc[c] = "send" => local \in {"orphan", "ahead"} /\ Holds(unpushed, target[c])
    /\ pc[c] = "record" => Holds(mirror, target[c])

Serial ==
    /\ TypeOK
    /\ History
    /\ nightly = 0
    /\ baseline <= head
    /\ BaselineMirrored
    /\ Ordered
    /\ \A c \in Callers : Progress(c) /\ (Working(c) => OnTarget(c))
-------------------------------------------------------------------------------
(* Lemmas.                                                                 *)

\* The order of versions is transitive, and nothing is at most anything.
LEMMA AtMostFacts ==
    /\ \A a, b, d \in [Files -> Content] : AtMost(a, b) /\ AtMost(b, d) => AtMost(a, d)
    /\ \A b \in [Files -> Content] : AtMost(Empty, b) /\ AtMost(b, b)
  <1>1. \A x \in Content : x.v \in Nat
    BY ConstantsOK DEF Content, Draft
  <1>2. \A f \in Files : Empty[f].v = 0
    BY DEF Empty, Absent
  <1> QED
    BY <1>1, <1>2 DEF AtMost

\* A version had by an early commit is had by a later one.
LEMMA HadLater ==
    ASSUME NEW f, NEW v, NEW j \in Nat, NEW k \in Nat, j <= k, Had(f, v, j)
    PROVE  Had(f, v, k)
  BY DEF Had

\* No commit before k has a newer version of a file that k has.
LEMMA HadIsOlder ==
    ASSUME TypeOK, History, NEW f \in Files, NEW k \in 1..head, tree[k][f] # 0,
           NEW v, Had(f, v, k)
    PROVE  v <= tree[k][f]
  <1>1. tree[k][f] \in Nat
    BY ConstantsOK DEF TypeOK, Commits, Version
  <1>2. CASE v = 0
    BY <1>1, <1>2
  <1>3. CASE v # 0
    <2>1. PICK j \in 1..k : tree[j][f] = v
      BY <1>3 DEF Had
    <2>2. j \in 1..head /\ j <= k
      BY <2>1 DEF TypeOK, Commits
    <2> QED
      BY <2>1, <2>2 DEF History
  <1> QED
    BY <1>2, <1>3

\* A commit adds to the history and changes nothing of it.
LEMMA CommitHistory ==
    ASSUME TypeOK, History, Commit
    PROVE  /\ History'
           /\ head' = head + 1
           /\ \A k \in 1..head : tree'[k] = tree[k]
           /\ \A f, v : \A k \in 0..head : Had(f, v, k) => Had(f, v, k)'
           /\ \A f, v : Had(f, v, head) => Had(f, v, head)'
  <1>1. PICK g \in Files, w \in {0, head + 1} :
          tree' = [tree EXCEPT ![head + 1] = [tree[head] EXCEPT ![g] = w]]
    BY DEF Commit
  <1>2. /\ head \in Nat /\ head >= 1 /\ head' = head + 1
        /\ head + 1 \in Commits /\ 1..head \subseteq Commits
    BY ConstantsOK DEF Commit, TypeOK, Commits
  <1>3. \A k \in 1..head : tree'[k] = tree[k]
    BY <1>1, <1>2 DEF TypeOK
  <1>4. \A f \in Files : /\ tree'[head + 1][f] \in {tree[head][f], 0, head + 1}
                         /\ tree[head][f] \in Nat
    BY <1>1, <1>2, ConstantsOK DEF TypeOK, Version
  <1>5. \A k \in Commits : k # head + 1 => tree'[k] = tree[k]
    BY <1>1, <1>2 DEF TypeOK
  <1>6. \A k \in Commits, f \in Files : tree'[k][f] <= k
    <2> SUFFICES ASSUME NEW k \in Commits, NEW f \in Files PROVE tree'[k][f] <= k
      OBVIOUS
    <2>1. CASE k # head + 1
      BY <1>5, <2>1 DEF History
    <2>2. CASE k = head + 1
      <3>1. tree[head][f] <= head
        BY <1>2 DEF History, TypeOK
      <3> QED
        BY <1>2, <1>4, <2>2, <3>1
    <2> QED
      BY <2>1, <2>2
  <1>7. ASSUME NEW j \in 1..head + 1, NEW k \in 1..head + 1, NEW f \in Files,
               j <= k, tree'[k][f] # 0
        PROVE  tree'[j][f] <= tree'[k][f]
    <2>1. tree'[j][f] \in Nat /\ tree'[k][f] \in Nat
      <3>1. j \in Commits /\ k \in Commits
        BY <1>2 DEF Commits
      <3> QED
        BY <3>1, <1>2, <1>4, <1>5, ConstantsOK, SMTT(30) DEF TypeOK, Version
    <2>2. CASE k # head + 1
      BY <1>2, <1>3, <1>7, <2>2 DEF History
    <2>3. CASE k = head + 1 /\ j = head + 1
      BY <2>1, <2>3
    <2>4. CASE k = head + 1 /\ j # head + 1
      <3>1. j \in 1..head /\ head \in 1..head
        BY <1>2, <2>4
      <3>2. tree'[j][f] = tree[j][f] /\ tree'[j][f] <= head
        <4>1. tree[j][f] <= j
          BY <1>2, <3>1 DEF History
        <4> QED
          BY <1>2, <1>3, <2>1, <3>1, <4>1
      <3>3. CASE tree'[k][f] = head + 1
        BY <1>2, <3>2, <3>3, <2>1
      <3>4. CASE tree'[k][f] = tree[head][f]
        BY <1>2, <1>7, <3>1, <3>2, <3>4 DEF History
      <3> QED
        BY <1>4, <1>7, <2>4, <3>3, <3>4
    <2> QED
      BY <2>2, <2>3, <2>4
  <1>8. History'
    BY <1>2, <1>6, <1>7 DEF History
  <1>9. \A f, v : \A k \in 0..head : Had(f, v, k) => Had(f, v, k)'
    BY <1>2, <1>3 DEF Had
  <1>10. \A f, v : Had(f, v, head) => Had(f, v, head)'
    BY <1>2, <1>3 DEF Had
  <1> QED
    BY <1>2, <1>3, <1>8, <1>9, <1>10
LEMMA InitSerial == ASSUME OneAtATime PROVE Init => Serial
  <1> SUFFICES ASSUME Init PROVE Serial
    OBVIOUS
  <1>1. PICK mode \in {"fresh", "migrated"} : InitMirror(mode)
    BY DEF Init, OneAtATime
  <1>2. TypeOK
    BY InitType
  <1>3. /\ head = 1
        /\ \A f \in Files : tree[1][f] \in 0..1
        /\ \A k \in Commits, f \in Files : tree[k][f] \in 0..1 /\ (k # 1 => tree[k][f] = 0)
    BY ConstantsOK DEF Init, InitForgejo, Commits
  <1>4. History
    BY <1>3, ConstantsOK DEF History, Commits
  <1>5. \A f \in Files : Mirrored(tree[1])[f].v \in {0, tree[1][f]}
    BY DEF Mirrored, Absent
  <1>6. \A f \in Files : tree[1][f] # 0 /\ ~ Skipped(f) =>
                           Mirrored(tree[1])[f].v = tree[1][f]
    BY DEF Mirrored
  <1>7. /\ index = staging /\ mirror = staging /\ unpushed = Empty
        /\ local \notin {"orphan", "ahead"}
        /\ staging = Empty \/ staging = Mirrored(tree[1])
        /\ baseline \in 0..1
        /\ baseline # 0 => mirror = Mirrored(tree[1]) /\ baseline = 1
    BY <1>1 DEF InitMirror
  <1>8. AllHad(staging, head) /\ AllHad(unpushed, head)
    BY <1>3, <1>5, <1>7 DEF AllHad, Had, Empty, Absent
  <1>9. Ordered
    BY <1>2, <1>7, <1>8, AtMostFacts DEF Ordered, TypeOK
  <1>10. BaselineMirrored
    BY <1>3, <1>6, <1>7 DEF BaselineMirrored, Covers
  <1>11. \A c \in Callers : Progress(c) /\ ~ Working(c)
    BY DEF Init, Progress, Working
  <1>12. nightly = 0 /\ baseline <= head
    BY <1>3, <1>7 DEF Init
  <1> QED
    BY <1>2, <1>4, <1>9, <1>10, <1>11, <1>12 DEF Serial

\* A sync that returns is idle and holds nothing.
LEMMA ReturnIdle ==
    ASSUME OneAtATime, TypeOK, NEW c \in Callers, Return(c), NEW d \in Callers
    PROVE  pc'[d] = "idle" /\ held'[d] = NoHold /\ changed'[d] = {}
  BY DEF TypeOK, Return, OneAtATime

\* Steps that leave the branch, the sides and the baseline alone, and no sync at
\* work: what remains to be shown is trivial.
LEMMA QuietSerial ==
    ASSUME Serial, TypeOK',
           UNCHANGED <<head, tree, baseline, staging, index, local, unpushed, mirror, nightly>>,
           \A c \in Callers : /\ pc'[c] \in {"idle", "ensure"}
                              /\ held'[c] = NoHold /\ changed'[c] = {}
    PROVE  Serial'
  <1>1. \A c \in Callers : Progress(c)' /\ ~ Working(c)'
    BY DEF Progress, Working
  <1>2. History' /\ Ordered' /\ BaselineMirrored' /\ baseline' <= head' /\ nightly' = 0
    BY DEF Serial, History, Ordered, BaselineMirrored, Covers, AllHad, Had, AtMost
  <1> QED
    BY <1>1, <1>2 DEF Serial

\* A commit on Forgejo while a sync runs: its target stays what it was.
LEMMA CommitSerial == ASSUME Serial, Commit PROVE Serial'
  <1> USE DEF forgejo, store, git, github, run
  <1>0. TypeOK /\ TypeOK' /\ History
    BY NextType DEF Serial, Next
  <1>1. UNCHANGED <<worktree, baseline, pending, staging, index, local, unpushed, tracked,
                    mirror, born, pc, target, todo, held, changed, drifting, nightly>>
    BY DEF Commit
  <1>2. head \in Nat /\ head' = head + 1
    BY <1>0, CommitHistory, SMTT(30) DEF TypeOK, Commits
  <1>3. \A k \in 1..head : tree'[k] = tree[k]
    BY <1>0, CommitHistory
  <1>4. \A f, v : Had(f, v, head) => Had(f, v, head)'
    BY <1>0, CommitHistory
  <1>5. Ordered'
    <2>1. /\ AllHad(staging, head) /\ AllHad(index, head) /\ AllHad(unpushed, head)
          /\ AllHad(mirror, head)
      BY DEF Serial, Ordered
    <2>2. \A f \in Files : /\ Had(f, staging[f].v, head)'
                           /\ Had(f, index[f].v, head)'
                           /\ Had(f, unpushed[f].v, head)'
                           /\ Had(f, mirror[f].v, head)'
      <3> SUFFICES ASSUME NEW f \in Files
                   PROVE  /\ Had(f, staging[f].v, head)'
                          /\ Had(f, index[f].v, head)'
                          /\ Had(f, unpushed[f].v, head)'
                          /\ Had(f, mirror[f].v, head)'
        OBVIOUS
      <3>1. /\ Had(f, staging[f].v, head) /\ Had(f, index[f].v, head) /\ Had(f, unpushed[f].v, head)
            /\ Had(f, mirror[f].v, head)
        BY <2>1 DEF AllHad
      <3> QED
        BY <1>1, <1>2, <1>3, <3>1 DEF Had
    <2>3. /\ AllHad(staging, head)' /\ AllHad(index, head)' /\ AllHad(unpushed, head)'
          /\ AllHad(mirror, head)'
      BY <2>2 DEF AllHad
    <2> QED
      BY <1>1, <2>3 DEF Serial, Ordered, AtMost
  <1>6. History' /\ nightly' = 0 /\ baseline' <= head'
    BY <1>0, <1>1, <1>2, CommitHistory DEF Serial, TypeOK
  <1>7. BaselineMirrored'
    <2>1. baseline # 0 => baseline \in 1..head
      BY <1>2 DEF Serial, TypeOK
    <2> QED
      BY <1>1, <1>3, <2>1 DEF Serial, BaselineMirrored, Covers
  <1>8. ASSUME NEW c \in Callers, Working(c) PROVE OnTarget(c)'
    <2>1. OnTarget(c) /\ target[c] \in 1..head
      BY <1>8 DEF Serial, OnTarget
    <2>2. tree'[target[c]] = tree[target[c]]
      BY <1>3, <2>1
    <2>3. \A f, v : Had(f, v, target[c]) => Had(f, v, target[c])'
      BY <1>1, <1>2, <1>3, <2>1 DEF Had
    <2> QED
      BY <1>1, <1>2, <2>1, <2>2, <2>3 DEF OnTarget, AllHad
  <1>9. ASSUME NEW c \in Callers PROVE Progress(c)'
    <2>1. Working(c) => tree'[target[c]] = tree[target[c]]
      BY <1>3 DEF Serial, OnTarget
    <2> QED
      BY <1>1, <2>1 DEF Serial, Progress, Working, Due, Done, Holds
  <1>10. \A c \in Callers : Working(c)' => Working(c)
    BY <1>1 DEF Working
  <1> QED
    BY <1>0, <1>5, <1>6, <1>7, <1>8, <1>9, <1>10 DEF Serial

\* The branch, the sides, the baseline and the worktree stay: what a sync at work
\* has to keep is its own progress.
LEMMA RunSerial ==
    ASSUME Serial, TypeOK',
           UNCHANGED <<head, tree, baseline, worktree, staging, index, local, unpushed,
                       mirror, nightly, target, changed>>,
           \A c \in Callers : /\ Working(c)' => Working(c)
                              /\ held'[c] = held[c] \/ held'[c] = NoHold
                              /\ Progress(c)'
    PROVE  Serial'
  <1>1. History' /\ Ordered' /\ BaselineMirrored' /\ baseline' <= head' /\ nightly' = 0
    BY DEF Serial, History, Ordered, BaselineMirrored, Covers, AllHad, Had, AtMost
  <1>2. ASSUME NEW c \in Callers, Working(c)' PROVE OnTarget(c)'
    <2>1. OnTarget(c)
      BY <1>2 DEF Serial
    <2> QED
      BY <2>1 DEF OnTarget, AllHad, Had
  <1> QED
    BY <1>1, <1>2 DEF Serial

\* Ensure: what is not in the diff is in the baseline, and so on the mirror.
LEMMA EnsureSerial ==
    ASSUME OneAtATime, Serial, NEW c \in Callers, Ensure(c) PROVE Serial'
  <1> USE DEF forgejo, store, git, github, run
  <1>0. TypeOK /\ TypeOK'
    BY NextType DEF Serial, Next, Sync
  <1>1. /\ UNCHANGED <<head, tree, baseline, staging, index, local, unpushed, mirror, nightly,
                       held, changed>>
        /\ worktree' = tree[head]
        /\ target'[c] = head /\ todo'[c] = ChangedFiles(baseline, head)
        /\ pc[c] = "ensure" /\ pc'[c] = "process"
    BY <1>0 DEF Ensure, TypeOK
  <1>2. History' /\ Ordered' /\ BaselineMirrored' /\ baseline' <= head' /\ nightly' = 0
    BY <1>1 DEF Serial, History, Ordered, BaselineMirrored, Covers, AllHad, Had, AtMost
  <1>3. held[c] = NoHold /\ changed[c] = {}
    BY <1>1 DEF Serial, Progress
  <1>4. OnTarget(c)'
    BY <1>0, <1>1, <1>3 DEF OnTarget, Serial, Ordered, AllHad, Had, TypeOK, Commits
  <1>5. ASSUME NEW f \in Files, Due(c, f)', f \notin todo'[c] PROVE Done(c, f)'
    <2>1. tree[head][f] # 0 /\ ~ Skipped(f)
      BY <1>1, <1>5 DEF Due
    <2>2. baseline # 0 /\ tree[baseline][f] = tree[head][f]
      BY <1>1, <1>5, <2>1 DEF ChangedFiles
    <2> QED
      BY <1>1, <2>1, <2>2 DEF Serial, BaselineMirrored, Covers, Done
  <1>6. Progress(c)'
    BY <1>1, <1>5 DEF Progress
  <1> QED
    BY <1>0, <1>2, <1>4, <1>6 DEF Serial, OneAtATime

LEMMA PassOverSerial ==
    ASSUME OneAtATime, Serial, NEW c \in Callers, NEW f \in Files, PassOver(c, f)
    PROVE  Serial'
  <1> USE DEF forgejo, store, git, github, run
  <1>0. TypeOK /\ TypeOK'
    BY NextType DEF Serial, Next, Sync
  <1>1. /\ UNCHANGED <<head, tree, baseline, worktree, staging, index, local, unpushed,
                       mirror, nightly, pc, target, held, changed>>
        /\ pc[c] = "process" /\ todo'[c] = todo[c] \ {f}
        /\ Skipped(f) \/ worktree[f] = 0
    BY <1>0 DEF PassOver, TypeOK
  <1>2. ~ Due(c, f)
    BY <1>1 DEF Serial, Working, OnTarget, Due
  <1>3. Progress(c)'
    BY <1>1, <1>2 DEF Serial, Progress, Due, Done
  <1> QED
    BY <1>0, <1>1, <1>3, RunSerial DEF Working, OneAtATime

\* Read: the worktree still is the target's tree.
LEMMA ReadSerial ==
    ASSUME OneAtATime, Serial, NEW c \in Callers, NEW f \in Files, Read(c, f)
    PROVE  Serial'
  <1> USE DEF forgejo, store, git, github, run
  <1>0. TypeOK /\ TypeOK'
    BY NextType DEF Serial, Next, Sync
  <1>1. /\ UNCHANGED <<head, tree, baseline, worktree, staging, index, local, unpushed,
                       mirror, nightly, pc, target, changed>>
        /\ pc[c] = "process" /\ todo'[c] = todo[c] \ {f}
        /\ worktree[f] # 0 /\ held[c] = NoHold
        /\ held'[c].file = f /\ held'[c].content.v = worktree[f]
    BY <1>0 DEF Read, TypeOK
  <1>2. History' /\ Ordered' /\ BaselineMirrored' /\ baseline' <= head' /\ nightly' = 0
    BY <1>1 DEF Serial, History, Ordered, BaselineMirrored, Covers, AllHad, Had, AtMost
  <1>3. held'[c] # NoHold
    BY <1>1, ConstantsOK DEF NoHold
  <1>4. OnTarget(c)
    BY <1>1 DEF Serial, Working
  <1>5. OnTarget(c)'
    BY <1>1, <1>4 DEF OnTarget, AllHad, Had
  <1>6. Progress(c)'
    BY <1>1, <1>3 DEF Serial, Progress, Due, Done
  <1> QED
    BY <1>0, <1>2, <1>5, <1>6 DEF Serial, OneAtATime

\* Stage: what was on disk was had by the target, so it is not newer.
LEMMA StageSerial ==
    ASSUME OneAtATime, Serial, NEW c \in Callers, Stage(c) PROVE Serial'
  <1> USE DEF forgejo, store, git, github, run
  <1>0. TypeOK /\ TypeOK' /\ History
    BY NextType DEF Serial, Next, Sync
  <1> DEFINE g == held[c].file
             x == held[c].content
  <1>1. /\ UNCHANGED <<head, tree, baseline, worktree, index, local, unpushed,
                       mirror, nightly, pc, target, todo>>
        /\ pc[c] = "process" /\ held[c] # NoHold /\ held'[c] = NoHold
        /\ staging' = [staging EXCEPT ![g] = x]
        /\ changed'[c] = changed[c] \cup {g}
    BY <1>0 DEF Stage, TypeOK
  <1>2. OnTarget(c)
    BY <1>1 DEF Serial, Working
  <1>3. /\ target[c] \in 1..head /\ g \in Files
        /\ x.v = tree[target[c]][g] /\ x.v # 0
    BY <1>1, <1>2 DEF OnTarget
  <1>4. staging[g].v <= x.v
    BY <1>0, <1>2, <1>3, HadIsOlder DEF OnTarget, AllHad
  <1>5. /\ staging'[g] = x
        /\ \A f \in Files : f # g => staging'[f] = staging[f]
    BY <1>0, <1>1, <1>3 DEF TypeOK
  <1>6. Had(g, x.v, target[c]) /\ Had(g, x.v, head)
    <2>1. target[c] \in 1..target[c] /\ target[c] \in 1..head
      BY <1>0, <1>3 DEF TypeOK, Commits
    <2> QED
      BY <1>3, <2>1 DEF Had
  <1>7. AllHad(staging', target[c]) /\ AllHad(staging', head)
    <2>1. AllHad(staging, target[c]) /\ AllHad(staging, head)
      BY <1>2 DEF OnTarget, Serial, Ordered
    <2> QED
      BY <1>5, <1>6, <2>1 DEF AllHad
  <1>8. AtMost(index, staging')
    <2>1. AtMost(index, staging)
      BY DEF Serial, Ordered
    <2>2. index \in [Files -> Content] /\ staging \in [Files -> Content] /\ x \in Content
      BY <1>0 DEF TypeOK
    <2>3. \A y \in Content : y.v \in Nat
      BY ConstantsOK DEF Content, Draft
    <2>4. ASSUME NEW f \in Files PROVE index[f].v <= staging'[f].v
      <3>1. index[f].v \in Nat /\ staging[f].v \in Nat /\ x.v \in Nat
        BY <2>2, <2>3
      <3>2. index[f].v <= staging[f].v
        BY <2>1 DEF AtMost
      <3> QED
        BY <1>4, <1>5, <3>1, <3>2
    <2> QED
      BY <2>4 DEF AtMost
  <1>9. History' /\ BaselineMirrored' /\ baseline' <= head' /\ nightly' = 0
    BY <1>1 DEF Serial, History, BaselineMirrored, Covers
  <1>10. Ordered'
    BY <1>1, <1>7, <1>8 DEF Serial, Ordered, AllHad, Had, AtMost
  <1>11. \A f \in changed'[c] : staging'[f].v >= tree[target[c]][f]
    <2>1. tree[target[c]][g] \in Nat
      BY <1>0, <1>3, ConstantsOK DEF TypeOK, Commits, Version
    <2>2. \A f \in changed[c] : f \in Files /\ staging[f].v >= tree[target[c]][f]
      BY <1>0, <1>2 DEF OnTarget, TypeOK
    <2> QED
      BY <1>1, <1>3, <1>5, <2>1, <2>2
  <1>12. OnTarget(c)'
    BY <1>1, <1>2, <1>7, <1>11 DEF OnTarget, AllHad, Had
  <1>13. Progress(c)'
    BY <1>1 DEF Serial, Progress, Due, Done
  <1> QED
    BY <1>0, <1>9, <1>10, <1>12, <1>13 DEF Serial, OneAtATime
LEMMA FastForwardSerial ==
    ASSUME OneAtATime, Serial, NEW c \in Callers, FastForward(c) PROVE Serial'
  <1> USE DEF forgejo, store, git, github, run
  <1>0. TypeOK /\ TypeOK'
    BY NextType DEF Serial, Next, Sync
  <1>1. /\ UNCHANGED <<head, tree, baseline, worktree, staging, mirror, nightly, target, held,
                       changed>>
        /\ pc[c] = "process" /\ pc'[c] = "add" /\ held[c] = NoHold /\ todo[c] = {}
        /\ \/ UNCHANGED <<index, local, unpushed>>
           \/ index' = mirror /\ local' = "synced" /\ unpushed' = Empty
    BY <1>0 DEF FastForward, TypeOK
  <1>2. Ordered'
    <2>1. CASE UNCHANGED <<index, local, unpushed>>
      BY <1>1, <2>1 DEF Serial, Ordered, AllHad, Had, AtMost
    <2>2. CASE index' = mirror /\ local' = "synced" /\ unpushed' = Empty
      <3>1. AtMost(mirror, mirror) /\ AtMost(Empty, mirror) /\ AtMost(mirror, staging)
        BY <1>0, AtMostFacts DEF Serial, Ordered, TypeOK
      <3>2. AllHad(Empty, head)
        BY DEF AllHad, Had, Empty, Absent
      <3>3. AllHad(mirror, head)
        BY DEF Serial, Ordered
      <3> QED
        BY <1>1, <2>2, <3>1, <3>2, <3>3 DEF Serial, Ordered, AllHad, Had, AtMost
    <2> QED
      BY <1>1, <2>1, <2>2
  <1>3. History' /\ BaselineMirrored' /\ baseline' <= head' /\ nightly' = 0
    BY <1>1 DEF Serial, History, BaselineMirrored, Covers
  <1>4. OnTarget(c)'
    BY <1>1 DEF Serial, Working, OnTarget, AllHad, Had
  <1>5. Progress(c)'
    BY <1>1 DEF Serial, Progress, Due, Done
  <1> QED
    BY <1>0, <1>2, <1>3, <1>4, <1>5 DEF Serial, OneAtATime
\* Add: with names or with AddGlob, every file due is in the index.
LEMMA AddSerial ==
    ASSUME OneAtATime, Serial, NEW c \in Callers, Add(c) PROVE Serial'
  <1> USE DEF forgejo, store, git, github, run
  <1>0. TypeOK /\ TypeOK'
    BY NextType DEF Serial, Next, Sync
  <1>1. /\ UNCHANGED <<head, tree, baseline, worktree, staging, local, unpushed, mirror,
                       nightly, target, held, changed>>
        /\ pc[c] = "add" /\ pc'[c] = "commit"
    BY <1>0 DEF Add, TypeOK
  <1>2. \A f \in Files : \/ index'[f] = staging[f]
                         \/ index'[f] = index[f] /\ f \notin changed[c] /\ changed[c] # {}
    BY <1>0 DEF Add, TypeOK
  <1>3. \A f \in Files : /\ index[f].v <= staging[f].v
                         /\ mirror[f].v <= index[f].v
                         /\ unpushed[f].v <= index[f].v
    BY DEF Serial, Ordered, AtMost
  <1>4. \A y \in Content : y.v \in Nat
    BY ConstantsOK DEF Content, Draft
  <1>5. \A f \in Files : /\ index[f].v \in Nat /\ staging[f].v \in Nat
                         /\ mirror[f].v \in Nat /\ unpushed[f].v \in Nat
    BY <1>0, <1>4 DEF TypeOK
  <1>6. \A f \in Files : /\ index[f].v <= index'[f].v
                         /\ index'[f].v <= staging[f].v
    BY <1>2, <1>3, <1>5
  <1>7. \A f \in Files : /\ mirror[f].v <= index'[f].v
                         /\ unpushed[f].v <= index'[f].v
                         /\ Had(f, index'[f].v, head)
    <2>1. \A f \in Files : Had(f, index[f].v, head) /\ Had(f, staging[f].v, head)
      BY DEF Serial, Ordered, AllHad
    <2>2. \A f \in Files : index'[f].v \in Nat
      BY <1>0, <1>4 DEF TypeOK
    <2> QED
      BY <1>2, <1>3, <1>5, <1>6, <2>1, <2>2
  <1>8. Ordered'
    <2>1. AllHad(staging, head)' /\ AllHad(unpushed, head)' /\ AllHad(mirror, head)'
      BY <1>1 DEF Serial, Ordered, AllHad, Had
    <2>2. AllHad(index, head)'
      BY <1>1, <1>7 DEF AllHad, Had
    <2>3. AtMost(mirror, index)' /\ AtMost(unpushed, index)' /\ AtMost(index, staging)'
      BY <1>1, <1>6, <1>7 DEF AtMost
    <2>4. local' \in {"orphan", "ahead"} => AtMost(mirror, unpushed)'
      BY <1>1 DEF Serial, Ordered, AtMost
    <2> QED
      BY <2>1, <2>2, <2>3, <2>4 DEF Ordered
  <1>9. History' /\ BaselineMirrored' /\ baseline' <= head' /\ nightly' = 0
    BY <1>1 DEF Serial, History, BaselineMirrored, Covers
  <1>10. OnTarget(c)
    BY <1>1 DEF Serial, Working
  <1>11. OnTarget(c)'
    BY <1>1, <1>10 DEF OnTarget, AllHad, Had
  <1>12. ASSUME NEW f \in Files, Due(c, f) PROVE index'[f].v >= tree[target[c]][f]
    <2>1. Done(c, f)
      BY <1>1, <1>12 DEF Serial, Progress
    <2>2. CASE f \in changed[c]
      BY <1>2, <1>10, <2>2 DEF OnTarget
    <2>3. CASE mirror[f].v >= tree[target[c]][f]
      <3>1. tree[target[c]][f] \in Nat /\ index'[f].v \in Nat
        BY <1>0, <1>4, <1>10, ConstantsOK DEF TypeOK, OnTarget, Commits, Version
      <3> QED
        BY <1>5, <1>7, <2>3, <3>1
    <2> QED
      BY <2>1, <2>2, <2>3 DEF Done
  <1>13. Progress(c)'
    BY <1>1, <1>12 DEF Progress, Holds, Due
  <1> QED
    BY <1>0, <1>8, <1>9, <1>11, <1>13 DEF Serial, OneAtATime

LEMMA CommitStagingSerial ==
    ASSUME OneAtATime, Serial, NEW c \in Callers, CommitStaging(c) PROVE Serial'
  <1> USE DEF forgejo, store, git, github, run
  <1>0. TypeOK /\ TypeOK'
    BY NextType DEF Serial, Next, Sync
  <1>1. /\ UNCHANGED <<head, tree, baseline, worktree, staging, index, mirror, nightly, target,
                       held, changed>>
        /\ pc[c] = "commit" /\ pc'[c] = "send"
        /\ unpushed' = index /\ local' \in {"orphan", "ahead"}
    BY <1>0 DEF CommitStaging, TypeOK
  <1>2. Ordered'
    <2>1. AtMost(index, index)
      BY <1>0, AtMostFacts DEF TypeOK
    <2> QED
      BY <1>1, <2>1 DEF Serial, Ordered, AllHad, Had, AtMost
  <1>3. History' /\ BaselineMirrored' /\ baseline' <= head' /\ nightly' = 0
    BY <1>1 DEF Serial, History, BaselineMirrored, Covers
  <1>4. OnTarget(c)'
    BY <1>1 DEF Serial, Working, OnTarget, AllHad, Had
  <1>5. Progress(c)'
    BY <1>1 DEF Serial, Progress, Holds
  <1> QED
    BY <1>0, <1>2, <1>3, <1>4, <1>5 DEF Serial, OneAtATime

\* What a push does to the mirror when it is the only one.
LEMMA SendMirror ==
    ASSUME Serial, NEW c \in Callers, Send(c)
    PROVE  /\ mirror' = unpushed /\ local' = "synced" /\ unpushed' = Empty
           /\ AtMost(mirror, unpushed) /\ AllHad(unpushed, head)
           /\ Holds(unpushed, target[c])
  BY DEF Send, Serial, Progress, Ordered

LEMMA SendSerial ==
    ASSUME OneAtATime, Serial, NEW c \in Callers, Send(c) PROVE Serial'
  <1> USE DEF forgejo, store, git, github, run
  <1>0. TypeOK /\ TypeOK'
    BY NextType DEF Serial, Next, Sync
  <1>1. /\ UNCHANGED <<head, tree, baseline, worktree, staging, index, nightly, target, held,
                       changed>>
        /\ pc[c] = "send" /\ pc'[c] = "record"
    BY <1>0 DEF Send, TypeOK
  <1>2. /\ mirror' = unpushed /\ local' = "synced" /\ unpushed' = Empty
        /\ AtMost(mirror, unpushed) /\ AllHad(unpushed, head)
        /\ Holds(unpushed, target[c])
    BY SendMirror
  <1>3. Ordered'
    <2>1. AtMost(Empty, index)
      BY <1>0, AtMostFacts DEF TypeOK
    <2>2. AllHad(Empty, head)
      BY DEF AllHad, Had, Empty, Absent
    <2> QED
      BY <1>1, <1>2, <2>1, <2>2 DEF Serial, Ordered, AllHad, Had, AtMost
  <1>4. BaselineMirrored'
    <2>1. \A y \in Content : y.v \in Nat
      BY ConstantsOK DEF Content, Draft
    <2>2. baseline # 0 => baseline \in Commits
      BY <1>0 DEF TypeOK, Commits
    <2>3. \A f \in Files : /\ mirror[f].v \in Nat /\ unpushed[f].v \in Nat
                           /\ baseline # 0 => tree[baseline][f] \in Nat
      BY <1>0, <2>1, <2>2, ConstantsOK DEF TypeOK, Version
    <2>4. \A f \in Files : mirror[f].v <= unpushed[f].v
      BY <1>2 DEF AtMost
    <2> QED
      BY <1>1, <1>2, <2>3, <2>4 DEF Serial, BaselineMirrored, Covers
  <1>5. History' /\ baseline' <= head' /\ nightly' = 0
    BY <1>1 DEF Serial, History
  <1>6. OnTarget(c)'
    BY <1>1 DEF Serial, Working, OnTarget, AllHad, Had
  <1>7. Progress(c)'
    BY <1>1, <1>2 DEF Progress, Holds
  <1> QED
    BY <1>0, <1>3, <1>4, <1>5, <1>6, <1>7 DEF Serial, OneAtATime

LEMMA RecordSerial ==
    ASSUME OneAtATime, Serial, NEW c \in Callers, Record(c) PROVE Serial'
  <1> USE DEF forgejo, store, git, github, run
  <1>0. TypeOK /\ TypeOK'
    BY NextType DEF Serial, Next, Sync
  <1>1. /\ UNCHANGED <<head, tree, staging, index, local, unpushed, mirror, nightly>>
        /\ baseline' = target[c] /\ pc[c] = "record"
    BY DEF Record
  <1>2. target[c] \in 1..head /\ Holds(mirror, target[c])
    BY <1>1 DEF Serial, Working, OnTarget, Progress
  <1>3. BaselineMirrored' /\ baseline' <= head'
    BY <1>0, <1>1, <1>2 DEF BaselineMirrored, Covers, Holds, TypeOK, Commits
  <1>4. History' /\ Ordered' /\ nightly' = 0
    BY <1>1 DEF Serial, History, Ordered, AllHad, Had, AtMost
  <1>5. \A d \in Callers : Progress(d)' /\ ~ Working(d)'
    BY <1>0, ReturnIdle DEF Record, Progress, Working
  <1> QED
    BY <1>0, <1>3, <1>4, <1>5 DEF Serial

\* The invariant is inductive.
LEMMA NextSerial == ASSUME OneAtATime PROVE Serial /\ [Next]_vars => Serial'
  <1> SUFFICES ASSUME Serial, [Next]_vars PROVE Serial'
    OBVIOUS
  <1> USE DEF forgejo, store, git, github, run
  <1>0. TypeOK /\ TypeOK'
    BY NextType DEF Serial
  <1>1. CASE Commit
    BY <1>1, CommitSerial
  <1>2. ASSUME NEW c \in Callers, Trigger(c) \/ DriftCheck(c) PROVE Serial'
    <2>1. pc[c] = "idle" /\ held[c] = NoHold /\ changed[c] = {}
      BY <1>2 DEF Trigger, DriftCheck, Serial, Progress
    <2>2. pc'[c] \in {"idle", "ensure"}
      BY <1>0, <1>2, <2>1 DEF Trigger, DriftCheck, TypeOK
    <2> QED
      BY <1>0, <1>2, <2>1, <2>2, QuietSerial DEF Trigger, DriftCheck, OneAtATime
  <1>3. ASSUME NEW c \in Callers, EnsureFails(c) \/ PushFails(c) \/ RecordFails(c)
        PROVE  Serial'
    <2>1. Return(c)
      BY <1>3 DEF EnsureFails, PushFails, RecordFails
    <2>2. \A d \in Callers : pc'[d] = "idle" /\ held'[d] = NoHold /\ changed'[d] = {}
      BY <1>0, <2>1, ReturnIdle
    <2> QED
      BY <1>0, <1>3, <2>2, QuietSerial DEF EnsureFails, PushFails, RecordFails
  <1>4. ASSUME NEW c \in Callers, Ensure(c) PROVE Serial'
    BY <1>4, EnsureSerial
  <1>5. ASSUME NEW c \in Callers, NEW f \in Files, PassOver(c, f) PROVE Serial'
    BY <1>5, PassOverSerial
  <1>6. ASSUME NEW c \in Callers, NEW f \in Files, Read(c, f) PROVE Serial'
    BY <1>6, ReadSerial
  <1>7. ASSUME NEW c \in Callers, Stage(c) PROVE Serial'
    BY <1>7, StageSerial
  <1>8. ASSUME NEW c \in Callers PROVE ~ SanitizeFails(c)
    BY DEF OneAtATime, SanitizeFails
  <1>9. ASSUME NEW c \in Callers, FastForward(c) PROVE Serial'
    BY <1>9, FastForwardSerial
  <1>10. ASSUME NEW c \in Callers, Add(c) PROVE Serial'
    BY <1>10, AddSerial
  <1>11. ASSUME NEW c \in Callers, CommitStaging(c) PROVE Serial'
    BY <1>11, CommitStagingSerial
  <1>12. ASSUME NEW c \in Callers, Send(c) PROVE Serial'
    BY <1>12, SendSerial
  <1>13. ASSUME NEW c \in Callers, Record(c) PROVE Serial'
    BY <1>13, RecordSerial
  <1>14. ~ NightlyStart /\ ~ NightlyRecord /\ ~ NightlyEnds
         /\ \A f \in Files : ~ NightlyExecute(f)
    BY DEF OneAtATime, Serial, NightlyStart, NightlyRecord, NightlyEnds, NightlyExecute
  <1>15. CASE Crash
    BY <1>0, <1>15, QuietSerial DEF Crash, Serial
  <1>16. CASE UNCHANGED vars
    <2>1. UNCHANGED <<head, tree, baseline, worktree, staging, index, local, unpushed, mirror,
                      nightly, target, changed, pc, todo, held>>
      BY <1>16 DEF vars
    <2>2. \A c \in Callers : Progress(c)'
      BY <2>1 DEF Serial, Progress, Due, Done, Holds
    <2> QED
      BY <1>0, <2>1, <2>2, RunSerial DEF Working
  <1> QED
    BY <1>1, <1>2, <1>3, <1>4, <1>5, <1>6, <1>7, <1>8, <1>9, <1>10, <1>11, <1>12, <1>13,
       <1>14, <1>15, <1>16 DEF Next, Sync, Nightly

\* One sync at a time: a recorded baseline is on the mirror.
THEOREM SerialBaselineMirrored == ASSUME OneAtATime PROVE Spec => []BaselineMirrored
  <1>1. Serial => BaselineMirrored
    BY DEF Serial
  <1> QED
    BY <1>1, InitSerial, NextSerial, PTL DEF Spec
-------------------------------------------------------------------------------
(* Refinement.                                                             *)

LEMMA InitRefines == ASSUME OneAtATime PROVE Init => Contract!Init
  <1> SUFFICES ASSUME Init PROVE Contract!Init
    OBVIOUS
  <1>1. head = 1
    BY DEF Init, InitForgejo
  <1>2. Serial
    BY InitSerial
  <1>3. baseline \in 0..1
    BY <1>1, <1>2 DEF Serial, TypeOK
  <1>4. baseline = 1 => Covers(1)
    BY <1>2 DEF Serial, BaselineMirrored
  <1> QED
    BY <1>1, <1>3, <1>4 DEF Contract!Init, Contract!Covers, Covers

\* A commit is a commit.
LEMMA CommitRefines == ASSUME Commit PROVE Contract!Commit
  BY DEF Commit, Contract!Commit, store, github

\* A push moves the files it changes forward.
LEMMA SendRefines ==
    ASSUME Serial, Boundary', NEW c \in Callers, Send(c)
    PROVE  Contract!Publish
  <1>1. /\ mirror' = unpushed /\ AtMost(mirror, unpushed) /\ AllHad(unpushed, head)
    BY SendMirror
  <1>2. UNCHANGED <<head, tree, baseline>>
    BY DEF Send, forgejo, store
  <1>3. \A y \in Content : y.v \in Nat
    BY ConstantsOK DEF Content, Draft
  <1>4. ASSUME NEW f \in Files
        PROVE  \/ mirror'[f].v = mirror[f].v
               \/ /\ mirror'[f].v > mirror[f].v
                  /\ ~ Skipped(f)
                  /\ \E k \in 1..head : tree[k][f] = mirror'[f].v
    <2>1. mirror[f].v \in Nat /\ unpushed[f].v \in Nat
      BY <1>3 DEF Serial, TypeOK
    <2>2. mirror[f].v <= mirror'[f].v
      BY <1>1 DEF AtMost
    <2>3. Skipped(f) => mirror'[f].v = 0
      BY DEF Boundary, AllFit, Fit
    <2>4. mirror'[f].v = 0 \/ \E k \in 1..head : tree[k][f] = mirror'[f].v
      BY <1>1 DEF AllHad, Had
    <2> QED
      BY <1>1, <2>1, <2>2, <2>3, <2>4
  <1> QED
    BY <1>2, <1>4 DEF Contract!Publish

\* A recorded baseline is covered and not older than the one before.
LEMMA RecordRefines ==
    ASSUME Serial, NEW c \in Callers, Record(c) PROVE Contract!Record
  <1>1. /\ target[c] \in 1..head /\ baseline <= target[c] /\ Holds(mirror, target[c])
        /\ baseline' = target[c]
    BY DEF Record, Serial, Working, OnTarget, Progress
  <1>2. target[c] >= baseline
    BY <1>1 DEF Serial, TypeOK, Commits
  <1>3. Contract!Covers([f \in Files |-> mirror[f].v], target[c])
    BY <1>1 DEF Contract!Covers, Holds
  <1>4. UNCHANGED <<head, tree, mirror>>
    BY DEF Record, forgejo, github
  <1> QED
    BY <1>1, <1>2, <1>3, <1>4 DEF Contract!Record

\* Every other step is a stutter of the contract.
LEMMA OtherStutters ==
    ASSUME OneAtATime, Serial, [Next]_vars, ~ Commit,
           \A c \in Callers : ~ Send(c) /\ ~ Record(c)
    PROVE  UNCHANGED Contract!vars
  <1>1. ~ NightlyRecord
    BY DEF OneAtATime, Serial, NightlyRecord
  <1>2. UNCHANGED <<head, tree, mirror, baseline>>
    BY <1>1 DEF Next, Sync, Nightly, vars, forgejo, store, git, github, run, Trigger,
                DriftCheck, Ensure, EnsureFails, PassOver, Read, Stage, SanitizeFails,
                FastForward, Add, CommitStaging, PushFails, RecordFails, NightlyStart,
                NightlyExecute, NightlyEnds, Crash
  <1> QED
    BY <1>2 DEF Contract!vars

LEMMA StepRefines ==
    ASSUME OneAtATime, Serial, Boundary', [Next]_vars
    PROVE  [Contract!Next]_(Contract!vars)
  <1>1. CASE Commit
    BY <1>1, CommitRefines DEF Contract!Next
  <1>2. ASSUME NEW c \in Callers, Send(c) PROVE Contract!Next
    BY <1>2, SendRefines DEF Contract!Next
  <1>3. ASSUME NEW c \in Callers, Record(c) PROVE Contract!Next
    BY <1>3, RecordRefines DEF Contract!Next
  <1>4. CASE ~ Commit /\ \A c \in Callers : ~ Send(c) /\ ~ Record(c)
    BY <1>4, OtherStutters
  <1> QED
    BY <1>1, <1>2, <1>3, <1>4

\* One sync at a time does what the contract of the mirror says.
THEOREM SerialImplementsContract ==
    ASSUME OneAtATime PROVE Spec => ImplementsContract
  <1>1. Init => Serial /\ Boundary /\ Contract!Init
    BY InitSerial, InitBoundary, InitRefines
  <1>2. Serial /\ Boundary /\ [Next]_vars =>
          Serial' /\ Boundary' /\ [Contract!Next]_(Contract!vars)
    BY NextSerial, NextBoundary, StepRefines
  <1> QED
    BY <1>1, <1>2, PTL DEF Spec, ImplementsContract, Contract!Spec

===============================================================================
