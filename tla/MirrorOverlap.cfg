CONSTANTS
    f1 = f1
    f2 = f2
    c1 = c1
    c2 = c2
    None = None
    Files = {f1, f2}
    Callers = {c1, c2}
    KeepPaths = {}
    SkipFiles = {}
    Reviewable = {}
    Flaky = {f1}
    Deletable = {}
    Starts = {"fresh", "migrated"}
    Drafted = {f1}
    MaxCommits = 2
    MaxHooks = 1
    MaxCrashes = 0
SPECIFICATION Spec
SYMMETRY CallerSymmetry
INVARIANTS
    SanitizedOnly
PROPERTIES
    PushPreservesFiles
