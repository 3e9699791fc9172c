CONSTANTS
    f1 = f1
    f2 = f2
    c1 = c1
    c2 = c2
    None = None
    Files = {f1, f2}
    Callers = {c1, c2}
    KeepPaths = {}
    SkipFiles = {}
    Reviewable = {}
    Flaky = {}
    Deletable = {}
    Starts = {"migrated"}
    Drafted = {}
    MaxCommits = 3
    MaxHooks = 2
    MaxCrashes = 0
SPECIFICATION Spec
INVARIANTS BaselineMirrored
