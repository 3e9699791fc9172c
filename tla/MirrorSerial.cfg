CONSTANTS
    f1 = f1
    f2 = f2
    f3 = f3
    c1 = c1
    None = None
    Files = {f1, f2, f3}
    Callers = {c1}
    KeepPaths = {f2}
    SkipFiles = {f3}
    Reviewable = {f1}
    Flaky = {}
    Deletable = {f2}
    Starts = {"fresh", "migrated"}
    Drafted = {}
    MaxCommits = 3
    MaxHooks = 1
    MaxCrashes = 1
SPECIFICATION FairSpec
INVARIANTS
    TypeOK
    BaselineMirrored
    SkipNeverMirrored
PROPERTIES
    ImplementsContract
    Converges
