CONSTANTS
    f1 = f1
    f2 = f2
    c1 = c1
    None = None
    Files = {f1}
    Callers = {c1}
    KeepPaths = {}
    SkipFiles = {}
    Reviewable = {f1}
    Flaky = {}
    Deletable = {}
    Starts = {"fresh", "migrated"}
    Drafted = {}
    MaxCommits = 2
    MaxHooks = 2
    MaxCrashes = 0
SPECIFICATION Spec
INVARIANTS SanitizedAlways
