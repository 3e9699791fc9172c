CONSTANTS
    f1 = f1
    f2 = f2
    f3 = f3
    c1 = c1
    None = None
    Files = {f1, f2}
    Callers = {c1}
    KeepPaths = {}
    SkipFiles = {}
    MigrationSkip = {f2}
    Reviewable = {}
    Flaky = {f1}
    Deletable = {f1}
    Starts = {"fresh"}
    Drafted = {}
    MaxCommits = 2
    MaxHooks = 1
    MaxCrashes = 1
    MaxRuns = 2
    MaxDisturbed = 1
SPECIFICATION MigrationSpec
INVARIANTS
    MigrationTypeOK
    Authorized
    CompleteIsExact
    MigratedBaseline
    OneCleanCommit
    SanitizedOnly
PROPERTIES
    AnswerIsFinal
