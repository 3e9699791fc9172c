CHECK_DEADLOCK FALSE
SPECIFICATION FairNightlySpec
CONSTANTS
    cron = cron
    command = command
    sync = sync
    None = None
    Diffs = {1, 2, 3}
    Estimate <- MCEstimate
    Lines <- MCLines
    Focus = {2}
    Budget = 100
    Specs <- MCSpecs
    MaxTasks = 2
    Repos = {1, 2}
    Order <- MCOrder
    Runs = {cron, command}
    Commanded = {command}
    Named = {2}
    Syncs = {sync}
    Elsewhere <- MCElsewhere
    Answers <- MCAnswers
    MaxStarts = 2
INVARIANTS
    NightlyTypeOK
    AgentAlone
    BatchesPartition
    MostUrgentFirst
PROPERTIES
    HandledBeforeRecorded
    StoppedStartsNothing
    RunsEnd
