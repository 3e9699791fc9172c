CONSTANTS
    Text <- MCText
    TagSize = 2
    Secrets = {}
    Brackets = {}
    ApprovedValues <- MCApproved
    Values <- MCValues
    Lines = {0, 2}
    Offsets = {}
    MaxReported = 2
    Handlers = {h1, h2}
    Storing = {FALSE}
    MaxScans = 1
    MaxCopies = 1
    MaxReactions = 2
SPECIFICATION FindingsSpec
CHECK_DEADLOCK FALSE
INVARIANT FindingsReplaced
