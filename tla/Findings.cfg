CONSTANTS
    Text <- MCText
    TagSize = 2
    Secrets <- MCSecrets
    Brackets <- MCBrackets
    ApprovedValues <- MCApproved
    Values <- MCValues
    Lines = {0, 2}
    Offsets <- MCOffsets
    MaxReported = 2
    Handlers = {h1, h2}
    Storing = {TRUE, FALSE}
    MaxScans = 1
    MaxCopies = 1
    MaxReactions = 2
SPECIFICATION FindingsSpec
CHECK_DEADLOCK FALSE
INVARIANTS
    FindingsTypeOK
    ApprovedKept
    ReplacedWhenValid
    ResolvesOwnUnlessMiscounted
PROPERTIES
    SettledStays
    ReactionsEnd
