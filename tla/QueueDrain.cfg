CONSTANTS
    w1 = w1
    w2 = w2
    nightly = nightly
    None = None
    Workers = {w1, w2}
    Nightly = nightly
    Capacity = 2
    MaxPRs = 1
    MaxPushes = 1
    Early = FALSE
    Events <- MCEvents
SPECIFICATION Spec
INVARIANT
    Drained
