CONSTANTS
    p1 = p1
    p2 = p2
    Pullers = {p1, p2}
    Batch = 2
    InOrder = TRUE
    MaxRows = 5
    MaxFailed = 1
SPECIFICATION PullFairSpec
INVARIANTS NothingBehind
PROPERTY EventuallyPulled
