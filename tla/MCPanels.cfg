SPECIFICATION PanelsSpec
CONSTANTS
    Key = {k1, k2}
    Limit <- Limits
    Window = 3
    Second = 2
    MaxBuckets = 1
    MaxNow = 3
    Request = {r1, r2}
    Timeout = 2
    MaxReads = 1
    MaxSiblings = 1
    Shared = TRUE
    k1 = k1
    k2 = k2
    r1 = r1
    r2 = r2
    ana = ana
    cat = cat
    mine = mine
    other = other
    none = none
    gone = gone
INVARIANTS
    LateAnswersIgnored
PROPERTIES
    RequestsKept PanelsRest
CHECK_DEADLOCK FALSE
