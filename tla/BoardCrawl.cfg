SPECIFICATION Spec
CONSTANTS
    site = site
    p1 = p1
    p2 = p2
    p3 = p3
    n1 = n1
    Source = {site}
    Posting = {p1, p2, n1}
    Nameless = {n1}
    sourceOf <- OneSite
    rank <- SiteRank
    Linked = {}
    Alike <- SameRow
    MissThreshold = 3
    HEALTH_WINDOW = 2
    MIN_HISTORY_RUNS = 2
    MinBaseline = 2
    CollapseNum = 3
    CollapseDen = 5
    MinAttempted = 3
    DegradeAfter = 1
    DisableAfter = 3
    PageSize = 1
    PageLimit = 2
    MaxFetched = 2
    Splits = TRUE
    TotalGiven = FALSE
    Conditional = TRUE
    Failures = {"NETWORK", "ROBOTS_DENIED", "NOT_CONFIGURED"}
    NON_RETRYABLE = {"ROBOTS_DENIED", "NOT_CONFIGURED"}
    MaxFaults = 1
SYMMETRY RowSymmetry
INVARIANTS
    LiveNeverStale
PROPERTIES
    AbsenceNeedsTheEnd
    NoFalseMiss
CHECK_DEADLOCK FALSE
