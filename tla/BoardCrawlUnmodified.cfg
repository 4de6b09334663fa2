SPECIFICATION Spec
CONSTANTS
    site = site
    p1 = p1
    p2 = p2
    p3 = p3
    n1 = n1
    Source = {site}
    Posting = {p1, p2}
    Nameless = {}
    sourceOf <- OneSite
    rank <- SiteRank
    Linked = {}
    Alike <- SameRow
    MissThreshold = 3
    HEALTH_WINDOW = 2
    MIN_HISTORY_RUNS = 2
    MinBaseline = 2
    CollapseNum = 3
    CollapseDen = 5
    MinAttempted = 3
    DegradeAfter = 1
    DisableAfter = 3
    PageSize = 1
    PageLimit = 2
    MaxFetched = 2
    Splits = FALSE
    TotalGiven = FALSE
    Conditional = TRUE
    Failures = {"NETWORK"}
    NON_RETRYABLE = {"ROBOTS_DENIED", "NOT_CONFIGURED"}
    MaxFaults = 2
PROPERTIES
    UnmodifiedIsIndexed
CHECK_DEADLOCK FALSE
