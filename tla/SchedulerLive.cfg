SPECIFICATION LiveSpec
CONSTANTS
    site = site
    p1 = p1
    p2 = p2
    p3 = p3
    n1 = n1
    Source = {site}
    Posting = {p1, p2}
    Nameless = {}
    sourceOf <- OneSite
    rank <- SiteRank
    Linked = {}
    Alike <- SameRow
    MissThreshold = 3
    HEALTH_WINDOW = 3
    MIN_HISTORY_RUNS = 2
    MinBaseline = 1
    CollapseNum = 2
    CollapseDen = 5
    MinAttempted = 3
    DegradeAfter = 1
    DisableAfter = 2
    PageSize = 1
    PageLimit = 1
    MaxFetched = 1
    Splits = FALSE
    TotalGiven = TRUE
    Conditional = FALSE
    Failures = {"NETWORK"}
    NON_RETRYABLE = {"ROBOTS_DENIED", "NOT_CONFIGURED"}
    MaxFaults = 1
    JobId = {1, 2, 3}
    base <- ByValue
    Checkable = {2, 3}
    Obscure = {}
    INTERVAL <- Cadence
    Limit = 2
    Fetch = 2
    NoJob = NoJob
    MaxOverdue = 1
    MaxFlags = 1
    MaxCuts = 1
PROPERTIES
    SuspectsFirst
    WithdrawnIsFlagged
    EveryRowIsIndexed
    DegradedHeals
    EveryDueJobIsChecked
    VerifiedAgain
