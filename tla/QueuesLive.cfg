SPECIFICATION LiveSpec
CONSTANTS
    Worker = {w1, w2}
    NoOwner = NoOwner
    NoTask = NoTask
    ErrorClass = {"FETCH_TIMEOUT", "ROBOTS_DENIED"}
    NonRetryable = {"ROBOTS_DENIED"}
    NoError = NoError
    MaxAttempts = 2
    LeaseTicks = 2
    BaseRetry = 1
    MaxRetry = 1
    MaxCursor = 1
    Client = {c1}
    Source = {site}
    MaxWindow = 1
    BatchLimit = 1
    MaxCrashes = 2
    Timely = TRUE
    Prober = {v1, v2}
    Seeder = {}
    NoProber = NoProber
    Lead = {l1, l2}
    NoLead = NoLead
    MAX_ATTEMPTS = 2
    BASE_BACKOFF = 1
    MAX_BACKOFF = 2
    RESOLVED_RECHECK = 1
    ProbeLease = 2
    ProbeBatch = 2
    MaxProberCrashes = 1
    Request = {q1, q2, q3}
    Host = {h1}
    NoHost = NoHost
    Global = Global
    globalConcurrency = 3
    hostConcurrency = 1
    failureThreshold = 2
    OPEN_FOR = 1
    MaxLegs = 1
INVARIANTS
    BackoffIsKept
    AttemptsAreProbes
PROPERTIES
    EveryFetchReturns
    LeadsKeepPromise
    EveryLeadSettles
    EveryTaskSettles
