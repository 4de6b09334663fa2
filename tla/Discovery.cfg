SPECIFICATION AnySpec
CONSTANTS
    Worker = {w1, w2}
    NoOwner = NoOwner
    NoTask = NoTask
    ErrorClass = {"FETCH_TIMEOUT", "ROBOTS_DENIED"}
    NonRetryable = {"ROBOTS_DENIED"}
    NoError = NoError
    MaxAttempts = 2
    LeaseTicks = 2
    BaseRetry = 1
    MaxRetry = 1
    MaxCursor = 1
    Client = {c1}
    Source = {s1}
    MaxWindow = 2
    BatchLimit = 2
    MaxCrashes = 1
    Timely = TRUE
    Prober = {w1, w2}
    Seeder = {d1}
    NoProber = NoProber
    Lead = {l1}
    NoLead = NoLead
    MAX_ATTEMPTS = 2
    BASE_BACKOFF = 1
    MAX_BACKOFF = 2
    RESOLVED_RECHECK = 1
    ProbeLease = 1
    ProbeBatch = 2
    MaxProberCrashes = 1
    Board = {s1}
    Generic = {s1}
    Registrar = {g1}
    Admin = {a1}
    Run = {w1, w2}
    QueueTries = 1
    DegradeAfter = 1
    DisableAfter = 2
    Request = {q1, q2, q3, q4}
    Host = {h1, h2}
    NoHost = NoHost
    Global = Global
    globalConcurrency = 3
    hostConcurrency = 1
    failureThreshold = 1
    OPEN_FOR = 0
    MaxLegs = 0
SYMMETRY Symmetry
INVARIANTS
    InFlightBounded
    OneCrawlAtATime
    ExpiredLeaseIsDue
    NoStrandedLease
    LapsedLeadIsDue
    DecisionsStick
    FailuresAreCounted
    DarkForAReason
    DeniedIsLeftAlone
PROPERTIES
    KeepsPromise
    SlotsInTurn
