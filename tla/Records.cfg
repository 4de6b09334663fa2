SPECIFICATION AnySpec
CONSTANTS
    Member = {m1, m2}
    Link = {l1, l2}
    NoLink = NoLink
    Request = {r1, r2}
    Kept = 2
    Account = {m1, m2}
    Login = {g1}
    Sweep = {r1, r2}
    Collections = 2
    GRACE = 1
    NoAccount = NoAccount
    Drive = {d1}
    Student = {s1}
    Recorder = {r1, r2}
    Remover = {x1}
    NoDrive = NoDrive
    MaxRows = 3
    A = A
    B = B
    G = G
    a1 = a1
    b1 = b1
    g1 = g1
    Source = {A, G}
    Posting = {a1, g1}
    sourceOf <- BoardAndFeed
    rank <- BoardAndFeedRank
    Linked = {a1, g1}
    Alike <- AllAlike
    MissThreshold = 2
    Crawler = {c1}
    Verifier = {v1}
    Authoritative = {A}
    Serial = FALSE
    None = None
SYMMETRY Symmetry
INVARIANTS
    HistoryTellsSubmission
    TicksAreTheOwners
    BadgeIsCurrent
    PurgeIsComplete
    FunnelKeepsGround
    ShownHasLiveInstance
    ClosedIffRemoved
    StaleIsFlagged
PROPERTIES
    OnlyLapsedPurged
CHECK_DEADLOCK FALSE
