SPECIFICATION FairBudgetSpec
CONSTANTS
    JobId = {1, 2, 3}
    base <- ByValue
    Checkable = {1, 2, 3}
    Obscure = {}
    INTERVAL <- Cadence
    Limit = 2
    Fetch = 2
    NoJob = NoJob
    MaxOverdue = 1
    MaxFlags = 1
    MaxCuts = 1
PROPERTIES
    NeverDropped
