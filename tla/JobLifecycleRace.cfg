SPECIFICATION Spec
CONSTANTS
    A = A
    B = B
    G = G
    a1 = a1
    b1 = b1
    g1 = g1
    Source = {A, B}
    Posting = {a1, b1}
    sourceOf <- TwoBoards
    rank <- TwoBoardsRank
    Linked = {a1, b1}
    Alike <- AllAlike
    MissThreshold = 2
    Crawler = {c1}
    Verifier = {v1}
    Authoritative = {A, B}
    Serial = FALSE
    None = None
PROPERTIES
    NoLiveClosure
