CONSTANTS
    NoHash = NoHash
    g = g
    a1 = a1
    a2 = a2
    b1 = b1
    c = c
    m = m
    n = n
    Hash <- MCHash
    PrevHash <- MCPrevHash
    Height <- MCHeight
    Node <- MCNode
    Central = c
    Tips <- MCTips
    MaxStarts <- MCMaxStarts
    MaxLag = 2
SPECIFICATION MCSpec
CHECK_DEADLOCK FALSE
INVARIANTS
    TypeOK
    NothingForgotten
    QuietMeansComplete
    RequestsAreAnswered
PROPERTIES
    CleanDownloadsDoNotPanic
    CatchesUp
