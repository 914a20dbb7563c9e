SPECIFICATION MCSpec
CONSTANTS
    c = c
    m = m
    n = n
    valid = valid
    refused = refused
    NoTx = NoTx
    Node <- MCNode
    Central = c
    Miner = {m}
    Tx <- MCTx
    Invalid = {refused}
    MaxStarts <- MCMaxStarts
CHECK_DEADLOCK FALSE
INVARIANTS
    TypeOK
    OnlyCentralRelays
    StaysConnected
    CentralHasAll
    NobodyTwice
    Remembered
PROPERTY Delivered
