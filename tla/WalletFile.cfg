CONSTANTS
    Process = {p1, p2, p3}
    Wallet = {w1, w2, w3, w4}
SPECIFICATION Spec
SYMMETRY Symmetric
CHECK_DEADLOCK FALSE
INVARIANTS
    TypeOK
    SavedIsKept
