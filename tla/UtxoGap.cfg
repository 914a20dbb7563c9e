CONSTANTS
    a = a
    b = b
    m = m
    w = w
    Owner = {a, b, m, w}
    Conn = {c1, c2}
    Trees <- GapTrees
SPECIFICATION Spec
SYMMETRY Goroutines
INVARIANT SpendableIsUnspent
