CONSTANTS
    NoHash = NoHash
    g = g
    f = f
    a1 = a1
    a2 = a2
    b1 = b1
    Conn = {c1, c2}
    Hash <- MCHash
    PrevHash <- MCPrevHash
    Height <- MCHeight
SPECIFICATION Spec
SYMMETRY Goroutines
INVARIANT MineBlockMines
