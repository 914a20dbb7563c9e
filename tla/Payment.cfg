CONSTANTS
    a = a
    b = b
    m = m
    w = w
    Owner = {a, b, m, w}
    Conn = {c1, c2}
    Trees <- MCTrees
    Orders <- MCOrders
    Key <- MCKey
    Scalar <- MCScalar
SPECIFICATION PaySpec
SYMMETRY Goroutines
INVARIANTS
    IndexIsExact
    NothingUnspentIsMissing
    NeverAMixture
    UpdateIsReindex
    BalanceIsSpendable
    ValueIsConserved
    SpendsUnspent
    SignsUnlessRepeated
    VerifiesIfItFits
