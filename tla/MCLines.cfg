SPECIFICATION Spec
CONSTANTS
    Handlers = {h1, h2}
    Orders = {o1}
    n1 = n1
    n2 = n2
    s1 = s1
    s2 = s2
    Names <- NamesUsed
    Stocks <- StocksUsed
    Additions <- Unlinked
    Rows <- FileRows
    MaxLines = 2
    MaxId = 4
SYMMETRY Symmetry
INVARIANTS
    TypeOK
    CopiesAgree
    PageTells
    IndexTells
PROPERTIES
    SaveKeepsLinks
