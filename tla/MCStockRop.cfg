SPECIFICATION Spec
CONSTANTS
    Handlers = {h1, h2}
    Items = {i1}
    Units = {u1, u2}
    MaxRate = 1
    MaxROP = 1
SYMMETRY Symmetry
INVARIANTS
    TypeOK
    RecalcExact
    UnitChangeFlagged
