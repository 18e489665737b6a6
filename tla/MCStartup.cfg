SPECIFICATION OpenSpec
CONSTANTS
    Items = {i1, i2}
SYMMETRY Symmetry
INVARIANTS
    OpenTypeOK
    PolicyStands
    TypedPackKept

