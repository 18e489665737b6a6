SPECIFICATION Spec
CONSTANTS
    Handlers = {h1, h2}
    Days = {2, 4}
    MonthLength = 2
    SpendFrom = 2
    MaxGap = 2
    RefreezeMonths = {1}
    Legacy = TRUE
    MaxRow = 2
    MaxFreezes = 2
    MaxLoose = 1
SYMMETRY Symmetry
INVARIANTS
    TypeOK
    CountedOnce
PROPERTIES
    FreezeKeepsMarksUnlessDisturbed
