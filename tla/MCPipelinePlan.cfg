SPECIFICATION Spec
CONSTANTS
    Handlers = {h1, h2}
    Kinds = {"plan", "po", "rfq", "direct"}
    Items = {i1}
    ItemSets = {{i1}}
    Ships = {"Pending"}
    StatusChoices = {"VOID"}
    Dates = {TRUE}
    Expiry = TRUE
    LookupFails = FALSE
    MaxNumber <- One
    MaxBatches = 2
SYMMETRY Symmetry
INVARIANTS
    TypeOK
    PlanBounded
