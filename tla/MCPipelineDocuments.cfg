SPECIFICATION Spec
CONSTANTS
    Handlers = {h1, h2}
    Kinds = {"direct", "po", "podraft", "rfq", "rfqdraft"}
    Items = {i1}
    ItemSets = {{i1}}
    Ships = {"Pending"}
    StatusChoices = {}
    Dates = {TRUE}
    Expiry = FALSE
    LookupFails = TRUE
    MaxNumber <- DocumentNumbers
    MaxBatches = 2
SYMMETRY Symmetry
INVARIANTS
    SupersededByStoredPO
    NumberNewUnlessDisturbed
PROPERTIES
    ResolvedOnce
    DraftsReplaceNothing
