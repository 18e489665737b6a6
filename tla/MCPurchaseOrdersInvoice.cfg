SPECIFICATION Spec
CONSTANTS
    Handlers = {h1, h2}
    Roles = {"HUMAN", "ASSISTANT"}
    Items = {i1}
    EditedItems = {}
    Acks = {FALSE}
    FreeText = free
    Bills = {b1}
    NoBill = none
    LineSets = {{i1}}
    TypedSeqs = {2}
    FormStatuses = {""}
    StatusChoices = {}
    LookupFails = FALSE
    MaxOrders = 2
SYMMETRY Symmetry
INVARIANTS
    InvoiceNumbersUnique
