SPECIFICATION Spec
CONSTANTS
    Handlers = {h1, h2}
    Roles = {"HUMAN", "ASSISTANT"}
    Items = {i1}
    EditedItems = {i1}
    Acks = {FALSE, TRUE}
    FreeText = free
    Bills = {}
    NoBill = none
    LineSets = {{i1}, {free}}
    TypedSeqs = {1}
    FormStatuses = {""}
    StatusChoices = {}
    LookupFails = FALSE
    MaxOrders = 1
INVARIANTS
    LinesClearedUnlessRaced
PROPERTIES
    DraftStoredClean
    RequestsAnswered
