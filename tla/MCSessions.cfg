SPECIFICATION Spec
CONSTANTS
    Handlers = {h1, h2}
    Emails = {e1}
    First = e1
    Pins = {p1, p2}
    NoPin = NoPin
    Roles = {"ADMIN", "ASSISTANT", "VIEWER"}
    Works = {"item", "field", "pin", "users"}
    MaxVersion = 1
    MaxLives = 2
    MaxSessions = 2
SYMMETRY Symmetry
INVARIANTS
    TypeOK
    VersionTells
    WorksForItsAccount
    ReplacesPINItChecked
    FailuresBounded
