SPECIFICATION Spec
CONSTANTS
    Handlers = {h1, h2}
    Histories <- Samples
    Months = {39}
    Usages = {8}
    Start <- Now
    Overrides = {2}
    Waits = {1}
    LastMonth = 41
    MaxShelf = 4
    MaxOrder = 2
SYMMETRY Symmetry
INVARIANTS
    TypeOK
    NeverHidden
PROPERTIES
    VelocityWithinReason
    MoreUsageNeverLess
    OrdersWhatIsMissing
