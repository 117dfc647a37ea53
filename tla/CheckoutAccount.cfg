SPECIFICATION Spec
CONSTANTS
    Attempts = {a1, a2}
    ProviderPays = {p1, p2}
    OwnerKeys = {o1}
    Workers = {w1}
    Acts = {"adjust", "cancel", "mispay"}
    MaxTotal = 2
    MaxCrashes = 0
    None = None
SYMMETRY Symmetry
INVARIANTS
    PaidIsRecorded
    CreditBacked
PROPERTIES
    AccountSpec
CHECK_DEADLOCK FALSE
