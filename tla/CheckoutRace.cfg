SPECIFICATION Spec
CONSTANTS
    Attempts = {a1, a2}
    ProviderPays = {p1}
    OwnerKeys = {}
    Workers = {w1, w2}
    Acts = {"refund", "adjust", "cancel", "mispay"}
    MaxTotal = 1
    MaxCrashes = 1
    None = None
SYMMETRY Symmetry
INVARIANTS
    TypeOK
    OneOpenAttempt
    LapsedUnpaid
    RefundOnlyUncredited
    DoneMeansAccounted
CHECK_DEADLOCK FALSE
