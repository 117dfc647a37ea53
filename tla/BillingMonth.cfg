SPECIFICATION Spec
CONSTANTS
    l1 = l1
    l2 = l2
    l3 = l3
    Leases = {l1, l2, l3}
    Tenancy <- Renewal
    Place <- Listing
    Bills = {b1, b2}
    Workers = {w1, w2}
    ManualLines = {"discount"}
    CorrectionLines = {"decrease"}
    None = None
SYMMETRY Symmetry
INVARIANTS
    TypeOK
    NumbersUnique
    OneLiveBill
    BillsAddUp
PROPERTIES
    IssuedHistory
CHECK_DEADLOCK FALSE
