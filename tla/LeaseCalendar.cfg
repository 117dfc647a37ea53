SPECIFICATION Spec
CONSTANTS
    Units = {n1, n2}
    LeaseIds = {l1, l2, l3}
    Workers = {w1, w2}
    LastDay = 3
    None = None
SYMMETRY Symmetry
INVARIANTS
    TypeOK
    OccupiedByOne
PROPERTIES
    CreatedApart
CHECK_DEADLOCK FALSE
