SPECIFICATION Spec
CONSTANTS
    Users = {u1, u2, u3}
    Tenants = {t1, t2}
    Invites = {i1, i2}
    Workers = {w1, w2}
    Suspendable = {t2}
    Inviting = {t1}
    Paid = {t2}
    FreeOwned = 1
    PaidOwned = 2
    FreeSeats = 1
    PaidSeats = 2
    None = None
SYMMETRY Symmetry
INVARIANTS
    TypeOK
    RosterAgrees
PROPERTIES
    OwnerKept
    LimitsKept
    AnsweredOnce
CHECK_DEADLOCK FALSE
