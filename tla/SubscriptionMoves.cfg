SPECIFICATION Spec
CONSTANTS
    basic = basic
    pro = pro
    Plans = {basic, pro}
    Tier <- Tiers
    Seeds = {basic}
    Mandates = {m1, m2}
    MaxEvents = 3
    MaxMonth = 0
    MaxPatches = 1
    MaxCrashes = 0
    Undated = {TRUE}
    Workers = {w1, w2}
    None = None
SYMMETRY Symmetry
INVARIANTS
    TypeOK
    LiveMandateOnRecord
    ActivationSubscribes
    ChargesCountOnce
PROPERTIES
    PaidPlan
CHECK_DEADLOCK FALSE
