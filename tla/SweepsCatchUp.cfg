SPECIFICATION FairSpec
CONSTANTS
    basic = basic
    pro = pro
    Tenants = {t1, t2}
    Workers = {w1, w2}
    Plans = {basic, pro}
    Price <- Prices
    Currency <- Currencies
    Length = 4
    MaxPeriod = 2
    MaxSeats = 2
    MaxChanges = 2
    MaxFailures = 1
    None = None
INVARIANTS
    ProrationExact
PROPERTIES
    SweepsCatchUp
CHECK_DEADLOCK FALSE
