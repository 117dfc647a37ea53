SPECIFICATION FairSpec
CONSTANTS
    basic = basic
    pro = pro
    Plans = {basic, pro}
    Tier <- Tiers
    Seeds = {}
    Mandates = {m1}
    MaxEvents = 2
    MaxMonth = 1
    MaxPatches = 0
    MaxCrashes = 1
    Undated = {}
    Workers = {w1, w2}
    None = None
PROPERTIES
    EventsSettle
CHECK_DEADLOCK FALSE
