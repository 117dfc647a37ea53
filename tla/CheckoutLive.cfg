SPECIFICATION FairSpec
CONSTANTS
    Attempts = {a1, a2}
    ProviderPays = {p1}
    OwnerKeys = {}
    Workers = {w1, w2}
    Acts = {}
    MaxTotal = 1
    MaxCrashes = 1
    None = None
PROPERTIES
    WorkersFinish
    OpenAttemptsClose
    CapturesAccounted
CHECK_DEADLOCK FALSE
