SPECIFICATION FairSpec
CONSTANTS
    Attempts = {a1, a2}
    ProviderPays = {p1}
    OwnerKeys = {}
    Workers = {w1, w2}
    Acts = {}
    MaxTotal = 1
    MaxCrashes = 0
    None = None
PROPERTIES
    FailedHooksFinished
CHECK_DEADLOCK FALSE
