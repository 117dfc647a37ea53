SPECIFICATION Spec
CONSTANTS
    FirstDay = 3
    LastDay = 4
    MaxValue = 1
    Rates = {1}
    Multipliers = {1, 2}
    MaxAdjust = 1
    TariffDays = {2, 4}
    Keys = {k1}
    Workers = {w1, w2}
    None = None
SYMMETRY Symmetry
INVARIANTS
    TypeOK
    NegativeOnlyIfTorn
    OneRateADay
    CorrectionsTelescope
    BillBalances
CHECK_DEADLOCK FALSE
