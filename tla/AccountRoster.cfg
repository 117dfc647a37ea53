SPECIFICATION Spec
CONSTANTS
    Users = {u1, u2}
    Tokens = {k1, k2}
    Workers = {w1, w2}
    Operators = {u1, u2}
    None = None
SYMMETRY Symmetry
INVARIANTS
    TypeOK
    SignInGate
PROPERTIES
    RootRemains
CHECK_DEADLOCK FALSE
