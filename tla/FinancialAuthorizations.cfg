SPECIFICATION Spec
CONSTANTS
    Authorization = {x1}
    User = {u1, u2}
    Wallet = {wa, wb}
    Purpose = {p1, p2}
    Call = {k1, k2, k3}
    Nothing = nothing
    TTL = 2
    MaxTime = 4
SYMMETRY Symmetric
INVARIANTS Inv ConsumedOnce ConsentGiven
PROPERTIES ImplementsConsent
CHECK_DEADLOCK FALSE
