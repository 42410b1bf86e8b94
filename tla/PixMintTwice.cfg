SPECIFICATION Spec
CONSTANTS
    Deposit = {d1}
    Withdrawal = {}
    Handler = {h1, h2}
    Worker = {w1}
    Keyed = {TRUE}
    MaxCreates = 1
    MaxAttempts = 2
    BatchLimit = 2
SYMMETRY ProcessSymmetry
INVARIANTS MintOncePerDeposit
CHECK_DEADLOCK FALSE
