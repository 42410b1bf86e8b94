SPECIFICATION Spec
CONSTANTS
    Deposit = {}
    Withdrawal = {x1}
    Handler = {h1, h2}
    Worker = {w1}
    Keyed = {TRUE}
    MaxCreates = 1
    MaxAttempts = 1
    BatchLimit = 2
SYMMETRY ProcessSymmetry
INVARIANTS OrderNotified CallbackTruthful WithdrawalHonest
PROPERTIES WithdrawalFinal
CHECK_DEADLOCK FALSE
