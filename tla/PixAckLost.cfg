SPECIFICATION Spec
CONSTANTS
    Deposit = {d1}
    Withdrawal = {}
    Handler = {h1}
    Worker = {w1}
    Keyed = {TRUE}
    MaxCreates = 1
    MaxAttempts = 2
    BatchLimit = 2
INVARIANTS AcknowledgedMeansHandled
CHECK_DEADLOCK FALSE
