SPECIFICATION ServiceSpec
CONSTANTS
    Deposit = {}
    Withdrawal = {x1}
    Handler = {h1}
    Worker = {w1, w2}
    Keyed = {TRUE}
    MaxCreates = 1
    MaxAttempts = 3
    BatchLimit = 1
INVARIANTS ServiceTypeOK
PROPERTIES OutboxDrained
CHECK_DEADLOCK FALSE
