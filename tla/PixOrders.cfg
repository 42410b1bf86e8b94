SPECIFICATION ServiceSpec
CONSTANTS
    Deposit = {d1}
    Withdrawal = {}
    Handler = {h1, h2}
    Worker = {}
    Keyed = {TRUE, FALSE}
    MaxCreates = 2
    MaxAttempts = 2
    BatchLimit = 2
SYMMETRY ProcessSymmetry
INVARIANTS EventAppliedOnce PaidDepositKept
PROPERTIES TerminalKept
CHECK_DEADLOCK FALSE
