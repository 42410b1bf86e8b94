SPECIFICATION Spec
CONSTANTS
    Deposit = {d1}
    Withdrawal = {o1, o2}
    Tab = {t1, t2}
    Operator = {p1}
    MaxCallbacks = 1
    MaxApprovals = 2
    MaxSeq = 2
SYMMETRY TransactionSymmetry
INVARIANTS TransactionsTypeOK LedgerBehindStatus MintPerDecision BurnPerWithdrawal
CHECK_DEADLOCK FALSE
