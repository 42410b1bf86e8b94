SPECIFICATION Spec
CONSTANTS
    Account = {a1, a2}
    Staff = {adm, op}
    Admin = adm
    Pool = pool
    Invoice = {i1}
    Amounts = {0, 1, 2, 3}
    NoAdmin = none
    MaxSupply = 3
SYMMETRY AccountSymmetry
INVARIANTS TypeOK ShareSupplyCovered ClaimsCovered NoLockedShares PrincipalBacked
PROPERTIES NoDilution PoolStaysOpen FrozenWhilePaused
CHECK_DEADLOCK FALSE
