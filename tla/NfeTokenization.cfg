SPECIFICATION NfeSpec
CONSTANTS
    Key = {k1, k2, k3}
    Hash = {h1, h2, h3}
    Wallet = {pme, investor}
    Platform = platform
    NoOne = noone
SYMMETRY NfeSymmetry
INVARIANTS NfeTypeOK OneTitlePerDocument SettledIsBurned
PROPERTIES ListedLeavesBySale
CHECK_DEADLOCK FALSE
