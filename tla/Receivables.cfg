SPECIFICATION Spec
CONSTANTS
    Key = {r1}
    Hash = {d1, r1, zero}
    Document = {d1}
    Wallet = {pme}
    Pme = pme
    Platform = platform
    NoOne = noone
    ZeroHash = zero
    NoDocument = nodoc
    Worker = {w1, w2}
    MaxOrders = 1
    MaxReports = 1
SYMMETRY ReceivableSymmetry
INVARIANTS PaidOnceForTitle OfferedOnlyIfPaid 
 
CHECK_DEADLOCK FALSE
