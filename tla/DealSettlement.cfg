SPECIFICATION Spec
CONSTANTS
    d1 = d1
    d2 = d2
    f1 = f1
    f2 = f2
    Files = {f1}
    Deals = {d1, d2}
    FileOf <- OneFile
    None = None
    LockedFee = 2
    DealCost = 1
    MaxFaults = 1
    MaxTxs = 4
SYMMETRY DealSymmetry
CHECK_DEADLOCK FALSE
INVARIANTS
    TypeOK
    UnlockedIsPaid
    RefundAfterRecordedDeals
    RefundAfterAllDeals
PROPERTIES
    SettlesAsPromised
