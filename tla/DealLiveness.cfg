SPECIFICATION FairSpec
CONSTANTS
    d1 = d1
    d2 = d2
    f1 = f1
    f2 = f2
    Files = {f1}
    Deals = {d1}
    FileOf <- OneDeal
    None = None
    LockedFee = 1
    DealCost = 1
    MaxFaults = 2
    MaxTxs = 6
CHECK_DEADLOCK FALSE
PROPERTIES
    RefundedOrGivenUp
    ApprovedIsSettled
