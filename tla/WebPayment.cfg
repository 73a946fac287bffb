SPECIFICATION FairSpec
CONSTANTS
    c1 = c1
    c2 = c2
    Cids = {c1, c2}
    Cost <- MCCost
    Plans = {1}
    User = User
    Mcs = Mcs
    This = This
    Nobody = Nobody
    Funds = 14
    None = None
    PageNames = {"upload", "files"}
    MaxFlows = 2
    MaxSearches = 1
    MaxFaults = 1
CHECK_DEADLOCK FALSE
INVARIANTS
    PaymentInv
    UploadNoticeNamesLock
    CompletedWasMined
PROPERTIES
    TellsWhatWasMined
    MinedIsTold
    MaskLifted
