SPECIFICATION MCSpec
CONSTANTS
    one = one
    many = many
    Empty = Empty
    Texts = {Empty, one, many}
    Fees <- MCFees
    Kinds = {"files", "billing", "search", "detail", "file", "stats"}
    w1 = w1
    w2 = w2
    Wallets = {w1, w2}
    byName = byName
    Orders = {byName}
    None = None
    Limits = {2, 4}
    DefaultLimit = 2
    Decimals = 3
    Digits53 = 5
    MaxAsks = 3
    MaxLogs = 2
    fileA = fileA
    fileB = fileB
    Files = {fileA, fileB}
    NoRecord = NoRecord
    DealStatuses = {"", "Created", "DealActive", "Downloaded", "DownloadFailed", "Failed", "Waiting", "StorageDealActive", "StorageDealError"}
    MaxTips = 2
    MaxMints = 2
    MaxSupply = 3
CHECK_DEADLOCK FALSE
INVARIANTS
    TablesInv
    LastAnswerShown
    
