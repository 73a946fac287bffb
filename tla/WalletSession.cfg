SPECIFICATION FairSpec
CONSTANTS
    a1 = a1
    a2 = a2
    Accounts = {a1, a2}
    Mumbai = Mumbai
    OtherChains = {Ropsten}
    None = None
    MaxChanges = 2
    MaxQueue = 2
CHECK_DEADLOCK FALSE
INVARIANTS
    SessionInv
    QuietHeaderIsTrue
PROPERTIES
    HeaderCatchesUp
    LoginGoesOn
