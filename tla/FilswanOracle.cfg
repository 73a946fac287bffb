SPECIFICATION OracleSpec
CONSTANTS
    d1 = d1
    n1 = n1
    a = a
    b = b
    c = c
    r1 = r1
    r2 = r2
    l1 = l1
    l2 = l2
    Deals = {d1}
    Networks = {n1}
    Prices = {1, 2}
    Link = 2
    Members = {a, b, c}
    DaoUsers <- Rotation
    Thresholds = {2, 3}
    Recipients = {r1, r2}
    CarLists = {l1, l2}
    EmptyList = EmptyList
SYMMETRY MCSymmetry
CHECK_DEADLOCK FALSE
INVARIANTS
    OracleTypeOK
    VotesAreSigners
    ListIsAgreed
PROPERTIES
    AgreedListStays
