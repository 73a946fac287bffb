SPECIFICATION Spec
CONSTANTS
    c1 = c1
    c2 = c2
    u1 = u1
    u2 = u2
    Cids = {c1, c2}
    Users = {u1, u2}
    Mcs = Mcs
    This = This
    Nobody = Nobody
    Funds = 3
    Amounts = {2, 3}
    MinPayments = {1}
    LockTimes = {1}
    Sizes = {0, 2}
    TokenAmounts = {3}
    MaxRepeat = 2
    LoopLimit = 2
    MaxTime = 2
SYMMETRY MCSymmetry
CHECK_DEADLOCK FALSE
INVARIANTS
    TypeOK
    SolventUpToDust
PROPERTIES
    TokenPaymentHeld
    OwnerPaidExactly
