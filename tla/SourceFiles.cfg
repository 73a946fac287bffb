SPECIFICATION Spec
CONSTANTS
    c1 = c1
    c2 = c2
    u1 = u1
    u2 = u2
    n1 = n1
    m1 = m1
    Cids = {c1, c2}
    Uploads = {u1, u2}
    FileTypes = {"normal", "other"}
    Notices = {n1}
    Mints = {m1}
    ClientForms = {"owner", "other"}
    MinFileSize = 2
    MaxFaults = 1
    MaxCars = 3
SYMMETRY MCSymmetry
CHECK_DEADLOCK FALSE
INVARIANTS
    FilesInv
    FirstRowIsPacked
    PackedIsLocked
