SPECIFICATION Spec
CONSTANTS
    k1 = k1
    k2 = k2
    k3 = k3
    w1 = w1
    w2 = w2
    Key = {k1, k2, k3}
    Request = {w1, w2}
    Nobody = Nobody
    NoMap = NoMap
    DiskFails = TRUE
INVARIANTS
    TypeOK
    DiskFollows
    DiskBehind
    RevokedStays
SYMMETRY Alike
