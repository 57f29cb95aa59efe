CONSTANTS
    Users = {u1}
    Slots = {r1, r2}
    Latitudes = {k1, k3}
    Longitudes = {k2}
    Sockets = {s1, s2}
    Orders = {o1}
    Notes = {n1}
    None = None
SPECIFICATION Spec
SYMMETRY Perms
INVARIANTS TypeOK ProfileAsReported StoredIsEmitted
PROPERTY EmittedReachesConnected
CHECK_DEADLOCK FALSE
