\* Three concurrent calls of any operation, the administrator's saves included.
\* When every call has been answered the service is idle.
CONSTANTS
    Users = {u1}
    Requests = {r1, r2, r3}
    Ops <- AllOps
    Amounts = {60}
    MinBalances = {0, 50}
    Percentages = {20}
    OpeningBalances = {60}
    None = None
SPECIFICATION Safety
SYMMETRY Perms
CHECK_DEADLOCK FALSE
INVARIANTS
    HolderCopyCurrent
    NonNegativeBalance
PROPERTIES
    PostingIsAtomic
    LockedTakesOnlyRefunds
