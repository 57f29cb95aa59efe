\* One slot, so the calls come one at a time (Spec is SerialSpec), with faults,
\* locks, withdrawals and a changing deposit.
\* The run may stop: MaxEntries ends the arrival of calls.
SPECIFICATION Spec
CONSTANTS
    Orders = {o1}
    Drivers = {d1, d2}
    Customers = {c1}
    Admin = admin
    Slots = {r1}
    Disturbances = {"fault", "move", "lock", "configure"}
    Price = 101
    Percentage = 20
    MinBalances = {0, 50}
    Opening = 100
    MaxEntries = 5
    None = None
SYMMETRY Perms
INVARIANTS
    TypeOK
    DeliveredIsSettled
    OneDepositPerOrder
    PendingIsFree
PROPERTIES
    ImplementsOrderLife
CHECK_DEADLOCK FALSE
