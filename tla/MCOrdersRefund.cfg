\* An order that is cancelled twice.
SPECIFICATION Spec
CONSTANTS
    Orders = {o1}
    Drivers = {d1}
    Customers = {c1}
    Admin = admin
    Slots = {r1}
    Disturbances = {}
    Price = 101
    Percentage = 20
    MinBalances = {50}
    Opening = 100
    MaxEntries = 5
    None = None
SYMMETRY Perms
INVARIANTS
    RefundsCovered
CHECK_DEADLOCK FALSE
