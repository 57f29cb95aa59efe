\* Two requests overlap.
\* The run may stop: MaxEntries ends the arrival of calls.
SPECIFICATION Spec
CONSTANTS
    Orders = {o1}
    Drivers = {d1, d2}
    Customers = {c1}
    Admin = admin
    Slots = {r1, r2}
    Disturbances = {"fault"}
    Price = 101
    Percentage = 20
    MinBalances = {50}
    Opening = 100
    MaxEntries = 3
    None = None
SYMMETRY Perms
INVARIANTS
    OnlyNamedDriversMoved
    OnlyCarriersPaid
    RefundBeforePay
CHECK_DEADLOCK FALSE
