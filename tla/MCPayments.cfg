CONSTANTS
    r1 = r1
    r2 = r2
    r3 = r3
    Users = {u1}
    Slots = {r1, r2, r3}
    Serves <- MCServes
    Events = {e1}
    Accounts = {a1, a2}
    MaxDeliveries = 2
    Sizes = {3}
    MaxLost = 1
    Tickets <- MCTickets
    None = None
SPECIFICATION Spec
INVARIANTS TypeOK NeverLockedUp AcknowledgedIsPosted OneAccountTold OrphansAreContested
CHECK_DEADLOCK FALSE
PROPERTY CallsEnd
