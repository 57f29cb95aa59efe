\* Two persons with a device each, and two requests at once.
SPECIFICATION Spec
CONSTANTS
    Persons = {u1, u2}
    Devices = {d1}
    Tokens = {t1, t2, t3}
    Slots = {r1, r2}
    None = None
SYMMETRY Perms
INVARIANTS
    TypeOK
    OneTokenPerDevice
    DeviceKeepsAccess
    LogoutAllHolds
\* Calls wait for a fresh token when there is none left.
CHECK_DEADLOCK FALSE
