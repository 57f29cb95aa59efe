\* One top-up of a wallet while an administrator locks it.
CONSTANTS
    Users = {u1}
    Requests = {r1, r2}
    Ops <- AllOps
    Amounts = {60}
    MinBalances = {50}
    Percentages = {20}
    OpeningBalances = {60}
    None = None
SPECIFICATION Spec
CHECK_DEADLOCK FALSE
PROPERTIES
    LockLeavesMoneyAlone
