\* Two concurrent calls of any operation but the administrator's saves.
CONSTANTS
    Users = {u1}
    Requests = {r1, r2}
    Ops <- MoneyAndReads
    Amounts = {60, 101}
    MinBalances = {0, 51}
    Percentages = {20}
    OpeningBalances = {0, 101}
    None = None
SPECIFICATION Spec
INVARIANTS
    TypeOK
    HistoryExplainsBalance
    OutcomeInHistory
    TotalsMatchHistory
PROPERTIES
    EveryRequestEnds
    ImplementsLedger
