------------------------------- MODULE Orders -------------------------------
(***************************************************************************)
(* src/src/orders/orders.service.ts: the life of an order, and the entries *)
(* it causes in the wallet of its driver: a deposit when it is accepted,   *)
(* its refund and the payment when it is delivered, its refund when it is  *)
(* cancelled.                                                              *)
(*                                                                         *)
(* Each handler loads the order without a lock, checks the copy it loaded, *)
(* calls the wallet service, and saves the copy; nothing spans these steps *)
(* in one transaction.  A request is a slot that serves one call after     *)
(* another.  Nothing in the code keeps two calls about the same order      *)
(* apart: Spec lets them overlap, SerialSpec is the case that they do not. *)
(* A call that is refused changes nothing and is not a step.               *)
(*                                                                         *)
(* An operation of the wallet is one step here (Wallet.tla refines such a  *)
(* step, see ImplementsLedger there), taken when it reads the row it       *)
(* locks.  save() is two steps, as in Wallet.tla.                          *)
(***************************************************************************)
EXTENDS WalletRules, TypeORM, FiniteSets

CONSTANTS
    Orders,
    Drivers,
    Customers,
    Admin,        \* an administrator
    Slots,        \* how many requests can be in progress at once
    Disturbances, \* what else happens, see below
    Price,        \* what every order costs, in kobo
    Percentage,   \* DRIVER_COMMISSION_PERCENTAGE
    MinBalances,  \* the values of DRIVER_MIN_BALANCE
    Opening,      \* the balance every driver starts with
    MaxEntries,   \* bound: no call arrives once some wallet has so many entries
    None          \* no driver, no order

\* "fault": a request dies half-way (an exception, or its process);
\* "move": a driver withdraws; "lock": an administrator locks or unlocks a
\* wallet; "configure": DRIVER_MIN_BALANCE changes.
AllDisturbances == {"fault", "move", "lock", "configure"}

ASSUME DisturbancesAssumption == Disturbances \subseteq AllDisturbances
\* The base price is positive, and so is every price.
ASSUME PriceAssumption == Price \in Nat \ {0} /\ Percentage \in 0..100
ASSUME DepositAssumption == MinBalances \subseteq Nat /\ Opening \in Nat
ASSUME BoundAssumption == MaxEntries \in Nat
ASSUME ActorsAssumption ==
    /\ Admin \notin Drivers \cup Customers
    /\ Drivers \cap Customers = {}
    /\ None \notin Drivers \cup Orders \cup Customers

VARIABLES
    orders,       \* table orders: order -> committed row, or NoOrder
    accounts,     \* driver -> the balance and the lock of his wallet
    transactions, \* driver -> rows of table transactions, oldest first
    minBalance,   \* the setting DRIVER_MIN_BALANCE
    call,         \* slot -> the call it serves
    pc,           \* slot -> where its handler is
    entity,       \* slot -> the Order entity it has in memory
    base,         \* slot -> the row as save() read it again
    past          \* history: order -> drivers it named, drivers that carried it

vars == <<orders, accounts, transactions, minBalance, call, pc, entity, base, past>>
tables == <<orders, past>>
wallet == <<accounts, transactions>>
locals == <<call, pc, entity, base>>

Statuses == {"pending", "accepted", "picked_up", "in_transit", "delivered", "cancelled"}

\* validTransitions in validateStatusTransition.
ValidTransitions ==
    [pending    |-> {"accepted", "cancelled"},
     accepted   |-> {"picked_up", "cancelled"},
     picked_up  |-> {"in_transit", "cancelled"},
     in_transit |-> {"delivered", "cancelled"},
     delivered  |-> {},
     cancelled  |-> {}]

NoOrder == [status |-> "none"]
\* delivered: whether deliveredAt is set.
OrderRow == [status : Statuses, customer : Customers, driver : Drivers \cup {None},
             delivered : BOOLEAN]

NoCall == [op |-> "none", order |-> None, driver |-> None]
Serving(op, o, d) == [op |-> op, order |-> o, driver |-> d]

O(r) == call[r].order

Init ==
    /\ orders = [o \in Orders |-> NoOrder]
    /\ accounts = [d \in Drivers |-> [balance |-> Opening, isLocked |-> FALSE]]
    /\ transactions =
          [d \in Drivers |-> <<TransactionRow(None, "add", Opening, Opening)>>]
    /\ minBalance \in MinBalances
    /\ call = [r \in Slots |-> NoCall]
    /\ pc = [r \in Slots |-> "idle"]
    /\ entity = [r \in Slots |-> NoOrder]
    /\ base = [r \in Slots |-> NoOrder]
    /\ past = [o \in Orders |-> [named |-> {}, carriers |-> {}]]

Goto(r, label) == pc' = [pc EXCEPT ![r] = label]

\* The handler returns or throws; its local variables go with it.
Leave(r) ==
    /\ Goto(r, "idle")
    /\ call' = [call EXCEPT ![r] = NoCall]
    /\ entity' = [entity EXCEPT ![r] = NoOrder]
    /\ base' = [base EXCEPT ![r] = NoOrder]

\* The bound on the exploration.
WithinBound == \A d \in Drivers : Len(transactions[d]) < MaxEntries

\* A handler has loaded the order, passed its checks and changed its copy.
Begin(r, op, o, d, copy, label) ==
    /\ pc[r] = "idle"
    /\ WithinBound
    /\ call' = [call EXCEPT ![r] = Serving(op, o, d)]
    /\ entity' = [entity EXCEPT ![r] = copy]
    /\ Goto(r, label)
    /\ UNCHANGED <<tables, wallet, minBalance, base>>

\* History: what the order's row has been.
Recorded(o, row) ==
    LET driver == {row.driver} \ {None}
    IN  [past EXCEPT ![o].named = @ \cup driver,
                     ![o].carriers = @ \cup (IF row.status = "in_transit" THEN driver ELSE {})]

\* create: one INSERT.
Create(o, c) ==
    /\ WithinBound
    /\ orders[o] = NoOrder
    /\ orders' = [orders EXCEPT ![o] =
            [status |-> "pending", customer |-> c, driver |-> None, delivered |-> FALSE]]
    /\ UNCHANGED <<wallet, minBalance, locals, past>>

\* Faulty variant: an order can be accepted whatever its status.
AcceptOrderAny(r, o, d) ==
    /\ orders[o] # NoOrder
    /\ Begin(r, "accept", o, d,
             [orders[o] EXCEPT !.driver = d, !.status = "accepted"], "check")

\* acceptOrder: only a pending order is available.
AcceptOrder(r, o, d) ==
    /\ orders[o] # NoOrder
    /\ orders[o].status = "pending"
    /\ Begin(r, "accept", o, d,
             [orders[o] EXCEPT !.driver = d, !.status = "accepted"], "check")

\* Faulty variant: the deposit is taken before the order is saved.
CanTakeChargesFirst(r) ==
    /\ pc[r] = "check"
    /\ IF accounts[call[r].driver].balance >= minBalance
       THEN Goto(r, "deduct") /\ UNCHANGED <<call, entity, base>>
       ELSE Leave(r)
    /\ UNCHANGED <<tables, wallet, minBalance>>

\* canDriverTakeOrder: the balance alone decides, the lock does not.
CanTake(r) ==
    /\ pc[r] = "check"
    /\ IF accounts[call[r].driver].balance >= minBalance
       THEN Goto(r, "reload") /\ UNCHANGED <<call, entity, base>>
       ELSE Leave(r)
    /\ UNCHANGED <<tables, wallet, minBalance>>

\* A customer acts on his own orders, a driver on those he has, an
\* administrator on all.
Authorized(a, order) ==
    /\ a \in Customers => order.customer = a
    /\ a \in Drivers => order.driver = a

\* Faulty variant: the test of deliveredAt the wrong way round.
SettlesRedelivered(order, s) == s = "delivered" /\ order.delivered /\ order.driver # None

\* updateStatus settles with the driver at the first delivery of an order that
\* has one.
Settles(order, s) == s = "delivered" /\ ~order.delivered /\ order.driver # None

\* Faulty variant: the transition is not validated.
UpdateStatusUnchecked(r, o, a, s) ==
    /\ orders[o] # NoOrder
    /\ Authorized(a, orders[o])
    /\ Begin(r, "status", o, orders[o].driver,
             [orders[o] EXCEPT !.status = s, !.delivered = @ \/ s = "delivered"],
             IF Settles(orders[o], s) THEN "refund" ELSE "reload")

\* Faulty variant: the driver is paid before his deposit is refunded.
UpdateStatusPaysFirst(r, o, a, s) ==
    /\ orders[o] # NoOrder
    /\ Authorized(a, orders[o])
    /\ s \in ValidTransitions[orders[o].status]
    /\ Begin(r, "status", o, orders[o].driver,
             [orders[o] EXCEPT !.status = s, !.delivered = @ \/ s = "delivered"],
             IF Settles(orders[o], s) THEN "pay" ELSE "reload")

\* updateStatus.
UpdateStatus(r, o, a, s) ==
    /\ orders[o] # NoOrder
    /\ Authorized(a, orders[o])
    /\ s \in ValidTransitions[orders[o].status]
    /\ Begin(r, "status", o, orders[o].driver,
             [orders[o] EXCEPT !.status = s, !.delivered = @ \/ s = "delivered"],
             IF Settles(orders[o], s) THEN "refund" ELSE "reload")

\* updateDriverLocation: any driver, any order; only columns that no property
\* mentions change, but the whole copy is saved.
UpdateDriverLocation(r, o) ==
    /\ orders[o] # NoOrder
    /\ Begin(r, "locate", o, orders[o].driver, orders[o], "reload")

\* cancelOrder: anything but a delivered order, a cancelled one included.
CancelOrder(r, o, a) ==
    /\ orders[o] # NoOrder
    /\ Authorized(a, orders[o])
    /\ orders[o].status # "delivered"
    /\ Begin(r, "cancel", o, orders[o].driver, [orders[o] EXCEPT !.status = "cancelled"],
             IF orders[o].driver # None /\ orders[o].status # "pending"
             THEN "refund" ELSE "reload")
-----------------------------------------------------------------------------
\* One operation of the wallet on a driver's account, for an order.
Posts(d, op, o, posted) ==
    LET left == accounts[d].balance + Signed(op, posted)
    IN  /\ accounts' = [accounts EXCEPT ![d].balance = left]
        /\ transactions' =
              [transactions EXCEPT ![d] = Append(@, TransactionRow(o, op, posted, left))]

Refuses(d, op, posted) ==
    RefusesLocked(op, accounts[d]) \/ Insufficient(op, accounts[d], posted)

\* The handler calls a wallet operation: it goes on, or the exception ends it.
CallsWallet(r, op, posted, next) ==
    IF Refuses(call[r].driver, op, posted)
    THEN Leave(r) /\ UNCHANGED wallet
    ELSE /\ Posts(call[r].driver, op, O(r), posted)
         /\ next

\* deductSecurityDeposit, after the order is saved: a refusal leaves the order
\* accepted.
Deduct(r) ==
    /\ pc[r] = "deduct"
    /\ CallsWallet(r, "deduct", minBalance, Leave(r))
    /\ UNCHANGED <<tables, minBalance>>

\* refundSecurityDeposit, which moves the minimum balance of this moment.
Refund(r) ==
    /\ pc[r] = "refund"
    /\ CallsWallet(r, "refund", minBalance,
           /\ Goto(r, IF call[r].op = "status" THEN "pay" ELSE "reload")
           /\ UNCHANGED <<call, entity, base>>)
    /\ UNCHANGED <<tables, minBalance>>

\* processOrderPayment: a locked wallet ends the call with the refund made and
\* the order still in transit.
Pay(r) ==
    /\ pc[r] = "pay"
    /\ CallsWallet(r, "pay", Earnings(Price, Percentage),
           /\ Goto(r, "reload")
           /\ UNCHANGED <<call, entity, base>>)
    /\ UNCHANGED <<tables, minBalance>>

\* save(): the row is read again.
Reload(r) ==
    /\ pc[r] = "reload"
    /\ base' = [base EXCEPT ![r] = orders[O(r)]]
    /\ Goto(r, "overwrite")
    /\ UNCHANGED <<tables, wallet, minBalance, call, entity>>

Overwritten(mine, seen, row) ==
    [status |-> Column(mine.status, seen.status, row.status),
     customer |-> row.customer,
     driver |-> Column(mine.driver, seen.driver, row.driver),
     delivered |-> Column(mine.delivered, seen.delivered, row.delivered)]

\* save(): the UPDATE.  Accepting goes on with the deposit.
SaveOrder(r) ==
    /\ pc[r] = "overwrite"
    /\ orders' = [orders EXCEPT ![O(r)] = Overwritten(entity[r], base[r], @)]
    /\ past' = Recorded(O(r), orders'[O(r)])
    /\ IF call[r].op = "accept"
       THEN /\ Goto(r, "deduct")
            /\ base' = [base EXCEPT ![r] = NoOrder]
            /\ UNCHANGED <<call, entity>>
       ELSE Leave(r)
    /\ UNCHANGED <<wallet, minBalance>>
-----------------------------------------------------------------------------
\* A statement raises an error, or the process dies: what is saved stays.
Die(r) ==
    /\ "fault" \in Disturbances
    /\ pc[r] # "idle"
    /\ Leave(r)
    /\ UNCHANGED <<tables, wallet, minBalance>>

\* withdrawFunds, of everything, so that the deposit can no longer be met.
Withdraw(d) ==
    /\ "move" \in Disturbances
    /\ WithinBound
    /\ accounts[d].balance > 0
    /\ ~Refuses(d, "withdraw", accounts[d].balance)
    /\ Posts(d, "withdraw", None, accounts[d].balance)
    /\ UNCHANGED <<tables, minBalance, locals>>

\* lockWallet and unlockWallet, as they are meant.
ToggleLock(d) ==
    /\ "lock" \in Disturbances
    /\ accounts' = [accounts EXCEPT ![d].isLocked = ~@]
    /\ UNCHANGED <<tables, transactions, minBalance, locals>>

SetMinBalance ==
    /\ "configure" \in Disturbances
    /\ minBalance' \in MinBalances \ {minBalance}
    /\ UNCHANGED <<tables, wallet, locals>>

Next ==
    \/ \E o \in Orders, c \in Customers : Create(o, c)
    \/ \E r \in Slots, o \in Orders :
          \/ \E d \in Drivers : AcceptOrder(r, o, d)
          \/ \E a \in Customers \cup Drivers \cup {Admin} :
                CancelOrder(r, o, a) \/ \E s \in Statuses : UpdateStatus(r, o, a, s)
          \/ UpdateDriverLocation(r, o)
    \/ \E r \in Slots :
          \/ CanTake(r) \/ Deduct(r) \/ Refund(r) \/ Pay(r)
          \/ Reload(r) \/ SaveOrder(r) \/ Die(r)
    \/ \E d \in Drivers : Withdraw(d) \/ ToggleLock(d)
    \/ SetMinBalance

Spec == Init /\ [][Next]_vars

\* The calls about an order come one at a time; those about different orders
\* interleave, and so do withdrawals and the administrator.
OnePerOrder == \A q, r \in Slots : q # r /\ pc[q] # "idle" => O(q) # O(r)
SerialSpec == Init /\ [][Next /\ OnePerOrder']_vars
-----------------------------------------------------------------------------
Labels == {"idle", "check", "reload", "overwrite", "deduct", "refund", "pay"}
Handlers == {"accept", "status", "locate", "cancel"}

\* Every variable has its type.
TypeOK ==
    /\ orders \in [Orders -> OrderRow \cup {NoOrder}]
    /\ accounts \in [Drivers -> [balance : Int, isLocked : BOOLEAN]]
    /\ transactions \in [Drivers -> Seq([ref : Orders \cup {None}, op : MoneyOps,
                                         amount : Nat, balanceAfter : Int])]
    /\ minBalance \in MinBalances
    /\ call \in [Slots -> {NoCall} \cup [op : Handlers, order : Orders,
                                        driver : Drivers \cup {None}]]
    /\ pc \in [Slots -> Labels]
    /\ entity \in [Slots -> OrderRow \cup {NoOrder}]
    /\ base \in [Slots -> OrderRow \cup {NoOrder}]
    /\ past \in [Orders -> [named : SUBSET Drivers, carriers : SUBSET Drivers]]

IsEntry(t, o, op) == t.ref = o /\ t.op = op

\* A driver's history has an entry of a kind for an order.
HasEntry(op, o, d) == \E i \in DOMAIN transactions[d] : IsEntry(transactions[d][i], o, op)

\* How many there are.
Entries(op, o, d) ==
    Cardinality({i \in DOMAIN transactions[d] : IsEntry(transactions[d][i], o, op)})

\* No call about the order is in progress.
AtRest(o) == \A r \in Slots : O(r) # o

\* Only a driver whom the order's row has named is charged, refunded or paid
\* for it, although every handler works from a copy that other handlers
\* overtake: the driver is saved before his deposit is taken.
OnlyNamedDriversMoved ==
    \A o \in Orders, d \in Drivers :
        (\E op \in MoneyOps : HasEntry(op, o, d)) => d \in past[o].named

\* Only a driver who has had the order in transit is paid for it, however the
\* deliveries overlap with other saves of the same row.
OnlyCarriersPaid ==
    \A o \in Orders, d \in Drivers :
        HasEntry("pay", o, d) => d \in past[o].carriers

\* No wallet is credited with the price of an order before the deposit for it
\* went back: every payment comes after as many refunds as there are payments
\* up to it, in every overlap of deliveries and cancellations.
RefundBeforePay ==
    \A d \in Drivers : \A n \in DOMAIN transactions[d] : \A o \in Orders :
        Cardinality({i \in 1..n : IsEntry(transactions[d][i], o, "pay")})
            <= Cardinality({i \in 1..n : IsEntry(transactions[d][i], o, "refund")})

\* When the calls about an order come one at a time: an order that was
\* delivered by a driver has been settled with him, in spite of faults at
\* every step.
DeliveredIsSettled ==
    \A o \in Orders :
        orders[o] # NoOrder /\ orders[o].status = "delivered" /\ orders[o].driver # None =>
            /\ HasEntry("refund", o, orders[o].driver)
            /\ HasEntry("pay", o, orders[o].driver)

\* An order takes one deposit, from one driver.  (Calls about it one at a time;
\* two drivers who accept at once are both charged.)
OneDepositPerOrder ==
    \A o \in Orders :
        Cardinality({k \in UNION {{d} \X DOMAIN transactions[d] : d \in Drivers} :
                        IsEntry(transactions[k[1]][k[2]], o, "deduct")}) <= 1

\* An order that is not accepted has moved no money.  (Calls about it one at a
\* time.)
PendingIsFree ==
    \A o \in Orders : orders[o].status = "pending" =>
        \A d \in Drivers, op \in MoneyOps : ~HasEntry(op, o, d)

\* A driver gets back at most the deposits he paid.  (Violated.)
RefundsCovered ==
    \A o \in Orders, d \in Drivers : Entries("refund", o, d) <= Entries("deduct", o, d)

\* The deposit for a cancelled order went back.  (Violated.)
CancelledIsRefunded ==
    \A o \in Orders : orders[o].status = "cancelled" /\ AtRest(o) =>
        \A d \in Drivers : Entries("refund", o, d) >= Entries("deduct", o, d)

\* What the abstract specification sees of the tables.
StatusOf == [o \in Orders |-> orders[o].status]
DriverOf == [o \in Orders |-> IF orders[o] = NoOrder THEN None ELSE orders[o].driver]
CountOf(op) == [o \in Orders |-> [d \in Drivers |-> Entries(op, o, d)]]

Life == INSTANCE OrderLife WITH
    status   <- StatusOf,
    driver   <- DriverOf,
    deposits <- CountOf("deduct"),
    refunds  <- CountOf("refund"),
    payments <- CountOf("pay")

\* When the calls about an order come one at a time the handlers implement the
\* life it is meant to have, through every fault, lock, withdrawal and change
\* of the deposit.
ImplementsOrderLife == Life!Spec
=============================================================================
