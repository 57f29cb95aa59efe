---------------------------- MODULE OrdersProofs ----------------------------
(***************************************************************************)
(* What TLC checks of Orders on one order and two requests, proved for any *)
(* orders, drivers, number of requests, prices, deposits and disturbances: *)
(* what holds in every overlap, and what holds, refinement of OrderLife    *)
(* included, when the calls about an order come one at a time.             *)
(***************************************************************************)
EXTENDS Orders, WalletRulesProofs, FiniteSetTheorems

\* The history variable has seen the driver an order has now.
RowsRecorded ==
    \A o \in Orders : orders[o] # NoOrder =>
        /\ orders[o].driver \in past[o].named \cup {None}
        /\ orders[o].status = "in_transit" => orders[o].driver \in past[o].carriers \cup {None}

\* What a request in progress knows of its order, however old its copy is.
CallOK(r) ==
    pc[r] # "idle" =>
        /\ O(r) \in Orders /\ orders[O(r)] # NoOrder
        /\ entity[r] \in OrderRow /\ entity[r].driver = call[r].driver
        /\ call[r].op \in Handlers
        /\ call[r].op # "accept" \/ pc[r] = "deduct" =>
              call[r].driver \in past[O(r)].named \cup {None}
        /\ pc[r] \in {"check", "deduct"} => call[r].op = "accept"
        /\ call[r].op = "accept" => call[r].driver \in Drivers
        /\ pc[r] \in {"refund", "pay"} =>
              call[r].op \in {"status", "cancel"} /\ call[r].driver \in Drivers
        /\ pc[r] \in {"refund", "pay"} /\ call[r].op = "status" =>
              call[r].driver \in past[O(r)].carriers
        /\ pc[r] = "pay" => call[r].op = "status"
        /\ pc[r] = "overwrite" =>
              base[r] \in OrderRow /\ base[r].driver \in past[O(r)].named \cup {None}

\* The inductive invariant.  A wallet operation names the driver of the copy
\* in memory, so what is known of that copy (CallOK) must outlive every change
\* of the row; what was recorded of a row is never forgotten, and does.
IInv ==
    /\ TypeOK
    /\ RowsRecorded
    /\ \A r \in Slots : CallOK(r)
    /\ OnlyNamedDriversMoved
    /\ OnlyCarriersPaid

\* Nothing that CallOK relies on is ever taken back.
Grows ==
    \A o \in Orders :
        /\ orders[o] # NoOrder => orders'[o] # NoOrder
        /\ past[o].named \subseteq past'[o].named
        /\ past[o].carriers \subseteq past'[o].carriers
-----------------------------------------------------------------------------
(* Lemmas about rows. *)

LEMMA NoOrderIsNoRow == NoOrder \notin OrderRow
BY DEF NoOrder, OrderRow

LEMMA OverwrittenFacts ==
    ASSUME NEW m \in OrderRow, NEW s \in OrderRow, NEW w \in OrderRow
    PROVE  /\ Overwritten(m, s, w) \in OrderRow
           /\ Overwritten(m, s, w).driver = Column(m.driver, s.driver, w.driver)
BY DEF Overwritten, Column, OrderRow

\* The copies the handlers make are rows.
LEMMA CopyFacts ==
    ASSUME NEW w \in OrderRow, NEW d \in Drivers, NEW s \in Statuses
    PROVE  /\ [w EXCEPT !.driver = d, !.status = "accepted"] \in OrderRow
           /\ [w EXCEPT !.driver = d, !.status = "accepted"].driver = d
           /\ [w EXCEPT !.status = s, !.delivered = @ \/ s = "delivered"] \in OrderRow
           /\ [w EXCEPT !.status = s, !.delivered = @ \/ s = "delivered"].driver = w.driver
           /\ [w EXCEPT !.status = "cancelled"] \in OrderRow
           /\ [w EXCEPT !.status = "cancelled"].driver = w.driver
BY DEF OrderRow, Statuses

LEMMA EarningsType == Earnings(Price, Percentage) \in Nat
BY EarningsNat, PriceAssumption

\* A posted entry keeps the tables of the wallets typed.
LEMMA PostsTypes ==
    ASSUME TypeOK, NEW d \in Drivers, NEW op \in MoneyOps, NEW o \in Orders \cup {None},
           NEW n \in Nat, Posts(d, op, o, n)
    PROVE  /\ (accounts \in [Drivers -> [balance : Int, isLocked : BOOLEAN]])'
           /\ (transactions \in [Drivers -> Seq([ref : Orders \cup {None}, op : MoneyOps,
                                                 amount : Nat, balanceAfter : Int])])'
<1> DEFINE left == accounts[d].balance + Signed(op, n)
           T == [ref : Orders \cup {None}, op : MoneyOps, amount : Nat, balanceAfter : Int]
<1>1. accounts[d] \in [balance : Int, isLocked : BOOLEAN] /\ transactions[d] \in Seq(T)
  BY DEF TypeOK
<1>2. Signed(op, n) \in Int /\ accounts[d].balance \in Int
  BY <1>1 DEF Signed
<1>3. left \in Int
  BY <1>2
<1>4. /\ accounts' = [accounts EXCEPT ![d].balance = left]
      /\ transactions' = [transactions EXCEPT ![d] =
                             Append(@, TransactionRow(o, op, n, left))]
  BY DEF Posts
<1> HIDE DEF left
<1>5. TransactionRow(o, op, n, left) \in T
  BY <1>3 DEF TransactionRow
<1> HIDE DEF T
<1>6. Append(transactions[d], TransactionRow(o, op, n, left)) \in Seq(T)
  BY <1>1, <1>5
<1>7. transactions' \in [Drivers -> Seq(T)]
  BY <1>4, <1>6 DEF TypeOK, T
<1>8. accounts' \in [Drivers -> [balance : Int, isLocked : BOOLEAN]]
  BY <1>3, <1>4 DEF TypeOK
<1> QED  BY <1>7, <1>8 DEF T

\* The entries of an order after a post: those before it, and the one posted.
LEMMA PostsEntries ==
    ASSUME TypeOK, NEW d \in Drivers, NEW op \in MoneyOps, NEW o \in Orders \cup {None},
           NEW n \in Nat, Posts(d, op, o, n), NEW q \in Orders, NEW e \in Drivers, NEW x,
           HasEntry(x, q, e)'
    PROVE  HasEntry(x, q, e) \/ (e = d /\ q = o /\ x = op)
<1> DEFINE T == [ref : Orders \cup {None}, op : MoneyOps, amount : Nat, balanceAfter : Int]
           t == TransactionRow(o, op, n, accounts[d].balance + Signed(op, n))
<1>1. transactions' = [transactions EXCEPT ![d] = Append(@, t)]
  BY DEF Posts
<1>2. transactions \in [Drivers -> Seq(T)]
  BY DEF TypeOK
<1>3. CASE e # d
  BY <1>1, <1>2, <1>3 DEF HasEntry, IsEntry
<1>4. CASE e = d
  <2>1. t.ref = o /\ t.op = op
    BY DEF TransactionRow
  <2> HIDE DEF t
  <2>2. transactions'[e] = Append(transactions[e], t)
    BY <1>1, <1>2, <1>4
  <2>3. PICK i \in DOMAIN transactions'[e] : IsEntry(transactions'[e][i], q, x)
    BY DEF HasEntry
  <2>4. transactions[e] \in Seq(T)
    BY <1>2
  <2> HIDE DEF T
  <2>5. \/ i \in DOMAIN transactions[e] /\ transactions'[e][i] = transactions[e][i]
        \/ transactions'[e][i] = t
    BY <2>2, <2>3, <2>4
  <2>6. CASE transactions'[e][i] = t
    BY <2>6, <2>1, <2>3, <1>4 DEF IsEntry
  <2> QED  BY <2>5, <2>6, <2>3 DEF HasEntry
<1> QED  BY <1>3, <1>4
-----------------------------------------------------------------------------
(* Initially, and what a slot's locals become. *)

LEMMA InitIInv == Init => IInv
<1> SUFFICES ASSUME Init PROVE IInv
  OBVIOUS
<1> USE DEF Init
<1>1. TypeOK
  <2> DEFINE T == [ref : Orders \cup {None}, op : MoneyOps, amount : Nat, balanceAfter : Int]
  <2>1. TransactionRow(None, "add", Opening, Opening) \in T
    BY DepositAssumption DEF TransactionRow, MoneyOps, CreditOps
  <2> HIDE DEF T
  <2>2. transactions \in [Drivers -> Seq(T)]
    BY <2>1
  <2>3. accounts \in [Drivers -> [balance : Int, isLocked : BOOLEAN]]
    BY DepositAssumption
  <2>4. /\ orders \in [Orders -> OrderRow \cup {NoOrder}]
        /\ entity \in [Slots -> OrderRow \cup {NoOrder}]
        /\ base \in [Slots -> OrderRow \cup {NoOrder}]
    OBVIOUS
  <2>5. /\ minBalance \in MinBalances
        /\ pc \in [Slots -> Labels]
        /\ past \in [Orders -> [named : SUBSET Drivers, carriers : SUBSET Drivers]]
    BY DEF Labels
  <2>6. call \in [Slots -> {NoCall} \cup [op : Handlers, order : Orders,
                                          driver : Drivers \cup {None}]]
    OBVIOUS
  <2> QED  BY <2>2, <2>3, <2>4, <2>5, <2>6 DEF TypeOK, T
<1>2. RowsRecorded
  BY DEF RowsRecorded
<1>3. \A r \in Slots : CallOK(r)
  BY DEF CallOK
<1>4. ASSUME NEW o \in Orders, NEW d \in Drivers, NEW op PROVE ~HasEntry(op, o, d)
  <2>1. transactions[d] = <<TransactionRow(None, "add", Opening, Opening)>>
    OBVIOUS
  <2>2. \A i \in DOMAIN transactions[d] : transactions[d][i].ref = None
    BY <2>1 DEF TransactionRow
  <2> QED  BY <2>2, ActorsAssumption DEF HasEntry, IsEntry
<1> QED
  BY <1>1, <1>2, <1>3, <1>4 DEF IInv, OnlyNamedDriversMoved, OnlyCarriersPaid, MoneyOps,
     CreditOps

\* The types of the variables a handler keeps to itself.
LocalTypes ==
    /\ call \in [Slots -> {NoCall} \cup [op : Handlers, order : Orders,
                                         driver : Drivers \cup {None}]]
    /\ pc \in [Slots -> Labels]
    /\ entity \in [Slots -> OrderRow \cup {NoOrder}]
    /\ base \in [Slots -> OrderRow \cup {NoOrder}]

\* Those of the tables of the wallets.
WalletTypes ==
    /\ accounts \in [Drivers -> [balance : Int, isLocked : BOOLEAN]]
    /\ transactions \in [Drivers -> Seq([ref : Orders \cup {None}, op : MoneyOps,
                                         amount : Nat, balanceAfter : Int])]

LEMMA TypesSplit ==
    TypeOK <=> /\ LocalTypes /\ WalletTypes
               /\ orders \in [Orders -> OrderRow \cup {NoOrder}]
               /\ past \in [Orders -> [named : SUBSET Drivers, carriers : SUBSET Drivers]]
               /\ minBalance \in MinBalances
BY DEF TypeOK, LocalTypes, WalletTypes

\* Only the locals of the slot that takes the step change.
OthersKept(r) ==
    \A q \in Slots \ {r} :
        call'[q] = call[q] /\ pc'[q] = pc[q] /\ entity'[q] = entity[q] /\ base'[q] = base[q]

LEMMA LeaveFacts ==
    ASSUME LocalTypes, NEW r \in Slots, Leave(r)
    PROVE  LocalTypes' /\ OthersKept(r) /\ CallOK(r)'
BY DEF LocalTypes, Leave, Goto, OthersKept, CallOK, Labels

LEMMA GotoFacts ==
    ASSUME LocalTypes, NEW r \in Slots, NEW label \in Labels, Goto(r, label),
           UNCHANGED <<call, entity, base>>
    PROVE  LocalTypes' /\ OthersKept(r) /\ pc'[r] = label
BY DEF LocalTypes, Goto, OthersKept

LEMMA BeginFacts ==
    ASSUME LocalTypes, NEW r \in Slots, NEW op \in Handlers, NEW o \in Orders,
           NEW d \in Drivers \cup {None}, NEW copy \in OrderRow, NEW label \in Labels,
           Begin(r, op, o, d, copy, label)
    PROVE  /\ LocalTypes' /\ OthersKept(r)
           /\ call'[r] = Serving(op, o, d) /\ pc'[r] = label /\ entity'[r] = copy
           /\ UNCHANGED <<tables, wallet, minBalance>>
<1>1. Serving(op, o, d) \in [op : Handlers, order : Orders, driver : Drivers \cup {None}]
  BY DEF Serving
<1>2. /\ call' = [call EXCEPT ![r] = Serving(op, o, d)]
      /\ entity' = [entity EXCEPT ![r] = copy]
      /\ pc' = [pc EXCEPT ![r] = label]
      /\ UNCHANGED base
      /\ UNCHANGED <<tables, wallet, minBalance>>
  BY DEF Begin, Goto
<1> QED  BY <1>1, <1>2 DEF LocalTypes, OthersKept

\* A call that goes on keeps what it knew.
LEMMA OthersSafe ==
    ASSUME TypeOK, NEW q \in Slots, CallOK(q), Grows,
           call'[q] = call[q], pc'[q] = pc[q], entity'[q] = entity[q], base'[q] = base[q]
    PROVE  CallOK(q)'
BY DEF CallOK, Grows, O

LEMMA SameGrows == UNCHANGED tables => Grows
BY DEF tables, Grows
-----------------------------------------------------------------------------
(* What each step does to the locals of its slot. *)

\* The step kept the types of the locals and what the calls know.
LocalsSafe(r) == LocalTypes' /\ OthersKept(r) /\ CallOK(r)'

\* The handlers that start: what they know they have just read.
LEMMA AcceptSafe ==
    ASSUME IInv, NEW r \in Slots, NEW o \in Orders, NEW d \in Drivers, AcceptOrder(r, o, d)
    PROVE  LocalsSafe(r) /\ UNCHANGED <<tables, wallet, minBalance>>
<1> DEFINE copy == [orders[o] EXCEPT !.driver = d, !.status = "accepted"]
<1>1. orders[o] \in OrderRow
  BY DEF IInv, TypeOK, AcceptOrder
<1>2. copy \in OrderRow /\ copy.driver = d
  BY <1>1, CopyFacts DEF Statuses
<1>3. Begin(r, "accept", o, d, copy, "check")
  BY DEF AcceptOrder
<1>4. LocalTypes
  BY TypesSplit DEF IInv
<1> HIDE DEF copy
<1>5. /\ LocalTypes' /\ OthersKept(r)
      /\ call'[r] = Serving("accept", o, d) /\ pc'[r] = "check" /\ entity'[r] = copy
      /\ UNCHANGED <<tables, wallet, minBalance>>
  BY <1>2, <1>3, <1>4, BeginFacts DEF Handlers, Labels
<1>6. CallOK(r)'
  BY <1>1, <1>2, <1>5, NoOrderIsNoRow DEF CallOK, O, Serving, tables, Handlers
<1> QED  BY <1>5, <1>6 DEF LocalsSafe

LEMMA StatusSafe ==
    ASSUME IInv, NEW r \in Slots, NEW o \in Orders, NEW a, NEW s \in Statuses,
           UpdateStatus(r, o, a, s)
    PROVE  LocalsSafe(r) /\ UNCHANGED <<tables, wallet, minBalance>>
<1> DEFINE copy == [orders[o] EXCEPT !.status = s, !.delivered = @ \/ s = "delivered"]
           d == orders[o].driver
           label == IF Settles(orders[o], s) THEN "refund" ELSE "reload"
<1>1. orders[o] \in OrderRow
  BY DEF IInv, TypeOK, UpdateStatus
<1>2. copy \in OrderRow /\ copy.driver = d /\ d \in Drivers \cup {None}
  <2>1. \E x \in Drivers \cup {None} : d = x
    BY <1>1 DEF OrderRow
  <2>2. copy \in OrderRow /\ copy.driver = d
    BY <1>1 DEF OrderRow, Statuses
  <2> QED  BY <2>1, <2>2
<1>3. Begin(r, "status", o, d, copy, label)
  BY DEF UpdateStatus
<1>4. LocalTypes
  BY TypesSplit DEF IInv
<1>5. label \in Labels
  BY DEF Labels
<1>6. d \in past[o].named \cup {None}
  BY <1>1, NoOrderIsNoRow DEF IInv, RowsRecorded
<1>7. Settles(orders[o], s) => d \in Drivers /\ d \in past[o].carriers
  <2>1. SUFFICES ASSUME s = "delivered", d # None PROVE d \in Drivers /\ d \in past[o].carriers
    BY DEF Settles
  <2>2. orders[o].status = "in_transit"
    BY <1>1, <2>1 DEF UpdateStatus, ValidTransitions, OrderRow, Statuses
  <2> QED  BY <1>1, <1>2, <2>1, <2>2, NoOrderIsNoRow DEF IInv, RowsRecorded
<1> HIDE DEF copy, d
<1>8. /\ LocalTypes' /\ OthersKept(r)
      /\ call'[r] = Serving("status", o, d) /\ pc'[r] = label /\ entity'[r] = copy
      /\ UNCHANGED <<tables, wallet, minBalance>>
  BY <1>2, <1>3, <1>4, <1>5, BeginFacts DEF Handlers
<1>9. CallOK(r)'
  BY <1>1, <1>2, <1>6, <1>7, <1>8, NoOrderIsNoRow DEF CallOK, O, Serving, tables, Handlers
<1> QED  BY <1>8, <1>9 DEF LocalsSafe

LEMMA CancelSafe ==
    ASSUME IInv, NEW r \in Slots, NEW o \in Orders, NEW a, CancelOrder(r, o, a)
    PROVE  LocalsSafe(r) /\ UNCHANGED <<tables, wallet, minBalance>>
<1> DEFINE copy == [orders[o] EXCEPT !.status = "cancelled"]
           d == orders[o].driver
           label == IF d # None /\ orders[o].status # "pending" THEN "refund" ELSE "reload"
<1>1. orders[o] \in OrderRow
  BY DEF IInv, TypeOK, CancelOrder
<1>2. copy \in OrderRow /\ copy.driver = d /\ d \in Drivers \cup {None}
  BY <1>1 DEF OrderRow, Statuses
<1>3. Begin(r, "cancel", o, d, copy, label)
  BY DEF CancelOrder
<1>4. LocalTypes
  BY TypesSplit DEF IInv
<1>5. label \in Labels /\ label \in {"refund", "reload"} /\ (label = "refund" => d # None)
  BY DEF Labels
<1>6. d \in past[o].named \cup {None}
  BY <1>1, NoOrderIsNoRow DEF IInv, RowsRecorded
<1> HIDE DEF copy, d, label
<1>8. /\ LocalTypes' /\ OthersKept(r)
      /\ call'[r] = Serving("cancel", o, d) /\ pc'[r] = label /\ entity'[r] = copy
      /\ UNCHANGED <<tables, wallet, minBalance>>
  BY <1>2, <1>3, <1>4, <1>5, BeginFacts DEF Handlers
<1>9. CallOK(r)'
  BY <1>1, <1>2, <1>5, <1>6, <1>8, NoOrderIsNoRow DEF CallOK, O, Serving, tables, Handlers
<1> QED  BY <1>8, <1>9 DEF LocalsSafe

LEMMA LocateSafe ==
    ASSUME IInv, NEW r \in Slots, NEW o \in Orders, UpdateDriverLocation(r, o)
    PROVE  LocalsSafe(r) /\ UNCHANGED <<tables, wallet, minBalance>>
<1>1. orders[o] \in OrderRow /\ orders[o].driver \in Drivers \cup {None}
  BY DEF IInv, TypeOK, UpdateDriverLocation, OrderRow
<1>2. Begin(r, "locate", o, orders[o].driver, orders[o], "reload")
  BY DEF UpdateDriverLocation
<1>3. LocalTypes
  BY TypesSplit DEF IInv
<1>4. orders[o].driver \in past[o].named \cup {None}
  BY <1>1, NoOrderIsNoRow DEF IInv, RowsRecorded
<1>5. /\ LocalTypes' /\ OthersKept(r)
      /\ call'[r] = Serving("locate", o, orders[o].driver)
      /\ pc'[r] = "reload" /\ entity'[r] = orders[o]
      /\ UNCHANGED <<tables, wallet, minBalance>>
  BY <1>1, <1>2, <1>3, BeginFacts DEF Handlers, Labels
<1>6. CallOK(r)'
  BY <1>1, <1>4, <1>5, NoOrderIsNoRow DEF CallOK, O, Serving, tables, Handlers
<1> QED  BY <1>5, <1>6 DEF LocalsSafe

\* A handler goes on to a label that asks for nothing new.
LEMMA GoneOn ==
    ASSUME IInv, NEW r \in Slots, NEW label, pc[r] # "idle", Goto(r, label),
           UNCHANGED <<call, entity, base, tables>>,
           label \in {"reload"} \/ (pc[r] = "refund" /\ label = "pay" /\ call[r].op = "status")
    PROVE  LocalsSafe(r)
<1>1. LocalTypes /\ CallOK(r)
  BY TypesSplit DEF IInv
<1>2. LocalTypes' /\ OthersKept(r) /\ pc'[r] = label
  BY <1>1, GotoFacts DEF Labels
<1>3. CallOK(r)'
  BY <1>1, <1>2 DEF CallOK, O, tables
<1> QED  BY <1>2, <1>3 DEF LocalsSafe

LEMMA LeftSafe ==
    ASSUME IInv, NEW r \in Slots, Leave(r)
    PROVE  LocalsSafe(r)
BY LeaveFacts, TypesSplit DEF IInv, LocalsSafe

LEMMA ProgressSafe ==
    ASSUME IInv, NEW r \in Slots, CanTake(r) \/ Deduct(r) \/ Refund(r) \/ Pay(r) \/ Die(r)
    PROVE  LocalsSafe(r) /\ UNCHANGED <<tables, minBalance>>
<1>1. CASE CanTake(r)
  BY <1>1, LeftSafe, GoneOn DEF CanTake
<1>2. CASE Deduct(r)
  BY <1>2, LeftSafe DEF Deduct, CallsWallet
<1>3. CASE Refund(r)
  <2>1. pc[r] = "refund" /\ UNCHANGED <<tables, minBalance>>
    BY <1>3 DEF Refund
  <2>2. \/ Leave(r)
        \/ /\ Goto(r, IF call[r].op = "status" THEN "pay" ELSE "reload")
           /\ UNCHANGED <<call, entity, base>>
    BY <1>3 DEF Refund, CallsWallet
  <2> QED  BY <2>1, <2>2, LeftSafe, GoneOn
<1>4. CASE Pay(r)
  BY <1>4, LeftSafe, GoneOn DEF Pay, CallsWallet
<1>5. CASE Die(r)
  BY <1>5, LeftSafe DEF Die
<1> QED  BY <1>1, <1>2, <1>3, <1>4, <1>5

LEMMA ReloadSafe ==
    ASSUME IInv, NEW r \in Slots, Reload(r)
    PROVE  LocalsSafe(r)
<1>1. LocalTypes /\ CallOK(r) /\ TypeOK /\ RowsRecorded
  BY TypesSplit DEF IInv
<1>2. /\ base' = [base EXCEPT ![r] = orders[O(r)]] /\ pc' = [pc EXCEPT ![r] = "overwrite"]
      /\ UNCHANGED <<call, entity, orders, past>> /\ pc[r] = "reload"
  BY DEF Reload, Goto, tables
<1>3. O(r) \in Orders /\ orders[O(r)] # NoOrder /\ orders[O(r)] \in OrderRow
  BY <1>1, <1>2 DEF CallOK, TypeOK
<1>4. LocalTypes' /\ OthersKept(r) /\ pc'[r] = "overwrite" /\ base'[r] = orders[O(r)]
  BY <1>1, <1>2, <1>3 DEF LocalTypes, OthersKept, Labels
<1>5. CallOK(r)'
  BY <1>1, <1>2, <1>3, <1>4 DEF CallOK, O, RowsRecorded
<1> QED  BY <1>4, <1>5 DEF LocalsSafe
-----------------------------------------------------------------------------
(* What the steps that write an order do to the tables. *)

\* A row that is written is recorded.
LEMMA WriteRow ==
    ASSUME IInv, NEW o \in Orders, NEW row \in OrderRow,
           orders' = [orders EXCEPT ![o] = row], past' = Recorded(o, row)
    PROVE  /\ RowsRecorded' /\ Grows
           /\ (orders \in [Orders -> OrderRow \cup {NoOrder}])'
           /\ (past \in [Orders -> [named : SUBSET Drivers, carriers : SUBSET Drivers]])'
           /\ row.driver # None => row.driver \in past'[o].named
<1> DEFINE driver == {row.driver} \ {None}
           named == past[o].named \cup driver
           carriers == past[o].carriers
                          \cup (IF row.status = "in_transit" THEN driver ELSE {})
<1>1. /\ orders \in [Orders -> OrderRow \cup {NoOrder}]
      /\ past \in [Orders -> [named : SUBSET Drivers, carriers : SUBSET Drivers]]
  BY DEF IInv, TypeOK
<1>2. driver \in SUBSET Drivers
  BY DEF OrderRow
<1>3. named \in SUBSET Drivers /\ carriers \in SUBSET Drivers
  BY <1>1, <1>2
<1>4. past' = [past EXCEPT ![o].named = named, ![o].carriers = carriers]
  BY DEF Recorded
<1>5. /\ past'[o].named = named /\ past'[o].carriers = carriers
      /\ \A q \in Orders \ {o} : past'[q] = past[q]
      /\ past' \in [Orders -> [named : SUBSET Drivers, carriers : SUBSET Drivers]]
  <2> HIDE DEF named, carriers
  <2> QED  BY <1>1, <1>3, <1>4
<1>6. orders' \in [Orders -> OrderRow \cup {NoOrder}]
  BY <1>1
<1>7. Grows
  BY <1>1, <1>5, NoOrderIsNoRow DEF Grows
<1>8. RowsRecorded'
  BY <1>1, <1>5 DEF RowsRecorded, IInv
<1> QED  BY <1>5, <1>6, <1>7, <1>8

LEMMA SaveSafe ==
    ASSUME IInv, NEW r \in Slots, SaveOrder(r)
    PROVE  /\ LocalsSafe(r) /\ RowsRecorded' /\ Grows
           /\ (orders \in [Orders -> OrderRow \cup {NoOrder}])'
           /\ (past \in [Orders -> [named : SUBSET Drivers, carriers : SUBSET Drivers]])'
<1> DEFINE row == Overwritten(entity[r], base[r], orders[O(r)])
<1>1. LocalTypes /\ CallOK(r) /\ TypeOK /\ RowsRecorded
  BY TypesSplit DEF IInv
<1>2. /\ O(r) \in Orders /\ orders[O(r)] \in OrderRow /\ entity[r] \in OrderRow
      /\ base[r] \in OrderRow /\ base[r].driver \in past[O(r)].named \cup {None}
      /\ entity[r].driver = call[r].driver
  BY <1>1 DEF SaveOrder, CallOK, TypeOK
<1>3. row \in OrderRow /\ row.driver = Column(entity[r].driver, base[r].driver, orders[O(r)].driver)
  BY <1>2, OverwrittenFacts
<1>4. orders' = [orders EXCEPT ![O(r)] = row] /\ past' = Recorded(O(r), row)
  <2>1. orders' = [orders EXCEPT ![O(r)] = row] /\ past' = Recorded(O(r), orders'[O(r)])
    BY DEF SaveOrder
  <2>2. orders'[O(r)] = row
    BY <2>1, <1>1, <1>2 DEF TypeOK
  <2> QED  BY <2>1, <2>2
<1> HIDE DEF row
<1>5. /\ RowsRecorded' /\ Grows
      /\ (orders \in [Orders -> OrderRow \cup {NoOrder}])'
      /\ (past \in [Orders -> [named : SUBSET Drivers, carriers : SUBSET Drivers]])'
      /\ row.driver # None => row.driver \in past'[O(r)].named
  BY <1>2, <1>3, <1>4, WriteRow
<1>6. CASE call[r].op # "accept"
  BY <1>6, LeftSafe, <1>5 DEF SaveOrder
<1>7. CASE call[r].op = "accept"
  <2>1. /\ pc' = [pc EXCEPT ![r] = "deduct"]
        /\ base' = [base EXCEPT ![r] = NoOrder]
        /\ UNCHANGED <<call, entity>>
    BY <1>7 DEF SaveOrder, Goto
  <2>2. LocalTypes' /\ OthersKept(r) /\ pc'[r] = "deduct"
    BY <1>1, <2>1 DEF LocalTypes, OthersKept, Labels
  <2>3. pc[r] = "overwrite" /\ call[r].driver \in Drivers
    BY <1>1, <1>7 DEF SaveOrder, CallOK
  <2>4. call[r].driver \in past'[O(r)].named
    <3>1. CASE entity[r].driver # base[r].driver
      BY <3>1, <1>2, <1>3, <1>5, <2>3, ActorsAssumption DEF Column
    <3>2. CASE entity[r].driver = base[r].driver
      BY <3>2, <1>2, <1>5, <2>3, ActorsAssumption DEF Grows
    <3> QED  BY <3>1, <3>2
  <2>5. orders'[O(r)] # NoOrder
    BY <1>5, <1>2, NoOrderIsNoRow DEF Grows
  <2>6. CallOK(r)'
    BY <1>1, <1>2, <1>7, <2>1, <2>2, <2>3, <2>4, <2>5 DEF CallOK, O
  <2> QED  BY <2>2, <2>6, <1>5 DEF LocalsSafe
<1> QED  BY <1>6, <1>7

LEMMA CreateSafe ==
    ASSUME IInv, NEW o \in Orders, NEW c \in Customers, Create(o, c)
    PROVE  /\ RowsRecorded' /\ Grows /\ UNCHANGED <<wallet, minBalance, locals, past>>
           /\ (orders \in [Orders -> OrderRow \cup {NoOrder}])'
<1> DEFINE row == [status |-> "pending", customer |-> c, driver |-> None, delivered |-> FALSE]
<1>1. row \in OrderRow /\ row.driver = None
  BY DEF OrderRow, Statuses
<1>2. /\ orders' = [orders EXCEPT ![o] = row] /\ orders[o] = NoOrder
      /\ UNCHANGED <<wallet, minBalance, locals, past>>
  BY DEF Create
<1> HIDE DEF row
<1>3. orders \in [Orders -> OrderRow \cup {NoOrder}]
  BY DEF IInv, TypeOK
<1> QED  BY <1>1, <1>2, <1>3, NoOrderIsNoRow DEF RowsRecorded, Grows, IInv
-----------------------------------------------------------------------------
(* What a post adds to a history is explained. *)

\* The wallet operations of the handlers: the driver is one the row has named,
\* and has carried the order if he is paid.
LEMMA CallPosts ==
    ASSUME IInv, NEW r \in Slots, Deduct(r) \/ Refund(r) \/ Pay(r)
    PROVE  UNCHANGED wallet \/
           \E op \in MoneyOps, n \in Nat :
              /\ Posts(call[r].driver, op, O(r), n)
              /\ call[r].driver \in Drivers /\ O(r) \in Orders
              /\ call[r].driver \in past[O(r)].named
              /\ op = "pay" => call[r].driver \in past[O(r)].carriers
<1>1. CallOK(r) /\ minBalance \in Nat
  BY DepositAssumption DEF IInv, TypeOK
<1>2. {"deduct", "refund", "pay"} \subseteq MoneyOps
  BY DEF MoneyOps, CreditOps, DebitOps
<1>3. CASE Deduct(r)
  <2>1. pc[r] = "deduct" /\ (UNCHANGED wallet \/ Posts(call[r].driver, "deduct", O(r), minBalance))
    BY <1>3 DEF Deduct, CallsWallet
  <2>2. call[r].driver \in Drivers /\ O(r) \in Orders /\ call[r].driver \in past[O(r)].named
    BY <1>1, <2>1, ActorsAssumption DEF CallOK
  <2> QED  BY <2>1, <2>2, <1>1, <1>2
<1>4. CASE Refund(r)
  <2>1. pc[r] = "refund" /\ (UNCHANGED wallet \/ Posts(call[r].driver, "refund", O(r), minBalance))
    BY <1>4 DEF Refund, CallsWallet
  <2>2. call[r].driver \in Drivers /\ O(r) \in Orders /\ call[r].driver \in past[O(r)].named
    BY <1>1, <2>1, ActorsAssumption DEF CallOK
  <2> QED  BY <2>1, <2>2, <1>1, <1>2
<1>5. CASE Pay(r)
  <2>1. /\ pc[r] = "pay"
        /\ UNCHANGED wallet \/ Posts(call[r].driver, "pay", O(r), Earnings(Price, Percentage))
    BY <1>5 DEF Pay, CallsWallet
  <2>2. /\ call[r].driver \in Drivers /\ O(r) \in Orders
        /\ call[r].driver \in past[O(r)].named /\ call[r].driver \in past[O(r)].carriers
    BY <1>1, <2>1, ActorsAssumption DEF CallOK
  <2> QED  BY <2>1, <2>2, <1>2, EarningsType
<1> QED  BY <1>3, <1>4, <1>5

\* What the invariant asks of the wallets.
Explained == WalletTypes /\ OnlyNamedDriversMoved /\ OnlyCarriersPaid

LEMMA PostExplained ==
    ASSUME IInv, Grows, NEW d \in Drivers, NEW op \in MoneyOps, NEW n \in Nat,
           NEW o \in Orders \cup {None}, Posts(d, op, o, n),
           o # None => d \in past[o].named /\ (op = "pay" => d \in past[o].carriers)
    PROVE  Explained'
<1>1. TypeOK /\ OnlyNamedDriversMoved /\ OnlyCarriersPaid
  BY DEF IInv
<1>2. WalletTypes'
  BY <1>1, PostsTypes DEF WalletTypes
<1>3. ASSUME NEW q \in Orders, NEW e \in Drivers, NEW x \in MoneyOps, HasEntry(x, q, e)'
      PROVE  e \in past'[q].named /\ (x = "pay" => e \in past'[q].carriers)
  <2>1. HasEntry(x, q, e) \/ (e = d /\ q = o /\ x = op)
    BY <1>1, <1>3, PostsEntries
  <2>2. e \in past[q].named /\ (x = "pay" => e \in past[q].carriers)
    BY <2>1, <1>1, <1>3, ActorsAssumption DEF OnlyNamedDriversMoved, OnlyCarriersPaid
  <2> QED  BY <2>2 DEF Grows
<1>4. "pay" \in MoneyOps
  BY DEF MoneyOps, CreditOps
<1> QED
  BY <1>2, <1>3, <1>4 DEF Explained, OnlyNamedDriversMoved, OnlyCarriersPaid

LEMMA KeptExplained ==
    ASSUME IInv, Grows, UNCHANGED wallet
    PROVE  Explained'
<1>1. \A x, q, e : HasEntry(x, q, e)' <=> HasEntry(x, q, e)
  BY DEF HasEntry, wallet
<1>2. WalletTypes'
  BY TypesSplit DEF IInv, WalletTypes, wallet
<1> QED
  BY <1>1, <1>2 DEF Explained, IInv, OnlyNamedDriversMoved, OnlyCarriersPaid, Grows
-----------------------------------------------------------------------------
(* The invariant is inductive. *)

\* A step of one slot, whichever tables it writes.
LEMMA SlotStep ==
    ASSUME IInv, NEW r \in Slots, LocalsSafe(r), Grows, RowsRecorded', Explained',
           (orders \in [Orders -> OrderRow \cup {NoOrder}])',
           (past \in [Orders -> [named : SUBSET Drivers, carriers : SUBSET Drivers]])',
           minBalance' \in MinBalances
    PROVE  IInv'
<1>1. ASSUME NEW q \in Slots PROVE CallOK(q)'
  BY <1>1, OthersSafe DEF IInv, LocalsSafe, OthersKept
<1>2. TypeOK'
  BY DEF TypeOK, LocalTypes, WalletTypes, LocalsSafe, Explained
<1> QED  BY <1>1, <1>2 DEF IInv, Explained

\* A step of no slot.
LEMMA OtherStep ==
    ASSUME IInv, UNCHANGED locals, Grows, RowsRecorded', Explained',
           (orders \in [Orders -> OrderRow \cup {NoOrder}])',
           (past \in [Orders -> [named : SUBSET Drivers, carriers : SUBSET Drivers]])',
           minBalance' \in MinBalances
    PROVE  IInv'
<1>1. ASSUME NEW q \in Slots PROVE CallOK(q)'
  BY <1>1, OthersSafe DEF IInv, locals
<1>2. LocalTypes'
  BY TypesSplit DEF IInv, LocalTypes, locals
<1>3. TypeOK'
  BY <1>2 DEF TypeOK, LocalTypes, WalletTypes, Explained
<1> QED  BY <1>1, <1>3 DEF IInv, Explained

\* The tables of the orders are as they were.
LEMMA SameTables ==
    ASSUME IInv, UNCHANGED tables
    PROVE  /\ Grows /\ RowsRecorded'
           /\ (orders \in [Orders -> OrderRow \cup {NoOrder}])'
           /\ (past \in [Orders -> [named : SUBSET Drivers, carriers : SUBSET Drivers]])'
BY SameGrows DEF IInv, TypeOK, RowsRecorded, tables

LEMMA NextIInv == IInv /\ [Next]_vars => IInv'
<1> SUFFICES ASSUME IInv, [Next]_vars PROVE IInv'
  OBVIOUS
<1>0. minBalance \in MinBalances
  BY DEF IInv, TypeOK
<1>1. ASSUME NEW o \in Orders, NEW c \in Customers, Create(o, c) PROVE IInv'
  <2>1. /\ RowsRecorded' /\ Grows /\ UNCHANGED <<wallet, minBalance, locals, past>>
        /\ (orders \in [Orders -> OrderRow \cup {NoOrder}])'
    BY <1>1, CreateSafe
  <2>2. (past \in [Orders -> [named : SUBSET Drivers, carriers : SUBSET Drivers]])'
    BY <2>1 DEF IInv, TypeOK
  <2> QED  BY <1>0, <2>1, <2>2, KeptExplained, OtherStep
<1>2. ASSUME NEW r \in Slots, LocalsSafe(r), UNCHANGED <<tables, wallet, minBalance>>
      PROVE  IInv'
  BY <1>0, <1>2, SameTables, KeptExplained, SlotStep
<1>3. ASSUME NEW r \in Slots, NEW o \in Orders, NEW d \in Drivers, AcceptOrder(r, o, d)
      PROVE  IInv'
  BY <1>2, <1>3, AcceptSafe
<1>4. ASSUME NEW r \in Slots, NEW o \in Orders, NEW a, CancelOrder(r, o, a)
      PROVE  IInv'
  BY <1>2, <1>4, CancelSafe
<1>5. ASSUME NEW r \in Slots, NEW o \in Orders, NEW a, NEW s \in Statuses,
             UpdateStatus(r, o, a, s)
      PROVE  IInv'
  BY <1>2, <1>5, StatusSafe
<1>6. ASSUME NEW r \in Slots, NEW o \in Orders, UpdateDriverLocation(r, o)
      PROVE  IInv'
  BY <1>2, <1>6, LocateSafe
<1>7. ASSUME NEW r \in Slots, CanTake(r) \/ Die(r) PROVE IInv'
  <2>1. LocalsSafe(r) /\ UNCHANGED <<tables, minBalance>>
    BY <1>7, ProgressSafe
  <2>2. UNCHANGED wallet
    BY <1>7 DEF CanTake, Die
  <2> QED  BY <2>1, <2>2, <1>2
<1>8. ASSUME NEW r \in Slots, Deduct(r) \/ Refund(r) \/ Pay(r) PROVE IInv'
  <2>1. LocalsSafe(r) /\ UNCHANGED <<tables, minBalance>>
    BY <1>8, ProgressSafe
  <2>2. Explained'
    <3>1. CASE UNCHANGED wallet
      BY <3>1, <2>1, SameTables, KeptExplained
    <3>2. CASE ~UNCHANGED wallet
      <4>1. PICK op \in MoneyOps, n \in Nat :
              /\ Posts(call[r].driver, op, O(r), n)
              /\ call[r].driver \in Drivers /\ O(r) \in Orders
              /\ call[r].driver \in past[O(r)].named
              /\ op = "pay" => call[r].driver \in past[O(r)].carriers
        BY <1>8, <3>2, CallPosts
      <4> QED  BY <4>1, <2>1, SameTables, PostExplained
    <3> QED  BY <3>1, <3>2
  <2> QED  BY <1>0, <2>1, <2>2, SameTables, SlotStep
<1>9. ASSUME NEW r \in Slots, Reload(r) PROVE IInv'
  <2>1. UNCHANGED <<tables, wallet, minBalance>>
    BY <1>9 DEF Reload
  <2> QED  BY <1>2, <1>9, <2>1, ReloadSafe
<1>10. ASSUME NEW r \in Slots, SaveOrder(r) PROVE IInv'
  <2>1. UNCHANGED <<wallet, minBalance>>
    BY <1>10 DEF SaveOrder
  <2> QED  BY <1>0, <1>10, <2>1, SaveSafe, KeptExplained, SlotStep
<1>11. ASSUME NEW d \in Drivers, Withdraw(d) PROVE IInv'
  <2>1. /\ Posts(d, "withdraw", None, accounts[d].balance) /\ accounts[d].balance > 0
        /\ UNCHANGED <<tables, minBalance, locals>>
    BY <1>11 DEF Withdraw
  <2>2. accounts[d].balance \in Int
    BY DEF IInv, TypeOK
  <2>3. accounts[d].balance \in Nat
    BY <2>1, <2>2
  <2>4. "withdraw" \in MoneyOps
    BY DEF MoneyOps, DebitOps
  <2>5. Explained'
    BY <2>1, <2>3, <2>4, SameTables, PostExplained
  <2> QED  BY <1>0, <2>1, <2>5, SameTables, OtherStep
<1>12. ASSUME NEW d \in Drivers, ToggleLock(d) PROVE IInv'
  <2>1. /\ accounts' = [accounts EXCEPT ![d].isLocked = ~@]
        /\ UNCHANGED <<tables, transactions, minBalance, locals>>
    BY <1>12 DEF ToggleLock
  <2>2. WalletTypes'
    BY <2>1 DEF IInv, TypeOK, WalletTypes
  <2>3. \A x, q, e : HasEntry(x, q, e)' <=> HasEntry(x, q, e)
    BY <2>1 DEF HasEntry
  <2>4. Explained'
    BY <2>1, <2>2, <2>3, SameTables
       DEF Explained, IInv, OnlyNamedDriversMoved, OnlyCarriersPaid, Grows
  <2> QED  BY <1>0, <2>1, <2>4, SameTables, OtherStep
<1>13. ASSUME SetMinBalance PROVE IInv'
  <2>1. minBalance' \in MinBalances /\ UNCHANGED <<tables, wallet, locals>>
    BY <1>13 DEF SetMinBalance
  <2> QED  BY <2>1, SameTables, KeptExplained, OtherStep
<1>14. ASSUME UNCHANGED vars PROVE IInv'
  <2>1. UNCHANGED <<tables, wallet, minBalance, locals>>
    BY <1>14 DEF vars, tables, wallet, locals
  <2> QED  BY <1>0, <2>1, SameTables, KeptExplained, OtherStep
<1> QED
  BY <1>1, <1>3, <1>4, <1>5, <1>6, <1>7, <1>8, <1>9, <1>10, <1>11, <1>12, <1>13, <1>14
     DEF Next

\* The invariant holds throughout.
THEOREM OrdersInvariant == Spec => []IInv
BY InitIInv, NextIInv, PTL DEF Spec

\* Every variable of the order component keeps its type.
THEOREM OrdersTypeCorrect == Spec => []TypeOK
<1>1. IInv => TypeOK
  BY DEF IInv
<1> QED  BY <1>1, OrdersInvariant, PTL

\* Whatever requests overlap, fail or are repeated, only drivers whom the
\* order's row has named are charged, refunded or paid for it.
THEOREM OnlyNamedMoved == Spec => []OnlyNamedDriversMoved
<1>1. IInv => OnlyNamedDriversMoved
  BY DEF IInv
<1> QED  BY <1>1, OrdersInvariant, PTL

\* And only a driver with whom it was in transit is paid for it.
THEOREM OnlyCarriersArePaid == Spec => []OnlyCarriersPaid
<1>1. IInv => OnlyCarriersPaid
  BY DEF IInv
<1> QED  BY <1>1, OrdersInvariant, PTL
-----------------------------------------------------------------------------
(* Counting the entries of a history. *)

\* The places of a history that have an entry of a kind for an order.
Matching(s, o, op) == {i \in DOMAIN s : IsEntry(s[i], o, op)}

LEMMA EntriesMatching ==
    \A op, o, d : Entries(op, o, d) = Cardinality(Matching(transactions[d], o, op))
BY DEF Entries, Matching

\* An appended entry is counted if it matches.
LEMMA CountAppended ==
    ASSUME NEW T, NEW s \in Seq(T), NEW t \in T, NEW o, NEW op
    PROVE  /\ IsFiniteSet(Matching(s, o, op)) /\ Cardinality(Matching(s, o, op)) \in Nat
           /\ IsEntry(t, o, op) =>
                 Cardinality(Matching(Append(s, t), o, op))
                    = Cardinality(Matching(s, o, op)) + 1
           /\ ~IsEntry(t, o, op) =>
                 Matching(Append(s, t), o, op) = Matching(s, o, op)
<1> DEFINE before == Matching(s, o, op)
           after == Matching(Append(s, t), o, op)
           last == Len(s) + 1
<1>1. /\ DOMAIN s = 1..Len(s) /\ Len(s) \in Nat
      /\ DOMAIN Append(s, t) = 1..last
      /\ Append(s, t)[last] = t
      /\ \A i \in 1..Len(s) : Append(s, t)[i] = s[i]
  OBVIOUS
<1>2. IsFiniteSet(before) /\ Cardinality(before) \in Nat
  <2>1. IsFiniteSet(1..Len(s)) /\ before \subseteq 1..Len(s)
    BY <1>1, FS_Interval DEF Matching
  <2> QED  BY <2>1, FS_Subset, FS_CardinalityType
<1>3. last \notin before
  BY <1>1 DEF Matching
<1>4. after = IF IsEntry(t, o, op) THEN before \cup {last} ELSE before
  BY <1>1 DEF Matching
<1> HIDE DEF before, after, last
<1>5. Cardinality(before \cup {last}) = Cardinality(before) + 1
  BY <1>2, <1>3, FS_AddElement
<1> QED  BY <1>2, <1>4, <1>5 DEF before, after

\* A post adds one to the count of its own kind, for its order and driver.
LEMMA PostsCounts ==
    ASSUME TypeOK, NEW d \in Drivers, NEW op \in MoneyOps, NEW o \in Orders \cup {None},
           NEW n \in Nat, Posts(d, op, o, n), NEW q \in Orders, NEW e \in Drivers, NEW x
    PROVE  /\ Entries(x, q, e) \in Nat
           /\ Entries(x, q, e)'
                 = Entries(x, q, e) + (IF e = d /\ q = o /\ x = op THEN 1 ELSE 0)
<1> DEFINE T == [ref : Orders \cup {None}, op : MoneyOps, amount : Nat, balanceAfter : Int]
           t == TransactionRow(o, op, n, accounts[d].balance + Signed(op, n))
<1>1. transactions' = [transactions EXCEPT ![d] = Append(@, t)]
  BY DEF Posts
<1>2. transactions \in [Drivers -> Seq(T)]
  BY DEF TypeOK
<1>3. t \in T /\ t.ref = o /\ t.op = op
  <2>1. accounts[d].balance \in Int /\ Signed(op, n) \in Int
    BY DEF TypeOK, Signed
  <2> QED  BY <2>1 DEF TransactionRow
<1> HIDE DEF t, T
<1>4. IsEntry(t, q, x) <=> q = o /\ x = op
  BY <1>3 DEF IsEntry
<1>5. transactions[e] \in Seq(T)
  BY <1>2
<1>6. CASE e = d
  <2>1. transactions'[e] = Append(transactions[e], t)
    BY <1>1, <1>2, <1>6
  <2>2. Entries(x, q, e)' = Cardinality(Matching(Append(transactions[e], t), q, x))
    BY <2>1 DEF Entries, Matching
  <2> QED  BY <2>2, <1>3, <1>4, <1>5, <1>6, EntriesMatching, CountAppended
<1>7. CASE e # d
  <2>1. transactions'[e] = transactions[e]
    BY <1>1, <1>2, <1>7
  <2>2. Entries(x, q, e)' = Entries(x, q, e)
    BY <2>1 DEF Entries
  <2> QED  BY <2>2, <1>3, <1>5, <1>7, EntriesMatching, CountAppended
<1> QED  BY <1>6, <1>7
-----------------------------------------------------------------------------
(* A deposit goes back before the order is paid. *)

\* The requests that have refunded a driver for an order and are about to pay.
Paying(o, d) == {r \in Slots : pc[r] = "pay" /\ O(r) = o /\ call[r].driver = d}

\* The refunds of a driver for an order lead his payments by at least one for
\* every request that is about to pay.
Leads(o, d) ==
    /\ IsFiniteSet(Paying(o, d))
    /\ Entries("pay", o, d) + Cardinality(Paying(o, d)) <= Entries("refund", o, d)

\* The inductive invariant.  RefundBeforePay speaks of the past only: what makes
\* the next payment safe is a refund its own request has made, which no other
\* request may have used up.
CountInv ==
    /\ \A o \in Orders, d \in Drivers : Leads(o, d)
    /\ RefundBeforePay

\* What a step does that neither posts nor brings a request to its payment.
Quiet(r) == OthersKept(r) /\ pc'[r] # "pay"

LEMMA EntriesNat ==
    ASSUME TypeOK, NEW o \in Orders, NEW d \in Drivers, NEW x
    PROVE  Entries(x, o, d) \in Nat
<1> DEFINE T == [ref : Orders \cup {None}, op : MoneyOps, amount : Nat, balanceAfter : Int]
<1>1. transactions[d] \in Seq(T)
  BY DEF TypeOK
<1>2. DOMAIN transactions[d] = 1..Len(transactions[d]) /\ Len(transactions[d]) \in Nat
  BY <1>1
<1>3. IsFiniteSet(DOMAIN transactions[d])
  BY <1>2, FS_Interval
<1>4. Matching(transactions[d], o, x) \subseteq DOMAIN transactions[d]
  BY DEF Matching
<1> QED  BY <1>3, <1>4, FS_Subset, FS_CardinalityType, EntriesMatching

LEMMA PayingLeft ==
    ASSUME NEW r \in Slots, Quiet(r), NEW o \in Orders, NEW d \in Drivers, Leads(o, d)
    PROVE  /\ IsFiniteSet(Paying(o, d))' /\ Cardinality(Paying(o, d)) \in Nat
           /\ Cardinality(Paying(o, d)') \in Nat
           /\ Cardinality(Paying(o, d)')
                 = Cardinality(Paying(o, d)) - (IF r \in Paying(o, d) THEN 1 ELSE 0)
<1>1. Paying(o, d)' = Paying(o, d) \ {r}
  BY DEF Paying, Quiet, OthersKept, O
<1>2. IsFiniteSet(Paying(o, d))
  BY DEF Leads
<1>3. IsFiniteSet(Paying(o, d) \ {r})
  BY <1>2, FS_RemoveElement
<1>4. Cardinality(Paying(o, d) \ {r})
         = Cardinality(Paying(o, d)) - (IF r \in Paying(o, d) THEN 1 ELSE 0)
  BY <1>2, FS_RemoveElement, FS_CardinalityType
<1> QED  BY <1>1, <1>2, <1>3, <1>4, FS_CardinalityType

LEMMA PayingJoined ==
    ASSUME NEW r \in Slots, OthersKept(r), pc[r] # "pay", pc'[r] = "pay",
           UNCHANGED call, NEW o \in Orders, NEW d \in Drivers, Leads(o, d)
    PROVE  /\ IsFiniteSet(Paying(o, d))' /\ Cardinality(Paying(o, d)) \in Nat
           /\ Cardinality(Paying(o, d)') \in Nat
           /\ Cardinality(Paying(o, d)')
                 = Cardinality(Paying(o, d))
                     + (IF O(r) = o /\ call[r].driver = d THEN 1 ELSE 0)
<1>1. Paying(o, d)'
         = IF O(r) = o /\ call[r].driver = d THEN Paying(o, d) \cup {r} ELSE Paying(o, d)
  BY DEF Paying, OthersKept, O
<1>2. IsFiniteSet(Paying(o, d)) /\ r \notin Paying(o, d)
  BY DEF Leads, Paying
<1>3. /\ IsFiniteSet(Paying(o, d) \cup {r})
      /\ Cardinality(Paying(o, d) \cup {r}) = Cardinality(Paying(o, d)) + 1
  BY <1>2, FS_AddElement
<1> QED  BY <1>1, <1>2, <1>3, FS_CardinalityType

\* A post that leaves the refunds of every driver ahead keeps them ahead in
\* every prefix: the new one is the whole history.
LEMMA PostKeepsOrder ==
    ASSUME TypeOK, RefundBeforePay, NEW d \in Drivers, NEW op \in MoneyOps,
           NEW o \in Orders \cup {None}, NEW n \in Nat, Posts(d, op, o, n),
           \A q \in Orders, e \in Drivers : Entries("pay", q, e)' <= Entries("refund", q, e)'
    PROVE  RefundBeforePay'
<1> DEFINE T == [ref : Orders \cup {None}, op : MoneyOps, amount : Nat, balanceAfter : Int]
           t == TransactionRow(o, op, n, accounts[d].balance + Signed(op, n))
           Upto(h, k, q, x) == {i \in 1..k : IsEntry(h[i], q, x)}
<1>1. transactions' = [transactions EXCEPT ![d] = Append(@, t)]
  BY DEF Posts
<1>2. transactions \in [Drivers -> Seq(T)]
  BY DEF TypeOK
<1>3. SUFFICES ASSUME NEW e \in Drivers, NEW k \in DOMAIN transactions'[e], NEW q \in Orders
               PROVE  Cardinality(Upto(transactions'[e], k, q, "pay"))
                         <= Cardinality(Upto(transactions'[e], k, q, "refund"))
  BY DEF RefundBeforePay
<1>4. ASSUME k \in DOMAIN transactions[e]
      PROVE  Cardinality(Upto(transactions[e], k, q, "pay"))
                <= Cardinality(Upto(transactions[e], k, q, "refund"))
  BY <1>4 DEF RefundBeforePay
<1> HIDE DEF t, T
<1>5. CASE e # d
  <2>1. transactions'[e] = transactions[e]
    BY <1>1, <1>2, <1>5
  <2> QED  BY <2>1, <1>4
<1>6. CASE e = d
  <2> DEFINE s == transactions[e]
  <2>1. transactions'[e] = Append(s, t) /\ s \in Seq(T)
    BY <1>1, <1>2, <1>6
  <2>2. /\ DOMAIN s = 1..Len(s) /\ Len(s) \in Nat
        /\ DOMAIN Append(s, t) = 1..Len(s) + 1
        /\ \A i \in 1..Len(s) : Append(s, t)[i] = s[i]
    BY <2>1
  <2>3. CASE k \in 1..Len(s)
    <3>1. 1..k \subseteq 1..Len(s)
      BY <2>2, <2>3
    <3>2. \A x : Upto(transactions'[e], k, q, x) = Upto(s, k, q, x)
      BY <3>1, <2>1, <2>2
    <3> QED  BY <3>2, <2>2, <2>3, <1>4
  <2>4. CASE k = Len(s) + 1
    <3>1. \A x : Entries(x, q, e)' = Cardinality(Upto(transactions'[e], k, q, x))
      BY <2>1, <2>2, <2>4 DEF Entries
    <3> QED  BY <3>1
  <2>5. k \in 1..Len(s) \/ k = Len(s) + 1
    BY <2>1, <2>2, <1>3
  <2> QED  BY <2>3, <2>4, <2>5
<1> QED  BY <1>5, <1>6

\* A step that posts nothing keeps the order of what is posted.
LEMMA NothingPosted ==
    UNCHANGED transactions =>
        /\ RefundBeforePay => RefundBeforePay'
        /\ \A x, o, d : Entries(x, o, d)' = Entries(x, o, d)
BY DEF RefundBeforePay, Entries

\* The steps of a request that post nothing: it begins, goes on or leaves.
LEMMA QuietStep ==
    ASSUME IInv, CountInv, NEW r \in Slots, Quiet(r), UNCHANGED transactions
    PROVE  CountInv'
<1>1. ASSUME NEW o \in Orders, NEW d \in Drivers PROVE Leads(o, d)'
  <2>1. Leads(o, d) /\ Entries("pay", o, d) \in Nat /\ Entries("refund", o, d) \in Nat
    BY EntriesNat DEF CountInv, IInv
  <2>2. /\ IsFiniteSet(Paying(o, d))' /\ Cardinality(Paying(o, d)) \in Nat
        /\ Cardinality(Paying(o, d)') \in Nat
        /\ Cardinality(Paying(o, d)') <= Cardinality(Paying(o, d))
    BY <2>1, PayingLeft
  <2>3. /\ Entries("pay", o, d)' = Entries("pay", o, d)
        /\ Entries("refund", o, d)' = Entries("refund", o, d)
    BY NothingPosted
  <2> QED  BY <2>1, <2>2, <2>3 DEF Leads
<1> QED  BY <1>1, NothingPosted DEF CountInv

\* A post after which every driver's refunds lead.
LEMMA LeadingPost ==
    ASSUME IInv, CountInv, NEW d \in Drivers, NEW op \in MoneyOps,
           NEW o \in Orders \cup {None}, NEW n \in Nat, Posts(d, op, o, n),
           \A q \in Orders, e \in Drivers : Leads(q, e)'
    PROVE  CountInv'
<1>1. ASSUME NEW q \in Orders, NEW e \in Drivers
      PROVE  Entries("pay", q, e)' <= Entries("refund", q, e)'
  <2>1. /\ Entries("pay", q, e)' \in Nat /\ Entries("refund", q, e)' \in Nat
    BY PostsCounts DEF IInv
  <2>2. /\ Cardinality(Paying(q, e)') \in Nat
        /\ Entries("pay", q, e)' + Cardinality(Paying(q, e)') <= Entries("refund", q, e)'
    BY FS_CardinalityType DEF Leads
  <2> QED  BY <2>1, <2>2
<1> QED  BY <1>1, PostKeepsOrder DEF CountInv, IInv

\* The posts of a quiet step: whatever is not a payment, and the payment of a
\* request that was about to make it.
LEMMA QuietPost ==
    ASSUME IInv, CountInv, NEW r \in Slots, Quiet(r), NEW op \in MoneyOps, NEW n \in Nat,
           call[r].driver \in Drivers, O(r) \in Orders,
           Posts(call[r].driver, op, O(r), n), op = "pay" => pc[r] = "pay"
    PROVE  CountInv'
<1>1. ASSUME NEW q \in Orders, NEW e \in Drivers PROVE Leads(q, e)'
  <2>1. Leads(q, e) /\ Entries("pay", q, e) \in Nat /\ Entries("refund", q, e) \in Nat
    BY EntriesNat DEF CountInv, IInv
  <2>2. /\ IsFiniteSet(Paying(q, e))' /\ Cardinality(Paying(q, e)) \in Nat
        /\ Cardinality(Paying(q, e)') \in Nat
        /\ Cardinality(Paying(q, e)')
              = Cardinality(Paying(q, e)) - (IF r \in Paying(q, e) THEN 1 ELSE 0)
    BY <2>1, PayingLeft
  <2>3. \A x : Entries(x, q, e)' = Entries(x, q, e)
                  + (IF e = call[r].driver /\ q = O(r) /\ x = op THEN 1 ELSE 0)
    BY PostsCounts DEF IInv
  <2>4. op = "pay" /\ e = call[r].driver /\ q = O(r) => r \in Paying(q, e)
    BY DEF Paying
  <2>5. /\ Entries("pay", q, e)' = Entries("pay", q, e)
              + (IF e = call[r].driver /\ q = O(r) /\ op = "pay" THEN 1 ELSE 0)
        /\ Entries("refund", q, e)' >= Entries("refund", q, e)
    BY <2>1, <2>3
  <2> DEFINE mine == e = call[r].driver /\ q = O(r) /\ op = "pay"
  <2>6. CASE mine
    <3>1. Cardinality(Paying(q, e)') = Cardinality(Paying(q, e)) - 1
      BY <2>2, <2>4, <2>6
    <3>2. /\ Entries("pay", q, e)' = Entries("pay", q, e) + 1
          /\ Entries("refund", q, e)' = Entries("refund", q, e)
      BY <2>1, <2>3, <2>6
    <3> QED  BY <2>1, <2>2, <3>1, <3>2 DEF Leads
  <2>7. CASE ~mine
    <3>1. Cardinality(Paying(q, e)') <= Cardinality(Paying(q, e))
      BY <2>2
    <3>2. Entries("pay", q, e)' = Entries("pay", q, e) /\ Entries("refund", q, e)' \in Nat
      BY <2>1, <2>3, <2>5, <2>7
    <3> QED  BY <2>1, <2>2, <2>5, <3>1, <3>2 DEF Leads
  <2> QED  BY <2>6, <2>7
<1> QED  BY <1>1, LeadingPost

LEMMA RefundStep ==
    ASSUME IInv, CountInv, NEW r \in Slots, Refund(r)
    PROVE  CountInv'
<1>1. CallOK(r) /\ TypeOK /\ minBalance \in Nat /\ pc[r] = "refund"
  BY DepositAssumption DEF IInv, TypeOK, Refund
<1>2. call[r].driver \in Drivers /\ O(r) \in Orders
  BY <1>1 DEF CallOK
<1>3. CASE Leave(r) /\ UNCHANGED wallet
  <2>1. Quiet(r)
    BY <1>3, LeaveFacts, TypesSplit DEF IInv, Quiet, Leave, Goto, LocalTypes
  <2> QED  BY <1>3, <2>1, QuietStep DEF wallet
<1>4. CASE /\ Posts(call[r].driver, "refund", O(r), minBalance)
           /\ Goto(r, IF call[r].op = "status" THEN "pay" ELSE "reload")
           /\ UNCHANGED <<call, entity, base>>
  <2>1. "refund" \in MoneyOps
    BY DEF MoneyOps, CreditOps
  <2>2. OthersKept(r) /\ pc'[r] = IF call[r].op = "status" THEN "pay" ELSE "reload"
    BY <1>1, <1>4 DEF Goto, OthersKept, TypeOK
  <2>3. CASE call[r].op # "status"
    BY <1>1, <1>2, <1>4, <2>1, <2>2, <2>3, QuietPost DEF Quiet
  <2>4. CASE call[r].op = "status"
    <3>1. ASSUME NEW q \in Orders, NEW e \in Drivers PROVE Leads(q, e)'
      <4>1. /\ Leads(q, e)
            /\ Entries("pay", q, e) \in Nat /\ Entries("refund", q, e) \in Nat
        BY EntriesNat DEF CountInv, IInv
      <4>2. /\ IsFiniteSet(Paying(q, e))' /\ Cardinality(Paying(q, e)) \in Nat
            /\ Cardinality(Paying(q, e)') \in Nat
            /\ Cardinality(Paying(q, e)')
                  = Cardinality(Paying(q, e))
                      + (IF O(r) = q /\ call[r].driver = e THEN 1 ELSE 0)
        BY <4>1, <1>1, <1>4, <2>2, <2>4, PayingJoined
      <4>3. \A x : Entries(x, q, e)' = Entries(x, q, e)
                      + (IF e = call[r].driver /\ q = O(r) /\ x = "refund" THEN 1 ELSE 0)
        BY <1>1, <1>2, <1>4, <2>1, PostsCounts
      <4>4. /\ Entries("pay", q, e)' = Entries("pay", q, e)
            /\ Entries("refund", q, e)' = Entries("refund", q, e)
                  + (IF e = call[r].driver /\ q = O(r) THEN 1 ELSE 0)
        BY <4>1, <4>3
      <4> QED  BY <4>1, <4>2, <4>4 DEF Leads
    <3> QED  BY <3>1, <1>1, <1>2, <1>4, <2>1, LeadingPost
  <2> QED  BY <2>3, <2>4
<1> QED  BY <1>3, <1>4 DEF Refund, CallsWallet

LEMMA PayOrDeductStep ==
    ASSUME IInv, CountInv, NEW r \in Slots, Pay(r) \/ Deduct(r)
    PROVE  CountInv'
<1>1. CallOK(r) /\ TypeOK /\ minBalance \in Nat
  BY DepositAssumption DEF IInv, TypeOK
<1>2. {"pay", "deduct"} \subseteq MoneyOps
  BY DEF MoneyOps, CreditOps, DebitOps
<1>3. CASE Leave(r) /\ UNCHANGED wallet
  <2>1. Quiet(r)
    BY <1>3, LeaveFacts, TypesSplit DEF IInv, Quiet, Leave, Goto, LocalTypes
  <2> QED  BY <1>3, <2>1, QuietStep DEF wallet
<1>4. CASE /\ pc[r] = "pay" /\ Goto(r, "reload") /\ UNCHANGED <<call, entity, base>>
           /\ Posts(call[r].driver, "pay", O(r), Earnings(Price, Percentage))
  <2>1. Quiet(r)
    BY <1>1, <1>4 DEF Quiet, OthersKept, Goto, TypeOK
  <2>2. call[r].driver \in Drivers /\ O(r) \in Orders
    BY <1>1, <1>4 DEF CallOK
  <2> QED  BY <1>2, <1>4, <2>1, <2>2, EarningsType, QuietPost
<1>5. CASE /\ pc[r] = "deduct" /\ Leave(r)
           /\ Posts(call[r].driver, "deduct", O(r), minBalance)
  <2>1. Quiet(r)
    BY <1>5, LeaveFacts, TypesSplit DEF IInv, Quiet, Leave, Goto, LocalTypes
  <2>2. call[r].driver \in Drivers /\ O(r) \in Orders
    BY <1>1, <1>5 DEF CallOK
  <2> QED  BY <1>1, <1>2, <1>5, <2>1, <2>2, QuietPost
<1> QED  BY <1>3, <1>4, <1>5 DEF Pay, Deduct, CallsWallet

\* A withdrawal is for no order.
LEMMA WithdrawStep ==
    ASSUME IInv, CountInv, NEW d \in Drivers, Withdraw(d)
    PROVE  CountInv'
<1>1. /\ Posts(d, "withdraw", None, accounts[d].balance) /\ accounts[d].balance > 0
      /\ UNCHANGED locals
  BY DEF Withdraw
<1>2. TypeOK /\ accounts[d].balance \in Nat /\ "withdraw" \in MoneyOps
  <2>1. TypeOK /\ accounts[d].balance \in Int
    BY DEF IInv, TypeOK
  <2> QED  BY <1>1, <2>1 DEF MoneyOps, DebitOps
<1>3. ASSUME NEW q \in Orders, NEW e \in Drivers PROVE Leads(q, e)'
  <2>1. /\ Leads(q, e)
        /\ Entries("pay", q, e) \in Nat /\ Entries("refund", q, e) \in Nat
    BY <1>2, EntriesNat DEF CountInv
  <2>2. \A x : Entries(x, q, e)' = Entries(x, q, e)
    BY <1>1, <1>2, <2>1, PostsCounts, EntriesNat, ActorsAssumption
  <2>3. Paying(q, e)' = Paying(q, e)
    BY <1>1 DEF Paying, O, locals
  <2> QED  BY <2>1, <2>2, <2>3 DEF Leads
<1> QED  BY <1>1, <1>2, <1>3, LeadingPost

LEMMA SameCount ==
    ASSUME CountInv, UNCHANGED <<transactions, call, pc>>
    PROVE  CountInv'
<1>1. ASSUME NEW o \in Orders, NEW d \in Drivers PROVE Leads(o, d)'
  <2>1. Paying(o, d)' = Paying(o, d)
    BY DEF Paying, O
  <2> QED  BY <2>1, NothingPosted DEF Leads, CountInv
<1> QED  BY <1>1, NothingPosted DEF CountInv

\* The handlers that start have not yet refunded anything.
LEMMA BeginQuiet ==
    ASSUME TypeOK, NEW r \in Slots, NEW op, NEW o, NEW d, NEW copy, NEW label,
           label # "pay", Begin(r, op, o, d, copy, label)
    PROVE  Quiet(r) /\ UNCHANGED transactions
BY DEF TypeOK, Begin, Goto, Quiet, OthersKept, wallet

LEMMA ProgressQuiet ==
    ASSUME TypeOK, NEW r \in Slots, CanTake(r) \/ Reload(r) \/ SaveOrder(r) \/ Die(r)
    PROVE  Quiet(r) /\ UNCHANGED transactions
<1>1. LocalTypes
  BY TypesSplit
<1>2. Leave(r) => Quiet(r)
  BY <1>1, LeaveFacts DEF Quiet, Leave, Goto, LocalTypes
<1>3. CASE CanTake(r)
  BY <1>2, <1>3 DEF CanTake, Goto, Quiet, OthersKept, wallet, TypeOK
<1>4. CASE Reload(r)
  BY <1>4 DEF Reload, Goto, Quiet, OthersKept, wallet, TypeOK
<1>5. CASE SaveOrder(r)
  BY <1>2, <1>5 DEF SaveOrder, Goto, Quiet, OthersKept, wallet, TypeOK
<1>6. CASE Die(r)
  BY <1>2, <1>6 DEF Die, wallet
<1> QED  BY <1>3, <1>4, <1>5, <1>6

LEMMA InitCount == Init => CountInv
<1> SUFFICES ASSUME Init PROVE CountInv
  OBVIOUS
<1>1. ASSUME NEW o \in Orders, NEW d \in Drivers, NEW x, NEW i
      PROVE  i \in DOMAIN transactions[d] => ~IsEntry(transactions[d][i], o, x)
  <2>1. transactions[d] = <<TransactionRow(None, "add", Opening, Opening)>>
    BY DEF Init
  <2>2. \A k \in DOMAIN transactions[d] : transactions[d][k].ref = None
    BY <2>1 DEF TransactionRow
  <2> QED  BY <2>2, ActorsAssumption DEF IsEntry
<1>2. ASSUME NEW o \in Orders, NEW d \in Drivers PROVE Leads(o, d)
  <2>1. Paying(o, d) = {}
    BY DEF Paying, Init
  <2>2. \A x : Matching(transactions[d], o, x) = {}
    BY <1>1 DEF Matching
  <2> QED  BY <2>1, <2>2, EntriesMatching, FS_EmptySet DEF Leads
<1>3. RefundBeforePay
  <2> SUFFICES ASSUME NEW d \in Drivers, NEW n \in DOMAIN transactions[d], NEW o \in Orders
               PROVE  Cardinality({i \in 1..n : IsEntry(transactions[d][i], o, "pay")})
                        <= Cardinality({i \in 1..n : IsEntry(transactions[d][i], o, "refund")})
    BY DEF RefundBeforePay
  <2>1. 1..n \subseteq DOMAIN transactions[d]
    BY DEF Init
  <2>2. /\ {i \in 1..n : IsEntry(transactions[d][i], o, "pay")} = {}
        /\ {i \in 1..n : IsEntry(transactions[d][i], o, "refund")} = {}
    BY <2>1, <1>1
  <2> QED  BY <2>2, FS_EmptySet
<1> QED  BY <1>2, <1>3 DEF CountInv

LEMMA NextCount == IInv /\ CountInv /\ [Next]_vars => CountInv'
<1> SUFFICES ASSUME IInv, CountInv, [Next]_vars PROVE CountInv'
  OBVIOUS
<1>0. TypeOK
  BY DEF IInv
<1>1. ASSUME NEW o \in Orders, NEW c \in Customers, Create(o, c) PROVE CountInv'
  BY <1>1, SameCount DEF Create, wallet, locals
<1>2. ASSUME NEW r \in Slots, NEW o \in Orders, NEW d \in Drivers, AcceptOrder(r, o, d)
      PROVE  CountInv'
  BY <1>0, <1>2, BeginQuiet, QuietStep DEF AcceptOrder
<1>3. ASSUME NEW r \in Slots, NEW o \in Orders, NEW a, CancelOrder(r, o, a)
      PROVE  CountInv'
  BY <1>0, <1>3, BeginQuiet, QuietStep DEF CancelOrder
<1>4. ASSUME NEW r \in Slots, NEW o \in Orders, NEW a, NEW s \in Statuses,
             UpdateStatus(r, o, a, s)
      PROVE  CountInv'
  BY <1>0, <1>4, BeginQuiet, QuietStep DEF UpdateStatus
<1>5. ASSUME NEW r \in Slots, NEW o \in Orders, UpdateDriverLocation(r, o)
      PROVE  CountInv'
  BY <1>0, <1>5, BeginQuiet, QuietStep DEF UpdateDriverLocation
<1>6. ASSUME NEW r \in Slots, CanTake(r) \/ Reload(r) \/ SaveOrder(r) \/ Die(r)
      PROVE  CountInv'
  BY <1>0, <1>6, ProgressQuiet, QuietStep
<1>7. ASSUME NEW r \in Slots, Deduct(r) \/ Refund(r) \/ Pay(r) PROVE CountInv'
  BY <1>7, RefundStep, PayOrDeductStep
<1>8. ASSUME NEW d \in Drivers, Withdraw(d) PROVE CountInv'
  BY <1>8, WithdrawStep
<1>9. ASSUME NEW d \in Drivers, ToggleLock(d) PROVE CountInv'
  BY <1>9, SameCount DEF ToggleLock, locals
<1>10. ASSUME SetMinBalance PROVE CountInv'
  BY <1>10, SameCount DEF SetMinBalance, wallet, locals
<1>11. ASSUME UNCHANGED vars PROVE CountInv'
  BY <1>11, SameCount DEF vars
<1> QED
  BY <1>1, <1>2, <1>3, <1>4, <1>5, <1>6, <1>7, <1>8, <1>9, <1>10, <1>11 DEF Next

\* However deliveries and cancellations overlap, fail and are repeated, a
\* payment for an order comes after as many refunds of its deposit as there
\* are payments up to it.
THEOREM RefundsPrecedePayments == Spec => []RefundBeforePay
<1>1. CountInv => RefundBeforePay
  BY DEF CountInv
<1> QED  BY <1>1, InitCount, NextCount, OrdersInvariant, PTL DEF Spec
-----------------------------------------------------------------------------
(* The calls about an order one at a time. *)

\* What an order's row and the entries for the order have to do with each
\* other when no two calls about it overlap: all money is for the one driver,
\* who pays one deposit.
SerialRow(o) ==
    /\ orders[o] # NoOrder =>
          /\ orders[o].delivered <=> orders[o].status = "delivered"
          /\ orders[o].status = "pending" => orders[o].driver = None
    /\ \A d \in Drivers :
          /\ \A op \in MoneyOps :
                HasEntry(op, o, d) => orders[o] # NoOrder /\ orders[o].driver = d
          /\ Entries("deduct", o, d) <= 1

\* The copy of a request differs from the row by what its handler does.
Copied(r, row, copy) ==
    /\ call[r].op = "accept" =>
          /\ row.status = "pending" /\ copy.status = "accepted"
          /\ copy.driver = call[r].driver /\ copy.delivered = row.delivered
    /\ call[r].op # "accept" => copy.driver = row.driver
    /\ call[r].op = "status" =>
          /\ copy.status \in ValidTransitions[row.status]
          /\ copy.delivered <=> row.delivered \/ copy.status = "delivered"
    /\ call[r].op = "locate" =>
          copy.status = row.status /\ copy.delivered = row.delivered
    /\ call[r].op = "cancel" =>
          /\ row.status # "delivered" /\ copy.status = "cancelled"
          /\ copy.delivered = row.delivered

\* A delivery settles with the driver before it saves.
Settled(r, o, copy) ==
    call[r].op = "status" =>
        /\ pc[r] \in {"refund", "pay"} => copy.status = "delivered"
        /\ copy.status = "delivered" /\ copy.driver # None =>
              /\ pc[r] # "refund" => HasEntry("refund", o, copy.driver)
              /\ pc[r] \notin {"refund", "pay"} => HasEntry("pay", o, copy.driver)

\* What a request knows that is alone with its order.
SerialCall(r) ==
    /\ pc[r] \notin {"idle", "deduct"} =>
          /\ Copied(r, orders[O(r)], entity[r])
          /\ Settled(r, O(r), entity[r])
          /\ pc[r] = "overwrite" => base[r] = orders[O(r)]
    /\ pc[r] = "deduct" =>
          /\ orders[O(r)].status = "accepted" /\ orders[O(r)].driver = call[r].driver
          /\ \A d \in Drivers : ~HasEntry("deduct", O(r), d)

\* The inductive invariant.
SerialInv ==
    /\ \A o \in Orders : SerialRow(o)
    /\ DeliveredIsSettled
    /\ \A r \in Slots : SerialCall(r)

LEMMA HasCounted ==
    ASSUME TypeOK, NEW o \in Orders, NEW d \in Drivers, NEW x
    PROVE  /\ HasEntry(x, o, d) <=> Entries(x, o, d) > 0
           /\ ~HasEntry(x, o, d) <=> Entries(x, o, d) = 0
<1> DEFINE T == [ref : Orders \cup {None}, op : MoneyOps, amount : Nat, balanceAfter : Int]
<1>1. transactions[d] \in Seq(T)
  BY DEF TypeOK
<1>2. DOMAIN transactions[d] = 1..Len(transactions[d]) /\ Len(transactions[d]) \in Nat
  BY <1>1
<1>3. IsFiniteSet(DOMAIN transactions[d])
  BY <1>2, FS_Interval
<1>4. Matching(transactions[d], o, x) \subseteq DOMAIN transactions[d]
  BY DEF Matching
<1>5. IsFiniteSet(Matching(transactions[d], o, x))
  BY <1>3, <1>4, FS_Subset
<1>6. HasEntry(x, o, d) <=> Matching(transactions[d], o, x) # {}
  BY DEF HasEntry, Matching
<1>7. Entries(x, o, d) = 0 <=> Matching(transactions[d], o, x) = {}
  BY <1>5, EntriesMatching, FS_EmptySet
<1> QED  BY <1>6, <1>7, EntriesNat

\* The entries after a post are those before it and the one posted.
LEMMA PostsHas ==
    ASSUME TypeOK, NEW d \in Drivers, NEW op \in MoneyOps, NEW o \in Orders \cup {None},
           NEW n \in Nat, Posts(d, op, o, n), NEW q \in Orders, NEW e \in Drivers, NEW x
    PROVE  HasEntry(x, q, e)' <=> HasEntry(x, q, e) \/ (e = d /\ q = o /\ x = op)
<1> DEFINE T == [ref : Orders \cup {None}, op : MoneyOps, amount : Nat, balanceAfter : Int]
           t == TransactionRow(o, op, n, accounts[d].balance + Signed(op, n))
           last == Len(transactions[d]) + 1
<1>1. transactions' = [transactions EXCEPT ![d] = Append(@, t)]
  BY DEF Posts
<1>2. transactions \in [Drivers -> Seq(T)]
  BY DEF TypeOK
<1>3. t.ref = o /\ t.op = op
  BY DEF TransactionRow
<1> HIDE DEF t, T
<1>4. /\ last \in DOMAIN transactions'[d] /\ transactions'[d][last] = t
      /\ \A i \in DOMAIN transactions[d] :
            i \in DOMAIN transactions'[d] /\ transactions'[d][i] = transactions[d][i]
  <2>1. transactions'[d] = Append(transactions[d], t) /\ transactions[d] \in Seq(T)
    BY <1>1, <1>2
  <2> QED  BY <2>1
<1>5. e # d => transactions'[e] = transactions[e]
  BY <1>1, <1>2
<1>6. HasEntry(x, q, e) => HasEntry(x, q, e)'
  BY <1>4, <1>5 DEF HasEntry
<1>7. e = d /\ q = o /\ x = op => HasEntry(x, q, e)'
  BY <1>3, <1>4 DEF HasEntry, IsEntry
<1> QED  BY <1>6, <1>7, PostsEntries

LEMMA SameEntries ==
    UNCHANGED transactions =>
        /\ \A x, o, d : Entries(x, o, d)' = Entries(x, o, d)
        /\ \A x, o, d : HasEntry(x, o, d)' <=> HasEntry(x, o, d)
BY DEF Entries, HasEntry

\* A copy saved over the row it was made of.
LEMMA OverwrittenSame ==
    ASSUME NEW m \in OrderRow, NEW w \in OrderRow
    PROVE  /\ Overwritten(m, w, w) \in OrderRow
           /\ Overwritten(m, w, w).status = m.status
           /\ Overwritten(m, w, w).driver = m.driver
           /\ Overwritten(m, w, w).delivered = m.delivered
BY DEF Overwritten, Column, OrderRow

\* A step about another order takes nothing from what a request knows.
LEMMA OtherSerial ==
    ASSUME IInv, SerialInv, NEW r \in Slots, NEW q \in Slots \ {r}, OthersKept(r),
           NEW o, o = O(q),
           pc[q] # "idle" =>
              /\ orders'[o] = orders[o]
              /\ \A d \in Drivers : \A x : HasEntry(x, o, d)' <=> HasEntry(x, o, d)
    PROVE  SerialCall(q)'
<1>1. call'[q] = call[q] /\ pc'[q] = pc[q] /\ entity'[q] = entity[q] /\ base'[q] = base[q]
  BY DEF OthersKept
<1>2. CASE pc[q] = "idle"
  BY <1>1, <1>2 DEF SerialCall
<1>3. CASE pc[q] # "idle"
  <2>1. /\ SerialCall(q) /\ O(q)' = o /\ entity[q].driver \in Drivers \cup {None}
        /\ entity[q].driver = call[q].driver
    BY <1>1, <1>3 DEF SerialInv, IInv, CallOK, OrderRow, O
  <2>2. Copied(q, orders[o], entity[q]) => Copied(q, orders[o], entity[q])'
    BY <1>1, <1>3, <2>1 DEF Copied
  <2>3. Settled(q, o, entity[q]) => Settled(q, o, entity[q])'
    BY <1>1, <1>3, <2>1 DEF Settled
  <2> QED  BY <1>1, <1>3, <2>1, <2>2, <2>3 DEF SerialCall
<1> QED  BY <1>2, <1>3

LEMMA InitSerial == Init => SerialInv
<1> SUFFICES ASSUME Init PROVE SerialInv
  OBVIOUS
<1>1. ASSUME NEW o \in Orders, NEW d \in Drivers, NEW x PROVE ~HasEntry(x, o, d)
  <2>1. transactions[d] = <<TransactionRow(None, "add", Opening, Opening)>>
    BY DEF Init
  <2>2. \A k \in DOMAIN transactions[d] : transactions[d][k].ref = None
    BY <2>1 DEF TransactionRow
  <2> QED  BY <2>2, ActorsAssumption DEF HasEntry, IsEntry
<1>2. TypeOK
  BY InitIInv DEF IInv
<1>3. ASSUME NEW o \in Orders, NEW d \in Drivers PROVE Entries("deduct", o, d) = 0
  BY <1>1, <1>2, HasCounted
<1>4. \A o \in Orders : SerialRow(o)
  BY <1>1, <1>3 DEF SerialRow, Init
<1>5. DeliveredIsSettled
  BY DEF DeliveredIsSettled, Init
<1>6. \A r \in Slots : SerialCall(r)
  BY DEF SerialCall, Init
<1> QED  BY <1>4, <1>5, <1>6 DEF SerialInv

\* A step that writes neither an order nor an entry.
LEMMA SameRows ==
    ASSUME SerialInv, UNCHANGED <<orders, transactions>>
    PROVE  (\A o \in Orders : SerialRow(o)') /\ DeliveredIsSettled'
<1>1. ASSUME NEW o \in Orders PROVE SerialRow(o)'
  <2>1. SerialRow(o)
    BY DEF SerialInv
  <2> QED  BY <2>1, SameEntries DEF SerialRow
<1>2. DeliveredIsSettled'
  BY SameEntries DEF SerialInv, DeliveredIsSettled
<1> QED  BY <1>1, <1>2

LEMMA SameSerial ==
    ASSUME IInv, SerialInv, UNCHANGED <<orders, transactions>>,
           NEW r \in Slots, OthersKept(r), SerialCall(r)'
    PROVE  SerialInv'
<1>1. ASSUME NEW q \in Slots \ {r} PROVE SerialCall(q)'
  <2>1. PICK o : o = O(q)
    OBVIOUS
  <2>2. /\ orders'[o] = orders[o]
        /\ \A d \in Drivers : \A x : HasEntry(x, o, d)' <=> HasEntry(x, o, d)
    BY SameEntries
  <2> QED  BY <2>1, <2>2, OtherSerial
<1> QED  BY <1>1, SameRows DEF SerialInv

\* What a handler has checked of the row it read, and made of it.
Started(op, d, row, copy, label) ==
    /\ op = "accept" =>
          /\ row.status = "pending" /\ copy.status = "accepted"
          /\ copy.driver = d /\ copy.delivered = row.delivered
    /\ op # "accept" => copy.driver = row.driver
    /\ op = "status" =>
          /\ copy.status \in ValidTransitions[row.status]
          /\ copy.delivered <=> row.delivered \/ copy.status = "delivered"
          /\ label = "refund" <=> Settles(row, copy.status)
    /\ op = "locate" => copy.status = row.status /\ copy.delivered = row.delivered
    /\ op = "cancel" =>
          /\ row.status # "delivered" /\ copy.status = "cancelled"
          /\ copy.delivered = row.delivered

LEMMA BeginSerial ==
    ASSUME IInv, SerialInv, NEW r \in Slots, NEW op \in Handlers, NEW o \in Orders,
           NEW d \in Drivers \cup {None}, NEW copy \in OrderRow,
           NEW label \in {"check", "reload", "refund"},
           Begin(r, op, o, d, copy, label), orders[o] # NoOrder,
           Started(op, d, orders[o], copy, label)
    PROVE  SerialInv'
<1>1. LocalTypes /\ label \in Labels /\ orders[o] \in OrderRow /\ SerialRow(o)
  BY TypesSplit DEF Labels, TypeOK, IInv, SerialInv
<1>2. /\ call'[r] = Serving(op, o, d) /\ pc'[r] = label /\ entity'[r] = copy
      /\ OthersKept(r) /\ UNCHANGED <<tables, wallet>>
  BY <1>1, BeginFacts
<1>3. UNCHANGED <<orders, transactions>>
  BY <1>2 DEF tables, wallet
<1>4. call'[r].op = op /\ O(r)' = o /\ call'[r].driver = d
  BY <1>2 DEF Serving, O
<1>5. Copied(r, orders[o], copy)'
  BY <1>3, <1>4 DEF Copied, Started
<1>6. Settled(r, o, copy)'
  <2> SUFFICES ASSUME op = "status" PROVE Settled(r, o, copy)'
    BY <1>4 DEF Settled
  <2>1. copy.status = "delivered" => ~orders[o].delivered
    BY <1>1 DEF SerialRow, ValidTransitions, OrderRow, Statuses, Started
  <2>2. copy.status = "delivered" /\ copy.driver # None => label = "refund"
    BY <2>1 DEF Settles, Started
  <2>3. label = "refund" => copy.status = "delivered"
    BY DEF Settles, Started
  <2> QED  BY <1>2, <1>4, <2>2, <2>3 DEF Settled
<1>7. SerialCall(r)'
  BY <1>2, <1>3, <1>4, <1>5, <1>6 DEF SerialCall
<1> QED  BY <1>2, <1>3, <1>7, SameSerial

LEMMA AcceptSerial ==
    ASSUME IInv, SerialInv, NEW r \in Slots, NEW o \in Orders, NEW d \in Drivers,
           AcceptOrder(r, o, d)
    PROVE  SerialInv'
<1> DEFINE copy == [orders[o] EXCEPT !.driver = d, !.status = "accepted"]
<1>1. /\ orders[o] # NoOrder /\ orders[o].status = "pending"
      /\ Begin(r, "accept", o, d, copy, "check")
  BY DEF AcceptOrder
<1>2. orders[o] \in OrderRow /\ TypeOK
  BY <1>1 DEF IInv, TypeOK
<1>3. /\ copy \in OrderRow /\ copy.driver = d /\ copy.status = "accepted"
      /\ copy.delivered = orders[o].delivered
  BY <1>2 DEF OrderRow, Statuses
<1> HIDE DEF copy
<1> QED  BY <1>1, <1>2, <1>3, BeginSerial DEF Handlers, Started

LEMMA StatusSerial ==
    ASSUME IInv, SerialInv, NEW r \in Slots, NEW o \in Orders, NEW a,
           NEW s \in Statuses, UpdateStatus(r, o, a, s)
    PROVE  SerialInv'
<1> DEFINE copy == [orders[o] EXCEPT !.status = s, !.delivered = @ \/ s = "delivered"]
           label == IF Settles(orders[o], s) THEN "refund" ELSE "reload"
<1>1. /\ orders[o] # NoOrder /\ s \in ValidTransitions[orders[o].status]
      /\ Begin(r, "status", o, orders[o].driver, copy, label)
  BY DEF UpdateStatus
<1>2. orders[o] \in OrderRow /\ TypeOK
  BY <1>1 DEF IInv, TypeOK
<1>3. /\ copy \in OrderRow /\ copy.driver = orders[o].driver /\ copy.status = s
      /\ copy.delivered <=> orders[o].delivered \/ s = "delivered"
      /\ orders[o].driver \in Drivers \cup {None}
  BY <1>2 DEF OrderRow, Statuses
<1>4. label \in {"check", "reload", "refund"} /\ (label = "refund" <=> Settles(orders[o], s))
  OBVIOUS
<1> HIDE DEF copy, label
<1> QED  BY <1>1, <1>2, <1>3, <1>4, BeginSerial DEF Handlers, Started

LEMMA CancelSerial ==
    ASSUME IInv, SerialInv, NEW r \in Slots, NEW o \in Orders, NEW a,
           CancelOrder(r, o, a)
    PROVE  SerialInv'
<1> DEFINE copy == [orders[o] EXCEPT !.status = "cancelled"]
           label == IF orders[o].driver # None /\ orders[o].status # "pending"
                    THEN "refund" ELSE "reload"
<1>1. /\ orders[o] # NoOrder /\ orders[o].status # "delivered"
      /\ Begin(r, "cancel", o, orders[o].driver, copy, label)
  BY DEF CancelOrder
<1>2. orders[o] \in OrderRow /\ TypeOK
  BY <1>1 DEF IInv, TypeOK
<1>3. /\ copy \in OrderRow /\ copy.driver = orders[o].driver /\ copy.status = "cancelled"
      /\ copy.delivered = orders[o].delivered
      /\ orders[o].driver \in Drivers \cup {None}
  BY <1>2 DEF OrderRow, Statuses
<1>4. label \in {"check", "reload", "refund"}
  OBVIOUS
<1> HIDE DEF copy, label
<1> QED  BY <1>1, <1>2, <1>3, <1>4, BeginSerial DEF Handlers, Started

LEMMA LocateSerial ==
    ASSUME IInv, SerialInv, NEW r \in Slots, NEW o \in Orders,
           UpdateDriverLocation(r, o)
    PROVE  SerialInv'
<1>1. /\ orders[o] # NoOrder
      /\ Begin(r, "locate", o, orders[o].driver, orders[o], "reload")
  BY DEF UpdateDriverLocation
<1>2. orders[o] \in OrderRow /\ TypeOK /\ orders[o].driver \in Drivers \cup {None}
  BY <1>1 DEF IInv, TypeOK, OrderRow
<1> QED  BY <1>1, <1>2, BeginSerial DEF Handlers, Started

\* What is known of the request that is busy, and of its row.
LEMMA BusyFacts ==
    ASSUME IInv, SerialInv, NEW r \in Slots, pc[r] # "idle"
    PROVE  /\ TypeOK /\ CallOK(r) /\ SerialCall(r)
           /\ O(r) \in Orders /\ SerialRow(O(r))
           /\ orders[O(r)] \in OrderRow /\ orders[O(r)] # NoOrder
           /\ entity[r] \in OrderRow /\ entity[r].driver = call[r].driver
BY DEF IInv, TypeOK, CallOK, SerialInv

LEMMA CreateSerial ==
    ASSUME IInv, SerialInv, NEW o \in Orders, NEW c \in Customers, Create(o, c)
    PROVE  SerialInv'
<1> DEFINE row == [status |-> "pending", customer |-> c, driver |-> None, delivered |-> FALSE]
<1>1. /\ orders[o] = NoOrder /\ orders' = [orders EXCEPT ![o] = row]
      /\ UNCHANGED <<transactions, call, pc, entity, base>>
  BY DEF Create, wallet, locals
<1>2. /\ row.status = "pending" /\ row.driver = None /\ row.delivered = FALSE
      /\ row # NoOrder
  BY DEF NoOrder
<1> HIDE DEF row
<1>3. /\ orders'[o] = row /\ \A q \in Orders \ {o} : orders'[q] = orders[q]
  BY <1>1 DEF IInv, TypeOK
<1>4. ASSUME NEW q \in Orders PROVE SerialRow(q)'
  <2>1. SerialRow(q)
    BY DEF SerialInv
  <2>2. CASE q # o
    BY <1>1, <1>3, <2>1, <2>2, SameEntries DEF SerialRow
  <2>3. CASE q = o
    BY <1>1, <1>2, <1>3, <2>1, <2>3, SameEntries DEF SerialRow
  <2> QED  BY <2>2, <2>3
<1>5. DeliveredIsSettled'
  BY <1>1, <1>2, <1>3, SameEntries DEF SerialInv, DeliveredIsSettled
<1>6. ASSUME NEW r \in Slots PROVE SerialCall(r)'
  <2>1. CASE pc[r] = "idle"
    BY <1>1, <2>1 DEF SerialCall
  <2>2. CASE pc[r] # "idle"
    <3>1. O(r)' = O(r) /\ orders'[O(r)] = orders[O(r)] /\ SerialCall(r)
      BY <1>1, <1>3, <2>2, BusyFacts DEF O
    <3> QED  BY <1>1, <3>1, SameEntries DEF SerialCall, Copied, Settled
  <2> QED  BY <2>1, <2>2
<1> QED  BY <1>4, <1>5, <1>6 DEF SerialInv

LEMMA LeaveSerial ==
    ASSUME IInv, SerialInv, NEW r \in Slots, Leave(r), UNCHANGED <<orders, transactions>>
    PROVE  SerialInv'
<1>1. pc'[r] = "idle" /\ OthersKept(r)
  BY LeaveFacts, TypesSplit DEF Leave, Goto, TypeOK, IInv
<1>2. SerialCall(r)'
  BY <1>1 DEF SerialCall
<1> QED  BY <1>1, <1>2, SameSerial

LEMMA ProgressSerial ==
    ASSUME IInv, SerialInv, NEW r \in Slots, CanTake(r) \/ Reload(r) \/ Die(r)
    PROVE  SerialInv'
<1>1. pc[r] # "idle" /\ UNCHANGED <<orders, transactions>>
  BY DEF CanTake, Reload, Die, tables, wallet
<1>2. TypeOK /\ CallOK(r) /\ SerialCall(r)
  BY <1>1, BusyFacts
<1>3. CASE Leave(r)
  BY <1>1, <1>2, <1>3, LeaveSerial
<1>4. CASE pc[r] = "check" /\ Goto(r, "reload") /\ UNCHANGED <<call, entity, base>>
  <2>1. pc'[r] = "reload" /\ O(r)' = O(r) /\ OthersKept(r)
    BY <1>2, <1>4 DEF Goto, TypeOK, O, OthersKept
  <2>2. call[r].op = "accept"
    BY <1>2, <1>4 DEF CallOK
  <2>3. SerialCall(r)'
    BY <1>1, <1>2, <1>4, <2>1, <2>2 DEF SerialCall, Copied, Settled
  <2> QED  BY <1>1, <2>1, <2>3, SameSerial
<1>5. CASE Reload(r)
  <2>1. /\ pc[r] = "reload" /\ pc'[r] = "overwrite" /\ O(r)' = O(r)
        /\ base'[r] = orders[O(r)] /\ UNCHANGED <<call, entity>> /\ OthersKept(r)
    BY <1>2, <1>5 DEF Reload, Goto, TypeOK, O, OthersKept
  <2>2. SerialCall(r)'
    BY <1>1, <1>2, <2>1, SameEntries DEF SerialCall, Copied, Settled
  <2> QED  BY <1>1, <2>1, <2>2, SameSerial
<1> QED  BY <1>3, <1>4, <1>5 DEF CanTake, Die

\* What save() writes when nobody else writes: the copy.
LEMMA SaveWrites ==
    ASSUME IInv, SerialInv, NEW r \in Slots, SaveOrder(r)
    PROVE  /\ orders'[O(r)] \in OrderRow
           /\ orders'[O(r)].status = entity[r].status
           /\ orders'[O(r)].driver = entity[r].driver
           /\ orders'[O(r)].delivered = entity[r].delivered
           /\ \A q \in Orders \ {O(r)} : orders'[q] = orders[q]
           /\ Copied(r, orders[O(r)], entity[r]) /\ Settled(r, O(r), entity[r])
           /\ pc[r] = "overwrite" /\ UNCHANGED transactions
<1>1. pc[r] = "overwrite" /\ UNCHANGED transactions
  BY DEF SaveOrder, wallet
<1>2. /\ TypeOK /\ SerialCall(r) /\ O(r) \in Orders
      /\ orders[O(r)] \in OrderRow /\ entity[r] \in OrderRow
  BY <1>1, BusyFacts
<1>3. base[r] = orders[O(r)] /\ Copied(r, orders[O(r)], entity[r]) /\ Settled(r, O(r), entity[r])
  BY <1>1, <1>2 DEF SerialCall
<1>4. orders' = [orders EXCEPT ![O(r)] = Overwritten(entity[r], orders[O(r)], orders[O(r)])]
  BY <1>3 DEF SaveOrder
<1>5. orders'[O(r)] = Overwritten(entity[r], orders[O(r)], orders[O(r)])
  BY <1>2, <1>4 DEF TypeOK
<1>6. \A q \in Orders \ {O(r)} : orders'[q] = orders[q]
  BY <1>2, <1>4 DEF TypeOK
<1> QED  BY <1>1, <1>2, <1>3, <1>5, <1>6, OverwrittenSame

LEMMA SaveSerial ==
    ASSUME OnePerOrder, IInv, SerialInv, NEW r \in Slots, SaveOrder(r)
    PROVE  SerialInv'
<1> DEFINE o == O(r)
           w == orders[o]
           m == entity[r]
<1>1. /\ orders'[o] \in OrderRow /\ orders'[o].status = m.status
      /\ orders'[o].driver = m.driver /\ orders'[o].delivered = m.delivered
      /\ \A q \in Orders \ {o} : orders'[q] = orders[q]
      /\ Copied(r, w, m) /\ Settled(r, o, m)
      /\ pc[r] = "overwrite" /\ UNCHANGED transactions
  BY SaveWrites
<1>2. /\ TypeOK /\ CallOK(r) /\ o \in Orders /\ SerialRow(o)
      /\ w \in OrderRow /\ w # NoOrder /\ m \in OrderRow
      /\ m.driver = call[r].driver
  BY <1>1, BusyFacts
<1>3. call[r].op \in Handlers
  BY <1>1, <1>2 DEF CallOK
<1>4. call[r].op = "accept" => \A d \in Drivers, op \in MoneyOps : ~HasEntry(op, o, d)
  BY <1>1, <1>2, ActorsAssumption DEF Copied, SerialRow
<1> HIDE DEF o, w, m
<1>5. m.delivered <=> m.status = "delivered"
  <2>1. w.delivered <=> w.status = "delivered"
    BY <1>2 DEF SerialRow, w
  <2>2. w.status = "delivered" => ValidTransitions[w.status] = {}
    BY DEF ValidTransitions
  <2> QED  BY <1>1, <1>3, <2>1, <2>2 DEF Copied, Handlers
<1>6. m.status = "pending" => m.driver = None
  <2>1. w.status = "pending" => w.driver = None
    BY <1>2 DEF SerialRow, w
  <2>2. w.status \in Statuses
    BY <1>2 DEF OrderRow
  <2>3. "pending" \notin ValidTransitions[w.status]
    BY <2>2 DEF ValidTransitions, Statuses
  <2> QED  BY <1>1, <1>3, <2>1, <2>3 DEF Copied, Handlers
<1>7. \A d \in Drivers, op \in MoneyOps : HasEntry(op, o, d) => m.driver = d
  BY <1>1, <1>2, <1>4 DEF Copied, SerialRow, w
<1>8. ASSUME NEW q \in Orders PROVE SerialRow(q)'
  <2>1. SerialRow(q)
    BY DEF SerialInv
  <2>2. CASE q # o
    BY <1>1, <2>1, <2>2, SameEntries DEF SerialRow
  <2>3. CASE q = o
    BY <1>1, <1>5, <1>6, <1>7, <2>1, <2>3, SameEntries, NoOrderIsNoRow DEF SerialRow
  <2> QED  BY <2>2, <2>3
<1>9. ASSUME m.status = "delivered", m.driver # None
      PROVE  HasEntry("refund", o, m.driver) /\ HasEntry("pay", o, m.driver)
  <2>1. CASE call[r].op = "status"
    BY <1>1, <1>9, <2>1 DEF Settled
  <2>2. CASE call[r].op = "locate"
    <3>1. w.status = "delivered" /\ w.driver = m.driver
      BY <1>1, <1>9, <2>2 DEF Copied
    <3> QED  BY <1>2, <1>9, <3>1 DEF SerialInv, DeliveredIsSettled, w
  <2> QED  BY <1>1, <1>3, <1>9, <2>1, <2>2 DEF Copied, Handlers
<1>10. DeliveredIsSettled'
  <2> SUFFICES ASSUME NEW q \in Orders, orders'[q] # NoOrder, orders'[q].status = "delivered",
                      orders'[q].driver # None
               PROVE  /\ HasEntry("refund", q, orders'[q].driver)
                      /\ HasEntry("pay", q, orders'[q].driver)
    BY <1>1, SameEntries DEF DeliveredIsSettled
  <2>1. CASE q = o
    BY <1>1, <1>9, <2>1
  <2>2. CASE q # o
    BY <1>1, <2>2 DEF SerialInv, DeliveredIsSettled
  <2> QED  BY <2>1, <2>2
<1>11. SerialCall(r)'
  <2>1. CASE call[r].op # "accept"
    <3>1. pc'[r] = "idle"
      BY <1>2, <2>1 DEF SaveOrder, Leave, Goto, TypeOK
    <3> QED  BY <3>1 DEF SerialCall
  <2>2. CASE call[r].op = "accept"
    <3>1. pc'[r] = "deduct" /\ O(r)' = o /\ UNCHANGED call
      BY <1>2, <2>2 DEF SaveOrder, Goto, TypeOK, O, o
    <3>2. "deduct" \in MoneyOps /\ m.status = "accepted"
      BY <1>1, <2>2 DEF MoneyOps, DebitOps, Copied
    <3> QED  BY <1>1, <1>2, <1>4, <2>2, <3>1, <3>2, SameEntries DEF SerialCall
  <2> QED  BY <2>1, <2>2
<1>12. ASSUME NEW q \in Slots \ {r} PROVE SerialCall(q)'
  <2>1. OthersKept(r)
    BY <1>2 DEF SaveOrder, Leave, Goto, TypeOK, OthersKept
  <2>2. PICK u : u = O(q)
    OBVIOUS
  <2>3. pc[q] # "idle" => u # o /\ u \in Orders
    BY <2>2, BusyFacts DEF OnePerOrder, o
  <2>4. pc[q] # "idle" =>
           /\ orders'[u] = orders[u]
           /\ \A d \in Drivers : \A x : HasEntry(x, u, d)' <=> HasEntry(x, u, d)
    BY <1>1, <2>3, SameEntries
  <2> QED  BY <2>1, <2>2, <2>4, OtherSerial
<1> QED  BY <1>8, <1>10, <1>11, <1>12 DEF SerialInv

\* A post for the driver of the order's row.
LEMMA PostSerial ==
    ASSUME IInv, SerialInv, NEW o \in Orders, NEW d \in Drivers, NEW op \in MoneyOps,
           NEW n \in Nat, Posts(d, op, o, n), UNCHANGED orders,
           orders[o] # NoOrder, orders[o].driver = d,
           op = "deduct" => ~HasEntry("deduct", o, d),
           \A r \in Slots : SerialCall(r)'
    PROVE  SerialInv'
<1>1. TypeOK
  BY DEF IInv
<1>2. \A q \in Orders, e \in Drivers : \A x :
         HasEntry(x, q, e)' <=> HasEntry(x, q, e) \/ (e = d /\ q = o /\ x = op)
  BY <1>1, PostsHas
<1>3. ASSUME NEW q \in Orders PROVE SerialRow(q)'
  <2>1. SerialRow(q)
    BY DEF SerialInv
  <2>2. ASSUME NEW e \in Drivers PROVE Entries("deduct", q, e)' <= 1
    <3>1. /\ Entries("deduct", q, e) \in Nat /\ Entries("deduct", q, e) <= 1
          /\ Entries("deduct", q, e)' = Entries("deduct", q, e)
                + (IF e = d /\ q = o /\ op = "deduct" THEN 1 ELSE 0)
      BY <1>1, <2>1, PostsCounts DEF SerialRow
    <3>2. e = d /\ q = o /\ op = "deduct" => Entries("deduct", q, e) = 0
      BY <1>1, HasCounted
    <3> QED  BY <3>1, <3>2
  <2> QED  BY <1>2, <2>1, <2>2 DEF SerialRow
<1>4. DeliveredIsSettled'
  <2> SUFFICES ASSUME NEW q \in Orders, orders[q] # NoOrder, orders[q].status = "delivered",
                      orders[q].driver # None
               PROVE  /\ HasEntry("refund", q, orders[q].driver)'
                      /\ HasEntry("pay", q, orders[q].driver)'
    BY DEF DeliveredIsSettled
  <2>1. /\ HasEntry("refund", q, orders[q].driver) /\ HasEntry("pay", q, orders[q].driver)
        /\ orders[q].driver \in Drivers
    BY <1>1 DEF SerialInv, DeliveredIsSettled, TypeOK, OrderRow
  <2>2. PICK e \in Drivers : e = orders[q].driver
    BY <2>1
  <2> QED  BY <1>2, <2>1, <2>2
<1> QED  BY <1>3, <1>4 DEF SerialInv

\* What the wallet operations of a request post, and where they lead.
LEMMA SerialPosts ==
    ASSUME IInv, SerialInv, NEW r \in Slots, Deduct(r) \/ Refund(r) \/ Pay(r)
    PROVE  \/ Leave(r) /\ UNCHANGED <<orders, transactions>>
           \/ \E op \in {"deduct", "refund", "pay"}, n \in Nat :
                 /\ Posts(call[r].driver, op, O(r), n) /\ pc[r] = op /\ OthersKept(r)
                 /\ op = "deduct" => Leave(r)
                 /\ op # "deduct" =>
                       /\ UNCHANGED <<call, entity, base>>
                       /\ pc'[r] = IF op = "refund" /\ call[r].op = "status"
                                   THEN "pay" ELSE "reload"
                 /\ UNCHANGED <<orders, past, minBalance>>
<1>1. TypeOK /\ minBalance \in Nat
  BY DepositAssumption DEF IInv, TypeOK
<1>a. Leave(r) => OthersKept(r)
  BY <1>1, LeaveFacts, TypesSplit
<1>b. ASSUME NEW l, Goto(r, l), UNCHANGED <<call, entity, base>> PROVE OthersKept(r)
  BY <1>1, <1>b DEF Goto, OthersKept, TypeOK
<1>2. CASE Deduct(r)
  BY <1>1, <1>a, <1>2 DEF Deduct, CallsWallet, tables, wallet
<1>3. CASE Refund(r)
  BY <1>1, <1>b, <1>3 DEF Refund, CallsWallet, tables, wallet, Goto, TypeOK
<1>4. CASE Pay(r)
  BY <1>1, <1>b, <1>4, EarningsType DEF Pay, CallsWallet, tables, wallet, Goto, TypeOK
<1> QED  BY <1>2, <1>3, <1>4

\* The post is for the driver of the row, at the status that it is meant for.
LEMMA SerialPostFacts ==
    ASSUME IInv, SerialInv, NEW r \in Slots, pc[r] \in {"deduct", "refund", "pay"}
    PROVE  /\ TypeOK /\ O(r) \in Orders /\ orders[O(r)] # NoOrder
           /\ call[r].driver \in Drivers /\ orders[O(r)].driver = call[r].driver
           /\ entity[r].driver = call[r].driver
           /\ orders[O(r)].status # "delivered"
           /\ pc[r] = "deduct" =>
                 /\ orders[O(r)].status = "accepted"
                 /\ \A d \in Drivers : ~HasEntry("deduct", O(r), d)
           /\ pc[r] # "deduct" =>
                 Copied(r, orders[O(r)], entity[r]) /\ Settled(r, O(r), entity[r])
           /\ pc[r] = "pay" => orders[O(r)].status = "in_transit" /\ call[r].op = "status"
<1>1. /\ TypeOK /\ CallOK(r) /\ SerialCall(r) /\ O(r) \in Orders /\ SerialRow(O(r))
      /\ orders[O(r)] \in OrderRow /\ orders[O(r)] # NoOrder
      /\ entity[r] \in OrderRow /\ entity[r].driver = call[r].driver
  BY BusyFacts
<1>2. CASE pc[r] = "deduct"
  BY <1>1, <1>2 DEF SerialCall, CallOK
<1>3. CASE pc[r] \in {"refund", "pay"}
  <2>1. /\ Copied(r, orders[O(r)], entity[r]) /\ Settled(r, O(r), entity[r])
        /\ call[r].driver \in Drivers /\ call[r].op \in {"status", "cancel"}
        /\ pc[r] = "pay" => call[r].op = "status"
    BY <1>1, <1>3 DEF SerialCall, CallOK
  <2>2. orders[O(r)].driver = call[r].driver
    BY <1>1, <2>1 DEF Copied
  <2>3. call[r].op = "status" => orders[O(r)].status = "in_transit"
    BY <1>1, <1>3, <2>1 DEF Copied, Settled, ValidTransitions, OrderRow, Statuses
  <2>4. orders[O(r)].status # "delivered"
    BY <2>1, <2>3 DEF Copied
  <2> QED  BY <1>1, <1>3, <2>1, <2>2, <2>3, <2>4
<1> QED  BY <1>2, <1>3

LEMMA WalletSerial ==
    ASSUME OnePerOrder, IInv, SerialInv, NEW r \in Slots, Deduct(r) \/ Refund(r) \/ Pay(r)
    PROVE  SerialInv'
<1>1. CASE Leave(r) /\ UNCHANGED <<orders, transactions>>
  BY <1>1, LeaveSerial
<1>2. ASSUME NEW op \in {"deduct", "refund", "pay"}, NEW n \in Nat,
             Posts(call[r].driver, op, O(r), n), pc[r] = op, OthersKept(r),
             op = "deduct" => Leave(r),
             op # "deduct" =>
                /\ UNCHANGED <<call, entity, base>>
                /\ pc'[r] = IF op = "refund" /\ call[r].op = "status"
                            THEN "pay" ELSE "reload"
             ,
             UNCHANGED <<orders, past, minBalance>>
      PROVE  SerialInv'
  <2>0. /\ O(r) \in Orders /\ call[r].driver \in Drivers /\ TypeOK
        /\ pc[r] \in {"deduct", "refund", "pay"}
    BY <1>2, SerialPostFacts
  <2>a. PICK o \in Orders : o = O(r)
    BY <2>0
  <2>b. PICK d \in Drivers : d = call[r].driver
    BY <2>0
  <2>c. PICK m : m = entity[r]
    OBVIOUS
  <2>1. /\ orders[o] # NoOrder /\ orders[o].driver = d /\ m.driver = d
        /\ op = "deduct" => ~HasEntry("deduct", o, d)
        /\ op # "deduct" => Copied(r, orders[o], m) /\ Settled(r, o, m)
        /\ op = "pay" => call[r].op = "status"
    BY <1>2, <2>0, <2>a, <2>b, <2>c, SerialPostFacts
  <2>2. op \in MoneyOps
    BY DEF MoneyOps, CreditOps, DebitOps
  <2>d. \A u \in Orders, e \in Drivers : \A x :
           HasEntry(x, u, e)' <=> HasEntry(x, u, e) \/ (e = d /\ u = o /\ x = op)
    BY <1>2, <2>0, <2>a, <2>b, <2>2, PostsHas
  <2>3. \A x : HasEntry(x, o, d)' <=> HasEntry(x, o, d) \/ x = op
    BY <2>d
  <2>4. SerialCall(r)'
    <3>1. CASE op = "deduct"
      <4>1. pc'[r] = "idle"
        BY <1>2, <2>0, <3>1 DEF Leave, Goto, TypeOK
      <4> QED  BY <4>1 DEF SerialCall
    <3>2. CASE op # "deduct"
      <4>1. /\ O(r)' = o /\ entity'[r] = m /\ UNCHANGED <<call, entity>>
            /\ pc'[r] = IF op = "refund" /\ call[r].op = "status" THEN "pay" ELSE "reload"
        BY <1>2, <2>a, <2>c, <3>2 DEF O
      <4>2. Copied(r, orders[o], m)'
        BY <1>2, <2>1, <3>2, <4>1 DEF Copied
      <4>3. Settled(r, o, m)'
        <5> SUFFICES ASSUME call[r].op = "status" PROVE Settled(r, o, m)'
          BY <4>1 DEF Settled
        <5>1. m.status = "delivered"
          BY <1>2, <2>1, <3>2 DEF Settled
        <5>2. op = "pay" => HasEntry("refund", o, d)
          BY <1>2, <2>1, <5>1, ActorsAssumption DEF Settled
        <5>3. HasEntry("refund", o, d)' /\ (op = "pay" => HasEntry("pay", o, d)')
          BY <2>3, <3>2, <5>2
        <5> QED  BY <2>1, <3>2, <4>1, <5>1, <5>3 DEF Settled
      <4> QED  BY <1>2, <4>1, <4>2, <4>3 DEF SerialCall
    <3> QED  BY <3>1, <3>2
  <2>5. ASSUME NEW q \in Slots \ {r} PROVE SerialCall(q)'
    <3>1. PICK u : u = O(q)
      OBVIOUS
    <3>2. pc[q] # "idle" => u # o /\ u \in Orders
      BY <2>a, <3>1, BusyFacts DEF OnePerOrder
    <3>3. pc[q] # "idle" =>
             /\ orders'[u] = orders[u]
             /\ \A e \in Drivers : \A x : HasEntry(x, u, e)' <=> HasEntry(x, u, e)
      BY <1>2, <2>d, <3>2
    <3> QED  BY <1>2, <3>1, <3>3, OtherSerial
  <2>6. \A q \in Slots : SerialCall(q)'
    BY <2>4, <2>5
  <2> QED  BY <1>2, <2>a, <2>b, <2>1, <2>2, <2>6, PostSerial
<1> QED  BY <1>1, <1>2, SerialPosts

LEMMA WithdrawSerial ==
    ASSUME IInv, SerialInv, NEW d \in Drivers, Withdraw(d)
    PROVE  /\ SerialInv' /\ UNCHANGED orders
           /\ \A q \in Orders, e \in Drivers : \A x : Entries(x, q, e)' = Entries(x, q, e)
<1>1. /\ Posts(d, "withdraw", None, accounts[d].balance) /\ accounts[d].balance > 0
      /\ UNCHANGED <<orders, call, pc, entity, base>>
  BY DEF Withdraw, tables, locals
<1>2. TypeOK /\ accounts[d].balance \in Nat /\ "withdraw" \in MoneyOps
  <2>1. TypeOK /\ accounts[d].balance \in Int
    BY DEF IInv, TypeOK
  <2> QED  BY <1>1, <2>1 DEF MoneyOps, DebitOps
<1>3. \A q \in Orders, e \in Drivers : \A x :
         /\ Entries(x, q, e)' = Entries(x, q, e)
         /\ HasEntry(x, q, e)' <=> HasEntry(x, q, e)
  BY <1>1, <1>2, PostsCounts, PostsHas, ActorsAssumption
<1>4. ASSUME NEW q \in Orders PROVE SerialRow(q)'
  BY <1>1, <1>3 DEF SerialInv, SerialRow
<1>5. DeliveredIsSettled'
  BY <1>1, <1>2, <1>3 DEF SerialInv, DeliveredIsSettled, TypeOK, OrderRow
<1>6. ASSUME NEW r \in Slots PROVE SerialCall(r)'
  <2>1. CASE pc[r] = "idle"
    BY <1>1, <2>1 DEF SerialCall
  <2>2. CASE pc[r] # "idle"
    <3>1. O(r)' = O(r) /\ O(r) \in Orders /\ SerialCall(r) /\ entity[r].driver \in Drivers \cup {None}
      BY <1>1, <2>2, BusyFacts DEF O, OrderRow
    <3>2. Settled(r, O(r), entity[r]) => Settled(r, O(r), entity[r])'
      BY <1>1, <1>3, <3>1 DEF Settled
    <3> QED  BY <1>1, <1>3, <3>1, <3>2 DEF SerialCall, Copied
  <2> QED  BY <2>1, <2>2
<1> QED  BY <1>1, <1>3, <1>4, <1>5, <1>6 DEF SerialInv

LEMMA NextSerial == OnePerOrder /\ IInv /\ SerialInv /\ [Next]_vars => SerialInv'
<1> SUFFICES ASSUME OnePerOrder, IInv, SerialInv, [Next]_vars PROVE SerialInv'
  OBVIOUS
<1>1. ASSUME UNCHANGED <<orders, transactions, call, pc, entity, base>> PROVE SerialInv'
  <2>1. ASSUME NEW r \in Slots PROVE SerialCall(r)'
    <3>1. SerialCall(r) /\ O(r)' = O(r)
      BY <1>1 DEF SerialInv, O
    <3> QED  BY <1>1, <3>1, SameEntries DEF SerialCall, Copied, Settled
  <2> QED  BY <1>1, <2>1, SameRows DEF SerialInv
<1>2. ASSUME NEW d \in Drivers, ToggleLock(d) PROVE SerialInv'
  BY <1>1, <1>2 DEF ToggleLock, tables, locals
<1>3. ASSUME SetMinBalance PROVE SerialInv'
  BY <1>1, <1>3 DEF SetMinBalance, tables, wallet, locals
<1>4. ASSUME UNCHANGED vars PROVE SerialInv'
  BY <1>1, <1>4 DEF vars
<1> QED
  BY <1>2, <1>3, <1>4, CreateSerial, AcceptSerial, CancelSerial, StatusSerial, LocateSerial,
     ProgressSerial, SaveSerial, WalletSerial, WithdrawSerial DEF Next

\* A single slot serves one call after another: there Spec is SerialSpec.
THEOREM OneSlotIsSerial ==
    ASSUME \A q, r \in Slots : q = r
    PROVE  Spec <=> SerialSpec
<1>1. [Next]_vars <=> [Next /\ OnePerOrder']_vars
  BY DEF OnePerOrder
<1> QED  BY <1>1, PTL DEF Spec, SerialSpec

\* The invariant of calls that are alone with their orders.
LEMMA SerialInvariant == SerialSpec => [](IInv /\ CountInv /\ SerialInv /\ OnePerOrder)
<1>1. Init => OnePerOrder
  BY DEF Init, OnePerOrder
<1>2. OnePerOrder /\ [Next /\ OnePerOrder']_vars => OnePerOrder'
  BY DEF OnePerOrder, O, vars
<1> QED
  BY <1>1, <1>2, InitIInv, InitCount, InitSerial, NextIInv, NextCount, NextSerial, PTL
  DEF SerialSpec

\* The calls about an order one at a time: an order that a driver delivered is
\* settled with him, whatever call failed at whatever step before.
THEOREM DeliveredSettled == SerialSpec => []DeliveredIsSettled
<1>1. SerialInv => DeliveredIsSettled
  BY DEF SerialInv
<1> QED  BY <1>1, SerialInvariant, PTL

\* The calls about an order one at a time: an order nobody accepted has moved no
\* money.
THEOREM PendingFree == SerialSpec => []PendingIsFree
<1>1. SerialInv => PendingIsFree
  <2> SUFFICES ASSUME SerialInv, NEW o \in Orders, orders[o].status = "pending",
                      NEW d \in Drivers, NEW op \in MoneyOps
               PROVE  ~HasEntry(op, o, d)
    BY DEF PendingIsFree
  <2>1. orders[o] # NoOrder /\ SerialRow(o)
    BY DEF NoOrder, SerialInv
  <2> QED  BY <2>1, ActorsAssumption DEF SerialRow
<1> QED  BY <1>1, SerialInvariant, PTL
-----------------------------------------------------------------------------
(* Alone with their orders, the handlers implement the life of an order. *)

LEMMA LifeStutter ==
    ASSUME UNCHANGED orders,
           \A q \in Orders, e \in Drivers : \A x : Entries(x, q, e)' = Entries(x, q, e)
    PROVE  UNCHANGED Life!vars
BY DEF Life!vars, StatusOf, DriverOf, CountOf

\* One row is written and nothing posted.
LEMMA LifeRow ==
    ASSUME TypeOK, NEW o \in Orders, orders'[o] \in OrderRow,
           \A q \in Orders \ {o} : orders'[q] = orders[q], UNCHANGED transactions
    PROVE  /\ StatusOf' = [StatusOf EXCEPT ![o] = orders'[o].status]
           /\ DriverOf' = [DriverOf EXCEPT ![o] = orders'[o].driver]
           /\ UNCHANGED <<CountOf("deduct"), CountOf("refund"), CountOf("pay")>>
<1>1. StatusOf' = [StatusOf EXCEPT ![o] = orders'[o].status]
  BY DEF StatusOf
<1>2. DriverOf' = [DriverOf EXCEPT ![o] = orders'[o].driver]
  BY NoOrderIsNoRow DEF DriverOf
<1>3. UNCHANGED <<CountOf("deduct"), CountOf("refund"), CountOf("pay")>>
  BY SameEntries DEF CountOf
<1> QED  BY <1>1, <1>2, <1>3

\* One entry is posted and no row written.
LEMMA LifePost ==
    ASSUME TypeOK, NEW d \in Drivers, NEW op \in MoneyOps, NEW o \in Orders,
           NEW n \in Nat, Posts(d, op, o, n), UNCHANGED orders
    PROVE  /\ UNCHANGED <<StatusOf, DriverOf>>
           /\ CountOf(op)' = [CountOf(op) EXCEPT ![o][d] = @ + 1]
           /\ \A x : x # op => CountOf(x)' = CountOf(x)
<1>1. \A q \in Orders, e \in Drivers : \A x :
         /\ Entries(x, q, e) \in Nat
         /\ Entries(x, q, e)'
               = Entries(x, q, e) + (IF e = d /\ q = o /\ x = op THEN 1 ELSE 0)
  BY PostsCounts
<1>2. UNCHANGED <<StatusOf, DriverOf>>
  BY DEF StatusOf, DriverOf
<1>3. \A x : x # op => CountOf(x)' = CountOf(x)
  BY <1>1 DEF CountOf
<1>4. CountOf(op)' = [CountOf(op) EXCEPT ![o][d] = @ + 1]
  <2>1. \A q \in Orders, e \in Drivers :
           Entries(op, q, e)' = IF q = o /\ e = d THEN Entries(op, q, e) + 1
                                                   ELSE Entries(op, q, e)
    BY <1>1
  <2> QED  BY <2>1 DEF CountOf
<1> QED  BY <1>2, <1>3, <1>4

LEMMA LifeInit == Init => Life!Init
<1> SUFFICES ASSUME Init PROVE Life!Init
  OBVIOUS
<1>1. TypeOK /\ SerialInv
  BY InitIInv, InitSerial DEF IInv
<1>2. \A o \in Orders : orders[o] = NoOrder
  BY DEF Init
<1>3. ASSUME NEW o \in Orders, NEW d \in Drivers, NEW op \in MoneyOps
      PROVE  Entries(op, o, d) = 0
  <2>1. ~HasEntry(op, o, d)
    BY <1>1, <1>2 DEF SerialInv, SerialRow
  <2> QED  BY <1>1, <2>1, HasCounted
<1>4. {"deduct", "refund", "pay"} \subseteq MoneyOps
  BY DEF MoneyOps, CreditOps, DebitOps
<1>5. \A op \in {"deduct", "refund", "pay"} :
         CountOf(op) = [o \in Orders |-> [d \in Drivers |-> 0]]
  BY <1>3, <1>4 DEF CountOf
<1>6. StatusOf = [o \in Orders |-> "none"] /\ DriverOf = [o \in Orders |-> None]
  BY <1>2 DEF StatusOf, DriverOf, NoOrder
<1> QED  BY <1>5, <1>6 DEF Life!Init

LEMMA LifeCreate ==
    ASSUME IInv, NEW o \in Orders, NEW c \in Customers, Create(o, c)
    PROVE  Life!Next
<1> DEFINE row == [status |-> "pending", customer |-> c, driver |-> None, delivered |-> FALSE]
<1>1. TypeOK /\ orders[o] = NoOrder /\ orders' = [orders EXCEPT ![o] = row]
      /\ UNCHANGED transactions
  BY DEF Create, wallet, IInv
<1>2. row \in OrderRow /\ row.status = "pending" /\ row.driver = None
  BY DEF OrderRow, Statuses
<1> HIDE DEF row
<1>3. orders'[o] = row /\ \A q \in Orders \ {o} : orders'[q] = orders[q]
  BY <1>1 DEF TypeOK
<1>4. /\ StatusOf' = [StatusOf EXCEPT ![o] = "pending"]
      /\ DriverOf' = [DriverOf EXCEPT ![o] = None]
      /\ UNCHANGED <<CountOf("deduct"), CountOf("refund"), CountOf("pay")>>
  BY <1>1, <1>2, <1>3, LifeRow
<1>5. StatusOf[o] = "none" /\ DriverOf[o] = None /\ UNCHANGED DriverOf
  BY <1>1, <1>4 DEF StatusOf, DriverOf, NoOrder
<1>6. Life!Create(o)
  BY <1>4, <1>5 DEF Life!Create, Life!money
<1> QED  BY <1>6 DEF Life!Next

\* A save is the step of its handler, or writes what was there.
LEMMA LifeSave ==
    ASSUME IInv, SerialInv, NEW r \in Slots, SaveOrder(r)
    PROVE  Life!Next \/ UNCHANGED Life!vars
<1>0. pc[r] = "overwrite"
  BY DEF SaveOrder
<1>a. /\ TypeOK /\ CallOK(r) /\ O(r) \in Orders /\ orders[O(r)] # NoOrder
      /\ orders[O(r)] \in OrderRow /\ entity[r] \in OrderRow
      /\ entity[r].driver = call[r].driver /\ SerialRow(O(r))
  BY <1>0, BusyFacts
<1>b. PICK o \in Orders : o = O(r)
  BY <1>a
<1>c. PICK m \in OrderRow : m = entity[r]
  BY <1>a
<1>1. /\ orders'[o] \in OrderRow /\ orders'[o].status = m.status /\ orders'[o].driver = m.driver
      /\ \A q \in Orders \ {o} : orders'[q] = orders[q]
      /\ Copied(r, orders[o], m) /\ Settled(r, o, m) /\ UNCHANGED transactions
  BY <1>b, <1>c, SaveWrites
<1>2. /\ StatusOf' = [StatusOf EXCEPT ![o] = m.status]
      /\ DriverOf' = [DriverOf EXCEPT ![o] = m.driver]
      /\ UNCHANGED <<CountOf("deduct"), CountOf("refund"), CountOf("pay")>>
  BY <1>a, <1>1, LifeRow
<1>3. /\ StatusOf[o] = orders[o].status /\ DriverOf[o] = orders[o].driver
      /\ StatusOf = [StatusOf EXCEPT ![o] = orders[o].status]
      /\ DriverOf = [DriverOf EXCEPT ![o] = orders[o].driver]
  BY <1>a, <1>b DEF StatusOf, DriverOf
<1>4. call[r].op \in Handlers
  BY <1>0, <1>a DEF CallOK
<1>5. CASE call[r].op = "accept"
  <2>1. m.driver \in Drivers
    BY <1>0, <1>a, <1>c, <1>5 DEF CallOK
  <2>2. Life!Accept(o, m.driver)
    BY <1>1, <1>2, <1>3, <1>5 DEF Life!Accept, Life!money, Copied
  <2> QED  BY <2>1, <2>2 DEF Life!Next
<1>6. CASE call[r].op # "accept" /\ m.status = orders[o].status
  <2>1. m.driver = orders[o].driver
    BY <1>1, <1>6 DEF Copied
  <2> QED  BY <1>2, <1>3, <1>6, <2>1 DEF Life!vars
<1>7. CASE call[r].op \in {"status", "cancel"} /\ m.status # orders[o].status
  <2>1. m.driver = orders[o].driver
    BY <1>1, <1>7 DEF Copied
  <2>2. orders[o].status \in Statuses /\ StatusOf[o] # "none"
    BY <1>a, <1>b, <1>3 DEF OrderRow, Statuses
  <2>3. m.status \in Life!After[StatusOf[o]] /\ m.status \in DOMAIN Life!After
    <3>1. m.status \in ValidTransitions[orders[o].status]
      <4>1. CASE call[r].op = "status"
        BY <1>1, <4>1 DEF Copied
      <4>2. CASE call[r].op = "cancel"
        BY <1>1, <1>7, <2>2, <4>2 DEF Copied, Statuses, ValidTransitions
      <4> QED  BY <1>7, <4>1, <4>2
    <3> QED  BY <1>3, <2>2, <3>1 DEF Life!After, ValidTransitions, Statuses
  <2>4. m.status = "delivered" /\ DriverOf[o] # None => CountOf("pay")[o][DriverOf[o]] > 0
    <3> SUFFICES ASSUME m.status = "delivered", m.driver # None
                 PROVE  CountOf("pay")[o][m.driver] > 0
      BY <1>3, <2>1
    <3>1. m.driver \in Drivers
      BY DEF OrderRow
    <3>2. HasEntry("pay", o, m.driver)
      BY <1>0, <1>1, <1>7 DEF Settled, Copied
    <3>3. Entries("pay", o, m.driver) > 0
      BY <1>a, <3>1, <3>2, HasCounted
    <3> QED  BY <3>1, <3>3 DEF CountOf
  <2>5. UNCHANGED DriverOf
    BY <1>2, <1>3, <2>1
  <2>6. Life!Advance(o, m.status)
    BY <1>2, <2>2, <2>3, <2>4, <2>5 DEF Life!Advance, Life!money
  <2> QED  BY <2>3, <2>6 DEF Life!Next
<1>8. call[r].op = "locate" => m.status = orders[o].status
  BY <1>1 DEF Copied
<1> QED  BY <1>4, <1>5, <1>6, <1>7, <1>8 DEF Handlers

\* A post is the entry of its kind, in its place.
LEMMA LifeWallet ==
    ASSUME IInv, CountInv, SerialInv, NEW r \in Slots,
           Deduct(r) \/ Refund(r) \/ Pay(r)
    PROVE  Life!Next \/ UNCHANGED Life!vars
<1>1. CASE Leave(r) /\ UNCHANGED <<orders, transactions>>
  BY <1>1, SameEntries, LifeStutter
<1>2. ASSUME NEW op \in {"deduct", "refund", "pay"}, NEW n \in Nat,
             Posts(call[r].driver, op, O(r), n), pc[r] = op, UNCHANGED orders
      PROVE  Life!Next
  <2>0. /\ O(r) \in Orders /\ call[r].driver \in Drivers /\ TypeOK
        /\ pc[r] \in {"deduct", "refund", "pay"}
    BY <1>2, SerialPostFacts
  <2>a. PICK o \in Orders : o = O(r)
    BY <2>0
  <2>b. PICK d \in Drivers : d = call[r].driver
    BY <2>0
  <2>1. /\ orders[o] # NoOrder /\ orders[o].driver = d /\ orders[o].status # "delivered"
        /\ op = "deduct" => orders[o].status = "accepted" /\ ~HasEntry("deduct", o, d)
        /\ op = "pay" => orders[o].status = "in_transit"
    BY <1>2, <2>0, <2>a, <2>b, SerialPostFacts
  <2>2. op \in MoneyOps
    BY DEF MoneyOps, CreditOps, DebitOps
  <2>3. /\ UNCHANGED <<StatusOf, DriverOf>>
        /\ CountOf(op)' = [CountOf(op) EXCEPT ![o][d] = @ + 1]
        /\ \A x : x # op => CountOf(x)' = CountOf(x)
    BY <1>2, <2>0, <2>a, <2>b, <2>2, LifePost
  <2>4. StatusOf[o] = orders[o].status /\ DriverOf[o] = d
    BY <2>1 DEF StatusOf, DriverOf
  <2>5. \A x : CountOf(x)[o][d] = Entries(x, o, d)
    BY DEF CountOf
  <2>6. CASE op = "deduct"
    <3>1. CountOf("deduct")[o][d] = 0
      BY <2>0, <2>1, <2>5, <2>6, HasCounted
    <3>2. CountOf("deduct")' = [CountOf("deduct") EXCEPT ![o][d] = 1]
      BY <2>3, <2>6, <3>1
    <3>3. Life!Deposit(o, d)
      BY <2>1, <2>3, <2>4, <2>6, <3>1, <3>2 DEF Life!Deposit
    <3> QED  BY <3>3 DEF Life!Next
  <2>7. CASE op = "refund"
    <3>1. Life!Refund(o, d)
      BY <2>1, <2>3, <2>4, <2>7 DEF Life!Refund
    <3> QED  BY <3>1 DEF Life!Next
  <2>8. CASE op = "pay"
    <3>1. Entries("pay", o, d) < Entries("refund", o, d)
      <4>1. r \in Paying(o, d)
        BY <1>2, <2>a, <2>b, <2>8 DEF Paying
      <4>2. /\ Leads(o, d) /\ Entries("pay", o, d) \in Nat
            /\ Entries("refund", o, d) \in Nat
        BY <2>0, EntriesNat DEF CountInv
      <4>3. Cardinality(Paying(o, d)) \in Nat /\ Cardinality(Paying(o, d)) # 0
        BY <4>1, <4>2, FS_EmptySet, FS_CardinalityType DEF Leads
      <4> QED  BY <4>2, <4>3 DEF Leads
    <3>2. Life!Pay(o, d)
      BY <2>1, <2>3, <2>4, <2>5, <2>8, <3>1 DEF Life!Pay
    <3> QED  BY <3>2 DEF Life!Next
  <2> QED  BY <2>6, <2>7, <2>8
<1> QED  BY <1>1, <1>2, SerialPosts

LEMMA LifeStep ==
    IInv /\ CountInv /\ SerialInv /\ [Next]_vars => [Life!Next]_(Life!vars)
<1> SUFFICES ASSUME IInv, CountInv, SerialInv, [Next]_vars
             PROVE  Life!Next \/ UNCHANGED Life!vars
  OBVIOUS
<1>1. ASSUME UNCHANGED <<orders, transactions>> PROVE UNCHANGED Life!vars
  BY <1>1, SameEntries, LifeStutter
<1>2. ASSUME NEW r \in Slots, NEW op, NEW o, NEW d, NEW copy, NEW label,
             Begin(r, op, o, d, copy, label)
      PROVE  UNCHANGED Life!vars
  BY <1>1, <1>2 DEF Begin, tables, wallet
<1>3. ASSUME NEW r \in Slots, NEW o \in Orders, NEW a, NEW s,
             AcceptOrder(r, o, a) \/ CancelOrder(r, o, a) \/ UpdateStatus(r, o, a, s)
                \/ UpdateDriverLocation(r, o)
      PROVE  UNCHANGED Life!vars
  BY <1>2, <1>3 DEF AcceptOrder, CancelOrder, UpdateStatus, UpdateDriverLocation
<1>4. ASSUME NEW r \in Slots, CanTake(r) \/ Reload(r) \/ Die(r)
      PROVE  UNCHANGED Life!vars
  BY <1>1, <1>4 DEF CanTake, Reload, Die, tables, wallet
<1>5. ASSUME NEW d \in Drivers, Withdraw(d) PROVE UNCHANGED Life!vars
  BY <1>5, WithdrawSerial, LifeStutter
<1>6. ASSUME NEW d \in Drivers, ToggleLock(d) PROVE UNCHANGED Life!vars
  BY <1>1, <1>6 DEF ToggleLock, tables
<1>7. ASSUME SetMinBalance PROVE UNCHANGED Life!vars
  BY <1>1, <1>7 DEF SetMinBalance, tables, wallet
<1>8. ASSUME UNCHANGED vars PROVE UNCHANGED Life!vars
  BY <1>1, <1>8 DEF vars
<1> QED
  BY <1>3, <1>4, <1>5, <1>6, <1>7, <1>8, LifeCreate, LifeSave, LifeWallet DEF Next

\* The calls about an order one at a time: the handlers implement its life.
\* Every step of the code is a step of it or changes nothing it sees: an order
\* is accepted and charged once, refunded before it is paid, and delivered only
\* when its driver was paid, in spite of faults, locks, withdrawals and changes
\* of the deposit between any two steps.
THEOREM OrdersImplementLife == SerialSpec => ImplementsOrderLife
<1>1. IInv /\ CountInv /\ SerialInv /\ [Next /\ OnePerOrder']_vars => [Life!Next]_(Life!vars)
  BY LifeStep
<1> QED  BY <1>1, LifeInit, SerialInvariant, PTL DEF SerialSpec, ImplementsOrderLife, Life!Spec
=============================================================================
