------------------------------- MODULE Wallet -------------------------------
(***************************************************************************)
(* src/src/wallet/wallet.service.ts: the wallets of the drivers and the    *)
(* history of transactions that explains them.                             *)
(*                                                                         *)
(* Every HTTP request runs one service method, and the methods interleave  *)
(* at their awaits.  The five money operations share one shape: BEGIN;     *)
(* SELECT ... FOR UPDATE of the wallet row; checks on the row that was     *)
(* read; UPDATE wallets and INSERT INTO transactions; COMMIT, or ROLLBACK  *)
(* on any exception.  lockWallet and unlockWallet take no lock: they read  *)
(* the row, set isLocked in memory and hand the whole entity back to       *)
(* repository.save.                                                        *)
(*                                                                         *)
(* TypeORM and PostgreSQL (READ COMMITTED) are external.  repository.save  *)
(* of an existing row reads it again and then issues an UPDATE of the      *)
(* columns that differ, in its own transaction: two steps (Reload,         *)
(* Overwrite), the second of which waits for a row lock another            *)
(* transaction holds.  What a transaction has written becomes visible at   *)
(* its commit, so its UPDATE and INSERT appear in one step, Commit.        *)
(***************************************************************************)
EXTENDS WalletRules, TypeORM, FiniteSets

CONSTANTS
    Users,         \* the users whose wallets are modelled
    Requests,      \* HTTP requests; each is one call of one operation
    Ops,           \* the operations the requests may call
    Amounts,       \* the amounts (in kobo) they may carry
    MinBalances,   \* values the setting DRIVER_MIN_BALANCE takes
    Percentages,   \* values DRIVER_COMMISSION_PERCENTAGE takes
    OpeningBalances, \* balances the wallets start from
    None           \* no request

AdminOps == {"lock", "unlock"}
\* getBalance, canDriverTakeOrder, getTransactions, getTransactionById,
\* getWalletStats: they read, and create a missing wallet on the way.
ReadOps == {"get"}
AllOps == MoneyOps \cup AdminOps \cup ReadOps

\* add-funds.dto.ts and withdraw-funds.dto.ts demand @IsPositive; an order's
\* price is positive because the base price is.
ASSUME AmountsAssumption == Amounts \subseteq Nat \ {0}
\* Nothing in the code validates these two settings; a negative deposit, or a
\* commission above 100 percent, is outside the model.
ASSUME MinBalancesAssumption == MinBalances \subseteq Nat
ASSUME PercentagesAssumption == Percentages \subseteq 0..100
ASSUME OpeningAssumption == OpeningBalances \subseteq Nat
ASSUME OpsAssumption == Ops \subseteq AllOps
ASSUME NoneAssumption == None \notin Requests

VARIABLES
    wallets,       \* table wallets: user -> committed row, or NoWallet
    transactions,  \* table transactions: user -> committed rows, oldest first
    rowLock,       \* user -> request whose transaction holds the row, or None
    settings,      \* the two settings of the config service the wallet reads
    request,       \* request -> what was called
    pc,            \* request -> where its method is
    entity,        \* request -> the Wallet entity it has in memory
    base,          \* request -> the row as save() reloaded it
    setting        \* request -> the value getNumber returned

vars == <<wallets, transactions, rowLock, settings, request, pc, entity, base,
          setting>>
database == <<wallets, transactions, rowLock>>
locals == <<request, pc, entity, base, setting>>

\* Where a money operation holds the row lock, and where it may not hold it yet.
Holding == {"config", "save", "commit"}
InTransaction == {"begin"} \cup Holding
OutOfTransaction == {"find", "create", "insert", "reload", "overwrite"}
Active == InTransaction \cup {"rollback"} \cup OutOfTransaction
\* How the caller sees it end.  "unknown": the process or the connection died
\* before the outcome was reported.
Ended == {"done", "failed", "unknown"}

NoCall == [op |-> "none"]
Op(r) == request[r].op
User(r) == request[r].user
Posted(r) == PostedAmount(Op(r), request[r].amount, setting[r])
-----------------------------------------------------------------------------
\* A user has no wallet yet, or one whose history is the single top-up that
\* brought it to its opening balance.  Some wallets are already locked.
OpeningHistory(b) == IF b = 0 THEN <<>> ELSE <<TransactionRow(None, "add", b, b)>>

OpeningRow(b, locked) ==
    [exists |-> TRUE, balance |-> b, totalEarnings |-> b, totalWithdrawals |-> 0,
     isLocked |-> locked]

Init ==
    /\ wallets \in [Users -> {NoWallet} \cup
                       {OpeningRow(b, l) : b \in OpeningBalances, l \in BOOLEAN}]
    /\ transactions = [u \in Users |->
            IF wallets[u] = NoWallet THEN <<>> ELSE OpeningHistory(wallets[u].balance)]
    /\ rowLock = [u \in Users |-> None]
    /\ settings \in [minBalance : MinBalances, commission : Percentages]
    /\ request = [r \in Requests |-> NoCall]
    /\ pc = [r \in Requests |-> "idle"]
    /\ entity = [r \in Requests |-> NoWallet]
    /\ base = [r \in Requests |-> NoWallet]
    /\ setting = [r \in Requests |-> 0]

Goto(r, label) == pc' = [pc EXCEPT ![r] = label]

\* The method returns or throws; its local variables go with it.
Leave(r, outcome) ==
    /\ Goto(r, outcome)
    /\ entity' = [entity EXCEPT ![r] = NoWallet]
    /\ base' = [base EXCEPT ![r] = NoWallet]
    /\ setting' = [setting EXCEPT ![r] = 0]

\* A request arrives; a money operation opens its transaction.
Call(r) ==
    /\ pc[r] = "idle"
    /\ \E op \in Ops, u \in Users, a \in Amounts :
          /\ request' = [request EXCEPT ![r] = [op |-> op, user |-> u, amount |-> a]]
          /\ Goto(r, IF op \in MoneyOps THEN "begin" ELSE "find")
    /\ UNCHANGED <<database, settings, entity, base, setting>>
-----------------------------------------------------------------------------
\* The checks that need no setting.
RefusedOnRead(r, w) ==
    \/ RefusesLocked(Op(r), w)
    \/ Op(r) = "withdraw" /\ Insufficient("withdraw", w, request[r].amount)

\* Faulty variant: SELECT without FOR UPDATE.
LockRowPlain(r) ==
    /\ pc[r] = "begin"
    /\ wallets[User(r)] # NoWallet
    /\ entity' = [entity EXCEPT ![r] = wallets[User(r)]]
    /\ Goto(r, IF RefusedOnRead(r, wallets[User(r)]) THEN "rollback"
               ELSE IF Op(r) \in ConfiguredOps THEN "config" ELSE "save")
    /\ UNCHANGED <<database, settings, request, base, setting>>

\* SELECT ... FOR UPDATE finds the row, once no other transaction holds it.
LockRow(r) ==
    /\ pc[r] = "begin"
    /\ wallets[User(r)] # NoWallet
    /\ rowLock[User(r)] = None
    /\ rowLock' = [rowLock EXCEPT ![User(r)] = r]
    /\ entity' = [entity EXCEPT ![r] = wallets[User(r)]]
    /\ Goto(r, IF RefusedOnRead(r, wallets[User(r)]) THEN "rollback"
               ELSE IF Op(r) \in ConfiguredOps THEN "config" ELSE "save")
    /\ UNCHANGED <<wallets, transactions, settings, request, base, setting>>

\* SELECT ... FOR UPDATE finds nothing: NotFoundException.
RowMissing(r) ==
    /\ pc[r] = "begin"
    /\ wallets[User(r)] = NoWallet
    /\ Goto(r, "rollback")
    /\ UNCHANGED <<database, settings, request, entity, base, setting>>

\* Faulty variant: the deposit is taken whatever the balance.
ReadSettingUnchecked(r) ==
    /\ pc[r] = "config"
    /\ LET value == IF Op(r) = "pay" THEN settings.commission ELSE settings.minBalance
       IN  setting' = [setting EXCEPT ![r] = value]
    /\ Goto(r, "save")
    /\ UNCHANGED <<database, settings, request, entity, base>>

\* getNumber, inside the transaction; a deposit that exceeds the balance is
\* refused here.
ReadSetting(r) ==
    /\ pc[r] = "config"
    /\ LET value == IF Op(r) = "pay" THEN settings.commission ELSE settings.minBalance
       IN  /\ setting' = [setting EXCEPT ![r] = value]
           /\ Goto(r, IF Op(r) = "deduct" /\ Insufficient("deduct", entity[r], value)
                      THEN "rollback" ELSE "save")
    /\ UNCHANGED <<database, settings, request, entity, base>>

\* Faulty variant: the transaction row is saved through its repository, on
\* another connection, and so survives a rollback.
SaveBothApart(r) ==
    /\ pc[r] = "save"
    /\ entity' = [entity EXCEPT ![r] = PostedWallet(Op(r), @, Posted(r))]
    /\ transactions' = [transactions EXCEPT ![User(r)] =
            Append(@, TransactionRow(r, Op(r), Posted(r), entity'[r].balance))]
    /\ Goto(r, "commit")
    /\ UNCHANGED <<wallets, rowLock, settings, request, base, setting>>

\* The in-memory assignments, UPDATE wallets and INSERT INTO transactions, all
\* uncommitted.
SaveBoth(r) ==
    /\ pc[r] = "save"
    /\ entity' = [entity EXCEPT ![r] = PostedWallet(Op(r), @, Posted(r))]
    /\ Goto(r, "commit")
    /\ UNCHANGED <<database, settings, request, base, setting>>

\* Faulty variant: the entry reports the balance before the operation.
CommitReportsOld(r) ==
    /\ pc[r] = "commit"
    /\ wallets' = [wallets EXCEPT ![User(r)] = entity[r]]
    /\ transactions' = [transactions EXCEPT ![User(r)] =
            Append(@, TransactionRow(r, Op(r), Posted(r), wallets[User(r)].balance))]
    /\ rowLock' = [rowLock EXCEPT ![User(r)] = None]
    /\ \E outcome \in {"done", "unknown"} : Leave(r, outcome)
    /\ UNCHANGED <<settings, request>>

\* COMMIT makes both rows visible and releases the lock.  Its reply may be
\* lost: the caller then sees an exception although the money moved.
Commit(r) ==
    /\ pc[r] = "commit"
    /\ wallets' = [wallets EXCEPT ![User(r)] = entity[r]]
    /\ transactions' = [transactions EXCEPT ![User(r)] =
            Append(@, TransactionRow(r, Op(r), Posted(r), entity[r].balance))]
    /\ rowLock' = [rowLock EXCEPT ![User(r)] = None]
    /\ \E outcome \in {"done", "unknown"} : Leave(r, outcome)
    /\ UNCHANGED <<settings, request>>

\* Any statement may raise an error (deadlock victim, timeout, lost connection).
Fail(r) ==
    /\ pc[r] \in InTransaction \cup OutOfTransaction
    /\ IF pc[r] \in InTransaction
       THEN Goto(r, "rollback") /\ UNCHANGED <<entity, base, setting>>
       ELSE Leave(r, "failed")
    /\ UNCHANGED <<database, settings, request>>

\* Faulty variant: the error path leaves the transaction open.
RollbackLeaks(r) ==
    /\ pc[r] = "rollback"
    /\ Leave(r, "failed")
    /\ UNCHANGED <<database, settings, request>>

\* catch: ROLLBACK discards the writes and releases the lock; finally: the
\* connection goes back to the pool; the exception is rethrown.
Rollback(r) ==
    /\ pc[r] = "rollback"
    /\ rowLock' = [u \in Users |-> IF rowLock[u] = r THEN None ELSE rowLock[u]]
    /\ Leave(r, "failed")
    /\ UNCHANGED <<wallets, transactions, settings, request>>
-----------------------------------------------------------------------------
\* A wallet is in hand: the administrator's operations set isLocked and save,
\* the reading ones return.
WalletFound(r, w) ==
    IF Op(r) \in AdminOps
    THEN /\ entity' = [entity EXCEPT ![r] = [w EXCEPT !.isLocked = (Op(r) = "lock")]]
         /\ Goto(r, "reload")
         /\ UNCHANGED <<base, setting>>
    ELSE Leave(r, "done")

\* findOne by userId: in getWalletByUserId ("find"), and again in createWallet
\* ("create") when the first one found nothing.
Find(r) ==
    /\ pc[r] \in {"find", "create"}
    /\ IF wallets[User(r)] # NoWallet
       THEN WalletFound(r, wallets[User(r)])
       ELSE /\ Goto(r, IF pc[r] = "find" THEN "create" ELSE "insert")
            /\ UNCHANGED <<entity, base, setting>>
    /\ UNCHANGED <<database, settings, request>>

\* INSERT INTO wallets; userId is unique, so the second of two racing inserts
\* raises an error.
Insert(r) ==
    /\ pc[r] = "insert"
    /\ IF wallets[User(r)] = NoWallet
       THEN /\ wallets' = [wallets EXCEPT ![User(r)] = FreshWallet]
            /\ WalletFound(r, FreshWallet)
       ELSE /\ Leave(r, "failed")
            /\ UNCHANGED wallets
    /\ UNCHANGED <<transactions, rowLock, settings, request>>

\* save() of an existing entity: read the row again, to find what changed.
Reload(r) ==
    /\ pc[r] = "reload"
    /\ base' = [base EXCEPT ![r] = wallets[User(r)]]
    /\ Goto(r, "overwrite")
    /\ UNCHANGED <<database, settings, request, entity, setting>>

\* UPDATE of every column that differed at the reload, with the value in memory.
Overwritten(mine, seen, row) ==
    [exists |-> TRUE,
     balance |-> Column(mine.balance, seen.balance, row.balance),
     totalEarnings |-> Column(mine.totalEarnings, seen.totalEarnings, row.totalEarnings),
     totalWithdrawals |->
        Column(mine.totalWithdrawals, seen.totalWithdrawals, row.totalWithdrawals),
     isLocked |-> Column(mine.isLocked, seen.isLocked, row.isLocked)]

\* Faulty variant: the UPDATE does not wait for the row lock.
OverwriteNoWait(r) ==
    /\ pc[r] = "overwrite"
    /\ wallets' = [wallets EXCEPT ![User(r)] = Overwritten(entity[r], base[r], @)]
    /\ Leave(r, "done")
    /\ UNCHANGED <<transactions, rowLock, settings, request>>

\* The UPDATE of save(); it waits for the row lock unless there is nothing to
\* write.
Overwrite(r) ==
    /\ pc[r] = "overwrite"
    /\ entity[r] = base[r] \/ rowLock[User(r)] = None
    /\ wallets' = [wallets EXCEPT ![User(r)] = Overwritten(entity[r], base[r], @)]
    /\ Leave(r, "done")
    /\ UNCHANGED <<transactions, rowLock, settings, request>>
-----------------------------------------------------------------------------
\* An administrator changes a setting.  What getNumber returns is this value:
\* its cache is modelled in a module of its own.
Configure ==
    /\ settings' \in [minBalance : MinBalances, commission : Percentages]
    /\ settings' # settings
    /\ UNCHANGED <<database, locals>>

\* The process dies: its requests are gone, and PostgreSQL rolls back the
\* transactions of their connections.
Crash ==
    /\ \E r \in Requests : pc[r] \in Active
    /\ pc' = [r \in Requests |-> IF pc[r] \in Active THEN "unknown" ELSE pc[r]]
    /\ rowLock' = [u \in Users |-> None]
    /\ entity' = [r \in Requests |-> NoWallet]
    /\ base' = [r \in Requests |-> NoWallet]
    /\ setting' = [r \in Requests |-> 0]
    /\ UNCHANGED <<wallets, transactions, settings, request>>

Progress(r) ==
    \/ LockRow(r) \/ RowMissing(r) \/ ReadSetting(r) \/ SaveBoth(r) \/ Commit(r)
    \/ Rollback(r) \/ Find(r) \/ Insert(r) \/ Reload(r) \/ Overwrite(r)

Next ==
    \/ \E r \in Requests : Call(r) \/ Progress(r) \/ Fail(r)
    \/ Configure
    \/ Crash

\* The event loop and the database keep serving: a call that can take its next
\* step eventually does.
Fairness == \A r \in Requests : WF_vars(Progress(r))

Safety == Init /\ [][Next]_vars
Spec == Safety /\ Fairness
-----------------------------------------------------------------------------
CallRow == [op : Ops, user : Users, amount : Amounts]

\* Everything a posted amount can be.
Values == Amounts \cup MinBalances
            \cup {Earnings(a, p) : a \in Amounts, p \in Percentages}

\* Every variable has its type.
TypeOK ==
    /\ wallets \in [Users -> WalletRow \cup {NoWallet}]
    /\ transactions \in [Users -> Seq([ref : Requests \cup {None}, op : MoneyOps,
                                       amount : Nat, balanceAfter : Int])]
    /\ rowLock \in [Users -> Requests \cup {None}]
    /\ settings \in [minBalance : MinBalances, commission : Percentages]
    /\ request \in [Requests -> CallRow \cup {NoCall}]
    /\ pc \in [Requests -> {"idle"} \cup Active \cup Ended]
    /\ entity \in [Requests -> WalletRow \cup {NoWallet}]
    /\ base \in [Requests -> WalletRow \cup {NoWallet}]
    /\ setting \in [Requests -> Nat]

\* The row a money operation works on.
HolderIsCurrent(r) ==
    /\ rowLock[User(r)] = r
    /\ wallets[User(r)] # NoWallet
    /\ Op(r) # "refund" => ~wallets[User(r)].isLocked
    /\ pc[r] \in {"config", "save"} => entity[r] = wallets[User(r)]
    /\ pc[r] = "commit" => entity[r] = PostedWallet(Op(r), wallets[User(r)], Posted(r))
    /\ pc[r] \in {"save", "commit"} =>
          ~Insufficient(Op(r), wallets[User(r)], Posted(r))

\* From its SELECT ... FOR UPDATE to its COMMIT a money operation's entity
\* stays what the database holds: its checks (not locked, enough balance) are
\* still true of the row it overwrites, and no two operations on one wallet are
\* past that SELECT at once, in spite of the administrator's unlocked saves.
HolderCopyCurrent ==
    \A r \in Requests : pc[r] \in Holding => HolderIsCurrent(r)

\* No interleaving of deposits, withdrawals, payments, refunds and
\* administrator saves overdraws a wallet.
NonNegativeBalance ==
    \A u \in Users : wallets[u] # NoWallet => wallets[u].balance >= 0

\* The transaction history explains the balance to the kobo: entries continue
\* from one another and the last one reports the wallet's balance.
HistoryExplainsBalance ==
    \A u \in Users :
        /\ Chained(transactions[u])
        /\ ReportedBalance(transactions[u]) =
               IF wallets[u] = NoWallet THEN 0 ELSE wallets[u].balance

\* The entries a request has left in the histories.
EntriesOf(r) ==
    UNION {{<<u, i>> : i \in {j \in DOMAIN transactions[u] :
                                 transactions[u][j].ref = r}} : u \in Users}

\* What the caller is told matches the history: success means exactly one
\* entry, an exception means none, and when the reply is lost there is at
\* most one, never a part of one.
OutcomeInHistory ==
    \A r \in Requests :
        /\ pc[r] = "done" /\ Op(r) \in MoneyOps => Cardinality(EntriesOf(r)) = 1
        /\ pc[r] = "unknown" => Cardinality(EntriesOf(r)) <= 1
        /\ pc[r] \notin {"done", "unknown"} => EntriesOf(r) = {}

\* What a history's entries of some operations add up to: the last of the
\* running sums over its entries.
Counted(t, ops) == IF t.op \in ops THEN t.amount ELSE 0
SumOver(h, ops) ==
    LET s[i \in 0..Len(h)] == IF i = 0 THEN 0 ELSE s[i-1] + Counted(h[i], ops)
    IN  s[Len(h)]
Total(u, ops) == SumOver(transactions[u], ops)

\* The two lifetime totals are sums over the history: top-ups and payments
\* make totalEarnings, withdrawals make totalWithdrawals, and deposits and
\* their refunds are in neither.
TotalsMatchHistory ==
    \A u \in Users : wallets[u] # NoWallet =>
        /\ wallets[u].totalEarnings = Total(u, {"add", "pay"})
        /\ wallets[u].totalWithdrawals = Total(u, {"withdraw"})

\* The history grows by one entry at a time, in the same step as the balance
\* moves by its amount, and the entry reports the balance that step leaves.
PostedOnce(u) ==
    LET t == transactions'[u][Len(transactions'[u])]
    IN  /\ transactions'[u] = Append(transactions[u], t)
        /\ wallets'[u].balance = wallets[u].balance + Delta(t)
        /\ t.balanceAfter = wallets'[u].balance

\* A committed history is never rewritten, and each new entry is atomic with
\* the change of balance it records.
PostingIsAtomic ==
    [][\A u \in Users : transactions'[u] # transactions[u] => PostedOnce(u)]_vars

\* A wallet that is locked when an entry is committed to it takes nothing but
\* a refund: the check made under the row lock cannot go stale while an
\* administrator locks the wallet.
LockedTakesOnlyRefunds ==
    [][\A u \in Users :
          transactions'[u] # transactions[u] /\ wallets[u].isLocked =>
              transactions'[u][Len(transactions'[u])].op = "refund"]_vars

\* Locking or unlocking a wallet leaves its money alone.
LockLeavesMoneyAlone ==
    [][\A r \in Requests :
          pc[r] = "overwrite" /\ pc'[r] = "done" =>
              wallets'[User(r)] = [wallets[User(r)] EXCEPT !.isLocked = (Op(r) = "lock")]]_vars

\* Every request gets its answer: no row lock is leaked by an error path, so
\* no other request waits for ever.
EveryRequestEnds == \A r \in Requests : pc[r] \in Active ~> pc[r] \in Ended

\* The wallet component is the ledger it promises to be.
Account == INSTANCE Ledger WITH
    balance <- [u \in Users |-> IF wallets[u] = NoWallet THEN 0 ELSE wallets[u].balance],
    history <- transactions,
    frozen  <- [u \in Users |-> wallets[u] # NoWallet /\ wallets[u].isLocked]

\* Every behaviour of the locked transactions is a behaviour of the ledger.
ImplementsLedger == Account!Spec
=============================================================================
