------------------------------ MODULE Payments ------------------------------
(***************************************************************************)
(* src/src/payment/*.ts and getOrCreateVirtualAccount of                   *)
(* src/src/wallet/wallet.service.ts, over the pool of connections: the     *)
(* payment provider (Paystack, external) opens an account for a driver and *)
(* reports what is paid into it to a webhook, which tops the wallet up.    *)
(*                                                                         *)
(* Five kinds of call share the pool:                                      *)
(*   hook     a delivery of the webhook; addFunds, a transaction           *)
(*   pay      any other money operation: a transaction that also asks      *)
(*            ConfigService.getNumber, which needs a second connection     *)
(*            when the setting is not cached                               *)
(*   write    a statement that waits at a wallet's row as the SELECT of a  *)
(*            money operation does: the UPDATE that ends lockWallet and    *)
(*            unlockWallet; the DELETE of users.remove, which waits there  *)
(*            for the foreign key of wallets; and the writes that such a   *)
(*            DELETE keeps waiting, of the same user's row or of one that  *)
(*            refers to it                                                 *)
(*   account  getOrCreateVirtualAccount: a query, the provider, an INSERT  *)
(*   read     a query of any other call, which waits at no wallet's row    *)
(* What a money operation does to the wallet is Wallet's; here it either   *)
(* posts or is undone.  Calls come without end, and the process may        *)
(* restart at any moment.                                                  *)
(***************************************************************************)
EXTENDS Connections

CONSTANTS
    Users,
    Slots,          \* calls that can be in progress at once
    Serves,         \* slot -> the kinds of call that run in it
    Events,         \* payments the provider reports
    Accounts,       \* the accounts the provider may open
    MaxDeliveries,  \* bound: deliveries of one event
    None

Money == {"hook", "pay"}
Locking == Money \cup {"write"}
Kinds == Locking \cup {"account", "read"}

\* The slots whose calls may keep a connection while they wait for a row.
Lockers == {r \in Slots : Serves[r] \cap Locking # {}}

Own(r) == <<r, "own">>
Extra(r) == <<r, "extra">>

ASSUME TicketsAssumption == Tickets = Slots \X {"own", "extra"}
ASSUME SlotsAssumption == IsFiniteSet(Slots) /\ Serves \in [Slots -> SUBSET Kinds]
ASSUME BoundAssumption == MaxDeliveries \in Nat
ASSUME NoneAssumption == None \notin Users \cup Events \cup Accounts

VARIABLES
    pc,            \* slot -> where its call is
    call,          \* slot -> what was called, or NoCall
    rowLine,       \* user -> slots at its wallet's row lock; the first holds it
    cached,        \* whether the map has the setting that pay asks for
    payer,         \* event -> its metadata.userId, or None; never changes
    acknowledged,  \* events the provider has an answer to
    deliveries,    \* event -> how often it was delivered to be posted
    posts,         \* event -> how often it topped the wallet up
    account,       \* table virtual_accounts: user -> account, or None
    opened,        \* user -> accounts the provider has opened
    told,          \* user -> accounts it was told of
    failed,        \* history: events a top-up of which has raised an error
    contested      \* history: users one of whose account calls overlapped
                   \* another or raised an error

wallet == <<rowLine, posts>>
virtual == <<account, opened, told, contested>>
provider == <<payer, deliveries>>
vars == <<pool, pc, call, wallet, cached, acknowledged, provider, virtual, failed>>

NoCall == [kind |-> "none", user |-> None, about |-> None]
Opening == {"provider", "insert"}
User(r) == call[r].user

Init ==
    /\ PoolInit
    /\ pc = [r \in Slots |-> "idle"]
    /\ call = [r \in Slots |-> NoCall]
    /\ rowLine = [u \in Users |-> <<>>]
    /\ cached = TRUE
    /\ payer \in [Events -> Users \cup {None}]
    /\ acknowledged = {} /\ failed = {}
    /\ deliveries = [e \in Events |-> 0]
    /\ posts = [e \in Events |-> 0]
    /\ account = [u \in Users |-> None]
    /\ opened = [u \in Users |-> {}]
    /\ told = [u \in Users |-> {}]
    /\ contested = {}

Begin(r, label, kind, u, about) ==
    /\ pc[r] = "idle"
    /\ pc' = [pc EXCEPT ![r] = label]
    /\ call' = [call EXCEPT ![r] = [kind |-> kind, user |-> u, about |-> about]]

Goto(r, label) == pc' = [pc EXCEPT ![r] = label] /\ UNCHANGED call

Leave(r) ==
    /\ pc' = [pc EXCEPT ![r] = "idle"]
    /\ call' = [call EXCEPT ![r] = NoCall]

\* A call whose connection has come may go on.
Connected(r, label) == pc[r] = label /\ Own(r) \in held

\* addFunds raises an error, which the webhook logs.
NotPosted(r) ==
    failed' = IF call[r].kind = "hook" THEN failed \cup {call[r].about} ELSE failed

\* The money operation is over.  The webhook answers whatever has come of it;
\* the answer may get lost.
Return(r) ==
    /\ Leave(r)
    /\ IF call[r].kind = "hook"
       THEN acknowledged' \in {acknowledged, acknowledged \cup {call[r].about}}
       ELSE UNCHANGED acknowledged
-----------------------------------------------------------------------------
Call(r, kind, u) ==
    /\ kind \in Serves[r]
    /\ Begin(r, "connect", kind, u, None)
    /\ Ask(Own(r))
    /\ UNCHANGED <<wallet, cached, acknowledged, provider, virtual, failed>>

\* Faulty variant: the answer does not wait for addFunds.
DeliverAnswered(r, e) ==
    /\ "hook" \in Serves[r] /\ e \notin acknowledged /\ payer[e] # None
    /\ deliveries[e] < MaxDeliveries
    /\ deliveries' = [deliveries EXCEPT ![e] = @ + 1]
    /\ Begin(r, "connect", "hook", payer[e], e)
    /\ acknowledged' = acknowledged \cup {e}
    /\ Ask(Own(r))
    /\ UNCHANGED <<wallet, cached, payer, virtual, failed>>

\* paystackWebhook, signed, of a charge that succeeded and whose metadata names a
\* user.  The provider delivers an event until it has an answer, perhaps again
\* while an earlier delivery is still at work.
Deliver(r, e) ==
    /\ "hook" \in Serves[r] /\ e \notin acknowledged /\ payer[e] # None
    /\ deliveries[e] < MaxDeliveries
    /\ deliveries' = [deliveries EXCEPT ![e] = @ + 1]
    /\ Begin(r, "connect", "hook", payer[e], e)
    /\ Ask(Own(r))
    /\ UNCHANGED <<wallet, cached, payer, acknowledged, virtual, failed>>

\* The same of a charge whose metadata names nobody (createVirtualAccount gives
\* the userId to the customer only): it is answered, without any await, and
\* nothing is posted or logged.
DeliverNameless(e) ==
    /\ e \notin acknowledged /\ payer[e] = None
    /\ acknowledged' = acknowledged \cup {e}
    /\ UNCHANGED <<pool, pc, call, wallet, cached, provider, virtual, failed>>
-----------------------------------------------------------------------------
\* BEGIN, and SELECT ... FOR UPDATE is sent; of a write, its one statement.
StartTransaction(r) ==
    /\ Connected(r, "connect") /\ call[r].kind \in Locking
    /\ rowLine' = [rowLine EXCEPT ![User(r)] = Append(@, r)]
    /\ Goto(r, "select")
    /\ UNCHANGED <<pool, posts, cached, acknowledged, provider, virtual, failed>>

\* connect or BEGIN raises an error, outside of the try: nobody releases the
\* query runner.  Its connection is lost, unless pg has noticed that it broke;
\* a save or remove of a repository releases its own.
StartFails(r) ==
    /\ Connected(r, "connect") /\ call[r].kind \in Locking
    /\ (call[r].kind \in Money /\ Lose(Own(r))) \/ GiveBack(Own(r))
    /\ NotPosted(r)
    /\ Return(r)
    /\ UNCHANGED <<wallet, cached, provider, virtual>>

\* The row is locked; getNumber asks the pool when the cache fails it.
Select(r) ==
    /\ pc[r] = "select" /\ Head(rowLine[User(r)]) = r
    /\ IF call[r].kind = "pay" /\ ~cached
       THEN Goto(r, "setting") /\ Ask(Extra(r))
       ELSE Goto(r, "save") /\ UNCHANGED pool
    /\ UNCHANGED <<wallet, cached, acknowledged, provider, virtual, failed>>

\* A setting that has no row is not cached: the next call asks again.  When the
\* query fails, the transaction is over.
Fetch(r) ==
    /\ pc[r] = "setting" /\ Extra(r) \in held
    /\ GiveBack(Extra(r))
    /\ \/ /\ cached' \in {cached, TRUE}
          /\ Goto(r, "save")
       \/ /\ UNCHANGED cached
          /\ Goto(r, "rollback")
    /\ UNCHANGED <<wallet, acknowledged, provider, virtual, failed>>

\* The transaction ends, and with it its lock, or its wait for one.
Unlock(r) ==
    \E i \in 1 .. Len(rowLine[User(r)]) :
        /\ rowLine[User(r)][i] = r
        /\ rowLine' = [rowLine EXCEPT ![User(r)] =
                SubSeq(@, 1, i - 1) \o SubSeq(@, i + 1, Len(@))]

\* Faulty variant: what was not acknowledged is posted a second time.
CommitTwice(r) ==
    /\ pc[r] = "save"
    /\ posts' = IF call[r].kind = "hook" THEN [posts EXCEPT ![call[r].about] = @ + 2] ELSE posts
    /\ Unlock(r)
    /\ UNCHANGED failed
    /\ GiveBack(Own(r))
    /\ Return(r)
    /\ UNCHANGED <<cached, provider, virtual>>

\* What is written is committed, though the method may not hear of it; the
\* connection is released.
Commit(r) ==
    /\ pc[r] = "save"
    /\ posts' = IF call[r].kind = "hook" THEN [posts EXCEPT ![call[r].about] = @ + 1] ELSE posts
    /\ Unlock(r)
    /\ UNCHANGED failed \/ NotPosted(r)
    /\ GiveBack(Own(r))
    /\ Return(r)
    /\ UNCHANGED <<cached, provider, virtual>>

\* Faulty variant: the connection is released with its transaction still open.
ReleaseOpen(r) ==
    /\ pc[r] \in {"select", "save", "rollback"}
    /\ NotPosted(r)
    /\ GiveBack(Own(r))
    /\ Return(r)
    /\ UNCHANGED <<wallet, cached, provider, virtual>>

\* A check refuses, or a statement has raised an error: ROLLBACK, and release.
Rollback(r) ==
    /\ pc[r] \in {"select", "save", "rollback"}
    /\ Unlock(r)
    /\ NotPosted(r)
    /\ GiveBack(Own(r))
    /\ Return(r)
    /\ UNCHANGED <<posts, cached, provider, virtual>>

\* Faulty variant: a call that reads keeps its connection while it asks for a
\* setting.
QueryNested(r) ==
    /\ call[r].kind = "read"
    /\ \/ Connected(r, "connect") /\ Ask(Extra(r)) /\ Goto(r, "setting")
       \/ pc[r] \in {"save", "rollback"} /\ GiveBack(Own(r)) /\ Leave(r)
    /\ UNCHANGED <<wallet, cached, acknowledged, provider, virtual, failed>>

\* A query gives its connection back.
Query(r) ==
    /\ Connected(r, "connect") /\ call[r].kind = "read"
    /\ GiveBack(Own(r))
    /\ Leave(r)
    /\ UNCHANGED <<wallet, cached, acknowledged, provider, virtual, failed>>
-----------------------------------------------------------------------------
OpeningFor(u) == {q \in Slots : call[q].kind = "account" /\ User(q) = u /\ pc[q] \in Opening}

\* Faulty variant: nobody looks for the account there is.
FindNothing(r) ==
    /\ Connected(r, "connect") /\ call[r].kind = "account"
    /\ GiveBack(Own(r))
    /\ Goto(r, "provider")
    /\ contested' = IF OpeningFor(User(r)) = {} THEN contested ELSE contested \cup {User(r)}
    /\ UNCHANGED <<wallet, cached, acknowledged, provider, account, opened, told, failed>>

\* getOrCreateVirtualAccount looks for the account.
Find(r) ==
    LET u == User(r) IN
    /\ Connected(r, "connect") /\ call[r].kind = "account"
    /\ GiveBack(Own(r))
    /\ IF account[u] # None
       THEN /\ told' = [told EXCEPT ![u] = @ \cup {account[u]}]
            /\ Leave(r)
            /\ UNCHANGED contested
       ELSE /\ Goto(r, "provider")
            /\ contested' = IF OpeningFor(u) = {} THEN contested ELSE contested \cup {u}
            /\ UNCHANGED told
    /\ UNCHANGED <<wallet, cached, acknowledged, provider, account, opened, failed>>

Unopened(a) == \A u \in Users : a \notin opened[u]

\* createVirtualAccount of the gateway: the customer is made or fetched, and an
\* account assigned; the save of the new entity asks for a connection.
Create(r) ==
    /\ pc[r] = "provider"
    /\ \E a \in Accounts :
          /\ Unopened(a)
          /\ opened' = [opened EXCEPT ![User(r)] = @ \cup {a}]
          /\ call' = [call EXCEPT ![r].about = a]
    /\ pc' = [pc EXCEPT ![r] = "insert"]
    /\ Ask(Own(r))
    /\ UNCHANGED <<wallet, cached, acknowledged, provider, account, told, contested, failed>>

\* The gateway raises an error; the account may have been assigned all the same.
CreateFails(r) ==
    /\ pc[r] = "provider"
    /\ \/ UNCHANGED opened
       \/ \E a \in Accounts :
             /\ Unopened(a)
             /\ opened' = [opened EXCEPT ![User(r)] = @ \cup {a}]
    /\ contested' = contested \cup {User(r)}
    /\ Leave(r)
    /\ UNCHANGED <<pool, wallet, cached, acknowledged, provider, account, told, failed>>

\* Faulty variant: the column userId is not unique, and the newest row counts.
InsertOver(r) ==
    LET u == User(r) IN
    /\ Connected(r, "insert")
    /\ GiveBack(Own(r))
    /\ account' = [account EXCEPT ![u] = call[r].about]
    /\ told' = [told EXCEPT ![u] = @ \cup {call[r].about}]
    /\ Leave(r)
    /\ UNCHANGED <<wallet, cached, acknowledged, provider, opened, contested, failed>>

\* The INSERT, which the unique column userId refuses to the second of two.
Insert(r) ==
    LET u == User(r) IN
    /\ Connected(r, "insert")
    /\ GiveBack(Own(r))
    /\ IF account[u] = None
       THEN /\ account' = [account EXCEPT ![u] = call[r].about]
            /\ told' = [told EXCEPT ![u] = @ \cup {call[r].about}]
       ELSE UNCHANGED <<account, told>>
    /\ Leave(r)
    /\ UNCHANGED <<wallet, cached, acknowledged, provider, opened, contested, failed>>

\* The INSERT raises another error, and may have been committed.
InsertFails(r) ==
    LET u == User(r) IN
    /\ Connected(r, "insert")
    /\ GiveBack(Own(r))
    /\ account' \in {account, [account EXCEPT ![u] = IF @ = None THEN call[r].about ELSE @]}
    /\ contested' = contested \cup {u}
    /\ Leave(r)
    /\ UNCHANGED <<wallet, cached, acknowledged, provider, opened, told, failed>>
-----------------------------------------------------------------------------
\* An administrator deletes the setting.
DeleteSetting ==
    /\ cached' = FALSE
    /\ UNCHANGED <<pool, pc, call, wallet, acknowledged, provider, virtual, failed>>

\* The process dies and starts again; onModuleInit seeds and loads the settings.
Restart ==
    /\ Reopen
    /\ pc' = [r \in Slots |-> "idle"]
    /\ call' = [r \in Slots |-> NoCall]
    /\ rowLine' = [u \in Users |-> <<>>]
    /\ cached' = TRUE
    /\ contested' = contested \cup {u \in Users : OpeningFor(u) # {}}
    /\ UNCHANGED <<posts, acknowledged, provider, account, opened, told, failed>>

\* What a call does of its own accord.
Proceed(r) ==
    \/ StartTransaction(r) \/ Select(r) \/ Fetch(r) \/ Commit(r)
    \/ pc[r] = "rollback" /\ Rollback(r)
    \/ Query(r) \/ Find(r) \/ Create(r) \/ Insert(r)

Next ==
    \/ \E r \in Slots :
          \/ \E kind \in Kinds \ {"hook"}, u \in Users : Call(r, kind, u)
          \/ \E e \in Events : Deliver(r, e)
          \/ Proceed(r)
          \/ StartFails(r) \/ Rollback(r) \/ CreateFails(r) \/ InsertFails(r)
    \/ \E e \in Events : DeliverNameless(e)
    \/ DeleteSetting \/ Restart

\* A call whose connection, row or answer has come goes on some time: Node runs
\* it, the provider answers or the request fails, and what is written ends.
Fairness == \A r \in Slots : WF_vars(Proceed(r) \/ CreateFails(r))

Spec == Init /\ [][Next]_vars /\ Fairness
-----------------------------------------------------------------------------
\* Every variable has its type, the pool is sound, and an event tops a wallet up
\* at most once for each time it is delivered.
TypeOK ==
    /\ PoolSound
    /\ size \in Sizes /\ lost \in 0 .. MaxLost
    /\ held \subseteq Tickets /\ Waiting \subseteq Tickets
    /\ pc \in [Slots -> {"idle", "connect", "select", "setting", "save", "rollback",
                         "provider", "insert"}]
    /\ call \in [Slots -> [kind : Kinds \cup {"none"},
                           user : Users \cup {None},
                           about : Events \cup Accounts \cup {None}]]
    /\ \A u \in Users : rowLine[u] \in Seq(Lockers)
    /\ cached \in BOOLEAN
    /\ payer \in [Events -> Users \cup {None}]
    /\ acknowledged \subseteq Events /\ failed \subseteq Events
    /\ deliveries \in [Events -> 0 .. MaxDeliveries]
    /\ \A e \in Events : posts[e] \in 0 .. deliveries[e]
    /\ account \in [Users -> Accounts \cup {None}]
    /\ opened \in [Users -> SUBSET Accounts]
    /\ told \in [Users -> SUBSET Accounts]
    /\ contested \subseteq Users

\* The calls that cannot go on by themselves.
WaitsForConnection(r) == Own(r) \in Waiting \/ Extra(r) \in Waiting
WaitsForRow(r) == pc[r] = "select" /\ Head(rowLine[User(r)]) # r

\* Somebody waits for a connection, and nobody who has one can give it back.
LockedUp ==
    /\ line # <<>>
    /\ \A r \in Slots : {Own(r), Extra(r)} \cap held # {} =>
          WaitsForConnection(r) \/ WaitsForRow(r)

\* A pool with a connection to spare for everybody who may wait at a wallet's row,
\* money operations, administrators' saves and removals of users together, never
\* locks up, however many of them fetch a setting at once and wait for one wallet.
NeverLockedUp == Cardinality(Lockers) + lost < size => ~LockedUp

\* A payment the provider takes for delivered, and whose event names a user, has
\* topped the wallet up, unless the top-up raised an error, which only the log
\* knows of.  (One that names nobody is answered and forgotten.)
AcknowledgedIsPosted ==
    \A e \in acknowledged : payer[e] # None => posts[e] > 0 \/ e \in failed

\* Whoever asks for a user's account is told of the same one, the one stored.
OneAccountTold == \A u \in Users : told[u] \subseteq {account[u]}

\* The provider has opened no account for a user but the one stored, or about to
\* be, unless two calls overlapped or one failed.
OrphansAreContested ==
    \A u \in Users \ contested :
        opened[u] \subseteq {account[u]} \cup {call[r].about : r \in OpeningFor(u)}

\* Every call ends, unless the pool is locked up.
CallsEnd == \A r \in Slots : pc[r] # "idle" ~> pc[r] = "idle" \/ LockedUp
=============================================================================
