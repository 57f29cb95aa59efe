# A verification project for the Orbitx delivery backend

Orbitx is a NestJS service in front of PostgreSQL: customers place orders,
drivers accept and deliver them, and each driver has a wallet from which a
security deposit is taken and to which deliveries are paid.  This directory
holds TLA+ modules translated from its source, the TLC configurations that check
them on small instances, and the TLAPS proofs that carry some of the results to
every instance.

The process is a single Node event loop: a handler runs without interruption
between two `await`s, and requests interleave at them.  The compose file starts
one process and restarts it when it dies; `Wallet`, `Orders`, `Sessions` and
`Users` hold for several, while the configuration cache, the pool of connections
and the socket map belong to one process.  All durable state is in
PostgreSQL at its default isolation, READ COMMITTED.

## 1. Inventory

| component | state | operations | talks to |
|---|---|---|---|
| wallet (`wallet/wallet.service.ts`) | tables `wallets`, `transactions`, `virtual_accounts`; the row lock of a wallet | `addFunds`, `withdrawFunds`, `processOrderPayment`, `deductSecurityDeposit`, `refundSecurityDeposit`, `lockWallet`, `unlockWallet`, `createWallet`, reads that create a missing wallet, `getOrCreateVirtualAccount` | configuration (inside its transactions), payment provider |
| orders (`orders/orders.service.ts`) | table `orders` | `create`, `findAll`, `findAvailableOrders`, `findOne`, `acceptOrder`, `updateStatus`, `updateDriverLocation`, `cancelOrder`, pricing | wallet (awaited calls), configuration, realtime gateway |
| configuration (`config/config.service.ts`) | table `system_configs`, the `Map` in front of it | seed, load, `get`, `update`, `bulkUpdate`, `delete`, `refreshCache` | read by wallet and orders |
| payment (`payment/*`) | none of its own | the webhook that tops a wallet up; creating a virtual account | wallet; Paystack |
| authentication (`auth/auth.service.ts`) | table `refresh_tokens` | login, issue, refresh with rotation per device, logout, revoke all, clean-up | users |
| verification codes (`email/email.service.ts`) | table `verification_codes` | send (invalidate, insert), verify (count, mark used), clean-up | mail driver |
| users (`users/users.service.ts`) | table `users` | register, Google merge, update, verification flags, remove | auth, verification codes |
| driver profiles (`drivers/drivers.service.ts`) | table `driver_profiles` | online status, location; counters and ratings nobody calls | realtime |
| realtime (`realtime/realtime.gateway.ts`) | the map user -> socket of this process, rooms | connect, disconnect, join and leave an order, location update, emit | orders, driver profiles |
| notifications (`notifications/*`) | table `notifications` | the notify methods (store, channels, emit), mark as read | Firebase, nodemailer, Twilio; realtime |
| connections (`database/database.module.ts`) | the pool, external | a query takes one connection, a query runner keeps one | every service |
| FAQs, uploads, health, mail, migrations | simple records, or none | create, read, update, delete; output | - |

What makes each of them correct, and what makes it hard:

* **Wallet.** The history explains the balance to the kobo; the two lifetime
  totals are sums over it; nobody is overdrawn; a locked wallet gives and takes
  nothing but a refund; the caller is told what happened; no request waits for
  ever.  Hard because five operations read a balance, compute in memory and
  write it back with an `await` (the setting) in between; because the
  administrator's lock and unlock do the same *without* the row lock; and
  because any statement can fail, and a process can die around its `COMMIT`.
* **Orders.** The table of transitions is followed; one deposit per order, from
  the driver it is given to; refund before payment; a delivered order is
  settled.  Hard because every handler loads the order without a lock, checks
  that copy, calls the wallet, and only then saves it: nothing spans those steps
  in one transaction, and `save` writes back whichever columns of the copy
  differ from the row at the time it looks.
* **Configuration.** The cached value should become the stored one.  Hard: a
  miss awaits the table and stores what it read, after an update or a refresh
  may have stored something newer.
* **Connections.** A transaction holds one connection and, when a setting is not
  cached, waits for a second; a save of a wallet's row holds one while it waits
  for the row.  With the pool exhausted everyone waits.
* **Payment webhook.** A top-up happens once for each payment.  Hard: the
  provider delivers more than once, and a failure is acknowledged, as is a charge
  that names no user.
* **Authentication.** One live token per device; a revoked token buys nothing.
  Hard: check, revoke and insert are separate statements.
* **Verification codes.** One live code; used once.  Hard for the same reason.
  (The column `attempts` does not bound the tries, see section 3.)
* **Realtime.** A user who is connected is in the map.  Hard: the disconnect of
  an old socket may come after the connect of a new one.
* **Users, profiles.** A verified address is one that was proved, and stays
  verified; what a driver reports stays as reported.  Hard: check-then-insert
  and read-change-save without a lock; unique columns catch some of it.
* **Notifications.** What is stored reaches a user who is connected.  Hard: the
  channels before it fail in their own ways, and the socket map changes
  meanwhile.

`PROJECT.json` lists every hazard at its line.

## 2. Modules

| module | what it is |
|---|---|
| `TypeORM` | external: what `repository.save` does to one column of a row |
| `WalletRules` | pure operators: what each money operation posts, refuses and does to the row |
| `Wallet` | the wallet service, statement by statement |
| `Ledger` | abstract: what the wallet promises |
| `Orders` | the order service, `await` by `await`, and the wallet entries it causes |
| `OrderLife` | abstract: what the order service promises when the calls about an order come one at a time |
| `ConfigCache` | the configuration service: the table of settings and the map in front of it |
| `Sessions` | refresh tokens: issue, exchange, revoke; removal of an account |
| `Users` | accounts and verification codes |
| `Connections` | external: the pool of database connections |
| `Payments` | the webhook, virtual accounts and every other call, over the pool |
| `Drivers` | the two profile operations something calls |
| `Realtime` | sockets, the socket map, rooms and the location update, over `Drivers` |
| `Notifications` | stored, sent and emitted notifications, over `Realtime` |
| `MCWallet`, `MCOrders`, `MCConfigCache`, `MCSessions`, `MCUsers`, `MCPayments`, `MCNotifications` | symmetry sets, operation sets and functions for TLC |
| `WalletRulesProofs`, `WalletProofs`, `OrdersProofs`, `ConfigCacheProofs`, `SessionsProofs`, `UsersProofs`, `PaymentsProofs`, `NotificationsProofs` | the theorems |

How they compose:

* `Orders` and the wallet, through `WalletRules`: it applies the same operators,
  one step for each wallet call.  What entitles it to is `ImplementsLedger`:
  every transaction of `Wallet` is one step of `Ledger`, or none.  Both take the
  value of a setting at the moment `getNumber` answers (`Configure`,
  `SetMinBalance` change it at any moment); `ConfigCache` says what that value
  has to do with the table.
* `Payments` EXTENDS `Connections`: a money operation is a transaction that holds
  a connection, waits at the row lock, may need a second connection for a
  setting, and posts or is undone.  What posting does to the wallet is `Wallet`'s
  operation `add`; when the second connection is needed is what `ConfigCache`
  says of the map (`KeptIsCached`).
* `Notifications` EXTENDS `Realtime` EXTENDS `Drivers`: an emit looks in the
  socket map, and a driver's location update over a socket ends in the same save
  as the HTTP operation.  Its first half, the order's column, is
  `UpdateDriverLocation` of `Orders`.
* `Sessions` and `Users` share the table `users` by different columns:
  `Sessions` keeps whether the account is there and active, `Users` the address
  and whether it is verified.

In every module a definition marked "Faulty variant" is a plausible bug that no
specification uses; it is there to show that a property would notice it.

### Wallet

A request is called once, for one operation on one user's wallet.  Its program
counter names the statement it awaits:

    begin -> config -> save -> commit          the five money operations
      \--------\--------\------> rollback      any refusal or failure
    find -> create -> insert -> reload -> overwrite    lockWallet, unlockWallet

| action | code (`wallet.service.ts`) |
|---|---|
| `LockRow`, `RowMissing` | `findOne` with `pessimistic_write`: waits for the row lock, then the checks on the row that was read |
| `ReadSetting` | `getNumber` inside the transaction, then the check of the balance |
| `SaveBoth` | the assignments in memory, the UPDATE of the wallet, the INSERT of the transaction |
| `Commit`, `Rollback` | `commitTransaction`; `catch` and `finally` |
| `Fail`, `Crash` | any statement raises; the process dies |
| `Find`, `Insert` | `getWalletByUserId` and `createWallet` |
| `Reload`, `Overwrite` | the two statements of `save` on the administrator's copy |

`wallets` and `transactions` are the *committed* rows; the locals `entity`,
`base` and `setting` are what the handler has in memory.  Uncommitted writes are
invisible under READ COMMITTED, so they appear in the one step `Commit`, whose
outcome the caller may or may not learn.

### Orders

`Slots` says how many requests can be in progress at once.  Under `Spec` any of
them overlap, as in the code, where nothing keeps two calls about an order apart;
`SerialSpec` is the case that they do not meet (`OnePerOrder`), while calls about
different orders still interleave, on the same wallets.  With one slot the two are
the same (`OneSlotIsSerial`).  A handler's first
`findOne`, its checks and its changes in memory are one step (nothing else
happens in between), and a call that is refused is no step at all.

| action | code (`orders.service.ts`) |
|---|---|
| `Create` | the INSERT of `create` |
| `AcceptOrder`, `CanTake`, `Deduct` | `acceptOrder`: load and check; `canDriverTakeOrder`; `deductSecurityDeposit` after the save |
| `UpdateStatus`, `Refund`, `Pay` | `updateStatus`: load, authorise, check the transition; then the refund and the payment, before the save |
| `CancelOrder`, `Refund` | `cancelOrder` |
| `UpdateDriverLocation` | `updateDriverLocation`: saves the whole copy |
| `Reload`, `SaveOrder` | the two statements of `save` |
| `Die` | a failure or a crash between any two of these |
| `Withdraw`, `ToggleLock`, `SetMinBalance` | what happens to wallets and settings meanwhile |

`past` is a history variable: the drivers the row has named, and those that
carried the order in transit.  `Disturbances` switches the last four actions on
and off.

### ConfigCache

| action | code (`config.service.ts`) |
|---|---|
| `Seed`, `Load`, `Crash` | `onModuleInit`: the missing defaults, then the whole table; the process dies and starts again |
| `Get`, `Read`, `Fill` | `get` on a miss: the check of the map, the read, the store (a hit is no step) |
| `Update`, `Reload`, `Overwrite`, `Insert`, `Store` | `update`: the first read, the two statements of `save` or the INSERT, then the map |
| `Delete`, `Remove`, `Evict` | `delete`: the first read, the DELETE, then the map |
| `Fail` | a statement raises, or its reply is lost |

Rows have primary keys, because `save` and `remove` address them that way: a
row deleted and made again meanwhile is another row.  Three variables are
history.  `kept`: the defaults, and whatever else the table held at the start,
that nobody has asked to delete since.  `contested`: settings of which the latest
updates overlap.  `stale`: settings the map may be wrong about, because updates of
them overlapped or one failed after its write; an update that runs alone from its
first read to its answer (`Settled`), and a start, take a setting from it.
`bulkUpdate` is a sequence of updates, `updateDriverSettings` two at
once on different keys; `refreshCache` has no caller.

### Sessions

| action | code (`auth/auth.service.ts`) |
|---|---|
| `Register`, `Enrol` | `register`: nobody has the address; the INSERT of the user, which a quicker call may have made impossible |
| `Login`, `Refresh` | `login`; `refreshAccessToken` up to the checks of the token it is given and of its user |
| `RevokeDevice`, `InsertToken` | the two statements of `createRefreshToken`; the reply of the second may get lost |
| `Logout`, `LogoutAll` | `revokeRefreshToken`, `revokeAllUserTokens`: one UPDATE each |
| `Remove` | `users.remove`: the DELETE that the foreign keys refuse while there is a token |
| `Deactivate`, `Expire` | `isActive` is set in the database; a token's time is over |
| `Fail` | a statement raises, or the process dies |

`signedIn` (devices whose last exchange was answered), `contested` (devices two
of whose exchanges met between UPDATE and INSERT) and `out` (who has logged out
everywhere with nothing in progress) are history variables.

### Users

| action | code (`users/users.service.ts`, `email/email.service.ts`) |
|---|---|
| `Enrol`, `Insert` | `create`, and `createOrUpdateGoogleUser` when it finds nobody |
| `GoogleFound`, `GoogleLinked`, `Update` | the other two ways of `createOrUpdateGoogleUser`; `update` |
| `UserReload`, `UserWrite` | the two statements of the save they end with |
| `Send`, `Invalidate`, `NewCode` | `sendVerificationEmail`: invalidate the unused codes, insert one, mail it |
| `Verify`, `CodeReload`, `TryWrite`, `UseWrite`, `Mark` | `verifyCode` with its two saves, then `updateEmailVerificationStatus` |
| `Fail` | a statement raises, or the process dies |

History variables: `proved` (addresses shown to be the user's), `moved` (whose
address was changed since), `contested` (whose codes were replaced while another
call was sending or checking one), `retired` (codes used or replaced while
nobody else held them), `told` (who was told of the verification while nothing
was saving).

### Connections and Payments

| action | code |
|---|---|
| `Ask`, `GiveBack`, `Lose`, `Reopen` | pg's pool: take a connection or wait in line; give it to the next in line; forget it; a new process |
| `Call` | a call begins: another money operation, a write that may wait at a wallet's row, an account call, or a query |
| `Deliver`, `DeliverNameless` | a delivery of `paystackWebhook` (`payment/payment.controller.ts`), of a charge whose metadata names a user, and of one whose does not |
| `StartTransaction`, `StartFails` | `connect` and `startTransaction`, which the `try` does not cover (`wallet.service.ts:106`), and the SELECT that waits for the row; of a write, its statement |
| `Select`, `Fetch` | the row lock; `getNumber` when the map does not have the setting |
| `Commit`, `Rollback` | the end of the transaction, `release`, and the answer |
| `Query` | a query that waits at no wallet's row |
| `Find`, `Create`, `CreateFails`, `Insert`, `InsertFails` | `getOrCreateVirtualAccount`: the query, the provider, the INSERT |
| `DeleteSetting` | `delete` of the configuration service (`config/config.service.ts`), for the setting `pay` asks for |
| `Restart` | the process dies and starts again |

The writes that wait at a wallet's row (`Lockers`, with the money operations) are
the UPDATE that ends `lockWallet` and `unlockWallet`, the DELETE of `users.remove`,
which meets the foreign key of `wallets`, and what such a DELETE keeps waiting in
turn.  `payer` says whom the provider's event names; it never changes.

A `Commit` whose reply is lost counts as an error of the top-up: it has posted,
and is logged as failed.  `failed` and `contested` are history variables: events
a top-up of which raised an error, and users whose account calls overlapped or
failed.

### Drivers, Realtime, Notifications

| action | code |
|---|---|
| `UpdateOnlineStatus`, `UpdateLocation`, `Reload`, `Write`, `Fail` | `drivers/drivers.service.ts`: load and assign; the two statements of `save` |
| `Connect`, `Disconnect`, `JoinOrder`, `LeaveOrder` | `realtime/realtime.gateway.ts`: handlers without an `await` that changes state |
| `DriverLocationUpdate`, `OrderSaved` | `handleDriverLocationUpdate`: the order is saved, then the profile |
| `Notify`, `Save`, `Send`, `Emit` | `notifications/notification.service.ts`: the row, one channel after the other, the socket |
| `MarkAsRead`, `MarkAllAsRead` | a `findOne` and a `save`, taken as one step because `isRead` never goes back; one UPDATE |
| `Restart` | sockets, rooms and calls are gone |

A save whose COMMIT is done and whose answer is lost throws out of `create` with
the row stored; the notification ends there, "unsure".

`alone` and `sure` (calls no other call of the driver overlaps, and what they
set) and `overlapped` (users who had two sockets since they last had none) are
history variables.

## 3. What the runs show

| run | question | result |
|---|---|---|
| `wallet_money` | two requests, every operation but lock and unlock, faults and crashes everywhere | the history is chained and reports the balance; the caller's answer matches the history; the totals are sums over it; every request ends; `Ledger` is implemented |
| `wallet_admin` | three requests, lock and unlock included | the copy a money operation works on is never stale between its SELECT and its COMMIT; nobody is overdrawn; postings are atomic; a locked wallet takes only refunds |
| `wallet_lock` | does locking leave the money alone? | **no**: a top-up that commits between the read and the save of `lockWallet` is written over |
| `orders_serial` | one slot, so the calls come one at a time; faults, withdrawals, locks and a changing deposit | a delivered order is settled, one deposit, a pending order has moved no money, `OrderLife` is implemented |
| `orders_overlap` | two requests about one order, each of which may die | only drivers the order has named have entries for it, only one who carried it is paid, each payment follows its refund |
| `orders_refund` | is a deposit refunded at most once? | **no**: cancelling twice refunds twice |
| `orders_cancelled` | is the deposit of a cancelled order back? | **no**: not when `updateStatus` cancels it |
| `config_cache` | two requests, any of get, update and delete, faults and restarts | the defaults are complete whenever the process serves; a setting that is kept is always in the map; unless it is stale the map agrees with the table but for the moment between a write and its answer; the next update that runs alone ends what overlaps and failures have left |
| `sessions` | two persons, two requests, lost replies and failures | a device has one live token unless its exchanges met; rotation alone locks no device out; no chain of exchanges leads past a logout everywhere with nothing in progress |
| `users` | two requests of any kind about one account, failures | a verified address was proved; one usable code; a retired code stays used; a verification is not taken back by another save, each but for overlaps the properties name |
| `payments` | webhook, money, saving, account and reading calls over a pool of three, one of which may be lost, with restarts | the pool does not lock up while it has a connection to spare for the calls that may wait at a wallet's row; an acknowledged payment that names a user is posted or was logged; one account is told and stored; every call ends, or the pool is locked up |
| `notifications` | a driver with two sockets, two profile calls at once, a notification, failures and restarts | each profile operation leaves the other's columns alone; what is stored is emitted whatever the channels do, unless the process died or the answer of the COMMIT was lost; what is emitted to somebody connected goes out |

The three disagreements are in `PROJECT.json` under "findings", each with the
line it contradicts.  The properties that hold "unless calls overlapped" are as
strong as the code: without the exception each is false.  Each says that the
overlap it names is the only way to what it excludes.  How long the exception lasts
is in the history variable: to the next call that runs alone for the tokens of a
device, the codes of a user, a setting, a profile (`contested`, `stale`, `sure`); to
the next proof of the address for `moved`; for `overlapped`, until a socket is
opened while none is; for good for `contested` of `Payments`, because nobody takes back
an account the provider has opened.

Things reading shows and no run repeats:

* Two drivers who accept one order at once both pay the deposit;
  `OneDepositPerOrder` holds when the calls about the order come one at a time.
* `acceptOrder` saves the order before the deposit is taken, so an order whose
  deposit is refused stays accepted.
* A webhook that is delivered again tops the wallet up again: the reference is
  stored and never looked up.  `TypeOK` of `Payments` bounds the postings by the
  deliveries, and that bound is reached.
* A charge whose metadata has no `userId` is acknowledged, and nothing is posted,
  raised or logged; `AcknowledgedIsPosted` excepts it.  The gateway gives the
  `userId` to the customer only (`payment/gateways/paystack.gateway.ts:40`).
* When every connection can be taken by calls that may wait at a wallet's row and
  the setting is not cached, the pool locks up until a restart; `NeverLockedUp` is
  about the pools that are large enough.  Money operations are not alone in that:
  one payment that waits for its setting and nine saves of `lockWallet` for the
  same row fill a pool of ten.
* Nothing bounds the tries of a verification code.  Wrong codes are never counted,
  checks that overlap count once together, and one that fails before its write
  does not count; only the column `attempts` keeps its bound.
* A new e-mail address keeps the old one's `isEmailVerified`.
* `MAX_ORDERS_PER_DRIVER` and `ORDER_AUTO_CANCEL_MINUTES`
  (`config/enums/config-keys.enum.ts:67,72`) are described and seeded, and no
  handler reads them.

### Bounds

* One wallet in the wallet runs: no operation touches two, and the only state
  two wallets share is the settings.  Two and three requests: a conflict is
  between the holder of the row and one or two others (an administrator who read
  before, a waiter).  Requests are single-use, so their number bounds the
  history.
* The amounts make the interesting comparisons happen: 60 and 101 against
  openings of 0, 60 and 101 and minimum balances of 0 and 50 or 51 reach "exactly enough",
  "one too few" and "a second debit would overdraw"; 20 percent of 101 kobo is
  rounded.
* Orders: one order (no handler touches two; what two orders can do to each
  other through a wallet they share is in the theorems, for any number), two drivers, one customer, an
  administrator.  `MaxEntries` stops the *arrival* of calls once a wallet's
  history has that many rows; calls in progress finish.  Five rows hold the
  opening top-up and deposit, refund, payment, and one more; three rows with two
  slots still let two overlapping deliveries both refund and pay (the calls
  already begun run past the bound).
* `orders_serial` and `orders_overlap` may stop for that reason, and
  `wallet_admin` when every request was answered: deadlock is not checked there.
  `wallet_money` checks it; an administrator can always change a setting there,
  so what says that nobody waits for ever is `EveryRequestEnds`.
* `config_cache`: one setting (no step touches two but `Load`, which treats them
  alike), two requests (two updates that overlap, or one and a reader), three
  data types and a text that is not a number; three primary keys, so that a
  fresh one exists while a row and an entity hold others.
* `sessions`: two persons with one device, so that an exchange can be for the
  device of its parameter, of its token, or for none; three tokens, so that one
  can be revoked, one live and one about to be inserted; two slots, because
  what goes wrong is between two exchanges.  501 thousand states.
* `users`: one account, because no property of the run relates two (the unique
  address among several is the theorem `AddressesStayUnique`); two addresses, so
  that the address can change; two codes, the old and the new one; two tries,
  so that a code can be tried once more and then not.  1.6 million states.
* `payments`: a pool of three, and `MaxLost` one.  A slot for `hook`, `pay` and
  `account`, one for `hook` and `write`, one for `account` and `read`: two
  deliveries meet, a money operation and a save, and two account calls; the pool
  has one connection to spare, and a lost one makes it lock up.  `MaxDeliveries` two
  is a delivery and its repetition.  No symmetry, because of the liveness property.
  276 thousand states.
* `notifications`: one user with two sockets, a connection and the one that
  replaces it; two slots, for two saves that overlap; two latitudes and one
  longitude, so that one column can differ and the other not; one order, one
  notification.  725 thousand states.
* The last four do not check deadlock: when the fresh tokens, codes, notes or
  deliveries are used up, the model (not the system) may stop.
* Symmetry permutes requests, drivers, slots, sockets or latitudes, whose names no
  definition looks at, in runs without liveness.

### Fairness

`Wallet` and `Payments` state some.

`Wallet`: weak fairness of `Progress(r)`, the next step of a request that can take
it (the event loop runs every ready continuation, and the database answers or
fails).  `Call`, `Fail`, `Crash` and `Configure` are not fair.  Waiting for a row
lock is a disabled step.  Weak fairness is enough for `EveryRequestEnds` because
requests are finite in number and each lock holder ends: it says that no path
leaks the lock, not that the lock queue is fair.

`Payments`: weak fairness of `Proceed(r) \/ CreateFails(r)` for each slot: Node runs
the continuation of whoever has its connection, its row or its answer; the
provider's request ends in an answer or an error; a statement that is written
ends.  `Call`, `Deliver`, failures and `Restart` are not fair.  There waiting is in
queues (the pool's line, the row's line), so fairness for each slot is enough
although calls come without end.

## 4. What is proved

`tlapm` checks every leaf.  Constants are arbitrary within the assumptions the
modules name (amounts positive, minimum balances natural, percentages from 0 to
100).

**Wallet** (`WalletProofs`).  The inductive invariant `IInv` is `TypeOK`, what a
program counter says of its call (`CallsMade`), what the administrator's lock-free
save needs (`EntitiesSound`: no copy in memory, stale or not, shows an overdrawn
wallet), `HolderCopyCurrent` (whoever is past its SELECT holds the row lock, its
copy is the row, its checks still hold of the row) and `NonNegativeBalance`.
`NonNegativeBalance` is not inductive alone: it needs that the balance a debit
was compared with is the one it is subtracted from, and that what an
administrator writes back was once a balance.  From it: `TypeCorrect`, `HolderNeverStale`,
`NeverOverdrawn`, `PostingAtomic`, `LockedOnlyRefunds`.

`OutcomesInHistory` needs no exception for administrators either: one part more
(`OutcomeInv`) says that a request has no entry before it ended, never two, and
one when a money operation ended well, which only a commit brings about.

Under `NoAdministrator` (no `lock` or `unlock` among the operations; with them
the statements are false, see `wallet_lock`) three more: `HistoryExplains`;
`WalletImplementsLedger`, the refinement: every step but `Commit` is a stutter,
and `Commit` posts, because the request has no entry yet (`EntriesCommitted`);
and `TotalsAddUp`: total earnings and withdrawals are the sums over the history.
The sum is a recursive function over the places of a history; that it exists, is
unique, and grows by the entry that is appended is proved by the least place at
which it would fail.

**Orders** (`OrdersProofs`), for any number of orders, drivers and requests,
faults included.

* In every overlap (`Spec`): `OnlyNamedMoved`, `OnlyCarriersArePaid` and
  `RefundsPrecedePayments`.  The wallet calls use the driver of the copy in memory,
  so the first two are not inductive; the strengthening says that every copy was
  once the row (`CallOK`) and that what the row has been is recorded and never
  forgotten (`RowsRecorded`).  The third is a counting argument (`CountInv`): in
  every wallet the refunds for an order lead its payments by at least the requests
  that have refunded and are about to pay, and every earlier moment of the history
  was such a moment.
* When the calls about an order come one at a time (`SerialSpec`; those about
  other orders interleave with them at every step, and move the same wallets):
  `DeliveredSettled`, `PendingFree`, and `OrdersImplementLife`, the
  refinement of `OrderLife`.  `SerialInv` says how a row and the entries for it
  belong together (`SerialRow`), how a copy in memory differs from its row
  (`Copied`) and how far a delivery has settled (`Settled`).  A step about another
  order takes nothing from that (`OtherSerial`).  The hypothesis is needed: two
  drivers who accept at once are both charged.  The code does nothing to
  establish it.

**Configuration** (`ConfigCacheProofs`), for any settings, any number of requests
at once, faults and restarts included: `KeptStaysCached` and `CacheIsCurrent`.
The invariant adds what a call in progress knows of a kept setting (nobody but an
update is about it, and the row is still the one it found), that an uncontested
setting has one update at a time, that a contested one is among the stale, and that
nothing is kept while the process is down.  `KeptIsCached` is why a wallet transaction that calls `getNumber` needs no
second connection, until somebody deletes the setting.

**Sessions** (`SessionsProofs`), for any persons, devices, tokens and requests:
`TypeOK` and the three properties of the run.  The invariant adds what a program
counter says of its locals (`CallOK`), that every token that was returned has a row
(`RowsKnown`), and `InsertsAlone`: on an uncontested device whose exchange
is about to insert there is no other, and no live token.  That last part is what
makes `OneTokenPerDevice` inductive.

**Users** (`UsersProofs`), for any ids, addresses, codes and `MaxAttempts`: `TypeOK`
(with the bound of the column `attempts`, not of the tries), the four properties,
and `AddressesStayUnique`, which the run, with its one account, cannot show.  A save writes
what the copy in memory has and the row it read again has not, so the
strengthening says which columns of a copy can differ from the row (`SaveOK`),
that the address a code goes to is the user's, or was changed since (`AddressesOK`), and that an
uncontested user has one call at the codes that matters (`OneFlow`).

**Payments** (`PaymentsProofs`), for any pool, slots, users, events and accounts:
`TypeOK` and the four invariants of the run.  The strengthening is that the pool
is sound (`PoolOK`), what each place in a call says of the connections it holds
and waits for (`CallOK`), that postings and webhook calls in progress together
are no more than the deliveries (`Delivered`), and that an uncontested user has
one call opening an account (`OpensAlone`).  `NeverLockedUp` then is a counting
argument: were the pool locked up, every connection would be held by a call that
may wait at a wallet's row, each holding its own one only, so held connections
would map one to one into the slots of those calls (`Lockers`), and one would be
free.  `AcknowledgedArePosted` is about the events that name a user.
`CallsUsePool` is the refinement: whatever the calls do,
a step is one of the pool's (ask, give back, lose, reopen) or leaves it alone.

**Notifications** (`NotificationsProofs`), for any users, sockets, orders, places
and notes: `TypeOK`, `ProfileAsReported`, `StoredIsEmitted`, `ConnectedIsReachable` and the
action property `EmittedReachesConnected`.  The invariant is one part for each
module: what a call that is alone knows of the row it saves (`DriversInv`), that
the map names open sockets of their own users and forgets nobody who has one
(`GatewayInv`), and where a notification that is stored is (`NoticesInv`): on its
way, emitted, or ended by the process or by the lost answer of its COMMIT.

The assumptions are those the modules name (`None` is none of the values;
`MaxAttempts` and pool sizes are positive; `Tickets` and `Serves` are what
`Payments` says; the slots are finite there).

Model-checked only: liveness, `EveryRequestEnds` and `CallsEnd`, which with the
fairness and ENABLED they rest on is out of this prover's reach; and
`OneDepositPerOrder`, which `orders_serial` checks for calls that come one at a
time.  Every other property of the runs that pass is a theorem.  The three of the runs that expect
a violation are false of the code, and stay with the counterexamples TLC prints.

## 5. What is abstracted, and what is left out

* PostgreSQL and TypeORM are external: row locks, visibility at commit, unique
  columns, and `save` as "read again, UPDATE the columns that differ".
* Amounts are whole kobo.  `decimal(12,2)` overflow is not modelled.  A setting
  that is negative or not a number, and a commission above 100 percent, are
  outside the assumptions: nothing in the code validates them.
* `Orders` takes a wallet operation as one step; takes the two reads of
  `canDriverTakeOrder` as one; assumes the wallet of a driver exists; and locks a
  wallet "as meant" (what `lockWallet` does is `Wallet`'s business).
* Pricing and distance are floating-point geometry; an order has one price.
  `findAll` and `findAvailableOrders` only read.
* The guards establish who the caller is; `Orders` assumes one identity and one
  role per caller.
* `Sessions`: a wrong password or an unknown token changes nothing and is no step.
  Signing in with Google ends as `Register` or `Login`.
* `Users` keeps the address and its verification of a row, and of a request only
  codes that arrived: any other finds no row.  Names, telephone and password are
  columns of the same save.
* `Payments` takes the work between `SELECT ... FOR UPDATE` and `COMMIT` as posting or
  not; deliveries with a wrong signature, and of other events, change nothing
  and are no step.  (A charge that names nobody is one.)
* `Notifications`: texts are left out; the methods are exported and nothing calls
  them yet, so the model calls them at any moment.
* Without a caller in `src/`, and left out: `cleanupExpiredTokens`,
  `cleanupExpiredCodes`, `updatePhoneVerificationStatus`, `refreshCache`, and
  `createProfile`, `updateDeliveryStatus`, `updateEarnings` and `updateRating` of
  the drivers.

## 6. Not modelled

* **Pricing and search.** `calculatePrice` and `calculateDistance` are
  floating-point trigonometry, for which TLA+ has no numbers; a rounded stand-in
  would say nothing about them.  `findAll` and `findAvailableOrders` only read.
* **Mail drivers and templates.** An HTML text and a call of nodemailer.  What
  matters of them, that a mail arrives or not, is a choice in `Users` and
  `Notifications`.
* **FAQs.** Records no other component reads.  `reorder` sends its UPDATEs at once
  and two of them may mix; only the order of the list that is shown depends on it.
* **Uploads and health.** Files in and out, and probes.
* **Migrations and seeds.** A fixed sequence of SQL scripts, run once.
* **Guards and strategies** are modelled in part: what `JwtStrategy` and `WsJwtGuard`
  look at are guards of actions; `RolesGuard` keeps no state, and what it
  establishes is assumed.
* **Driver profiles** are modelled in part: the operations that have a caller.
