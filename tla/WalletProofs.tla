---------------------------- MODULE WalletProofs ----------------------------
(***************************************************************************)
(* What TLC checks of Wallet on one wallet and three requests, proved for  *)
(* any users, requests, amounts and settings.                              *)
(***************************************************************************)
EXTENDS Wallet, WalletRulesProofs, FiniteSetTheorems

\* What a request's program counter says of its call.
CallsMade ==
    \A r \in Requests :
        /\ pc[r] # "idle" => request[r] \in CallRow
        /\ pc[r] \in InTransaction => Op(r) \in MoneyOps
        /\ pc[r] = "config" => Op(r) \in ConfiguredOps
        /\ pc[r] \in {"reload", "overwrite"} => Op(r) \in AdminOps
        /\ pc[r] \in {"save", "commit"} /\ Op(r) = "pay" => setting[r] \in Percentages
        /\ pc[r] \in {"save", "commit"} /\ Op(r) \in {"deduct", "refund"} =>
              setting[r] \in MinBalances

\* The administrator's save works on an existing row, and no entity in memory,
\* stale or not, shows an overdrawn wallet.
EntitiesSound ==
    \A r \in Requests :
        /\ pc[r] \in {"reload", "overwrite"} =>
              entity[r] # NoWallet /\ wallets[User(r)] # NoWallet
        /\ pc[r] = "overwrite" => base[r] # NoWallet
        /\ entity[r] # NoWallet => entity[r].balance >= 0

\* The inductive invariant: NonNegativeBalance needs to know that a debit was
\* checked against the very row it replaces (HolderCopyCurrent) and that what
\* an administrator writes back was once a balance (EntitiesSound).
IInv ==
    /\ TypeOK
    /\ CallsMade
    /\ EntitiesSound
    /\ HolderCopyCurrent
    /\ NonNegativeBalance
-----------------------------------------------------------------------------
(* Lemmas about the money rules. *)

\* Every operation keeps the wallet a wallet and its lock as it was, and moves
\* the balance by the amount it posts.
LEMMA PostedWalletFacts ==
    ASSUME NEW op, NEW w \in WalletRow, NEW n \in Nat
    PROVE  /\ PostedWallet(op, w, n) \in WalletRow
           /\ PostedWallet(op, w, n).isLocked = w.isLocked
           /\ PostedWallet(op, w, n).balance = w.balance + Signed(op, n)
<1> DEFINE x == w.balance + Signed(op, n)
           y == w.totalEarnings + (IF op \in {"add", "pay"} THEN n ELSE 0)
           z == w.totalWithdrawals + (IF op = "withdraw" THEN n ELSE 0)
<1>1. x \in Int /\ y \in Int /\ z \in Int
  BY DEF WalletRow, Signed
<1>2. PostedWallet(op, w, n) = [w EXCEPT !.balance = x, !.totalEarnings = y,
                                         !.totalWithdrawals = z]
  BY DEF PostedWallet
<1> HIDE DEF x, y, z
<1>3. LET v == [w EXCEPT !.balance = x, !.totalEarnings = y,
                         !.totalWithdrawals = z]
      IN  v \in WalletRow /\ v.balance = x /\ v.isLocked = w.isLocked
  BY <1>1 DEF WalletRow
<1> QED  BY <1>2, <1>3 DEF x

\* A save writes a row whose balance is either the one in memory or the one in
\* the database.
LEMMA OverwrittenFacts ==
    ASSUME NEW m \in WalletRow, NEW s \in WalletRow, NEW w \in WalletRow
    PROVE  /\ Overwritten(m, s, w) \in WalletRow
           /\ Overwritten(m, s, w).balance \in {m.balance, w.balance}
BY DEF Overwritten, Column, WalletRow

\* A save that finds nothing changed writes nothing.
LEMMA OverwrittenUnchanged ==
    ASSUME NEW m \in WalletRow, NEW w \in WalletRow
    PROVE  Overwritten(m, m, w) = w
BY DEF Overwritten, Column, WalletRow

LEMMA NoWalletIsNoRow == NoWallet \notin WalletRow
BY DEF NoWallet, WalletRow

LEMMA FreshWalletFacts == FreshWallet \in WalletRow /\ FreshWallet.balance = 0
BY DEF FreshWallet, WalletRow

\* Appending an entry that continues from the reported balance keeps a
\* history chained and makes it report the entry's balance.
LEMMA ChainedAppend ==
    ASSUME NEW T, NEW h \in Seq(T), NEW t \in T, Chained(h),
           t.balanceAfter = ReportedBalance(h) + Delta(t)
    PROVE  /\ Chained(Append(h, t))
           /\ ReportedBalance(Append(h, t)) = t.balanceAfter
<1> DEFINE g == Append(h, t)
<1>1. /\ Len(g) = Len(h) + 1
      /\ g[Len(h) + 1] = t
      /\ \A i \in 1..Len(h) : g[i] = h[i]
      /\ Len(h) \in Nat
  OBVIOUS
<1>2. ReportedBalance(g) = t.balanceAfter
  BY <1>1 DEF ReportedBalance
<1>3. ASSUME NEW i \in 1..Len(g)
      PROVE  g[i].balanceAfter = (IF i = 1 THEN 0 ELSE g[i-1].balanceAfter) + Delta(g[i])
  <2>1. CASE i \in 1..Len(h)
    <3>1. i # 1 => i - 1 \in 1..Len(h)  BY <2>1, <1>1
    <3> QED  BY <2>1, <3>1, <1>1 DEF Chained
  <2>2. CASE i = Len(h) + 1
    <3>1. CASE Len(h) = 0
      <4>1. h = <<>>  BY <3>1
      <4> QED  BY <4>1, <3>1, <2>2, <1>1 DEF ReportedBalance
    <3>2. CASE Len(h) # 0
      <4>1. h # <<>> /\ i # 1 /\ i - 1 = Len(h) /\ Len(h) \in 1..Len(h)
        BY <3>2, <2>2, <1>1
      <4>2. g[i-1] = h[Len(h)]  BY <4>1, <1>1
      <4> QED  BY <4>1, <4>2, <2>2, <1>1 DEF ReportedBalance
    <3> QED  BY <3>1, <3>2
  <2> QED  BY <2>1, <2>2, <1>1
<1> QED  BY <1>2, <1>3 DEF Chained
-----------------------------------------------------------------------------
(* Facts about a state that satisfies the invariant. *)

\* A posted amount is never negative.
LEMMA PostedNat ==
    ASSUME IInv, NEW r \in Requests, pc[r] \in {"save", "commit"}
    PROVE  Posted(r) \in Nat
<1>1. request[r] \in CallRow /\ Op(r) \in MoneyOps /\ setting[r] \in Nat
  BY DEF IInv, TypeOK, CallsMade, InTransaction, Holding
<1>2. request[r].amount \in Nat
  BY <1>1, AmountsAssumption DEF CallRow
<1>3. Op(r) = "pay" => setting[r] \in 0..100
  BY PercentagesAssumption DEF IInv, CallsMade
<1>4. CASE Op(r) = "pay"
  <2>1. Earnings(request[r].amount, setting[r]) \in Nat
    BY <1>2, <1>3, <1>4, EarningsNat
  <2> QED  BY <2>1, <1>4 DEF Posted, PostedAmount
<1>5. CASE Op(r) # "pay"
  BY <1>1, <1>2, <1>5 DEF Posted, PostedAmount, MoneyOps, CreditOps, DebitOps
<1> QED  BY <1>4, <1>5

\* A request past its first step has a user.
LEMMA UserInUsers ==
    ASSUME IInv, NEW r \in Requests, pc[r] # "idle"
    PROVE  User(r) \in Users /\ Op(r) \in Ops
BY DEF IInv, CallsMade, CallRow, User, Op

-----------------------------------------------------------------------------
(* The invariant holds initially and every step preserves it. *)

LEMMA InitIInv == Init => IInv
<1> SUFFICES ASSUME Init PROVE IInv  OBVIOUS
<1>1. ASSUME NEW u \in Users
      PROVE  /\ wallets[u] \in WalletRow \cup {NoWallet}
             /\ wallets[u] # NoWallet => wallets[u].balance \in Nat
  <2>1. CASE wallets[u] = NoWallet  BY <2>1
  <2>2. CASE wallets[u] # NoWallet
    <3>1. PICK b \in OpeningBalances, l \in BOOLEAN : wallets[u] = OpeningRow(b, l)
      BY <2>2 DEF Init
    <3>2. b \in Nat  BY OpeningAssumption
    <3> QED  BY <3>1, <3>2 DEF OpeningRow, WalletRow
  <2> QED  BY <2>1, <2>2
<1>2. TypeOK
  <2> DEFINE Row == [ref : Requests \cup {None}, op : MoneyOps, amount : Nat,
                     balanceAfter : Int]
  <2>1. ASSUME NEW u \in Users PROVE transactions[u] \in Seq(Row)
    <3>1. CASE wallets[u] = NoWallet  BY <3>1 DEF Init
    <3>2. CASE wallets[u] # NoWallet
      <4> DEFINE b == wallets[u].balance
      <4>1. transactions[u] = OpeningHistory(b)  BY <3>2 DEF Init
      <4>2. b \in Nat  BY <3>2, <1>1
      <4>3. TransactionRow(None, "add", b, b) \in Row
        BY <4>2 DEF TransactionRow, MoneyOps, CreditOps
      <4> HIDE DEF b, Row
      <4> QED  BY <4>1, <4>3 DEF OpeningHistory
    <3> QED  BY <3>1, <3>2
  <2>2. /\ wallets = [u \in Users |-> wallets[u]]
        /\ transactions = [u \in Users |-> transactions[u]]
    BY DEF Init
  <2>3. /\ wallets \in [Users -> WalletRow \cup {NoWallet}]
        /\ transactions \in [Users -> Seq(Row)]
    BY <1>1, <2>1, <2>2
  <2>4. /\ rowLock \in [Users -> Requests \cup {None}]
        /\ settings \in [minBalance : MinBalances, commission : Percentages]
        /\ request \in [Requests -> CallRow \cup {NoCall}]
        /\ pc \in [Requests -> {"idle"} \cup Active \cup Ended]
        /\ entity \in [Requests -> WalletRow \cup {NoWallet}]
        /\ base \in [Requests -> WalletRow \cup {NoWallet}]
        /\ setting \in [Requests -> Nat]
    BY DEF Init
  <2> QED  BY <2>3, <2>4 DEF TypeOK
<1>3. CallsMade /\ EntitiesSound /\ HolderCopyCurrent
  BY DEF Init, CallsMade, EntitiesSound, HolderCopyCurrent, InTransaction, Holding
<1>4. NonNegativeBalance
  BY <1>1 DEF NonNegativeBalance
<1> QED  BY <1>2, <1>3, <1>4 DEF IInv

\* A money operation's commit keeps the types: it appends one well-formed row.
LEMMA CommitTypes ==
    ASSUME IInv, NEW r \in Requests, pc[r] = "commit"
    PROVE  /\ User(r) \in Users
           /\ Op(r) \in MoneyOps
           /\ Posted(r) \in Nat
           /\ wallets[User(r)] \in WalletRow
           /\ entity[r] \in WalletRow
           /\ entity[r].balance = wallets[User(r)].balance + Signed(Op(r), Posted(r))
           /\ entity[r].balance \in Nat
           /\ TransactionRow(r, Op(r), Posted(r), entity[r].balance) \in
                 [ref : Requests \cup {None}, op : MoneyOps, amount : Nat, balanceAfter : Int]
<1>1. User(r) \in Users  BY UserInUsers
<1>2. Op(r) \in MoneyOps  BY DEF IInv, CallsMade, InTransaction, Holding
<1>3. Posted(r) \in Nat  BY PostedNat
<1>4. /\ HolderIsCurrent(r)
      /\ wallets[User(r)] \in WalletRow
  BY <1>1, NoWalletIsNoRow DEF IInv, HolderCopyCurrent, HolderIsCurrent, Holding, TypeOK
<1>5. entity[r] = PostedWallet(Op(r), wallets[User(r)], Posted(r))
  BY <1>4 DEF HolderIsCurrent
<1>6. /\ entity[r] \in WalletRow
      /\ entity[r].balance = wallets[User(r)].balance + Signed(Op(r), Posted(r))
  BY <1>3, <1>4, <1>5, PostedWalletFacts
<1>7. wallets[User(r)].balance \in Nat
  <2>1. wallets[User(r)].balance \in Int  BY <1>4 DEF WalletRow
  <2>2. wallets[User(r)].balance >= 0
    BY <1>1, <1>4 DEF IInv, NonNegativeBalance, HolderIsCurrent
  <2> QED  BY <2>1, <2>2
<1>8. entity[r].balance \in Nat
  <2>1. Op(r) \in DebitOps => Posted(r) <= wallets[User(r)].balance
    BY <1>3, <1>4, <1>7 DEF HolderIsCurrent, Insufficient
  <2> QED  BY <2>1, <1>2, <1>3, <1>6, <1>7 DEF Signed, MoneyOps
<1>9. TransactionRow(r, Op(r), Posted(r), entity[r].balance) \in
        [ref : Requests \cup {None}, op : MoneyOps, amount : Nat, balanceAfter : Int]
  BY <1>2, <1>3, <1>8 DEF TransactionRow
<1> QED  BY <1>1, <1>2, <1>3, <1>4, <1>6, <1>8, <1>9

\* The types of what a request keeps in memory.
LocalTypes ==
    /\ pc \in [Requests -> {"idle"} \cup Active \cup Ended]
    /\ entity \in [Requests -> WalletRow \cup {NoWallet}]
    /\ base \in [Requests -> WalletRow \cup {NoWallet}]
    /\ setting \in [Requests -> Nat]

LEMMA LeaveTypes ==
    ASSUME TypeOK, NEW r \in Requests, NEW outcome \in Ended, Leave(r, outcome)
    PROVE  LocalTypes'
<1>1. pc' \in [Requests -> {"idle"} \cup Active \cup Ended]
  BY DEF Leave, Goto, TypeOK
<1>2. /\ entity' \in [Requests -> WalletRow \cup {NoWallet}]
      /\ base' \in [Requests -> WalletRow \cup {NoWallet}]
      /\ setting' \in [Requests -> Nat]
  BY DEF Leave, TypeOK
<1> QED  BY <1>1, <1>2 DEF LocalTypes

\* A wallet that was found or created is well typed as an entity, locked or not.
LEMMA WalletFoundTypes ==
    ASSUME TypeOK, NEW r \in Requests, NEW w \in WalletRow, WalletFound(r, w)
    PROVE  LocalTypes'
<1>1. CASE Op(r) \in AdminOps
  <2>1. ASSUME NEW l \in BOOLEAN PROVE [w EXCEPT !.isLocked = l] \in WalletRow
    BY DEF WalletRow
  <2>2. entity' \in [Requests -> WalletRow \cup {NoWallet}]
    BY <1>1, <2>1 DEF WalletFound, TypeOK
  <2>3. pc' \in [Requests -> {"idle"} \cup Active \cup Ended]
    BY <1>1 DEF WalletFound, Goto, TypeOK, Active, OutOfTransaction
  <2>4. UNCHANGED <<base, setting>>
    BY <1>1 DEF WalletFound
  <2> QED  BY <2>2, <2>3, <2>4 DEF LocalTypes, TypeOK
<1>2. CASE Op(r) \notin AdminOps
  BY <1>2, LeaveTypes DEF WalletFound, Ended
<1> QED  BY <1>1, <1>2

LEMMA NextTypes == IInv /\ [Next]_vars => TypeOK'
<1> SUFFICES ASSUME IInv, [Next]_vars PROVE TypeOK'  OBVIOUS
<1>0. TypeOK  BY DEF IInv
<1> USE DEF database, locals, Goto, InTransaction, OutOfTransaction, Holding,
            Active, Ended
<1>1. ASSUME NEW r \in Requests, Call(r) PROVE TypeOK'
  <2>1. request' \in [Requests -> CallRow \cup {NoCall}]
    BY <1>0, <1>1 DEF Call, CallRow, TypeOK
  <2>2. pc' \in [Requests -> {"idle"} \cup Active \cup Ended]
    BY <1>0, <1>1 DEF Call, TypeOK
  <2> QED  BY <1>0, <1>1, <2>1, <2>2 DEF Call, TypeOK
<1>2. ASSUME NEW r \in Requests, LockRow(r) PROVE TypeOK'
  <2>1. User(r) \in Users  BY <1>2, UserInUsers DEF LockRow
  <2> QED  BY <1>0, <1>2, <2>1 DEF LockRow, TypeOK
<1>3. ASSUME NEW r \in Requests, RowMissing(r) PROVE TypeOK'
  BY <1>0, <1>3 DEF RowMissing, TypeOK
<1>4. ASSUME NEW r \in Requests, ReadSetting(r) PROVE TypeOK'
  <2>1. settings.commission \in Nat /\ settings.minBalance \in Nat
    <3>1. settings.commission \in Percentages /\ settings.minBalance \in MinBalances
      BY <1>0 DEF TypeOK
    <3>2. settings.commission \in 0..100  BY <3>1, PercentagesAssumption
    <3>3. settings.minBalance \in Nat  BY <3>1, MinBalancesAssumption
    <3> QED  BY <3>2, <3>3
  <2> QED  BY <1>0, <1>4, <2>1 DEF ReadSetting, TypeOK
<1>5. ASSUME NEW r \in Requests, SaveBoth(r) PROVE TypeOK'
  <2>1. PostedWallet(Op(r), entity[r], Posted(r)) \in WalletRow
    <3>1. entity[r] \in WalletRow
      BY <1>0, <1>5, UserInUsers, NoWalletIsNoRow
      DEF SaveBoth, IInv, HolderCopyCurrent, HolderIsCurrent, TypeOK
    <3> QED  BY <1>5, <3>1, PostedNat, PostedWalletFacts DEF SaveBoth
  <2> QED  BY <1>0, <1>5, <2>1 DEF SaveBoth, TypeOK
<1>6. ASSUME NEW r \in Requests, Commit(r) PROVE TypeOK'
  <2> DEFINE Row == [ref : Requests \cup {None}, op : MoneyOps, amount : Nat,
                     balanceAfter : Int]
             t == TransactionRow(r, Op(r), Posted(r), entity[r].balance)
  <2>1. User(r) \in Users /\ entity[r] \in WalletRow /\ t \in Row
    BY <1>6, CommitTypes DEF Commit
  <2>2. wallets' \in [Users -> WalletRow \cup {NoWallet}]
    BY <1>0, <1>6, <2>1 DEF Commit, TypeOK
  <2>3. transactions' \in [Users -> Seq(Row)]
    <3>1. transactions \in [Users -> Seq(Row)]  BY <1>0 DEF TypeOK
    <3>2. transactions' = [transactions EXCEPT ![User(r)] = Append(@, t)]
      BY <1>6 DEF Commit
    <3> HIDE DEF Row, t
    <3>3. Append(transactions[User(r)], t) \in Seq(Row)
      BY <3>1, <2>1
    <3> QED  BY <3>1, <3>2, <3>3
  <2>4. /\ rowLock' \in [Users -> Requests \cup {None}]
        /\ UNCHANGED <<settings, request>>
    BY <1>0, <1>6 DEF Commit, TypeOK
  <2>5. PICK outcome \in {"done", "unknown"} : Leave(r, outcome)
    BY <1>6 DEF Commit
  <2>6. LocalTypes'  BY <1>0, <2>5, LeaveTypes
  <2> QED  BY <1>0, <2>2, <2>3, <2>4, <2>6 DEF TypeOK, LocalTypes
<1>7. ASSUME NEW r \in Requests, Rollback(r) PROVE TypeOK'
  <2>1. LocalTypes'  BY <1>0, <1>7, LeaveTypes DEF Rollback
  <2> QED  BY <1>0, <1>7, <2>1 DEF Rollback, TypeOK, LocalTypes
<1>8. ASSUME NEW r \in Requests, Find(r) PROVE TypeOK'
  <2>1. User(r) \in Users  BY <1>8, UserInUsers DEF Find
  <2>2. LocalTypes'
    <3>1. CASE wallets[User(r)] # NoWallet
      BY <1>0, <1>8, <2>1, <3>1, WalletFoundTypes DEF Find, TypeOK
    <3>2. CASE wallets[User(r)] = NoWallet
      BY <1>0, <1>8, <3>2 DEF Find, TypeOK, LocalTypes
    <3> QED  BY <3>1, <3>2
  <2> QED  BY <1>0, <1>8, <2>2 DEF Find, TypeOK, LocalTypes
<1>9. ASSUME NEW r \in Requests, Insert(r) PROVE TypeOK'
  <2>1. LocalTypes'
    <3>1. CASE wallets[User(r)] = NoWallet
      BY <1>0, <1>9, <3>1, WalletFoundTypes, FreshWalletFacts DEF Insert
    <3>2. CASE wallets[User(r)] # NoWallet
      BY <1>0, <1>9, <3>2, LeaveTypes DEF Insert
    <3> QED  BY <3>1, <3>2
  <2>2. wallets' \in [Users -> WalletRow \cup {NoWallet}]
    BY <1>0, <1>9, FreshWalletFacts DEF Insert, TypeOK
  <2> QED  BY <1>0, <1>9, <2>1, <2>2 DEF Insert, TypeOK, LocalTypes
<1>10. ASSUME NEW r \in Requests, Reload(r) PROVE TypeOK'
  <2>1. User(r) \in Users  BY <1>10, UserInUsers DEF Reload
  <2> QED  BY <1>0, <1>10, <2>1 DEF Reload, TypeOK
<1>11. ASSUME NEW r \in Requests, Overwrite(r) PROVE TypeOK'
  <2>1. User(r) \in Users  BY <1>11, UserInUsers DEF Overwrite
  <2>2. entity[r] \in WalletRow /\ base[r] \in WalletRow /\ wallets[User(r)] \in WalletRow
    BY <1>0, <1>11, <2>1 DEF Overwrite, IInv, EntitiesSound, TypeOK
  <2>3. Overwritten(entity[r], base[r], wallets[User(r)]) \in WalletRow
    BY <2>2, OverwrittenFacts
  <2>4. LocalTypes'  BY <1>0, <1>11, LeaveTypes DEF Overwrite
  <2> QED  BY <1>0, <1>11, <2>3, <2>4 DEF Overwrite, TypeOK, LocalTypes
<1>12. ASSUME NEW r \in Requests, Fail(r) PROVE TypeOK'
  <2>1. LocalTypes'
    <3>1. CASE pc[r] \in InTransaction
      BY <1>0, <1>12, <3>1 DEF Fail, TypeOK, LocalTypes
    <3>2. CASE pc[r] \notin InTransaction
      BY <1>0, <1>12, <3>2, LeaveTypes DEF Fail
    <3> QED  BY <3>1, <3>2
  <2> QED  BY <1>0, <1>12, <2>1 DEF Fail, TypeOK, LocalTypes
<1>13. CASE Configure
  BY <1>0, <1>13 DEF Configure, TypeOK
<1>14. CASE Crash
  BY <1>0, <1>14 DEF Crash, TypeOK
<1>15. CASE UNCHANGED vars
  BY <1>0, <1>15 DEF vars, TypeOK
<1> QED
  BY <1>1, <1>2, <1>3, <1>4, <1>5, <1>6, <1>7, <1>8, <1>9, <1>10, <1>11, <1>12,
     <1>13, <1>14, <1>15 DEF Next, Progress

\* What the invariant says of one request.
RequestOK(r) ==
    /\ pc[r] # "idle" => request[r] \in CallRow
    /\ pc[r] \in InTransaction => Op(r) \in MoneyOps
    /\ pc[r] = "config" => Op(r) \in ConfiguredOps
    /\ pc[r] \in {"reload", "overwrite"} =>
          Op(r) \in AdminOps /\ entity[r] # NoWallet /\ wallets[User(r)] # NoWallet
    /\ pc[r] \in {"save", "commit"} /\ Op(r) = "pay" => setting[r] \in Percentages
    /\ pc[r] \in {"save", "commit"} /\ Op(r) \in {"deduct", "refund"} =>
          setting[r] \in MinBalances
    /\ pc[r] = "overwrite" => base[r] # NoWallet
    /\ entity[r] # NoWallet => entity[r].balance >= 0
    /\ pc[r] \in Holding => HolderIsCurrent(r)

LEMMA RequestOKInv == IInv <=> TypeOK /\ NonNegativeBalance /\ \A r \in Requests : RequestOK(r)
BY DEF IInv, CallsMade, EntitiesSound, HolderCopyCurrent, RequestOK

\* A step that leaves a request's call and memory alone, and the row it holds,
\* if it holds one, leaves the request as it was.
LEMMA RequestFrame ==
    ASSUME NEW q \in Requests, RequestOK(q),
           pc'[q] = pc[q], request'[q] = request[q], entity'[q] = entity[q],
           base'[q] = base[q], setting'[q] = setting[q],
           pc[q] \in {"reload", "overwrite"} /\ wallets[User(q)] # NoWallet =>
               wallets'[User(q)] # NoWallet,
           pc[q] \in Holding => /\ wallets'[User(q)] = wallets[User(q)]
                               /\ rowLock'[User(q)] = rowLock[User(q)]
    PROVE  RequestOK(q)'
<1>1. Op(q)' = Op(q) /\ User(q)' = User(q) /\ Posted(q)' = Posted(q)
  BY DEF Op, User, Posted
<1>2. pc[q] \in Holding => HolderIsCurrent(q)'
  BY <1>1 DEF RequestOK, HolderIsCurrent
<1> QED  BY <1>1, <1>2 DEF RequestOK

\* A method that has ended says nothing of the database.
LEMMA RequestLeft ==
    ASSUME TypeOK, NEW r \in Requests, RequestOK(r), pc[r] # "idle", NEW outcome \in Ended,
           Leave(r, outcome), request' = request
    PROVE  RequestOK(r)'
BY DEF RequestOK, Leave, Goto, TypeOK, Ended, InTransaction, Holding

\* The other requests, when one leaves.
LEMMA OthersLeft ==
    ASSUME TypeOK, NEW r \in Requests, NEW q \in Requests, q # r, NEW outcome,
           Leave(r, outcome)
    PROVE  pc'[q] = pc[q] /\ entity'[q] = entity[q] /\ base'[q] = base[q]
              /\ setting'[q] = setting[q]
BY DEF Leave, Goto, TypeOK

LEMMA OthersFound ==
    ASSUME TypeOK, NEW r \in Requests, NEW q \in Requests, q # r, NEW w,
           WalletFound(r, w)
    PROVE  pc'[q] = pc[q] /\ entity'[q] = entity[q] /\ base'[q] = base[q]
              /\ setting'[q] = setting[q]
<1>1. CASE Op(r) \in AdminOps  BY <1>1 DEF WalletFound, Goto, TypeOK
<1>2. CASE Op(r) \notin AdminOps  BY <1>2, OthersLeft DEF WalletFound
<1> QED  BY <1>1, <1>2

LEMMA RequestFound ==
    ASSUME TypeOK, NEW r \in Requests, RequestOK(r), pc[r] # "idle",
           NEW w \in WalletRow, w.balance >= 0, WalletFound(r, w),
           request' = request, wallets'[User(r)] # NoWallet
    PROVE  RequestOK(r)'
<1>1. CASE Op(r) \in AdminOps
  <2> DEFINE v == [w EXCEPT !.isLocked = (Op(r) = "lock")]
  <2>1. v \in WalletRow /\ v.balance = w.balance
    BY DEF WalletRow
  <2>2. pc'[r] = "reload" /\ entity'[r] = v
    BY <1>1 DEF WalletFound, Goto, TypeOK
  <2> HIDE DEF v
  <2>3. entity'[r] # NoWallet /\ entity'[r].balance >= 0
    BY <2>1, <2>2, NoWalletIsNoRow
  <2>4. Op(r)' = Op(r) /\ User(r)' = User(r)
    BY DEF Op, User
  <2> QED  BY <1>1, <2>2, <2>3, <2>4 DEF RequestOK, InTransaction, Holding
<1>2. CASE Op(r) \notin AdminOps
  BY <1>2, RequestLeft DEF WalletFound, Ended
<1> QED  BY <1>1, <1>2

LEMMA NextRequests ==
    ASSUME IInv, [Next]_vars, NEW q \in Requests
    PROVE  RequestOK(q)'
<1>0. TypeOK /\ NonNegativeBalance /\ \A r \in Requests : RequestOK(r)
  BY RequestOKInv
<1> USE DEF database, locals, Goto
<1>1. ASSUME NEW r \in Requests, Call(r) PROVE RequestOK(q)'
  <2>1. CASE q = r
    <3>1. PICK op \in Ops, u \in Users, a \in Amounts :
            /\ request'[q] = [op |-> op, user |-> u, amount |-> a]
            /\ pc'[q] = IF op \in MoneyOps THEN "begin" ELSE "find"
      BY <1>0, <1>1, <2>1 DEF Call, TypeOK
    <3>2. request'[q] \in CallRow /\ Op(q)' = op
      BY <3>1 DEF CallRow, Op
    <3>3. entity'[q] # NoWallet => entity'[q].balance >= 0
      BY <1>0, <1>1 DEF Call, RequestOK
    <3> QED  BY <3>1, <3>2, <3>3 DEF RequestOK, InTransaction, Holding
  <2>2. CASE q # r
    BY <1>0, <1>1, <2>2, RequestFrame DEF Call, TypeOK
  <2> QED  BY <2>1, <2>2
<1>2. ASSUME NEW r \in Requests, LockRow(r) PROVE RequestOK(q)'
  <2>0. User(r) \in Users /\ Op(r) \in MoneyOps /\ request[r] \in CallRow
    BY <1>0, <1>2, UserInUsers DEF LockRow, RequestOK, InTransaction
  <2>1. CASE q = r
    <3> DEFINE w == wallets[User(q)]
    <3>1. /\ rowLock'[User(q)] = q /\ entity'[q] = w /\ w # NoWallet
          /\ UNCHANGED <<wallets, request, setting>>
          /\ pc'[q] = IF RefusedOnRead(q, w) THEN "rollback"
                      ELSE IF Op(q) \in ConfiguredOps THEN "config" ELSE "save"
      BY <1>0, <1>2, <2>0, <2>1 DEF LockRow, TypeOK
    <3>2. Op(q)' = Op(q) /\ User(q)' = User(q) /\ Posted(q)' = Posted(q)
      BY <3>1 DEF Op, User, Posted
    <3>3. w.balance >= 0
      BY <1>0, <2>0, <2>1, <3>1 DEF NonNegativeBalance
    <3>4. pc'[q] \in {"config", "save"} =>
              /\ Op(q) # "refund" => ~w.isLocked
              /\ pc'[q] = "save" => ~Insufficient(Op(q), w, Posted(q))
      BY <2>0, <2>1, <3>1 DEF RefusedOnRead, RefusesLocked, Insufficient, Posted,
         PostedAmount, MoneyOps, CreditOps, DebitOps, ConfiguredOps
    <3> HIDE DEF w
    <3>5. pc'[q] \in Holding => HolderIsCurrent(q)'
      BY <3>1, <3>2, <3>4 DEF HolderIsCurrent, Holding, w
    <3> QED
      BY <2>0, <2>1, <3>1, <3>2, <3>3, <3>5 DEF RequestOK, InTransaction, Holding, ConfiguredOps
  <2>2. CASE q # r
    <3>1. pc[q] \in Holding => User(q) # User(r)
      BY <1>0, <1>2, NoneAssumption DEF LockRow, RequestOK, HolderIsCurrent
    <3> QED  BY <1>0, <1>2, <2>0, <2>2, <3>1, RequestFrame DEF LockRow, TypeOK
  <2> QED  BY <2>1, <2>2
<1>3. ASSUME NEW r \in Requests, RowMissing(r) PROVE RequestOK(q)'
  <2>1. CASE q = r
    BY <1>0, <1>3, <2>1 DEF RowMissing, RequestOK, TypeOK, InTransaction, Holding
  <2>2. CASE q # r
    BY <1>0, <1>3, <2>2, RequestFrame DEF RowMissing, TypeOK
  <2> QED  BY <2>1, <2>2
<1>4. ASSUME NEW r \in Requests, ReadSetting(r) PROVE RequestOK(q)'
  <2>1. CASE q = r
    <3> DEFINE v == IF Op(q) = "pay" THEN settings.commission ELSE settings.minBalance
    <3>1. /\ setting'[q] = v
          /\ pc'[q] = IF Op(q) = "deduct" /\ Insufficient("deduct", entity[q], v)
                      THEN "rollback" ELSE "save"
          /\ UNCHANGED <<wallets, rowLock, request, entity>>
          /\ pc[q] = "config"
      BY <1>0, <1>4, <2>1 DEF ReadSetting, TypeOK
    <3>2. Op(q)' = Op(q) /\ User(q)' = User(q)
      BY <3>1 DEF Op, User
    <3>3. /\ HolderIsCurrent(q) /\ entity[q] = wallets[User(q)]
          /\ Op(q) \in ConfiguredOps /\ Op(q) \in MoneyOps /\ request[q] \in CallRow
      BY <1>0, <3>1 DEF RequestOK, HolderIsCurrent, Holding, InTransaction
    <3>4. Op(q) \in {"deduct", "refund"} => Posted(q)' = v
      BY <3>1, <3>2 DEF Posted, PostedAmount
    <3>5. pc'[q] = "save" => ~Insufficient(Op(q), wallets[User(q)], Posted(q)')
      BY <3>1, <3>3, <3>4 DEF Insufficient, ConfiguredOps, DebitOps
    <3>6. /\ Op(q) = "pay" => v \in Percentages
          /\ Op(q) \in {"deduct", "refund"} => v \in MinBalances
      BY <1>0 DEF TypeOK
    <3> HIDE DEF v
    <3>7. pc'[q] \in Holding => HolderIsCurrent(q)'
      BY <3>1, <3>2, <3>3, <3>5 DEF HolderIsCurrent, Holding
    <3> QED
      BY <1>0, <3>1, <3>2, <3>3, <3>6, <3>7 DEF RequestOK, InTransaction, Holding
  <2>2. CASE q # r
    BY <1>0, <1>4, <2>2, RequestFrame DEF ReadSetting, TypeOK
  <2> QED  BY <2>1, <2>2
<1>5. ASSUME NEW r \in Requests, SaveBoth(r) PROVE RequestOK(q)'
  <2>1. CASE q = r
    <3> DEFINE w == wallets[User(q)]
               v == PostedWallet(Op(q), w, Posted(q))
    <3>1. /\ pc[q] = "save" /\ pc'[q] = "commit"
          /\ UNCHANGED <<wallets, rowLock, request, setting>>
      BY <1>0, <1>5, <2>1 DEF SaveBoth, TypeOK
    <3>2. /\ HolderIsCurrent(q) /\ entity[q] = w /\ w # NoWallet /\ w \in WalletRow
          /\ Op(q) \in MoneyOps
      BY <1>0, <3>1, UserInUsers DEF RequestOK, HolderIsCurrent, Holding, InTransaction, TypeOK
    <3>3. entity'[q] = v
      BY <1>0, <1>5, <2>1, <3>2 DEF SaveBoth, TypeOK
    <3>4. Op(q)' = Op(q) /\ User(q)' = User(q) /\ Posted(q)' = Posted(q)
      BY <3>1 DEF Op, User, Posted
    <3>5. Posted(q) \in Nat  BY <3>1, PostedNat
    <3>6. v.balance >= 0
      <4>1. v.balance = w.balance + Signed(Op(q), Posted(q))
        BY <3>2, <3>5, PostedWalletFacts
      <4>2. w.balance \in Nat
        <5>1. w.balance \in Int  BY <3>2 DEF WalletRow
        <5>2. w.balance >= 0  BY <1>0, <3>1, <3>2, UserInUsers DEF NonNegativeBalance
        <5> QED  BY <5>1, <5>2
      <4>3. Op(q) \in DebitOps => Posted(q) <= w.balance
        BY <3>1, <3>2, <3>5, <4>2 DEF HolderIsCurrent, Insufficient
      <4> HIDE DEF v, w
      <4> QED  BY <3>2, <3>5, <4>1, <4>2, <4>3 DEF Signed, MoneyOps
    <3>7. HolderIsCurrent(q)'
      BY <3>1, <3>2, <3>3, <3>4 DEF HolderIsCurrent
    <3> HIDE DEF v
    <3> QED
      BY <1>0, <3>1, <3>3, <3>4, <3>6, <3>7 DEF RequestOK, InTransaction, Holding
  <2>2. CASE q # r
    BY <1>0, <1>5, <2>2, RequestFrame DEF SaveBoth, TypeOK
  <2> QED  BY <2>1, <2>2
<1>6. ASSUME NEW r \in Requests, Commit(r) PROVE RequestOK(q)'
  <2>0. PICK outcome \in {"done", "unknown"} : Leave(r, outcome)
    BY <1>6 DEF Commit
  <2>1. CASE q = r
    BY <1>0, <1>6, <2>0, <2>1, RequestLeft DEF Commit, Ended
  <2>2. CASE q # r
    <3>1. pc[q] \in Holding => User(q) # User(r)
      BY <1>0, <1>6, <2>2 DEF Commit, RequestOK, HolderIsCurrent, Holding
    <3>2. User(r) \in Users /\ entity[r] \in WalletRow
      BY <1>6, CommitTypes DEF Commit
    <3>3. pc[q] # "idle" => User(q) \in Users
      BY UserInUsers
    <3>4. wallets[User(q)] # NoWallet /\ pc[q] # "idle" => wallets'[User(q)] # NoWallet
      BY <1>0, <1>6, <3>2, <3>3, NoWalletIsNoRow DEF Commit, TypeOK
    <3>5. pc[q] \in Holding => /\ wallets'[User(q)] = wallets[User(q)]
                             /\ rowLock'[User(q)] = rowLock[User(q)]
      BY <1>0, <1>6, <3>1, <3>2, <3>3 DEF Commit, TypeOK, Holding
    <3> QED
      BY <1>0, <1>6, <2>0, <2>2, <3>4, <3>5, OthersLeft, RequestFrame DEF Commit
  <2> QED  BY <2>1, <2>2
<1>7. ASSUME NEW r \in Requests, Rollback(r) PROVE RequestOK(q)'
  <2>1. CASE q = r
    BY <1>0, <1>7, <2>1, RequestLeft DEF Rollback, Ended
  <2>2. CASE q # r
    <3>1. pc[q] \in Holding => rowLock'[User(q)] = rowLock[User(q)]
      BY <1>0, <1>7, <2>2, UserInUsers DEF Rollback, RequestOK, HolderIsCurrent, Holding
    <3> QED
      BY <1>0, <1>7, <2>2, <3>1, OthersLeft, RequestFrame DEF Rollback
  <2> QED  BY <2>1, <2>2
<1>8. ASSUME NEW r \in Requests, Find(r) PROVE RequestOK(q)'
  <2>0. User(r) \in Users  BY <1>8, UserInUsers DEF Find
  <2>1. CASE q = r
    <3>1. CASE wallets[User(q)] # NoWallet
      <4>1. wallets[User(q)] \in WalletRow /\ wallets[User(q)].balance >= 0
        BY <1>0, <2>0, <2>1, <3>1 DEF TypeOK, NonNegativeBalance
      <4> QED  BY <1>0, <1>8, <2>1, <3>1, <4>1, RequestFound DEF Find
    <3>2. CASE wallets[User(q)] = NoWallet
      BY <1>0, <1>8, <2>1, <3>2 DEF Find, TypeOK, RequestOK, InTransaction, Holding
    <3> QED  BY <3>1, <3>2
  <2>2. CASE q # r
    <3>1. CASE wallets[User(r)] # NoWallet
      BY <1>0, <1>8, <2>2, <3>1, OthersFound, RequestFrame DEF Find
    <3>2. CASE wallets[User(r)] = NoWallet
      BY <1>0, <1>8, <2>2, <3>2, RequestFrame DEF Find, TypeOK
    <3> QED  BY <3>1, <3>2
  <2> QED  BY <2>1, <2>2
<1>9. ASSUME NEW r \in Requests, Insert(r) PROVE RequestOK(q)'
  <2>0. User(r) \in Users  BY <1>9, UserInUsers DEF Insert
  <2>1. CASE wallets[User(r)] # NoWallet
    <3>1. CASE q = r
      BY <1>0, <1>9, <2>1, <3>1, RequestLeft DEF Insert, Ended
    <3>2. CASE q # r
      BY <1>0, <1>9, <2>1, <3>2, OthersLeft, RequestFrame DEF Insert
    <3> QED  BY <3>1, <3>2
  <2>2. CASE wallets[User(r)] = NoWallet
    <3>1. wallets'[User(r)] # NoWallet
      BY <1>0, <1>9, <2>0, <2>2, FreshWalletFacts, NoWalletIsNoRow DEF Insert, TypeOK
    <3>2. CASE q = r
      BY <1>0, <1>9, <2>2, <3>1, <3>2, FreshWalletFacts, RequestFound DEF Insert
    <3>3. CASE q # r
      <4>1. pc[q] # "idle" => User(q) \in Users  BY UserInUsers
      <4>2. pc[q] \in Holding => User(q) # User(r)
        BY <1>0, <2>2 DEF RequestOK, HolderIsCurrent
      <4>3. pc[q] \in Holding => wallets'[User(q)] = wallets[User(q)]
        BY <1>0, <1>9, <2>2, <4>1, <4>2 DEF Insert, TypeOK, Holding
      <4>4. pc[q] # "idle" /\ wallets[User(q)] # NoWallet => wallets'[User(q)] # NoWallet
        BY <1>0, <1>9, <2>2, <4>1 DEF Insert, TypeOK
      <4> QED
        BY <1>0, <1>9, <2>2, <3>3, <4>3, <4>4, OthersFound, RequestFrame DEF Insert
    <3> QED  BY <3>2, <3>3
  <2> QED  BY <2>1, <2>2
<1>10. ASSUME NEW r \in Requests, Reload(r) PROVE RequestOK(q)'
  <2>1. CASE q = r
    BY <1>0, <1>10, <2>1 DEF Reload, TypeOK, RequestOK, InTransaction, Holding, Op, User
  <2>2. CASE q # r
    BY <1>0, <1>10, <2>2, RequestFrame DEF Reload, TypeOK
  <2> QED  BY <2>1, <2>2
<1>11. ASSUME NEW r \in Requests, Overwrite(r) PROVE RequestOK(q)'
  <2>1. CASE q = r
    BY <1>0, <1>11, <2>1, RequestLeft DEF Overwrite, Ended
  <2>2. CASE q # r
    <3>1. User(r) \in Users  BY <1>11, UserInUsers DEF Overwrite
    <3>2. entity[r] \in WalletRow /\ base[r] \in WalletRow /\ wallets[User(r)] \in WalletRow
      BY <1>0, <1>11, <3>1 DEF Overwrite, RequestOK, TypeOK
    <3> DEFINE v == Overwritten(entity[r], base[r], wallets[User(r)])
    <3>3. v # NoWallet  BY <3>2, OverwrittenFacts, NoWalletIsNoRow
    <3>4. wallets' = [wallets EXCEPT ![User(r)] = v]  BY <1>11 DEF Overwrite
    <3>5. pc[q] # "idle" => User(q) \in Users  BY UserInUsers
    <3>6. pc[q] \in Holding /\ User(q) = User(r) => v = wallets[User(r)]
      <4>1. pc[q] \in Holding /\ User(q) = User(r) => rowLock[User(r)] # None
        BY <1>0, NoneAssumption DEF RequestOK, HolderIsCurrent
      <4>2. rowLock[User(r)] # None => entity[r] = base[r]
        BY <1>11 DEF Overwrite
      <4> QED  BY <4>1, <4>2, <3>2, OverwrittenUnchanged
    <3> HIDE DEF v
    <3>7. pc[q] # "idle" /\ wallets[User(q)] # NoWallet => wallets'[User(q)] # NoWallet
      BY <1>0, <3>3, <3>4, <3>5 DEF TypeOK
    <3>8. pc[q] \in Holding => wallets'[User(q)] = wallets[User(q)]
      BY <1>0, <3>4, <3>5, <3>6 DEF TypeOK, Holding
    <3> QED
      BY <1>0, <1>11, <2>2, <3>7, <3>8, OthersLeft, RequestFrame DEF Overwrite
  <2> QED  BY <2>1, <2>2
<1>12. ASSUME NEW r \in Requests, Fail(r) PROVE RequestOK(q)'
  <2>1. CASE pc[r] \in InTransaction
    <3>1. CASE q = r
      BY <1>0, <1>12, <2>1, <3>1 DEF Fail, TypeOK, RequestOK, InTransaction, Holding
    <3>2. CASE q # r
      BY <1>0, <1>12, <2>1, <3>2, RequestFrame DEF Fail, TypeOK
    <3> QED  BY <3>1, <3>2
  <2>2. CASE pc[r] \notin InTransaction
    <3>0. pc[r] # "idle" /\ Leave(r, "failed")
      BY <1>12, <2>2 DEF Fail, OutOfTransaction
    <3>1. CASE q = r
      BY <1>0, <1>12, <3>0, <3>1, RequestLeft DEF Fail, Ended
    <3>2. CASE q # r
      BY <1>0, <1>12, <3>0, <3>2, OthersLeft, RequestFrame DEF Fail
    <3> QED  BY <3>1, <3>2
  <2> QED  BY <2>1, <2>2
<1>13. CASE Configure
  BY <1>0, <1>13, RequestFrame DEF Configure
<1>14. CASE Crash
  <2>1. /\ pc'[q] \in {"idle"} \cup Ended
        /\ pc[q] = "idle" => pc'[q] = "idle"
        /\ entity'[q] = NoWallet /\ request' = request
    BY <1>0, <1>14 DEF Crash, TypeOK, Ended, Active, InTransaction, OutOfTransaction, Holding
  <2>2. /\ pc'[q] \notin InTransaction \cup {"reload", "overwrite"}
        /\ pc'[q] \notin Holding
        /\ pc'[q] # "config" /\ pc'[q] # "save" /\ pc'[q] # "commit"
    BY <2>1 DEF InTransaction, Holding, Ended
  <2>3. pc'[q] # "idle" => request'[q] \in CallRow
    BY <1>0, <2>1 DEF RequestOK
  <2> QED  BY <2>1, <2>2, <2>3 DEF RequestOK
<1>15. CASE UNCHANGED vars
  BY <1>0, <1>15, RequestFrame DEF vars
<1> QED
  BY <1>1, <1>2, <1>3, <1>4, <1>5, <1>6, <1>7, <1>8, <1>9, <1>10, <1>11, <1>12,
     <1>13, <1>14, <1>15 DEF Next, Progress

LEMMA NextNonNegative ==
    ASSUME IInv, [Next]_vars
    PROVE  NonNegativeBalance'
<1> SUFFICES ASSUME NEW u \in Users, wallets'[u] # NoWallet
             PROVE  wallets'[u].balance >= 0
  BY DEF NonNegativeBalance
<1>0. TypeOK /\ NonNegativeBalance /\ \A r \in Requests : RequestOK(r)
  BY RequestOKInv
<1>1. wallets'[u] = wallets[u] => wallets'[u].balance >= 0
  BY <1>0 DEF NonNegativeBalance
<1>2. ASSUME NEW r \in Requests, Commit(r) PROVE wallets'[u].balance >= 0
  <2>1. User(r) \in Users /\ entity[r].balance \in Nat
    BY <1>2, CommitTypes DEF Commit
  <2>2. wallets'[u] = IF u = User(r) THEN entity[r] ELSE wallets[u]
    BY <1>0, <1>2 DEF Commit, TypeOK
  <2> QED  BY <1>1, <2>1, <2>2
<1>3. ASSUME NEW r \in Requests, Insert(r) PROVE wallets'[u].balance >= 0
  <2>1. wallets'[u] = FreshWallet \/ wallets'[u] = wallets[u]
    BY <1>0, <1>3 DEF Insert, TypeOK
  <2> QED  BY <1>1, <2>1, FreshWalletFacts
<1>4. ASSUME NEW r \in Requests, Overwrite(r) PROVE wallets'[u].balance >= 0
  <2>1. User(r) \in Users  BY <1>4, UserInUsers DEF Overwrite
  <2>2. /\ entity[r] \in WalletRow /\ base[r] \in WalletRow /\ wallets[User(r)] \in WalletRow
        /\ entity[r].balance >= 0 /\ wallets[User(r)].balance >= 0
    BY <1>0, <1>4, <2>1 DEF Overwrite, RequestOK, TypeOK, NonNegativeBalance
  <2> DEFINE v == Overwritten(entity[r], base[r], wallets[User(r)])
  <2>3. v.balance >= 0  BY <2>2, OverwrittenFacts
  <2>4. wallets' = [wallets EXCEPT ![User(r)] = v]  BY <1>4 DEF Overwrite
  <2> HIDE DEF v
  <2>5. wallets'[u] = IF u = User(r) THEN v ELSE wallets[u]
    BY <1>0, <2>4 DEF TypeOK
  <2> QED  BY <1>1, <2>3, <2>5
<1>5. CASE wallets' = wallets  BY <1>1, <1>5
<1> QED
  BY <1>2, <1>3, <1>4, <1>5 DEF Next, Progress, Call, LockRow, RowMissing, ReadSetting,
     SaveBoth, Rollback, Find, Reload, Fail, Configure, Crash, vars, database

LEMMA NextIInv == IInv /\ [Next]_vars => IInv'
<1> SUFFICES ASSUME IInv, [Next]_vars PROVE IInv'  OBVIOUS
<1>1. TypeOK'  BY NextTypes
<1>2. NonNegativeBalance'  BY NextNonNegative
<1>3. \A q \in Requests : RequestOK(q)'  BY NextRequests
<1> QED
  BY <1>1, <1>2, <1>3 DEF IInv, CallsMade, EntitiesSound, HolderCopyCurrent, RequestOK

THEOREM InductiveInvariant == Spec => []IInv
<1>1. Init => IInv  BY InitIInv
<1>2. IInv /\ [Next]_vars => IInv'  BY NextIInv
<1> QED  BY <1>1, <1>2, PTL DEF Spec, Safety
-----------------------------------------------------------------------------
(* What follows, for every instance of the constants. *)

\* Every variable of the wallet component keeps its type.
THEOREM TypeCorrect == Spec => []TypeOK
<1>1. IInv => TypeOK  BY DEF IInv
<1> QED  BY <1>1, InductiveInvariant, PTL

\* The entity a money operation checked under the row lock is the row it
\* replaces, whatever other operations and administrator saves do meanwhile.
THEOREM HolderNeverStale == Spec => []HolderCopyCurrent
<1>1. IInv => HolderCopyCurrent  BY DEF IInv
<1> QED  BY <1>1, InductiveInvariant, PTL

\* No wallet is ever overdrawn.
THEOREM NeverOverdrawn == Spec => []NonNegativeBalance
<1>1. IInv => NonNegativeBalance  BY DEF IInv
<1> QED  BY <1>1, InductiveInvariant, PTL
-----------------------------------------------------------------------------
(* The history. *)

TransactionRows ==
    [ref : Requests \cup {None}, op : MoneyOps, amount : Nat, balanceAfter : Int]

Entry(r) == TransactionRow(r, Op(r), Posted(r), entity[r].balance)

\* What the ledger sees of a wallet.
Balance(u) == IF wallets[u] = NoWallet THEN 0 ELSE wallets[u].balance
Frozen(u) == wallets[u] # NoWallet /\ wallets[u].isLocked

\* A commit appends one entry to one history and moves that balance by it.
LEMMA CommitStep ==
    ASSUME IInv, NEW r \in Requests, Commit(r)
    PROVE  /\ pc[r] = "commit" /\ User(r) \in Users
           /\ Op(r) \in MoneyOps /\ Posted(r) \in Nat
           /\ Entry(r) \in TransactionRows
           /\ transactions' = [transactions EXCEPT ![User(r)] = Append(@, Entry(r))]
           /\ wallets' = [wallets EXCEPT ![User(r)] = entity[r]]
           /\ wallets[User(r)] # NoWallet /\ entity[r] # NoWallet
           /\ entity[r].balance = wallets[User(r)].balance + Signed(Op(r), Posted(r))
           /\ wallets[User(r)].balance \in Nat
           /\ entity[r].isLocked = wallets[User(r)].isLocked
           /\ wallets[User(r)].isLocked => Op(r) = "refund"
           /\ Op(r) \in DebitOps => Posted(r) <= wallets[User(r)].balance
<1>1. pc[r] = "commit"  BY DEF Commit
<1>2. /\ HolderIsCurrent(r)
      /\ wallets[User(r)] \in WalletRow /\ wallets[User(r)] # NoWallet
  <2>1. HolderIsCurrent(r)
    BY <1>1 DEF IInv, HolderCopyCurrent, Holding
  <2> QED  BY <2>1, <1>1, CommitTypes, NoWalletIsNoRow
<1>3. /\ User(r) \in Users /\ Op(r) \in MoneyOps /\ Posted(r) \in Nat
      /\ Entry(r) \in TransactionRows /\ entity[r] \in WalletRow
      /\ entity[r].balance = wallets[User(r)].balance + Signed(Op(r), Posted(r))
  BY <1>1, CommitTypes DEF Entry, TransactionRows
<1>4. entity[r].isLocked = wallets[User(r)].isLocked
  BY <1>1, <1>2, <1>3, PostedWalletFacts DEF HolderIsCurrent
<1>5. wallets[User(r)].balance \in Nat
  <2>1. wallets[User(r)].balance \in Int  BY <1>2 DEF WalletRow
  <2>2. wallets[User(r)].balance >= 0  BY <1>2, <1>3 DEF IInv, NonNegativeBalance
  <2> QED  BY <2>1, <2>2
<1>6. Op(r) \in DebitOps => Posted(r) <= wallets[User(r)].balance
  BY <1>1, <1>2, <1>3, <1>5 DEF HolderIsCurrent, Insufficient
<1>7. wallets[User(r)].isLocked => Op(r) = "refund"
  BY <1>2 DEF HolderIsCurrent
<1>8. /\ transactions' = [transactions EXCEPT ![User(r)] = Append(@, Entry(r))]
      /\ wallets' = [wallets EXCEPT ![User(r)] = entity[r]]
  BY DEF Commit, Entry
<1> QED  BY <1>1, <1>2, <1>3, <1>4, <1>5, <1>6, <1>7, <1>8, NoWalletIsNoRow

\* No other step touches a history; apart from the administrator's saves, none
\* moves a balance or freezes a wallet.
LEMMA OtherSteps ==
    ASSUME IInv, [Next]_vars, \A r \in Requests : ~Commit(r)
    PROVE  /\ transactions' = transactions
           /\ (\A r \in Requests : ~Overwrite(r)) =>
                 \A u \in Users : Balance(u)' = Balance(u) /\ Frozen(u)' = Frozen(u)
<1>0. TypeOK  BY DEF IInv
<1>1. ASSUME NEW r \in Requests, Insert(r)
      PROVE  /\ transactions' = transactions
             /\ \A u \in Users : Balance(u)' = Balance(u) /\ Frozen(u)' = Frozen(u)
  <2>1. transactions' = transactions  BY <1>1 DEF Insert
  <2>2. ASSUME NEW u \in Users
        PROVE  Balance(u)' = Balance(u) /\ Frozen(u)' = Frozen(u)
    <3>1. CASE wallets'[u] = wallets[u]  BY <3>1 DEF Balance, Frozen
    <3>2. CASE wallets'[u] # wallets[u]
      <4>1. wallets[u] = NoWallet /\ wallets'[u] = FreshWallet
        BY <1>0, <1>1, <3>2 DEF Insert, TypeOK
      <4>2. FreshWallet # NoWallet /\ FreshWallet.isLocked = FALSE
        BY FreshWalletFacts, NoWalletIsNoRow DEF FreshWallet
      <4> QED  BY <4>1, <4>2, FreshWalletFacts DEF Balance, Frozen
    <3> QED  BY <3>1, <3>2
  <2> QED  BY <2>1, <2>2
<1>2. ASSUME NEW r \in Requests, Overwrite(r) PROVE transactions' = transactions
  BY <1>2 DEF Overwrite
<1>3. CASE wallets' = wallets /\ transactions' = transactions
  BY <1>3 DEF Balance, Frozen
<1> QED
  BY <1>1, <1>2, <1>3 DEF Next, Progress, Call, LockRow, RowMissing, ReadSetting,
     SaveBoth, Rollback, Find, Reload, Fail, Configure, Crash, vars, database

\* The last entry of an extended history, and the histories that stay.
LEMMA Extended ==
    ASSUME IInv, NEW r \in Requests, Commit(r), NEW u \in Users
    PROVE  IF u = User(r)
           THEN /\ transactions'[u] = Append(transactions[u], Entry(r))
                /\ transactions'[u][Len(transactions'[u])] = Entry(r)
                /\ wallets'[u] = entity[r]
           ELSE transactions'[u] = transactions[u] /\ wallets'[u] = wallets[u]
<1>1. transactions \in [Users -> Seq(TransactionRows)] /\ DOMAIN wallets = Users
  BY DEF IInv, TypeOK, TransactionRows
<1>2. /\ transactions' = [transactions EXCEPT ![User(r)] = Append(@, Entry(r))]
      /\ wallets' = [wallets EXCEPT ![User(r)] = entity[r]]
      /\ Entry(r) \in TransactionRows
  BY CommitStep
<1>3. ASSUME NEW h \in Seq(TransactionRows), NEW t \in TransactionRows
      PROVE  Append(h, t)[Len(Append(h, t))] = t
  OBVIOUS
<1> QED  BY <1>1, <1>2, <1>3

\* Histories grow by one entry at a time, atomically with the balance.
THEOREM PostingAtomic == Spec => PostingIsAtomic
<1>1. ASSUME IInv, [Next]_vars
      PROVE  [\A u \in Users : transactions'[u] # transactions[u] => PostedOnce(u)]_vars
  <2> SUFFICES ASSUME NEW u \in Users, transactions'[u] # transactions[u]
               PROVE  PostedOnce(u)
    OBVIOUS
  <2>1. PICK r \in Requests : Commit(r)
    BY <1>1, OtherSteps
  <2>2. u = User(r)  BY <1>1, <2>1, Extended
  <2>3. Delta(Entry(r)) = Signed(Op(r), Posted(r)) /\ Entry(r).balanceAfter = entity[r].balance
    BY DEF Delta, Entry, TransactionRow
  <2> QED  BY <1>1, <2>1, <2>2, <2>3, Extended, CommitStep DEF PostedOnce
<1> QED  BY <1>1, InductiveInvariant, PTL DEF Spec, Safety, PostingIsAtomic

\* A locked wallet takes nothing but refunds.
THEOREM LockedOnlyRefunds == Spec => LockedTakesOnlyRefunds
<1>1. ASSUME IInv, [Next]_vars
      PROVE  [\A u \in Users :
                 transactions'[u] # transactions[u] /\ wallets[u].isLocked =>
                     transactions'[u][Len(transactions'[u])].op = "refund"]_vars
  <2> SUFFICES ASSUME NEW u \in Users, transactions'[u] # transactions[u], wallets[u].isLocked
               PROVE  transactions'[u][Len(transactions'[u])].op = "refund"
    OBVIOUS
  <2>1. PICK r \in Requests : Commit(r)
    BY <1>1, OtherSteps
  <2>2. u = User(r)  BY <1>1, <2>1, Extended
  <2>3. Entry(r).op = Op(r)  BY DEF Entry, TransactionRow
  <2> QED  BY <1>1, <2>1, <2>2, <2>3, Extended, CommitStep
<1> QED  BY <1>1, InductiveInvariant, PTL DEF Spec, Safety, LockedTakesOnlyRefunds
-----------------------------------------------------------------------------
(* Without the administrator's saves the wallets are the ledger. *)

NoAdministrator == Ops \cap AdminOps = {}

\* A request has left an entry only once it has committed.
EntriesCommitted ==
    \A u \in Users : \A i \in 1..Len(transactions[u]) :
        \A r \in Requests : transactions[u][i].ref = r => pc[r] \in {"done", "unknown"}

LEMMA NoOverwrite ==
    ASSUME NoAdministrator, IInv, NEW r \in Requests
    PROVE  ~Overwrite(r)
BY UserInUsers DEF NoAdministrator, IInv, CallsMade, Overwrite

LEMMA InitHistories == Init => HistoryExplainsBalance /\ EntriesCommitted
<1> SUFFICES ASSUME Init, NEW u \in Users
             PROVE  /\ Chained(transactions[u])
                    /\ ReportedBalance(transactions[u]) = Balance(u)
                    /\ \A i \in 1..Len(transactions[u]) : transactions[u][i].ref = None
  BY NoneAssumption DEF HistoryExplainsBalance, EntriesCommitted, Balance
<1>1. Chained(<<>>) /\ ReportedBalance(<<>>) = 0
  BY DEF Chained, ReportedBalance
<1>2. CASE wallets[u] = NoWallet
  <2>1. transactions[u] = <<>>  BY <1>2 DEF Init
  <2> QED  BY <1>1, <1>2, <2>1 DEF Balance
<1>3. CASE wallets[u] # NoWallet
  <2>1. PICK b \in OpeningBalances, l \in BOOLEAN : wallets[u] = OpeningRow(b, l)
    BY <1>3 DEF Init
  <2>2. Balance(u) = b /\ b \in Nat
    BY <1>3, <2>1, OpeningAssumption DEF Balance, OpeningRow
  <2>3. transactions[u] = OpeningHistory(b)
    BY <1>3, <2>1 DEF Init, OpeningRow
  <2>4. CASE b = 0
    BY <1>1, <2>2, <2>3, <2>4 DEF OpeningHistory
  <2>5. CASE b # 0
    <3> DEFINE t == TransactionRow(None, "add", b, b)
    <3>1. transactions[u] = <<t>>  BY <2>3, <2>5 DEF OpeningHistory
    <3>2. t.balanceAfter = b /\ Delta(t) = b /\ t.ref = None
      BY DEF TransactionRow, Delta, Signed, CreditOps
    <3> HIDE DEF t
    <3> QED  BY <2>2, <3>1, <3>2 DEF Chained, ReportedBalance
  <2> QED  BY <2>4, <2>5
<1> QED  BY <1>2, <1>3

\* An outcome is final.
LEMMA EndedStays ==
    ASSUME TypeOK, [Next]_vars, NEW q \in Requests, pc[q] \in {"done", "unknown"}
    PROVE  pc'[q] = pc[q]
<1> USE DEF Goto, InTransaction, OutOfTransaction, Holding, TypeOK
<1>1. ASSUME NEW r \in Requests,
             \/ Call(r) \/ LockRow(r) \/ RowMissing(r) \/ ReadSetting(r) \/ SaveBoth(r)
             \/ Reload(r)
      PROVE  pc'[q] = pc[q]
  BY <1>1 DEF Call, LockRow, RowMissing, ReadSetting, SaveBoth, Reload
<1>2. ASSUME NEW r \in Requests, Commit(r) \/ Rollback(r) \/ Overwrite(r)
      PROVE  pc'[q] = pc[q]
  <2>1. r # q /\ \E outcome : Leave(r, outcome)
    BY <1>2 DEF Commit, Rollback, Overwrite
  <2> QED  BY <2>1, OthersLeft
<1>3. ASSUME NEW r \in Requests, Find(r) \/ Insert(r) PROVE pc'[q] = pc[q]
  <2>1. r # q  BY <1>3 DEF Find, Insert
  <2>2. \/ \E w : WalletFound(r, w)
        \/ Leave(r, "failed")
        \/ \E label : Goto(r, label)
    BY <1>3 DEF Find, Insert
  <2> QED  BY <2>1, <2>2, OthersFound, OthersLeft
<1>4. ASSUME NEW r \in Requests, Fail(r) PROVE pc'[q] = pc[q]
  <2>1. r # q  BY <1>4 DEF Fail
  <2>2. Goto(r, "rollback") \/ Leave(r, "failed")  BY <1>4 DEF Fail
  <2> QED  BY <2>1, <2>2, OthersLeft
<1>5. CASE Configure \/ UNCHANGED vars
  BY <1>5 DEF Configure, vars, locals
<1>6. CASE Crash
  BY <1>6 DEF Crash, Active
<1> QED
  BY <1>1, <1>2, <1>3, <1>4, <1>5, <1>6 DEF Next, Progress

LEMMA NextHistories ==
    ASSUME NoAdministrator, IInv, HistoryExplainsBalance, EntriesCommitted, [Next]_vars
    PROVE  HistoryExplainsBalance' /\ EntriesCommitted'
<1>0. TypeOK  BY DEF IInv
<1>1. ASSUME NEW u \in Users
      PROVE  Chained(transactions[u]) /\ ReportedBalance(transactions[u]) = Balance(u)
  BY DEF HistoryExplainsBalance, Balance
<1>2. ASSUME NEW q \in Requests, pc[q] \in {"done", "unknown"}
      PROVE  pc'[q] = pc[q]
  BY <1>0, <1>2, EndedStays
<1>3. CASE \E r \in Requests : Commit(r)
  <2>1. PICK r \in Requests : Commit(r)  BY <1>3
  <2>2. pc'[r] \in {"done", "unknown"}
    BY <1>0, <2>1 DEF Commit, Leave, Goto, TypeOK
  <2>3. Entry(r).ref = r /\ Entry(r).balanceAfter = entity[r].balance
          /\ Delta(Entry(r)) = Signed(Op(r), Posted(r))
    BY DEF Entry, TransactionRow, Delta
  <2>4. ASSUME NEW u \in Users, u # User(r)
        PROVE  transactions'[u] = transactions[u] /\ Balance(u)' = Balance(u)
    BY <2>1, <2>4, Extended DEF Balance
  <2>5. /\ transactions[User(r)] \in Seq(TransactionRows)
        /\ transactions'[User(r)] = Append(transactions[User(r)], Entry(r))
        /\ Entry(r) \in TransactionRows
        /\ Balance(User(r)) = wallets[User(r)].balance
        /\ \A u \in Users : u = User(r) => Balance(u)' = entity[r].balance
        /\ User(r) \in Users
    <3>1. User(r) \in Users /\ Entry(r) \in TransactionRows
            /\ wallets[User(r)] # NoWallet /\ entity[r] # NoWallet
      BY <2>1, CommitStep
    <3>2. transactions[User(r)] \in Seq(TransactionRows)
      BY <1>0, <3>1 DEF TypeOK, TransactionRows
    <3>3. transactions'[User(r)] = Append(transactions[User(r)], Entry(r))
            /\ wallets'[User(r)] = entity[r]
      BY <2>1, <3>1, Extended
    <3> QED  BY <3>1, <3>2, <3>3 DEF Balance
  <2>6. /\ Chained(transactions'[User(r)])
        /\ ReportedBalance(transactions'[User(r)]) = entity[r].balance
    <3>1. Entry(r).balanceAfter = ReportedBalance(transactions[User(r)]) + Delta(Entry(r))
      <4>1. ReportedBalance(transactions[User(r)]) = wallets[User(r)].balance
        BY <1>1, <2>5
      <4>2. entity[r].balance = wallets[User(r)].balance + Signed(Op(r), Posted(r))
        BY <2>1, CommitStep
      <4> QED  BY <2>3, <4>1, <4>2
    <3> QED  BY <1>1, <2>3, <2>5, <3>1, ChainedAppend
  <2>7. HistoryExplainsBalance'
    <3>1. ASSUME NEW u \in Users
          PROVE  Chained(transactions'[u]) /\ ReportedBalance(transactions'[u]) = Balance(u)'
      <4>1. CASE u = User(r)  BY <2>5, <2>6, <4>1
      <4>2. CASE u # User(r)  BY <1>1, <2>4, <4>2
      <4> QED  BY <4>1, <4>2
    <3> QED  BY <3>1 DEF HistoryExplainsBalance, Balance
  <2>8. EntriesCommitted'
    <3> SUFFICES ASSUME NEW u \in Users, NEW i \in 1..Len(transactions'[u]), NEW q \in Requests,
                        transactions'[u][i].ref = q
                 PROVE  pc'[q] \in {"done", "unknown"}
      BY DEF EntriesCommitted
    <3>1. CASE u = User(r) /\ i = Len(transactions[u]) + 1
      <4>1. transactions'[u][i] = Entry(r)  BY <2>5, <3>1
      <4> QED  BY <2>2, <2>3, <4>1
    <3>2. CASE ~(u = User(r) /\ i = Len(transactions[u]) + 1)
      <4>1. i \in 1..Len(transactions[u]) /\ transactions'[u][i] = transactions[u][i]
        <5>1. CASE u # User(r)  BY <2>4, <5>1
        <5>2. CASE u = User(r)
          <6> DEFINE h == transactions[u]
                     t == Entry(r)
          <6>1. h \in Seq(TransactionRows) /\ t \in TransactionRows
                  /\ transactions'[u] = Append(h, t)
            BY <2>5, <5>2
          <6>2. i \in 1..Len(Append(h, t)) /\ i # Len(h) + 1
            BY <3>2, <5>2, <6>1
          <6> HIDE DEF h, t
          <6>3. i \in 1..Len(h) /\ Append(h, t)[i] = h[i]
            BY <6>1, <6>2
          <6> QED  BY <6>1, <6>3 DEF h
        <5> QED  BY <5>1, <5>2
      <4> QED  BY <1>2, <4>1 DEF EntriesCommitted
    <3> QED  BY <3>1, <3>2
  <2> QED  BY <2>7, <2>8
<1>4. CASE \A r \in Requests : ~Commit(r)
  <2>1. /\ transactions' = transactions
        /\ \A u \in Users : Balance(u)' = Balance(u)
    BY <1>4, OtherSteps, NoOverwrite
  <2>2. HistoryExplainsBalance'
    <3>1. ASSUME NEW u \in Users
          PROVE  Chained(transactions'[u]) /\ ReportedBalance(transactions'[u]) = Balance(u)'
      BY <1>1, <2>1
    <3> QED  BY <3>1 DEF HistoryExplainsBalance, Balance
  <2>3. EntriesCommitted'
    BY <1>2, <2>1 DEF EntriesCommitted
  <2> QED  BY <2>2, <2>3
<1> QED  BY <1>3, <1>4

THEOREM Histories ==
    ASSUME NoAdministrator
    PROVE  Spec => [](HistoryExplainsBalance /\ EntriesCommitted)
<1>1. Init => HistoryExplainsBalance /\ EntriesCommitted  BY InitHistories
<1>2. IInv /\ HistoryExplainsBalance /\ EntriesCommitted /\ [Next]_vars
        => HistoryExplainsBalance' /\ EntriesCommitted'
  BY NextHistories
<1> QED  BY <1>1, <1>2, InductiveInvariant, PTL DEF Spec, Safety

\* As long as nobody calls lockWallet or unlockWallet, every wallet's history
\* explains its balance.
THEOREM HistoryExplains ==
    ASSUME NoAdministrator
    PROVE  Spec => []HistoryExplainsBalance
BY Histories, PTL

\* The ledger's own copies of the money rules are the wallet's.
LEMMA SameRules ==
    /\ \A h : Account!Chained(h) = Chained(h)
    /\ \A h : Account!ReportedBalance(h) = ReportedBalance(h)
    /\ \A a, b, c, d : Account!TransactionRow(a, b, c, d) = TransactionRow(a, b, c, d)
    /\ Account!MoneyOps = MoneyOps
    /\ Account!CreditOps = CreditOps
    /\ Account!DebitOps = DebitOps
BY DEF Account!Chained, Chained, Account!ReportedBalance, ReportedBalance,
   Account!TransactionRow, TransactionRow, Account!MoneyOps, MoneyOps, Account!CreditOps,
   CreditOps, Account!DebitOps, DebitOps, Account!Delta, Delta, Account!Signed, Signed

\* What the operation posts is one of the ledger's values.
LEMMA PostedValue ==
    ASSUME IInv, NEW r \in Requests, pc[r] = "commit"
    PROVE  Posted(r) \in Values
<1>1. request[r] \in CallRow /\ Op(r) \in MoneyOps
  BY DEF IInv, CallsMade, InTransaction, Holding
<1>2. request[r].amount \in Amounts  BY <1>1 DEF CallRow
<1>3. /\ Op(r) = "pay" => setting[r] \in Percentages
      /\ Op(r) \in {"deduct", "refund"} => setting[r] \in MinBalances
  BY DEF IInv, CallsMade
<1>4. CASE Op(r) = "pay"
  BY <1>2, <1>3, <1>4 DEF Posted, PostedAmount, Values
<1>5. CASE Op(r) \in {"add", "withdraw"}
  BY <1>2, <1>5 DEF Posted, PostedAmount, Values
<1>6. CASE Op(r) \in {"deduct", "refund"}
  BY <1>3, <1>6 DEF Posted, PostedAmount, Values
<1> QED  BY <1>1, <1>4, <1>5, <1>6 DEF MoneyOps, CreditOps, DebitOps

LEMMA InitAccount == Init => Account!Init
<1> SUFFICES ASSUME Init PROVE Account!Init  OBVIOUS
<1>1. HistoryExplainsBalance /\ TypeOK
  BY InitHistories, InitIInv DEF IInv
<1>2. ASSUME NEW u \in Users
      PROVE  /\ Account!Chained(transactions[u])
             /\ Balance(u) = Account!ReportedBalance(transactions[u])
             /\ Frozen(u) \in BOOLEAN
  BY <1>1, SameRules DEF HistoryExplainsBalance, Balance, Frozen, TypeOK, WalletRow
<1>3. ASSUME NEW u \in Users, NEW i \in 1..Len(transactions[u])
      PROVE  transactions[u][i].ref \notin Requests
  <2>1. EntriesCommitted /\ \A r \in Requests : pc[r] = "idle"
    BY InitHistories DEF Init
  <2> QED  BY <2>1 DEF EntriesCommitted
<1> QED  BY <1>2, <1>3 DEF Account!Init, Balance, Frozen

\* A commit is the ledger's Post.
LEMMA CommitPosts ==
    ASSUME IInv, EntriesCommitted, NEW r \in Requests, Commit(r)
    PROVE  Account!Next
<1>0. TypeOK  BY DEF IInv
<1>1. PICK v \in Users, op \in MoneyOps, n \in Nat :
          v = User(r) /\ op = Op(r) /\ n = Posted(r)
  BY CommitStep
<1>2. /\ pc[r] = "commit"
      /\ wallets[v] # NoWallet /\ entity[r] # NoWallet
      /\ entity[r].balance = wallets[v].balance + Signed(op, n)
      /\ wallets[v].balance \in Nat
      /\ entity[r].isLocked = wallets[v].isLocked
      /\ wallets[v].isLocked => op = "refund"
      /\ op \in DebitOps => n <= wallets[v].balance
      /\ transactions' = [transactions EXCEPT ![v] = Append(@, Entry(r))]
      /\ Entry(r) = TransactionRow(r, op, n, entity[r].balance)
      /\ n \in Values
  BY <1>1, CommitStep, PostedValue DEF Entry
<1>3. ~Account!Posted(r)
  BY <1>2 DEF EntriesCommitted, Account!Posted
<1>4. ASSUME NEW u \in Users
      PROVE  /\ u # v => wallets'[u] = wallets[u]
             /\ u = v => wallets'[u] = entity[r]
  BY <1>1, Extended
<1> DEFINE bal == [u \in Users |-> IF wallets[u] = NoWallet THEN 0 ELSE wallets[u].balance]
           frz == [u \in Users |-> wallets[u] # NoWallet /\ wallets[u].isLocked]
<1>5. bal' = [bal EXCEPT ![v] = IF op \in CreditOps THEN @ + n ELSE @ - n]
  <2>1. ASSUME NEW u \in Users
        PROVE  bal'[u] = [bal EXCEPT ![v] = IF op \in CreditOps THEN @ + n ELSE @ - n][u]
    <3>1. CASE u # v  BY <1>4, <3>1
    <3>2. CASE u = v  BY <1>2, <1>4, <3>2 DEF Signed
    <3> QED  BY <3>1, <3>2
  <2> QED  BY <2>1
<1>6. frz' = frz
  <2>1. ASSUME NEW u \in Users PROVE frz'[u] = frz[u]
    BY <1>2, <1>4
  <2> QED  BY <2>1
<1>7. transactions' = [transactions EXCEPT ![v] = Append(@, TransactionRow(r, op, n, bal'[v]))]
  BY <1>2, <1>4
<1>8. (frz[v] => op = "refund") /\ (op \in DebitOps => n <= bal[v])
  BY <1>2
<1>9. Account!Post(r, v, op, n)
  BY <1>3, <1>5, <1>6, <1>7, <1>8, SameRules DEF Account!Post
<1> QED  BY <1>2, <1>9, SameRules DEF Account!Next

\* As long as nobody calls lockWallet or unlockWallet, the component implements
\* the ledger: commits post, every other step stutters.
THEOREM WalletImplementsLedger ==
    ASSUME NoAdministrator
    PROVE  Spec => ImplementsLedger
<1>1. Init => Account!Init  BY InitAccount
<1>2. ASSUME IInv, EntriesCommitted, [Next]_vars
      PROVE  [Account!Next]_(Account!vars)
  <2>1. CASE \E r \in Requests : Commit(r)
    BY <1>2, <2>1, CommitPosts
  <2>2. CASE \A r \in Requests : ~Commit(r)
    <3>1. /\ transactions' = transactions
          /\ \A u \in Users : Balance(u)' = Balance(u) /\ Frozen(u)' = Frozen(u)
      BY <1>2, <2>2, OtherSteps, NoOverwrite
    <3> QED  BY <3>1 DEF Account!vars, Balance, Frozen
  <2> QED  BY <2>1, <2>2
<1> QED
  BY <1>1, <1>2, InductiveInvariant, Histories, PTL
  DEF Spec, Safety, ImplementsLedger, Account!Spec
-----------------------------------------------------------------------------
(* What a caller is told, administrator or not. *)

\* What the outcome of a request says of its entries.  That a money operation
\* can only be done by committing needs to know that the reading operations and
\* the administrator's, which end without, are none.
OutcomeOK(r) ==
    /\ pc[r] \in OutOfTransaction => Op(r) \notin MoneyOps
    /\ pc[r] \notin {"done", "unknown"} => EntriesOf(r) = {}
    /\ pc[r] = "done" /\ Op(r) \in MoneyOps => EntriesOf(r) # {}
    /\ \A k, l \in EntriesOf(r) : k = l

OutcomeInv == \A r \in Requests : OutcomeOK(r)

LEMMA EntriesOfElement ==
    ASSUME NEW r, NEW k
    PROVE  k \in EntriesOf(r) <=>
              \E u \in Users : \E i \in DOMAIN transactions[u] :
                  k = <<u, i>> /\ transactions[u][i].ref = r
BY DEF EntriesOf

\* How the steps that are no commit move a request.
LEMMA OtherOutcomes ==
    ASSUME IInv, OutcomeInv, [Next]_vars, \A r \in Requests : ~Commit(r), NEW q \in Requests
    PROVE  /\ pc'[q] \in OutOfTransaction => Op(q)' \notin MoneyOps
           /\ pc'[q] = "done" /\ Op(q)' \in MoneyOps => pc[q] = "done" /\ Op(q)' = Op(q)
<1> DEFINE Moved(r) ==
              /\ pc'[r] \in OutOfTransaction => pc[r] \in OutOfTransaction
              /\ pc'[r] = "done" => pc[r] \in OutOfTransaction
              /\ request' = request
<1>0. TypeOK /\ OutcomeOK(q)
  BY DEF IInv, OutcomeInv
<1>1. CASE pc'[q] = pc[q] /\ request'[q] = request[q]
  BY <1>0, <1>1 DEF OutcomeOK, Op
<1>2. CASE Moved(q)
  BY <1>0, <1>2 DEF OutcomeOK, Op
<1> HIDE DEF Moved
<1>3. ASSUME NEW r \in Requests, Call(r)
      PROVE  /\ r # q => pc'[q] = pc[q] /\ request'[q] = request[q]
             /\ r = q => /\ pc'[q] \in {"begin", "find"}
                         /\ pc'[q] = "find" => Op(q)' \notin MoneyOps
  BY <1>0, <1>3 DEF Call, Goto, TypeOK, Op
<1>4. ASSUME NEW r \in Requests,
             \/ LockRow(r) \/ RowMissing(r) \/ ReadSetting(r) \/ SaveBoth(r) \/ Reload(r)
      PROVE  /\ r # q => pc'[q] = pc[q] /\ request'[q] = request[q]
             /\ r = q => Moved(q)
  BY <1>0, <1>4 DEF LockRow, RowMissing, ReadSetting, SaveBoth, Reload, Goto, TypeOK, Moved,
     OutOfTransaction
<1>5. ASSUME NEW r \in Requests, NEW outcome \in Ended, Leave(r, outcome),
             outcome = "done" => pc[r] \in OutOfTransaction, request' = request
      PROVE  /\ r # q => pc'[q] = pc[q] /\ request'[q] = request[q]
             /\ r = q => Moved(q)
  BY <1>0, <1>5 DEF Leave, Goto, TypeOK, Moved, OutOfTransaction, Ended
<1>6. ASSUME NEW r \in Requests, Rollback(r) \/ Overwrite(r) \/ Fail(r)
      PROVE  /\ r # q => pc'[q] = pc[q] /\ request'[q] = request[q]
             /\ r = q => Moved(q)
  <2>1. CASE Rollback(r)
    BY <1>5, <2>1 DEF Rollback, Ended
  <2>2. CASE Overwrite(r)
    BY <1>5, <2>2 DEF Overwrite, Ended, OutOfTransaction
  <2>3. CASE Fail(r) /\ pc[r] \in InTransaction
    BY <1>0, <2>3 DEF Fail, Goto, TypeOK, Moved, OutOfTransaction
  <2>4. CASE Fail(r) /\ pc[r] \notin InTransaction
    BY <1>5, <2>4 DEF Fail, Ended
  <2> QED  BY <1>6, <2>1, <2>2, <2>3, <2>4
<1>7. ASSUME NEW r \in Requests, Find(r) \/ Insert(r)
      PROVE  /\ r # q => pc'[q] = pc[q] /\ request'[q] = request[q]
             /\ r = q => Moved(q)
  <2>1. pc[r] \in OutOfTransaction /\ request' = request
    BY <1>7 DEF Find, Insert, OutOfTransaction
  <2>2. ASSUME NEW label \in {"create", "insert", "reload"}, Goto(r, label)
        PROVE  /\ r # q => pc'[q] = pc[q] /\ request'[q] = request[q]
               /\ r = q => Moved(q)
    BY <1>0, <2>1, <2>2 DEF Goto, TypeOK, Moved, OutOfTransaction
  <2>3. \/ \E label \in {"create", "insert", "reload"} : Goto(r, label)
        \/ \E outcome \in {"done", "failed"} : Leave(r, outcome)
    BY <1>7 DEF Find, Insert, WalletFound
  <2> QED  BY <1>5, <2>1, <2>2, <2>3 DEF Ended
<1>8. CASE Crash
  <2>1. pc'[q] \in {pc[q], "unknown"} /\ request' = request
    BY <1>8 DEF Crash
  <2> QED  BY <1>1, <1>2, <2>1 DEF Moved, OutOfTransaction
<1>9. CASE Configure \/ UNCHANGED vars
  BY <1>1, <1>9 DEF Configure, locals, vars
<1>10. ASSUME NEW r \in Requests, Call(r)
       PROVE  /\ pc'[q] \in OutOfTransaction => Op(q)' \notin MoneyOps
              /\ pc'[q] = "done" /\ Op(q)' \in MoneyOps => pc[q] = "done" /\ Op(q)' = Op(q)
  BY <1>1, <1>3, <1>10 DEF OutOfTransaction
<1> QED
  BY <1>1, <1>2, <1>4, <1>6, <1>7, <1>8, <1>9, <1>10 DEF Next, Progress

LEMMA InitOutcome == Init => OutcomeInv
<1> SUFFICES ASSUME Init, NEW r \in Requests PROVE OutcomeOK(r)
  BY DEF OutcomeInv
<1>1. pc[r] = "idle" /\ EntriesCommitted
  BY InitHistories DEF Init
<1>2. TypeOK
  BY InitIInv DEF IInv
<1>3. ASSUME NEW u \in Users PROVE DOMAIN transactions[u] = 1..Len(transactions[u])
  BY <1>2 DEF TypeOK
<1>4. EntriesOf(r) = {}
  BY <1>1, <1>3, EntriesOfElement DEF EntriesCommitted
<1> QED  BY <1>1, <1>4 DEF OutcomeOK, OutOfTransaction

LEMMA NextOutcome == IInv /\ OutcomeInv /\ [Next]_vars => OutcomeInv'
<1> SUFFICES ASSUME IInv, OutcomeInv, [Next]_vars, NEW q \in Requests PROVE OutcomeOK(q)'
  BY DEF OutcomeInv
<1>0. TypeOK /\ OutcomeOK(q)
  BY DEF IInv, OutcomeInv
<1>1. pc[q] \in {"done", "unknown"} => pc'[q] = pc[q]
  BY <1>0, EndedStays
<1>2. CASE \A r \in Requests : ~Commit(r)
  <2>1. EntriesOf(q)' = EntriesOf(q)
    BY <1>2, OtherSteps DEF EntriesOf
  <2>2. /\ pc'[q] \in OutOfTransaction => Op(q)' \notin MoneyOps
        /\ pc'[q] = "done" /\ Op(q)' \in MoneyOps => pc[q] = "done" /\ Op(q)' = Op(q)
    BY <1>2, OtherOutcomes
  <2> QED  BY <1>0, <1>1, <2>1, <2>2 DEF OutcomeOK
<1>3. ASSUME NEW r \in Requests, Commit(r) PROVE OutcomeOK(q)'
  <2>0. PICK v \in Users : v = User(r)
    BY <1>3, CommitStep
  <2>a. PICK t \in TransactionRows : t = Entry(r)
    BY <1>3, CommitStep
  <2>1. /\ transactions'[v] = Append(transactions[v], t) /\ t.ref = r
        /\ \A u \in Users \ {v} : transactions'[u] = transactions[u]
        /\ transactions[v] \in Seq(TransactionRows)
    BY <1>0, <1>3, <2>0, <2>a, Extended DEF Entry, TransactionRow, TypeOK, TransactionRows
  <2>2. /\ pc[r] = "commit" /\ pc'[r] \in {"done", "unknown"} /\ request' = request
        /\ q # r => pc'[q] = pc[q]
    BY <1>0, <1>3 DEF Commit, Leave, Goto, TypeOK
  <2> DEFINE last == Len(transactions[v]) + 1
  <2>3. /\ last \in DOMAIN transactions'[v] /\ transactions'[v][last] = t
        /\ \A i \in DOMAIN transactions[v] :
              i \in DOMAIN transactions'[v] /\ transactions'[v][i] = transactions[v][i]
        /\ \A i \in DOMAIN transactions'[v] : i \in DOMAIN transactions[v] \/ i = last
    BY <2>1
  <2> HIDE DEF last
  <2>4. CASE q # r
    <3>1. ASSUME NEW k PROVE k \in EntriesOf(q)' <=> k \in EntriesOf(q)
      <4>1. ASSUME NEW u \in Users, NEW i
            PROVE  i \in DOMAIN transactions'[u] /\ transactions'[u][i].ref = q
                     <=> i \in DOMAIN transactions[u] /\ transactions[u][i].ref = q
        BY <2>1, <2>3, <2>4
      <4> QED  BY <4>1, EntriesOfElement DEF EntriesOf
    <3>2. EntriesOf(q)' = EntriesOf(q)
      BY <3>1
    <3>3. Op(q)' = Op(q)
      BY <2>2 DEF Op
    <3> QED  BY <1>0, <2>2, <2>4, <3>2, <3>3 DEF OutcomeOK
  <2>5. CASE q = r
    <3>1. EntriesOf(r) = {}
      BY <1>0, <2>2, <2>5 DEF OutcomeOK
    <3>2. ASSUME NEW u \in Users, NEW i \in DOMAIN transactions'[u],
                 transactions'[u][i].ref = r
          PROVE  u = v /\ i = last
      <4>1. \A j \in DOMAIN transactions[u] : transactions[u][j].ref # r
        BY <3>1, EntriesOfElement
      <4> QED  BY <2>1, <2>3, <3>2, <4>1
    <3>3. EntriesOf(r)' = {<<v, last>>}
      BY <2>1, <2>3, <3>2 DEF EntriesOf
    <3> QED  BY <2>2, <2>5, <3>3 DEF OutcomeOK, OutOfTransaction
  <2> QED  BY <2>4, <2>5
<1> QED  BY <1>2, <1>3

\* Success is told for exactly one entry, an exception for none, and a lost
\* reply stands for at most one: through crashes, errors at any statement and
\* the administrator's saves.
THEOREM OutcomesInHistory == Spec => []OutcomeInHistory
<1>1. IInv /\ OutcomeInv => OutcomeInHistory
  <2> SUFFICES ASSUME OutcomeInv, NEW r \in Requests
               PROVE  /\ pc[r] = "done" /\ Op(r) \in MoneyOps => Cardinality(EntriesOf(r)) = 1
                      /\ pc[r] = "unknown" => Cardinality(EntriesOf(r)) <= 1
                      /\ pc[r] \notin {"done", "unknown"} => EntriesOf(r) = {}
    BY DEF OutcomeInHistory
  <2>1. OutcomeOK(r)
    BY DEF OutcomeInv
  <2>2. CASE EntriesOf(r) = {}
    <3>1. Cardinality(EntriesOf(r)) = 0
      BY <2>2, FS_EmptySet
    <3> QED  BY <2>1, <2>2, <3>1 DEF OutcomeOK
  <2>3. CASE EntriesOf(r) # {}
    <3>1. PICK k \in EntriesOf(r) : TRUE
      BY <2>3
    <3>2. EntriesOf(r) = {k}
      BY <2>1, <3>1 DEF OutcomeOK
    <3>3. Cardinality(EntriesOf(r)) = 1
      BY <3>2, FS_Singleton
    <3> QED  BY <2>1, <2>3, <3>3 DEF OutcomeOK
  <2> QED  BY <2>2, <2>3
<1> QED  BY <1>1, InitOutcome, NextOutcome, InductiveInvariant, PTL DEF Spec, Safety
-----------------------------------------------------------------------------
(* The lifetime totals are sums over the history. *)

\* s holds the running sums of h over its first n entries.  Wallet defines
\* SumOver by such a function; that one exists, and that it is determined by
\* the entries, are proved by a least counterexample.
IsSums(s, n, h, ops) ==
    s = [i \in 0..n |-> IF i = 0 THEN 0 ELSE s[i-1] + Counted(h[i], ops)]

\* A non-empty set of naturals has a least element.
LEMMA LeastNat ==
    ASSUME NEW T, T \subseteq Nat, T # {}
    PROVE  \E m \in T : \A n \in T : m <= n
<1>1. PICK m \in T : \A n \in T : ~ (<<n, m>> \in OpToRel(<, Nat))
  BY NatLessThanWellFounded, WFMin
<1>2. \A n \in T : ~ (n < m)
  BY <1>1, Zenon DEF OpToRel
<1>3. m \in Nat /\ \A n \in T : n \in Nat
  OBVIOUS
<1> QED  BY <1>2, <1>3

\* The running sums over the first n entries exist.
LEMMA SumsExist ==
    ASSUME NEW h, NEW ops, NEW n \in Nat
    PROVE  \E s : IsSums(s, n, h, ops)
<1> DEFINE T == {k \in Nat : \A s : ~IsSums(s, k, h, ops)}
<1>1. SUFFICES ASSUME T # {} PROVE FALSE
  OBVIOUS
<1>2. PICK m \in T : \A k \in T : m <= k
  BY <1>1, LeastNat
<1>3. m \in Nat /\ \A s : ~IsSums(s, m, h, ops)
  BY <1>2
<1>4. CASE m = 0
  <2>1. IsSums([i \in 0..0 |-> 0], 0, h, ops)
    BY DEF IsSums
  <2> QED  BY <1>3, <1>4, <2>1
<1>5. CASE m # 0
  <2>1. m - 1 \in Nat /\ m - 1 \notin T
    BY <1>2, <1>3, <1>5
  <2>2. PICK s : IsSums(s, m - 1, h, ops)
    BY <2>1
  <2> DEFINE g == [i \in 0..m |-> IF i = m THEN s[m-1] + Counted(h[m], ops) ELSE s[i]]
  <2>3. ASSUME NEW i \in 0..m
        PROVE  g[i] = IF i = 0 THEN 0 ELSE g[i-1] + Counted(h[i], ops)
    BY <1>3, <1>5, <2>2 DEF IsSums
  <2>4. g = [i \in 0..m |-> IF i = 0 THEN 0 ELSE g[i-1] + Counted(h[i], ops)]
    <3>1. g = [i \in 0..m |-> g[i]]  OBVIOUS
    <3> HIDE DEF g
    <3> QED BY <3>1, <2>3
  <2> HIDE DEF g
  <2> QED  BY <1>3, <2>4 DEF IsSums
<1> QED  BY <1>4, <1>5

\* Two histories that agree on their first n entries have the same running
\* sums there.
LEMMA SumsAgree ==
    ASSUME NEW g, NEW h, NEW ops, NEW m \in Nat, NEW n \in Nat, n <= m,
           NEW s, IsSums(s, m, g, ops), NEW z, IsSums(z, n, h, ops),
           \A i \in 1..n : g[i] = h[i]
    PROVE  s[n] = z[n]
<1> DEFINE T == {k \in 0..n : s[k] # z[k]}
<1>1. SUFFICES ASSUME T # {} PROVE FALSE
  OBVIOUS
<1>2. PICK k \in T : \A j \in T : k <= j
  <2>1. T \subseteq Nat  OBVIOUS
  <2> HIDE DEF T
  <2> QED  BY <1>1, <2>1, LeastNat
<1>3. k \in 0..n /\ s[k] # z[k]
  BY <1>2
<1>4. s[k] = IF k = 0 THEN 0 ELSE s[k-1] + Counted(g[k], ops)
  BY <1>3 DEF IsSums
<1>5. z[k] = IF k = 0 THEN 0 ELSE z[k-1] + Counted(h[k], ops)
  BY <1>3 DEF IsSums
<1>6. k # 0
  BY <1>3, <1>4, <1>5
<1>7. k - 1 \in 0..n /\ k - 1 \notin T
  BY <1>2, <1>3, <1>6
<1> QED  BY <1>3, <1>4, <1>5, <1>6, <1>7

\* The sum over a history is the last of its running sums.
LEMMA SumOverIs ==
    ASSUME NEW h, NEW ops, Len(h) \in Nat, NEW s, IsSums(s, Len(h), h, ops)
    PROVE  SumOver(h, ops) = s[Len(h)]
<1> DEFINE z == CHOOSE z : IsSums(z, Len(h), h, ops)
<1>1. IsSums(z, Len(h), h, ops)
  OBVIOUS
<1>2. SumOver(h, ops) = z[Len(h)]
  BY DEF SumOver, IsSums
<1> HIDE DEF z
<1> QED  BY <1>1, <1>2, SumsAgree

\* An entry adds its amount to the sums that count it.
LEMMA SumOverAppend ==
    ASSUME NEW S, NEW h \in Seq(S), NEW t \in S, NEW ops
    PROVE  SumOver(Append(h, t), ops) = SumOver(h, ops) + Counted(t, ops)
<1> DEFINE g == Append(h, t)
           n == Len(h)
<1>1. n \in Nat /\ Len(g) = n + 1 /\ g[n+1] = t /\ \A i \in 1..n : g[i] = h[i]
  OBVIOUS
<1> HIDE DEF g, n
<1>2. n + 1 \in Nat /\ \E s : IsSums(s, n + 1, g, ops)
  <2>1. n + 1 \in Nat  BY <1>1
  <2> QED  BY <2>1, SumsExist
<1>8. PICK s : IsSums(s, n + 1, g, ops)
  BY <1>2
<1>3. PICK z : IsSums(z, n, h, ops)
  BY <1>1, SumsExist
<1>4. s[n] = z[n]
  BY <1>1, <1>2, <1>3, <1>8, SumsAgree
<1>5. s[n+1] = s[n] + Counted(t, ops)
  BY <1>1, <1>8 DEF IsSums
<1>6. SumOver(g, ops) = s[n+1]
  BY <1>1, <1>2, <1>8, SumOverIs
<1>7. SumOver(h, ops) = z[n]
  BY <1>1, <1>3, SumOverIs DEF n
<1> QED  BY <1>4, <1>5, <1>6, <1>7 DEF g

LEMMA SumOverNone ==
    ASSUME NEW ops
    PROVE  SumOver(<<>>, ops) = 0
<1>1. PICK s : IsSums(s, 0, <<>>, ops)
  BY SumsExist
<1>2. s[0] = 0
  BY <1>1 DEF IsSums
<1>3. Len(<<>>) = 0
  OBVIOUS
<1> QED  BY <1>1, <1>2, <1>3, SumOverIs

\* A user without a wallet has no history, and the totals of a wallet are what
\* its history adds up to.
TotalsOK(u) ==
    IF wallets[u] = NoWallet
    THEN transactions[u] = <<>>
    ELSE /\ wallets[u].totalEarnings = Total(u, {"add", "pay"})
         /\ wallets[u].totalWithdrawals = Total(u, {"withdraw"})

TotalsInv == \A u \in Users : TotalsOK(u)

\* What an operation adds to the totals is what its entry counts for in them.
LEMMA PostedTotals ==
    ASSUME NEW op \in MoneyOps, NEW w \in WalletRow, NEW n \in Nat
    PROVE  /\ PostedWallet(op, w, n).totalEarnings =
                  w.totalEarnings + (IF op \in {"add", "pay"} THEN n ELSE 0)
           /\ PostedWallet(op, w, n).totalWithdrawals =
                  w.totalWithdrawals + (IF op \in {"withdraw"} THEN n ELSE 0)
<1> DEFINE x == w.balance + Signed(op, n)
           y == w.totalEarnings + (IF op \in {"add", "pay"} THEN n ELSE 0)
           z == w.totalWithdrawals + (IF op = "withdraw" THEN n ELSE 0)
<1>1. PostedWallet(op, w, n) = [w EXCEPT !.balance = x, !.totalEarnings = y,
                                         !.totalWithdrawals = z]
  BY DEF PostedWallet
<1> HIDE DEF x, y, z
<1>2. LET v == [w EXCEPT !.balance = x, !.totalEarnings = y, !.totalWithdrawals = z]
      IN  v.totalEarnings = y /\ v.totalWithdrawals = z
  BY DEF WalletRow
<1>3. z = w.totalWithdrawals + (IF op \in {"withdraw"} THEN n ELSE 0)
  BY DEF z
<1> QED  BY <1>1, <1>2, <1>3 DEF y

LEMMA InitTotals == Init => TotalsInv
<1> SUFFICES ASSUME Init, NEW u \in Users PROVE TotalsOK(u)
  BY DEF TotalsInv
<1>1. CASE wallets[u] = NoWallet
  BY <1>1 DEF Init, TotalsOK
<1>2. CASE wallets[u] # NoWallet
  <2>1. PICK b \in OpeningBalances, l \in BOOLEAN : wallets[u] = OpeningRow(b, l)
    BY <1>2 DEF Init
  <2>2. /\ b \in Nat /\ wallets[u].totalEarnings = b /\ wallets[u].totalWithdrawals = 0
        /\ transactions[u] = OpeningHistory(b)
    BY <1>2, <2>1, OpeningAssumption DEF OpeningRow, Init
  <2>3. Total(u, {"add", "pay"}) = b /\ Total(u, {"withdraw"}) = 0
    <3>1. CASE b = 0
      BY <2>2, <3>1, SumOverNone DEF OpeningHistory, Total
    <3>2. CASE b # 0
      <4> DEFINE t == TransactionRow(None, "add", b, b)
      <4>1. Counted(t, {"add", "pay"}) = b /\ Counted(t, {"withdraw"}) = 0
        BY DEF Counted, TransactionRow
      <4>2. transactions[u] = <<t>>
        BY <2>2, <3>2 DEF OpeningHistory
      <4> HIDE DEF t
      <4>3. <<>> \in Seq({t}) /\ <<t>> = Append(<<>>, t)
        OBVIOUS
      <4>4. ASSUME NEW ops PROVE SumOver(<<t>>, ops) = Counted(t, ops) + 0
        <5>1. SumOver(<<t>>, ops) = SumOver(<<>>, ops) + Counted(t, ops)
          BY <4>3, SumOverAppend
        <5>2. Counted(t, ops) \in Nat
          BY <2>2 DEF Counted, TransactionRow, t
        <5> QED  BY <5>1, <5>2, SumOverNone
      <4> QED  BY <2>2, <4>1, <4>2, <4>4 DEF Total
    <3> QED  BY <3>1, <3>2
  <2> QED  BY <1>2, <2>2, <2>3 DEF TotalsOK
<1> QED  BY <1>1, <1>2

\* Without the administrator's saves a step that is no commit leaves a wallet
\* as it is, or creates an empty one.
LEMMA OtherWallets ==
    ASSUME NoAdministrator, IInv, [Next]_vars, \A r \in Requests : ~Commit(r), NEW u \in Users
    PROVE  \/ wallets'[u] = wallets[u]
           \/ wallets[u] = NoWallet /\ wallets'[u] = FreshWallet
<1>0. TypeOK
  BY DEF IInv
<1>1. ASSUME NEW r \in Requests, Insert(r)
      PROVE  \/ wallets'[u] = wallets[u]
             \/ wallets[u] = NoWallet /\ wallets'[u] = FreshWallet
  BY <1>0, <1>1 DEF Insert, TypeOK
<1>2. CASE wallets' = wallets
  BY <1>2
<1> QED
  BY <1>1, <1>2, NoOverwrite DEF Next, Progress, Call, LockRow, RowMissing, ReadSetting,
     SaveBoth, Rollback, Find, Reload, Fail, Configure, Crash, vars, database

LEMMA NextTotals ==
    ASSUME NoAdministrator, IInv, TotalsInv, [Next]_vars
    PROVE  TotalsInv'
<1> SUFFICES ASSUME NEW u \in Users PROVE TotalsOK(u)'
  BY DEF TotalsInv
<1>0. TypeOK /\ TotalsOK(u)
  BY DEF IInv, TotalsInv
<1>1. CASE \A r \in Requests : ~Commit(r)
  <2>1. transactions' = transactions
    BY <1>1, OtherSteps
  <2>2. CASE wallets'[u] = wallets[u]
    BY <1>0, <2>1, <2>2 DEF TotalsOK, Total
  <2>3. CASE wallets[u] = NoWallet /\ wallets'[u] = FreshWallet
    <3>1. Total(u, {"add", "pay"})' = 0 /\ Total(u, {"withdraw"})' = 0
      BY <1>0, <2>1, <2>3, SumOverNone DEF TotalsOK, Total
    <3> QED  BY <2>3, <3>1 DEF TotalsOK, FreshWallet, NoWallet
  <2> QED  BY <1>1, <2>2, <2>3, OtherWallets
<1>2. ASSUME NEW r \in Requests, Commit(r) PROVE TotalsOK(u)'
  <2>1. CASE u # User(r)
    <3>1. wallets'[u] = wallets[u] /\ transactions'[u] = transactions[u]
      BY <1>2, <2>1, Extended
    <3> QED  BY <1>0, <3>1 DEF TotalsOK, Total
  <2>2. CASE u = User(r)
    <3>1. PICK op \in MoneyOps, n \in Nat, t \in TransactionRows :
              op = Op(r) /\ n = Posted(r) /\ t = Entry(r)
      BY <1>2, CommitStep
    <3>2. /\ transactions[u] \in Seq(TransactionRows)
          /\ transactions'[u] = Append(transactions[u], t)
          /\ wallets'[u] = entity[r]
          /\ wallets[u] \in WalletRow /\ wallets[u] # NoWallet /\ wallets'[u] # NoWallet
      <4>1. wallets[u] # NoWallet /\ entity[r] # NoWallet
        BY <1>2, <2>2, CommitStep
      <4> QED  BY <1>0, <1>2, <2>2, <3>1, <4>1, Extended DEF TypeOK, TransactionRows
    <3>3. entity[r] = PostedWallet(op, wallets[u], n)
      BY <1>2, <2>2, <3>1
      DEF Commit, IInv, HolderCopyCurrent, HolderIsCurrent, Holding
    <3>4. ASSUME NEW ops
          PROVE  /\ SumOver(transactions'[u], ops) = SumOver(transactions[u], ops) + Counted(t, ops)
                 /\ Counted(t, ops) = IF op \in ops THEN n ELSE 0
      <4>1. t.op = op /\ t.amount = n
        BY <3>1 DEF Entry, TransactionRow
      <4> QED  BY <3>2, <4>1, SumOverAppend DEF Counted
    <3>5. /\ wallets'[u].totalEarnings =
               wallets[u].totalEarnings + (IF op \in {"add", "pay"} THEN n ELSE 0)
          /\ wallets'[u].totalWithdrawals =
               wallets[u].totalWithdrawals + (IF op \in {"withdraw"} THEN n ELSE 0)
      BY <3>2, <3>3, PostedTotals
    <3>6. /\ wallets[u].totalEarnings = SumOver(transactions[u], {"add", "pay"})
          /\ wallets[u].totalWithdrawals = SumOver(transactions[u], {"withdraw"})
      BY <1>0, <3>2 DEF TotalsOK, Total
    <3>7. /\ wallets'[u].totalEarnings = SumOver(transactions'[u], {"add", "pay"})
          /\ wallets'[u].totalWithdrawals = SumOver(transactions'[u], {"withdraw"})
      BY <3>4, <3>5, <3>6
    <3> QED  BY <3>2, <3>7 DEF TotalsOK, Total
  <2> QED  BY <2>1, <2>2
<1> QED  BY <1>1, <1>2

\* As long as nobody calls lockWallet or unlockWallet, the lifetime totals of
\* every wallet are what its history adds up to.
THEOREM TotalsAddUp ==
    ASSUME NoAdministrator
    PROVE  Spec => []TotalsMatchHistory
<1>1. IInv /\ TotalsInv /\ [Next]_vars => TotalsInv'
  BY NextTotals
<1>2. TotalsInv => TotalsMatchHistory
  BY DEF TotalsInv, TotalsOK, TotalsMatchHistory
<1> QED  BY <1>1, <1>2, InitTotals, InductiveInvariant, PTL DEF Spec, Safety
=============================================================================
