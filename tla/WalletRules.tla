---------------------------- MODULE WalletRules ----------------------------
(***************************************************************************)
(* The money rules of src/src/wallet/wallet.service.ts: what each of its   *)
(* five transactional operations posts to a wallet, when it refuses, and   *)
(* what the rows of the tables "wallets" and "transactions" hold.  Pure    *)
(* operators; Wallet.tla and Orders.tla say when they are applied.         *)
(*                                                                         *)
(* Amounts are whole kobo (decimal(12,2) columns), so a sum is exact; only *)
(* the commission is rounded, as the column rounds it on write.            *)
(***************************************************************************)
EXTENDS Integers, Sequences

\* addFunds, processOrderPayment, refundSecurityDeposit
CreditOps == {"add", "pay", "refund"}
\* withdrawFunds, deductSecurityDeposit
DebitOps == {"withdraw", "deduct"}
MoneyOps == CreditOps \cup DebitOps

\* The operations that read a setting inside their transaction.
ConfiguredOps == {"pay", "deduct", "refund"}

NoWallet == [exists |-> FALSE]

WalletRow ==
    [exists : {TRUE}, balance : Int, totalEarnings : Int,
     totalWithdrawals : Int, isLocked : BOOLEAN]

\* What createWallet inserts.
FreshWallet ==
    [exists |-> TRUE, balance |-> 0, totalEarnings |-> 0,
     totalWithdrawals |-> 0, isLocked |-> FALSE]

\* Faulty variant: the subtraction the wrong way round.
EarningsSwapped(amount, percentage) ==
    (2 * (amount * (percentage - 100)) + 100) \div 200

\* amount - commission, rounded half up to the kobo as decimal(12,2) stores it.
Earnings(amount, percentage) == (2 * (amount * (100 - percentage)) + 100) \div 200

\* The amount the operation's transaction row carries.  A deposit and its
\* refund move the configured minimum balance, whatever the caller passed.
PostedAmount(op, amount, setting) ==
    CASE op \in {"add", "withdraw"} -> amount
      [] op = "pay"                 -> Earnings(amount, setting)
      [] op \in {"deduct", "refund"} -> setting

\* Of the money operations only the refund ignores the administrator's lock.
RefusesLocked(op, wallet) == wallet.isLocked /\ op # "refund"

\* Faulty variant: the balance is not compared.
InsufficientNever(op, wallet, posted) == FALSE

\* withdrawFunds compares the balance with the amount, deductSecurityDeposit
\* with the configured minimum, which is the deposit it takes.
Insufficient(op, wallet, posted) == op \in DebitOps /\ wallet.balance < posted

\* What the operation does to the balance.
Signed(op, posted) == IF op \in CreditOps THEN posted ELSE 0 - posted

\* Faulty variant: a refunded deposit is counted as earnings.
PostedWalletRefundEarns(op, wallet, posted) ==
    [wallet EXCEPT
        !.balance = @ + Signed(op, posted),
        !.totalEarnings = @ + (IF op \in CreditOps THEN posted ELSE 0),
        !.totalWithdrawals = @ + (IF op = "withdraw" THEN posted ELSE 0)]

\* The wallet row after the operation: the in-memory assignments that precede
\* manager.save(wallet).  Only top-ups and payments are earnings, only
\* withdrawals are withdrawals.
PostedWallet(op, wallet, posted) ==
    [wallet EXCEPT
        !.balance = @ + Signed(op, posted),
        !.totalEarnings = @ + (IF op \in {"add", "pay"} THEN posted ELSE 0),
        !.totalWithdrawals = @ + (IF op = "withdraw" THEN posted ELSE 0)]

\* The columns of a transaction row that properties tell apart: whom it is
\* for (ref: the call it answers, or the order it pays), its operation (which
\* fixes type and description), its amount and the balance it reports.
TransactionRow(ref, op, posted, newBalance) ==
    [ref |-> ref, op |-> op, amount |-> posted, balanceAfter |-> newBalance]

Delta(t) == Signed(t.op, t.amount)

\* The balance a wallet's transaction history reports.
ReportedBalance(history) ==
    IF history = <<>> THEN 0 ELSE history[Len(history)].balanceAfter

\* Every entry continues from the balance reported by the one before it.
Chained(history) ==
    \A i \in 1..Len(history) :
        history[i].balanceAfter =
            (IF i = 1 THEN 0 ELSE history[i-1].balanceAfter) + Delta(history[i])
=============================================================================
