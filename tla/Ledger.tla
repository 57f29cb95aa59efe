------------------------------- MODULE Ledger -------------------------------
(***************************************************************************)
(* What the wallet component promises, without rows, locks, transactions,  *)
(* failures or retries: an account per user whose history explains its     *)
(* balance.  A request posts at most one entry, in one indivisible step;   *)
(* no debit overdraws the account; a frozen account takes refunds only.    *)
(* A user without a wallet has an empty account.                           *)
(***************************************************************************)
EXTENDS WalletRules

CONSTANTS
    Users,
    Requests,
    Values       \* the amounts that may be posted

VARIABLES
    balance,     \* user -> balance of the account
    history,     \* user -> its entries, oldest first
    frozen       \* user -> whether an administrator has frozen it

vars == <<balance, history, frozen>>

Init ==
    /\ \A u \in Users : Chained(history[u]) /\ balance[u] = ReportedBalance(history[u])
    /\ \A u \in Users : \A i \in 1..Len(history[u]) : history[u][i].ref \notin Requests
    /\ frozen \in [Users -> BOOLEAN]

Posted(r) == \E u \in Users : \E i \in 1..Len(history[u]) : history[u][i].ref = r

Post(r, u, op, n) ==
    /\ ~Posted(r)
    /\ frozen[u] => op = "refund"
    /\ op \in DebitOps => n <= balance[u]
    /\ balance' = [balance EXCEPT ![u] = IF op \in CreditOps THEN @ + n ELSE @ - n]
    /\ history' = [history EXCEPT ![u] =
            Append(@, TransactionRow(r, op, n, balance'[u]))]
    /\ UNCHANGED frozen

Freeze(u) ==
    /\ frozen' = [frozen EXCEPT ![u] = ~@]
    /\ UNCHANGED <<balance, history>>

Next ==
    \/ \E r \in Requests, u \in Users, op \in MoneyOps, n \in Values : Post(r, u, op, n)
    \/ \E u \in Users : Freeze(u)

Spec == Init /\ [][Next]_vars
=============================================================================
