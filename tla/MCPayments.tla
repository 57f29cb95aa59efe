----------------------------- MODULE MCPayments -----------------------------
(***************************************************************************)
(* Payments for TLC: three slots, none of which does everything.           *)
(***************************************************************************)
EXTENDS Payments, TLC

CONSTANTS r1, r2, r3

\* One slot more than those whose calls wait at a wallet's row: two deliveries
\* overlap, two calls for an account, and a save with a money operation.
MCServes == (r1 :> {"hook", "pay", "account"}) @@ (r2 :> {"hook", "write"})
            @@ (r3 :> {"account", "read"})
MCTickets == Slots \X {"own", "extra"}
=============================================================================
