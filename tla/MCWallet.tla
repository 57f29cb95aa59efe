------------------------------ MODULE MCWallet ------------------------------
(***************************************************************************)
(* Small instances of Wallet for TLC.  Requests are single-use, so their   *)
(* number bounds every history; everything else is finite by its constant. *)
(***************************************************************************)
EXTENDS Wallet, TLC

\* Every operation but the administrator's saves.
MoneyAndReads == MoneyOps \cup ReadOps

\* Requests are interchangeable: nothing orders them and no one is named.
Perms == Permutations(Requests)
=============================================================================
