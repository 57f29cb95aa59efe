------------------------------ MODULE MCOrders ------------------------------
(***************************************************************************)
(* Small instances of Orders.tla for TLC.                                  *)
(***************************************************************************)
EXTENDS Orders, TLC

\* Drivers are interchangeable, and so are the slots.
Perms == Permutations(Drivers) \cup Permutations(Slots)
=============================================================================
