----------------------------- MODULE MCSessions -----------------------------
(***************************************************************************)
(* A small instance of Sessions for TLC.                                   *)
(***************************************************************************)
EXTENDS Sessions, TLC

\* Tokens, devices and slots are interchangeable.
Perms == Permutations(Persons) \cup Permutations(Tokens) \cup Permutations(Devices) \cup Permutations(Slots)
=============================================================================
