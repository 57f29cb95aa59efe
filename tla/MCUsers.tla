------------------------------ MODULE MCUsers ------------------------------
(***************************************************************************)
(* Users for TLC.  Nothing tells two ids, addresses, codes or slots apart. *)
(***************************************************************************)
EXTENDS Users, TLC

Perms == Permutations(Ids) \cup Permutations(Emails) \cup Permutations(Codes)
         \cup Permutations(Slots)
=============================================================================
