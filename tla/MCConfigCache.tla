--------------------------- MODULE MCConfigCache ---------------------------
(***************************************************************************)
(* A small instance of ConfigCache for TLC.                                *)
(***************************************************************************)
EXTENDS ConfigCache, TLC

\* Rows and slots are interchangeable.
Perms == Permutations(Ids) \cup Permutations(Slots)
=============================================================================
