--------------------------- MODULE MCNotifications ---------------------------
(***************************************************************************)
(* Notifications for TLC.                                                  *)
(***************************************************************************)
EXTENDS Notifications, TLC

Perms == Permutations(Sockets) \cup Permutations(Slots) \cup Permutations(Latitudes)
=============================================================================
