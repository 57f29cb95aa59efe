------------------------------ MODULE TypeORM ------------------------------
(***************************************************************************)
(* External: what repository.save(entity) of the TypeORM library does to   *)
(* one column of an existing row.  save reads the row again, and then      *)
(* issues an UPDATE of the columns in which the entity in memory differs   *)
(* from what was just read; the row may have changed between these two     *)
(* steps, and since the entity was first loaded.                           *)
(***************************************************************************)

\* mine: the value in the entity; seen: the value save read again; row: the
\* value in the table when the UPDATE runs.
Column(mine, seen, row) == IF mine # seen THEN mine ELSE row
=============================================================================
