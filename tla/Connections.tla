----------------------------- MODULE Connections -----------------------------
(***************************************************************************)
(* The pool of database connections every service of the program draws     *)
(* from (src/src/database/database.module.ts).  TypeORM's driver and pg's  *)
(* pool are external, modelled from how the services use them: a query of  *)
(* a repository takes a connection and gives it back; a query runner keeps *)
(* one from connect() to release().  Who finds none free waits in line, in *)
(* order and without a timeout.                                            *)
(*                                                                         *)
(* The pool has `size` connections (pg's default is 10, and nothing in     *)
(* src/ sets another).  A connection whose holder forgets it is lost until  *)
(* the process restarts.                                                   *)
(***************************************************************************)
EXTENDS Naturals, FiniteSets, Sequences

CONSTANTS
    Tickets,     \* what connections are asked for
    Sizes,       \* the sizes a pool may have
    MaxLost      \* bound: connections lost between two restarts

ASSUME SizesAssumption == Sizes \subseteq Nat \ {0}
ASSUME MaxLostAssumption == MaxLost \in Nat

VARIABLES
    size,    \* connections of the pool
    held,    \* the tickets that have one
    line,    \* the tickets that wait for one, oldest first
    lost     \* connections nobody will give back

pool == <<size, held, line, lost>>

Waiting == {line[i] : i \in 1 .. Len(line)}

PoolInit ==
    /\ size \in Sizes
    /\ held = {} /\ line = <<>> /\ lost = 0

Ask(t) ==
    /\ IF Cardinality(held) + lost < size
       THEN held' = held \cup {t} /\ line' = line
       ELSE line' = Append(line, t) /\ held' = held
    /\ UNCHANGED <<size, lost>>

\* A connection that comes back goes to whoever waits longest.
GiveBack(t) ==
    /\ IF line = <<>>
       THEN held' = held \ {t} /\ line' = line
       ELSE held' = (held \ {t}) \cup {Head(line)} /\ line' = Tail(line)
    /\ UNCHANGED <<size, lost>>

Lose(t) ==
    /\ lost < MaxLost
    /\ held' = held \ {t}
    /\ lost' = lost + 1
    /\ UNCHANGED <<size, line>>

\* The process starts again with a new pool.
Reopen ==
    /\ held' = {} /\ line' = <<>> /\ lost' = 0
    /\ UNCHANGED size

PoolNext ==
    \/ \E t \in Tickets \ (held \cup Waiting) : Ask(t)
    \/ \E t \in held : GiveBack(t) \/ Lose(t)
    \/ Reopen

PoolSpec == PoolInit /\ [][PoolNext]_pool
-----------------------------------------------------------------------------
\* No more connections are out than the pool has, nobody waits while one is
\* free, and nobody waits for a connection it has.
PoolSound ==
    /\ Cardinality(held) + lost <= size
    /\ line # <<>> => Cardinality(held) + lost = size
    /\ held \cap Waiting = {}
    /\ \A i, j \in 1 .. Len(line) : line[i] = line[j] => i = j
=============================================================================
