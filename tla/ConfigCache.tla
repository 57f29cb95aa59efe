---------------------------- MODULE ConfigCache ----------------------------
(***************************************************************************)
(* src/src/config/config.service.ts: the table of settings, and the map in *)
(* front of it from which the one process that serves answers.             *)
(*                                                                         *)
(* At start the defaults are seeded and the whole table is loaded; the     *)
(* server does not listen before.  Afterwards a get that finds its key in  *)
(* the map answers from it, and is not a step here; one that misses awaits *)
(* the table and stores what it read.  update and delete await the table   *)
(* first and then touch the map.  All of them interleave at their awaits.  *)
(*                                                                         *)
(* bulkUpdate is one update after another, and the driver settings are two *)
(* updates at once, on different keys.  No code calls refreshCache.        *)
(***************************************************************************)
EXTENDS TypeORM

CONSTANTS
    Keys,
    Seeded,       \* the keys of DEFAULT_CONFIG_VALUES
    Ids,          \* primary keys; enough of them that one is always fresh
    Texts,        \* what the column value may hold
    Numerals,     \* the texts that parseFloat reads as a number
    Truths,       \* the texts that are read as true
    Types,        \* the data types in use
    DefaultText,  \* a default value; all of them are numbers
    Slots,        \* requests that can be in progress at once
    None          \* no key, no id

ASSUME KeysAssumption == Seeded \subseteq Keys /\ None \notin Keys \cup Ids
ASSUME TextsAssumption ==
    /\ Numerals \subseteq Texts /\ Truths \subseteq Texts
    /\ DefaultText \in Numerals
ASSUME TypesAssumption ==
    "number" \in Types /\ Types \subseteq {"number", "boolean", "string", "json"}

VARIABLES
    table,      \* table system_configs: key -> row, or NoRow
    cache,      \* configCache: key -> parsed value, or Missing
    up,         \* whether the process serves
    pc,         \* slot -> where its handler is
    key,        \* slot -> the key it is about
    entity,     \* slot -> the SystemConfig entity it has in memory
    base,       \* slot -> the row as save() read it again
    kept,       \* history: the defaults, and the other keys in the table at the start,
                \* that nobody has asked to delete since
    contested,  \* history: keys of which the latest updates overlap
    stale       \* history: keys of which updates have overlapped, or one has
                \* failed after its write, and none has run alone since then

vars == <<table, cache, up, pc, key, entity, base, kept, contested, stale>>
locals == <<pc, key, entity, base>>
history == <<kept, contested, stale>>

NoRow == [id |-> None]
Row == [id : Ids, value : Texts, dataType : Types]
\* An entity that has not been inserted has no id yet.
Draft == [id : Ids \cup {None}, value : Texts, dataType : Types]

Missing == [kind |-> "missing"]
Value == [kind : {"number"}, is : Numerals \cup {"NaN"}]
           \cup [kind : {"boolean"}, is : {"true", "false"}]
           \cup [kind : {"string", "json"}, is : Texts]

\* Faulty variant: whatever the text, it is taken for the number.
ParsedLoose(row) ==
    CASE row.dataType = "boolean" ->
           [kind |-> "boolean", is |-> IF row.value \in Truths THEN "true" ELSE "false"]
      [] OTHER -> [kind |-> row.dataType, is |-> row.value]

\* parseValue.
Parsed(row) ==
    CASE row.dataType = "number" ->
           [kind |-> "number", is |-> IF row.value \in Numerals THEN row.value ELSE "NaN"]
      [] row.dataType = "boolean" ->
           [kind |-> "boolean", is |-> IF row.value \in Truths THEN "true" ELSE "false"]
      [] OTHER -> [kind |-> row.dataType, is |-> row.value]

CachedRow(row) == IF row = NoRow THEN Missing ELSE Parsed(row)

\* Where an update, and where any call, is in progress.
Updating == {"reload", "overwrite", "insert", "store"}
Busy == Updating \cup {"read", "fill", "remove", "evict"}

Init ==
    /\ table = [k \in Keys |-> NoRow]
    /\ cache = [k \in Keys |-> Missing]
    /\ up = FALSE
    /\ pc = [r \in Slots |-> "idle"]
    /\ key = [r \in Slots |-> None]
    /\ entity = [r \in Slots |-> NoRow]
    /\ base = [r \in Slots |-> NoRow]
    /\ kept = {} /\ contested = {} /\ stale = {}

Goto(r, label) == pc' = [pc EXCEPT ![r] = label]

\* The handler returns or throws; its local variables go with it.
Leave(r) ==
    /\ Goto(r, "idle")
    /\ key' = [key EXCEPT ![r] = None]
    /\ entity' = [entity EXCEPT ![r] = NoRow]
    /\ base' = [base EXCEPT ![r] = NoRow]

\* The primary keys an INSERT may generate.
FreshIds ==
    Ids \ ({table[k].id : k \in Keys} \cup {entity[r].id : r \in Slots})
-----------------------------------------------------------------------------
\* seedDefaultConfigs: a default that is not in the table is inserted.
Seed(k) ==
    /\ ~up /\ k \in Seeded /\ table[k] = NoRow
    /\ \E id \in FreshIds :
          table' = [table EXCEPT ![k] =
              [id |-> id, value |-> DefaultText, dataType |-> "number"]]
    /\ UNCHANGED <<cache, up, locals, history>>

\* Faulty variant: the server listens although a default could not be inserted.
LoadUnseeded ==
    /\ ~up
    /\ cache' = [k \in Keys |-> CachedRow(table[k])]
    /\ up' = TRUE
    /\ kept' = Seeded \cup {k \in Keys : table[k] # NoRow}
    /\ contested' = {} /\ stale' = {}
    /\ UNCHANGED <<table, locals>>

\* loadConfigsIntoCache, when all defaults are there; then the server listens.
Load ==
    /\ ~up
    /\ \A k \in Seeded : table[k] # NoRow
    /\ cache' = [k \in Keys |-> CachedRow(table[k])]
    /\ up' = TRUE
    /\ kept' = Seeded \cup {k \in Keys : table[k] # NoRow}
    /\ contested' = {} /\ stale' = {}
    /\ UNCHANGED <<table, locals>>

\* The process dies, and with it the map.
Crash ==
    /\ up
    /\ up' = FALSE
    /\ cache' = [k \in Keys |-> Missing]
    /\ pc' = [r \in Slots |-> "idle"]
    /\ key' = [r \in Slots |-> None]
    /\ entity' = [r \in Slots |-> NoRow]
    /\ base' = [r \in Slots |-> NoRow]
    /\ kept' = {} /\ contested' = {} /\ stale' = {}
    /\ UNCHANGED table
-----------------------------------------------------------------------------
\* get misses.
Get(r, k) ==
    /\ up /\ pc[r] = "idle"
    /\ cache[k] = Missing
    /\ Goto(r, "read")
    /\ key' = [key EXCEPT ![r] = k]
    /\ UNCHANGED <<table, cache, up, entity, base, history>>

\* It reads the row; without one the caller gets the default, or an exception.
Read(r) ==
    /\ pc[r] = "read"
    /\ IF table[key[r]] = NoRow
       THEN Leave(r)
       ELSE /\ entity' = [entity EXCEPT ![r] = table[key[r]]]
            /\ Goto(r, "fill")
            /\ UNCHANGED <<key, base>>
    /\ UNCHANGED <<table, cache, up, history>>

\* It stores what it read.
Fill(r) ==
    /\ pc[r] = "fill"
    /\ cache' = [cache EXCEPT ![key[r]] = Parsed(entity[r])]
    /\ Leave(r)
    /\ UNCHANGED <<table, up, history>>

\* update, up to its first answer: the row is changed in memory, or made.
Update(r, k, text, type) ==
    /\ up /\ pc[r] = "idle"
    /\ key' = [key EXCEPT ![r] = k]
    /\ entity' = [entity EXCEPT ![r] =
           [id |-> table[k].id, value |-> text, dataType |-> type]]
    /\ Goto(r, IF table[k] = NoRow THEN "insert" ELSE "reload")
    /\ IF \E q \in Slots : pc[q] \in Updating /\ key[q] = k
       THEN contested' = contested \cup {k} /\ stale' = stale \cup {k}
       ELSE contested' = contested \ {k} /\ UNCHANGED stale
    /\ UNCHANGED <<table, cache, up, base, kept>>

\* save() of a row that was there: read it again, by its primary key.
Reload(r) ==
    /\ pc[r] = "reload"
    /\ IF table[key[r]].id = entity[r].id
       THEN /\ base' = [base EXCEPT ![r] = table[key[r]]]
            /\ Goto(r, "overwrite")
       ELSE Goto(r, "insert") /\ UNCHANGED base
    /\ UNCHANGED <<table, cache, up, key, entity, history>>

Overwritten(mine, seen, row) ==
    [id |-> row.id,
     value |-> Column(mine.value, seen.value, row.value),
     dataType |-> Column(mine.dataType, seen.dataType, row.dataType)]

\* The UPDATE, which finds no row when it has been deleted meanwhile.
Overwrite(r) ==
    /\ pc[r] = "overwrite"
    /\ table' = IF table[key[r]].id = entity[r].id
                THEN [table EXCEPT ![key[r]] = Overwritten(entity[r], base[r], @)]
                ELSE table
    /\ Goto(r, "store")
    /\ UNCHANGED <<cache, up, key, entity, base, history>>

\* The INSERT; the column key is unique.
Insert(r) ==
    /\ pc[r] = "insert"
    /\ IF table[key[r]] = NoRow
       THEN /\ \E id \in IF entity[r].id = None THEN FreshIds ELSE {entity[r].id} :
                  table' = [table EXCEPT ![key[r]] = [entity[r] EXCEPT !.id = id]]
            /\ Goto(r, "store")
            /\ UNCHANGED <<key, entity, base>>
       ELSE Leave(r) /\ UNCHANGED table
    /\ UNCHANGED <<cache, up, history>>

\* The history of an update that ends: one that ran alone has put the map right.
Settled(r) == stale' = IF key[r] \in contested THEN stale ELSE stale \ {key[r]}

\* Faulty variant: an update invalidates the cached value.
StoreEvicts(r) ==
    /\ pc[r] = "store"
    /\ cache' = [cache EXCEPT ![key[r]] = Missing]
    /\ Leave(r)
    /\ Settled(r)
    /\ UNCHANGED <<table, up, kept, contested>>

\* Faulty variant: an update stores its value only when none is cached.
StoreIfMissing(r) ==
    /\ pc[r] = "store"
    /\ cache' = [cache EXCEPT ![key[r]] = IF @ = Missing THEN Parsed(entity[r]) ELSE @]
    /\ Leave(r)
    /\ Settled(r)
    /\ UNCHANGED <<table, up, kept, contested>>

\* save() has answered: the map takes the value of the entity in memory.
Store(r) ==
    /\ pc[r] = "store"
    /\ cache' = [cache EXCEPT ![key[r]] = Parsed(entity[r])]
    /\ Leave(r)
    /\ Settled(r)
    /\ UNCHANGED <<table, up, kept, contested>>

\* delete finds the row.
Delete(r, k) ==
    /\ up /\ pc[r] = "idle"
    /\ table[k] # NoRow
    /\ key' = [key EXCEPT ![r] = k]
    /\ entity' = [entity EXCEPT ![r] = table[k]]
    /\ Goto(r, "remove")
    /\ kept' = kept \ {k}
    /\ UNCHANGED <<table, cache, up, base, contested, stale>>

\* remove(): the DELETE, by primary key.
Remove(r) ==
    /\ pc[r] = "remove"
    /\ table' = IF table[key[r]].id = entity[r].id
                THEN [table EXCEPT ![key[r]] = NoRow] ELSE table
    /\ Goto(r, "evict")
    /\ UNCHANGED <<cache, up, key, entity, base, history>>

Evict(r) ==
    /\ pc[r] = "evict"
    /\ cache' = [cache EXCEPT ![key[r]] = Missing]
    /\ Leave(r)
    /\ UNCHANGED <<table, up, history>>

\* A statement raises an error, or, where the write is done, its reply is lost.
Fail(r) ==
    /\ pc[r] \in Busy
    /\ Leave(r)
    /\ stale' = IF pc[r] = "store" THEN stale \cup {key[r]} ELSE stale
    /\ UNCHANGED <<table, cache, up, kept, contested>>

Next ==
    \/ \E k \in Keys : Seed(k)
    \/ Load
    \/ Crash
    \/ \E r \in Slots, k \in Keys :
          \/ Get(r, k) \/ Delete(r, k)
          \/ \E text \in Texts, type \in Types : Update(r, k, text, type)
    \/ \E r \in Slots :
          \/ Read(r) \/ Fill(r) \/ Reload(r) \/ Overwrite(r) \/ Insert(r) \/ Store(r)
          \/ Remove(r) \/ Evict(r) \/ Fail(r)

Spec == Init /\ [][Next]_vars
-----------------------------------------------------------------------------
\* Every variable has its type.
TypeOK ==
    /\ table \in [Keys -> Row \cup {NoRow}]
    /\ cache \in [Keys -> Value \cup {Missing}]
    /\ up \in BOOLEAN
    /\ pc \in [Slots -> {"idle"} \cup Busy]
    /\ key \in [Slots -> Keys \cup {None}]
    /\ entity \in [Slots -> Draft \cup {NoRow}]
    /\ base \in [Slots -> Row \cup {NoRow}]
    /\ kept \subseteq Keys /\ contested \subseteq Keys /\ stale \subseteq Keys

\* While the process serves, every default, and every other setting that was in
\* the table when it started, is in the map unless somebody has asked to delete
\* it, whatever starts were cut short and whatever updates and reads overlap and
\* fail: getNumber answers without the database.  (Wallet operations call it
\* while their transaction holds a connection.)
KeptIsCached == up => \A k \in kept : cache[k] # Missing

\* The map agrees with the table for every such setting, but for the moment
\* between the write of an update and its answer.  Updates of it that overlap, or
\* one that fails in that moment, may leave it stale; the next update that runs
\* alone puts it right whatever they left behind.  Reads, crashes and what happens
\* to other settings never make it stale.
CacheAgrees ==
    up => \A k \in kept \ stale :
              (\A r \in Slots : key[r] = k => pc[r] # "store") =>
                  cache[k] = CachedRow(table[k])
=============================================================================
