------------------------- MODULE ConfigCacheProofs -------------------------
(***************************************************************************)
(* What TLC checks of ConfigCache on one setting and two requests, proved  *)
(* for any settings and any number of requests at once.                    *)
(***************************************************************************)
EXTENDS ConfigCache, TLAPS

\* What a call in progress knows of its setting.  Nobody but an update is about
\* a kept setting, and its row is still the one the update has found; when it
\* is not contested either, nothing has changed since the row was read again.
CallOK(r) ==
    pc[r] # "idle" =>
        /\ up /\ key[r] \in Keys
        /\ pc[r] \in Updating => entity[r] \in Draft
        /\ pc[r] \in {"reload", "overwrite", "fill", "remove"} => entity[r] \in Row
        /\ pc[r] = "overwrite" => base[r] \in Row
        /\ key[r] \in kept =>
              /\ pc[r] \in {"reload", "overwrite", "store"}
              /\ pc[r] # "store" => entity[r].id = table[key[r]].id
        /\ key[r] \in kept \ contested =>
              /\ pc[r] = "overwrite" => base[r] = table[key[r]]
              /\ pc[r] = "store" => Parsed(entity[r]) = CachedRow(table[key[r]])

\* A kept setting has a row and a cached value; there is none while the process
\* is down.
KeptOK == \A k \in kept : up /\ table[k] # NoRow /\ cache[k] # Missing

\* A setting whose updates overlap is one the map may be wrong about.
ContestedIsStale == contested \subseteq stale

\* An uncontested setting has one update at a time.
Alone ==
    \A k \in kept \ contested : \A r, q \in Slots :
        /\ pc[r] \in Updating /\ key[r] = k
        /\ pc[q] \in Updating /\ key[q] = k
        => r = q

IInv ==
    /\ TypeOK
    /\ \A r \in Slots : CallOK(r)
    /\ KeptOK
    /\ ContestedIsStale
    /\ Alone
    /\ CacheAgrees
-----------------------------------------------------------------------------
\* parseValue returns a value of the type it was asked for.
LEMMA ParsedValue ==
    ASSUME NEW row \in Draft
    PROVE  Parsed(row) \in Value /\ Parsed(row) # Missing
<1>1. Parsed(row) \in Value
  BY TypesAssumption DEF Draft, Parsed, Value
<1>2. Missing \notin Value
  BY DEF Missing, Value
<1> QED  BY <1>1, <1>2

\* Rows are drafts that have an id.
LEMMA RowFacts ==
    /\ Row \subseteq Draft
    /\ NoRow \notin Row /\ NoRow.id = None
    /\ \A row \in Row : row.id \in Ids /\ row.id # None
BY KeysAssumption DEF Row, Draft, NoRow

\* An UPDATE of a row that has not changed since it was read again writes the
\* entity's columns.
LEMMA OverwrittenFacts ==
    ASSUME NEW m \in Row, NEW s \in Row, NEW row \in Row
    PROVE  /\ Overwritten(m, s, row) \in Row
           /\ Overwritten(m, s, row).id = row.id
           /\ Parsed(Overwritten(m, row, row)) = Parsed(m)
BY DEF Overwritten, Column, Row, Parsed

LEMMA InitIInv == Init => IInv
BY DEF Init, IInv, TypeOK, CallOK, KeptOK, ContestedIsStale, Alone, CacheAgrees,
   Missing, NoRow
-----------------------------------------------------------------------------
\* The types are inductive, given what a call knows of its entity.
LEMMA NextTypes == IInv /\ [Next]_vars => TypeOK'
<1> SUFFICES ASSUME IInv, [Next]_vars PROVE TypeOK'
  OBVIOUS
<1> USE RowFacts, ParsedValue DEF IInv, TypeOK, history, locals
<1>1. ASSUME NEW k \in Keys, Seed(k) PROVE TypeOK'
  BY <1>1, TextsAssumption, TypesAssumption DEF Seed, FreshIds, Row
<1>2. CASE Load
  BY <1>2, KeysAssumption DEF Load, CachedRow
<1>3. CASE Crash
  BY <1>3 DEF Crash
<1>4. ASSUME NEW r \in Slots, NEW k \in Keys,
             Get(r, k) \/ Delete(r, k)
      PROVE  TypeOK'
  BY <1>4 DEF Get, Delete, Goto, Busy
<1>5. ASSUME NEW r \in Slots, NEW k \in Keys, NEW text \in Texts, NEW type \in Types,
             Update(r, k, text, type)
      PROVE  TypeOK'
  <2>1. table[k].id \in Ids \cup {None}
    OBVIOUS
  <2>2. [id |-> table[k].id, value |-> text, dataType |-> type] \in Draft
    BY <2>1 DEF Draft
  <2> QED  BY <1>5, <2>2 DEF Update, Goto, Busy, Updating
<1>6. ASSUME NEW r \in Slots, CallOK(r),
             Read(r) \/ Fill(r) \/ Store(r) \/ Evict(r) \/ Fail(r)
      PROVE  TypeOK'
  BY <1>6 DEF CallOK, Read, Fill, Store, Evict, Fail, Goto, Leave, Settled, Busy, Updating
<1>7. ASSUME NEW r \in Slots, CallOK(r), Reload(r) \/ Remove(r)
      PROVE  TypeOK'
  BY <1>7 DEF CallOK, Reload, Remove, Goto, Busy, Updating
<1>8. ASSUME NEW r \in Slots, CallOK(r), Overwrite(r)
      PROVE  TypeOK'
  BY <1>8, OverwrittenFacts DEF CallOK, Overwrite, Goto, Busy, Updating
<1>9. ASSUME NEW r \in Slots, CallOK(r), Insert(r)
      PROVE  TypeOK'
  <2>1. ASSUME NEW id \in Ids PROVE [entity[r] EXCEPT !.id = id] \in Row
    BY <1>9 DEF Insert, CallOK, Updating, Draft, Row
  <2> QED  BY <1>9, <2>1 DEF CallOK, Insert, Leave, Goto, Busy, Updating, FreshIds, Draft
<1>10. CASE UNCHANGED vars
  BY <1>10 DEF vars
<1> QED  BY <1>1, <1>2, <1>3, <1>4, <1>5, <1>6, <1>7, <1>8, <1>9, <1>10 DEF Next
-----------------------------------------------------------------------------
\* What a call knows stays true: settings become kept only at a start, when no
\* call is in progress, and uncontested only when no other update is.
LEMMA NextCalls == IInv /\ [Next]_vars => \A r \in Slots : CallOK(r)'
<1> SUFFICES ASSUME IInv, [Next]_vars, NEW q \in Slots PROVE CallOK(q)'
  OBVIOUS
<1> USE RowFacts DEF IInv, TypeOK, history, locals, KeptOK
<1>0. CallOK(q)
  OBVIOUS
<1>1. ASSUME NEW k \in Keys, Seed(k) PROVE CallOK(q)'
  BY <1>0, <1>1 DEF Seed, CallOK
<1>2. CASE Load
  BY <1>0, <1>2 DEF Load, CallOK
<1>3. CASE Crash
  BY <1>3 DEF Crash, CallOK
<1>4. ASSUME NEW r \in Slots, NEW k \in Keys, Get(r, k)
      PROVE  CallOK(q)'
  BY <1>0, <1>4 DEF Get, CallOK, Goto, Updating
<1>5. ASSUME NEW r \in Slots, NEW k \in Keys, Delete(r, k)
      PROVE  CallOK(q)'
  BY <1>0, <1>5 DEF Delete, CallOK, Goto, Updating
<1>6. ASSUME NEW r \in Slots, NEW k \in Keys, NEW text \in Texts, NEW type \in Types,
             Update(r, k, text, type)
      PROVE  CallOK(q)'
  <2>1. table[k].id \in Ids \cup {None} /\ (table[k] # NoRow => table[k].id \in Ids)
    OBVIOUS
  <2>2. /\ [id |-> table[k].id, value |-> text, dataType |-> type] \in Draft
        /\ table[k] # NoRow =>
              [id |-> table[k].id, value |-> text, dataType |-> type] \in Row
    BY <2>1 DEF Draft, Row
  <2>3. CASE q = r
    BY <1>6, <2>2, <2>3 DEF Update, CallOK, Goto, Updating
  <2>4. CASE q # r
    BY <1>0, <1>6, <2>4 DEF Update, CallOK, Goto, Updating
  <2> QED  BY <2>3, <2>4
<1>7. ASSUME NEW r \in Slots, Read(r)
      PROVE  CallOK(q)'
  BY <1>0, <1>7 DEF Read, CallOK, Goto, Leave, Updating
<1>8. ASSUME NEW r \in Slots, Fill(r) \/ Store(r) \/ Evict(r) \/ Fail(r)
      PROVE  CallOK(q)'
  BY <1>0, <1>8 DEF Fill, Store, Evict, Fail, CallOK, Goto, Leave, Updating, Busy
<1>9. ASSUME NEW r \in Slots, Reload(r)
      PROVE  CallOK(q)'
  BY <1>0, <1>9 DEF Reload, CallOK, Goto, Updating
<1>10. ASSUME NEW r \in Slots, Remove(r)
      PROVE  CallOK(q)'
  BY <1>0, <1>10 DEF Remove, CallOK, Goto, Updating
<1>11. ASSUME NEW r \in Slots, Overwrite(r)
      PROVE  CallOK(q)'
  BY <1>0, <1>11, OverwrittenFacts DEF Overwrite, CallOK, Goto, Updating, CachedRow, Alone
<1>12. ASSUME NEW r \in Slots, Insert(r)
      PROVE  CallOK(q)'
  BY <1>0, <1>12 DEF Insert, CallOK, Goto, Leave, Updating
<1>13. CASE UNCHANGED vars
  BY <1>0, <1>13 DEF vars, CallOK
<1> QED  BY <1>1, <1>2, <1>3, <1>4, <1>5, <1>6, <1>7, <1>8, <1>9, <1>10, <1>11, <1>12,
            <1>13 DEF Next

\* Only the deletion of a setting, and a crash, take its row or its value away.
LEMMA NextKept == IInv /\ [Next]_vars => KeptOK'
<1> SUFFICES ASSUME IInv, [Next]_vars PROVE KeptOK'
  OBVIOUS
<1> USE RowFacts, ParsedValue DEF IInv, TypeOK, history, locals, KeptOK
<1>1. ASSUME NEW k \in Keys, Seed(k) PROVE KeptOK'
  BY <1>1 DEF Seed
<1>2. CASE Load
  BY <1>2, KeysAssumption DEF Load, CachedRow
<1>3. CASE Crash
  BY <1>3 DEF Crash
<1>4. ASSUME NEW r \in Slots, NEW k \in Keys,
             \/ Get(r, k) \/ Delete(r, k)
             \/ \E text \in Texts, type \in Types : Update(r, k, text, type)
      PROVE  KeptOK'
  BY <1>4 DEF Get, Delete, Update
<1>5. ASSUME NEW r \in Slots, CallOK(r), Read(r) \/ Reload(r) \/ Fail(r)
      PROVE  KeptOK'
  BY <1>5 DEF Read, Reload, Fail
<1>6. ASSUME NEW r \in Slots, CallOK(r), Fill(r) \/ Store(r) \/ Evict(r)
      PROVE  KeptOK'
  BY <1>6 DEF CallOK, Fill, Store, Evict, Updating
<1>7. ASSUME NEW r \in Slots, CallOK(r), Overwrite(r)
      PROVE  KeptOK'
  BY <1>7, OverwrittenFacts DEF CallOK, Overwrite
<1>8. ASSUME NEW r \in Slots, CallOK(r), Insert(r) \/ Remove(r)
      PROVE  KeptOK'
  BY <1>8 DEF CallOK, Insert, Remove
<1>9. CASE UNCHANGED vars
  BY <1>9 DEF vars
<1> QED  BY <1>1, <1>2, <1>3, <1>4, <1>5, <1>6, <1>7, <1>8, <1>9 DEF Next

\* Contested settings stay among the stale ones: only an update that ran alone
\* takes a setting from those.
LEMMA NextStale == IInv /\ [Next]_vars => ContestedIsStale'
<1> SUFFICES ASSUME IInv, [Next]_vars PROVE ContestedIsStale'
  OBVIOUS
<1> USE DEF IInv, ContestedIsStale, history
<1>1. CASE Load \/ Crash \/ \E k \in Keys : Seed(k)
  BY <1>1 DEF Load, Crash, Seed
<1>2. ASSUME NEW r \in Slots, NEW k \in Keys,
             \/ Get(r, k) \/ Delete(r, k)
             \/ \E text \in Texts, type \in Types : Update(r, k, text, type)
      PROVE  ContestedIsStale'
  BY <1>2 DEF Get, Delete, Update
<1>3. ASSUME NEW r \in Slots,
             \/ Read(r) \/ Fill(r) \/ Reload(r) \/ Overwrite(r) \/ Insert(r) \/ Store(r)
             \/ Remove(r) \/ Evict(r) \/ Fail(r)
      PROVE  ContestedIsStale'
  BY <1>3 DEF Read, Fill, Reload, Overwrite, Insert, Store, Settled, Remove, Evict, Fail
<1>4. CASE UNCHANGED vars
  BY <1>4 DEF vars
<1> QED  BY <1>1, <1>2, <1>3, <1>4 DEF Next

\* An update that finds another one in progress makes the setting contested.
LEMMA NextAlone == IInv /\ [Next]_vars => Alone'
<1> SUFFICES ASSUME IInv, [Next]_vars,
                    NEW k \in kept' \ contested', NEW p \in Slots, NEW q \in Slots,
                    pc'[p] \in Updating, key'[p] = k, pc'[q] \in Updating, key'[q] = k
             PROVE  p = q
  BY DEF Alone
<1> USE DEF IInv, TypeOK, history, locals
<1>0. k \in kept \ contested /\ pc[p] \in Updating /\ key[p] = k
        /\ pc[q] \in Updating /\ key[q] = k => p = q
  BY DEF Alone
<1>1. CASE Load
  BY <1>1 DEF Load, CallOK, Updating
<1>2. CASE Crash \/ \E j \in Keys : Seed(j)
  BY <1>0, <1>2 DEF Crash, Seed, Updating
<1>3. ASSUME NEW r \in Slots, NEW j \in Keys, Get(r, j) \/ Delete(r, j)
      PROVE  p = q
  <2>1. p # r /\ q # r
    BY <1>3 DEF Get, Delete, Goto, Updating
  <2>2. k \in kept \ contested
    BY <1>3 DEF Get, Delete
  <2> QED  BY <1>0, <1>3, <2>1, <2>2 DEF Get, Delete, Goto
<1>4. ASSUME NEW r \in Slots, NEW j \in Keys, NEW text \in Texts, NEW type \in Types,
             Update(r, j, text, type)
      PROVE  p = q
  BY <1>0, <1>4 DEF Update, Goto
<1>5. ASSUME NEW r \in Slots,
             Read(r) \/ Fill(r) \/ Store(r) \/ Evict(r) \/ Fail(r) \/ Remove(r)
      PROVE  p = q
  <2>1. p # r /\ q # r
    BY <1>5 DEF Read, Fill, Store, Evict, Fail, Remove, Goto, Leave, Updating
  <2>2. k \in kept \ contested
    BY <1>5 DEF Read, Fill, Store, Evict, Fail, Remove
  <2> QED  BY <1>0, <1>5, <2>1, <2>2 DEF Read, Fill, Store, Evict, Fail, Remove, Goto, Leave
<1>6. ASSUME NEW r \in Slots, Reload(r) \/ Overwrite(r) \/ Insert(r)
      PROVE  p = q
  BY <1>0, <1>6 DEF Reload, Overwrite, Insert, Goto, Leave, Updating
<1>7. CASE UNCHANGED vars
  BY <1>0, <1>7 DEF vars
<1> QED  BY <1>1, <1>2, <1>3, <1>4, <1>5, <1>6, <1>7 DEF Next

\* The row changes only in the step that leads to the moment before the answer,
\* and that moment ends with the value that was written.
LEMMA NextAgrees == IInv /\ [Next]_vars => CacheAgrees'
<1> SUFFICES ASSUME IInv, [Next]_vars PROVE CacheAgrees'
  OBVIOUS
<1> USE RowFacts DEF IInv, TypeOK, history, locals, KeptOK, CacheAgrees
<1>1. ASSUME NEW k \in Keys, Seed(k) PROVE CacheAgrees'
  BY <1>1 DEF Seed
<1>2. CASE Load
  BY <1>2, KeysAssumption DEF Load
<1>3. CASE Crash
  BY <1>3 DEF Crash
<1>4. ASSUME NEW r \in Slots, NEW k \in Keys,
             \/ Get(r, k) \/ Delete(r, k)
             \/ \E text \in Texts, type \in Types : Update(r, k, text, type)
      PROVE  CacheAgrees'
  BY <1>4 DEF Get, Delete, Update, Goto
<1>5. ASSUME NEW r \in Slots, CallOK(r),
             Read(r) \/ Reload(r) \/ Fail(r) \/ Fill(r) \/ Evict(r) \/ Insert(r) \/ Remove(r)
      PROVE  CacheAgrees'
  <2> SUFFICES ASSUME up', NEW k \in kept' \ stale',
                      \A q \in Slots : key'[q] = k => pc'[q] # "store"
               PROVE  cache'[k] = CachedRow(table'[k])
    OBVIOUS
  <2>1. k \in kept \ stale /\ up
    BY <1>5 DEF Read, Reload, Fail, Fill, Evict, Insert, Remove
  <2>2. cache'[k] = cache[k] /\ table'[k] = table[k]
    BY <1>5, <2>1 DEF CallOK, Read, Reload, Fail, Fill, Evict, Insert, Remove
  <2>3. key[r] = k => pc[r] # "store"
    BY <1>5 DEF Read, Reload, Fail, Fill, Evict, Insert, Remove
  <2>4. ASSUME NEW q \in Slots, q # r PROVE key'[q] = key[q] /\ pc'[q] = pc[q]
    BY <1>5, <2>4 DEF Read, Reload, Fail, Fill, Evict, Insert, Remove, Goto, Leave
  <2> QED  BY <2>1, <2>2, <2>3, <2>4
<1>6. ASSUME NEW r \in Slots, CallOK(r), Store(r)
      PROVE  CacheAgrees'
  BY <1>6 DEF CallOK, Store, Settled, ContestedIsStale, Goto, Leave, Alone, Updating
<1>7. ASSUME NEW r \in Slots, CallOK(r), Overwrite(r)
      PROVE  CacheAgrees'
  BY <1>7 DEF CallOK, Overwrite, Goto
<1>8. CASE UNCHANGED vars
  BY <1>8 DEF vars
<1> QED  BY <1>1, <1>2, <1>3, <1>4, <1>5, <1>6, <1>7, <1>8 DEF Next
-----------------------------------------------------------------------------
\* The inductive invariant of the configuration service: what is in the table,
\* in the map and in the handlers' memory fits together in every interleaving.
THEOREM ConfigInvariant == Spec => []IInv
<1>1. IInv /\ [Next]_vars => IInv'
  BY NextTypes, NextCalls, NextKept, NextStale, NextAlone, NextAgrees DEF IInv
<1> QED  BY InitIInv, <1>1, PTL DEF Spec

\* The table, the map and the handlers' memory keep their types.
THEOREM ConfigTypeCorrect == Spec => []TypeOK
<1>1. IInv => TypeOK
  BY DEF IInv
<1> QED  BY ConfigInvariant, <1>1, PTL

\* getNumber answers from the map for every setting that was there at the start
\* and that nobody has deleted, however many requests overlap.
THEOREM KeptStaysCached == Spec => []KeptIsCached
<1>1. IInv => KeptIsCached
  BY DEF IInv, KeptOK, KeptIsCached
<1> QED  BY ConfigInvariant, <1>1, PTL

\* And what it answers is what the table holds, unless updates of the setting
\* overlapped, or one failed after its write, and none has run alone since.
THEOREM CacheIsCurrent == Spec => []CacheAgrees
<1>1. IInv => CacheAgrees
  BY DEF IInv
<1> QED  BY ConfigInvariant, <1>1, PTL
=============================================================================
