------------------------- MODULE NotificationsProofs -------------------------
(***************************************************************************)
(* What TLC checks of Notifications, Realtime and Drivers on one user and  *)
(* two sockets, proved for any of them.                                    *)
(***************************************************************************)
EXTENDS Notifications, TLAPS

Rows == [online : BOOLEAN, place : AnyPlace]

\* The entity of a call that saves is a row, and its driver has a profile.
DriverTypes ==
    /\ profile \in [Users -> {NoProfile} \cup Rows]
    /\ pc \in [Slots -> {"idle", "order", "reload", "write"}]
    /\ who \in [Slots -> Users \cup {None}]
    /\ sets \in [Slots -> {"online", "place", None}]
    /\ mine \in [Slots -> {None} \cup Places \cup Rows]
    /\ seen \in [Slots -> {None} \cup {NoProfile} \cup Rows]
    /\ alone \subseteq Slots
    /\ sure \in [Users -> [online : BOOLEAN \cup {None}, place : AnyPlace \cup {None}]]
    /\ \A r \in Slots : pc[r] # "idle" => who[r] \in Users
    /\ \A r \in Slots : pc[r] = "order" => mine[r] \in Places
    /\ \A r \in Slots : pc[r] \in {"reload", "write"} =>
          /\ mine[r] \in Rows /\ profile[who[r]] \in Rows
          /\ sets[r] \in {"online", "place"}

\* A call that runs alone has in memory what the table has, but for the column it
\* sets; once calls overlap, nothing is sure until one runs alone.
Knows(r, u) ==
    IF r \in alone
    THEN /\ \A q \in Saving(u) : q = r
         /\ sets[r] = "place" => mine[r].online = profile[u].online
         /\ sets[r] = "online" => mine[r].place = profile[u].place
         /\ pc[r] = "write" => seen[r] = profile[u]
    ELSE sure[u] = NoProfile

AloneKnows ==
    /\ \A r \in alone : pc[r] \in {"reload", "write"}
    /\ \A u \in Users : \A r \in Saving(u) : Knows(r, u)

DriversInv == DriverTypes /\ AloneKnows /\ ProfileAsReported

\* Until a second one is opened, a user's entry is their one open socket.
GatewayInv ==
    /\ user \in [Sockets -> Users \cup {None}]
    /\ userSockets \in [Users -> Sockets \cup {None}]
    /\ \A u \in Users : userSockets[u] # None => user[userSockets[u]] = u
    /\ overlapped \subseteq Users
    /\ \A u \in Users \ overlapped : \A s \in Open(u) : userSockets[u] = s

\* A row is written before the channels are tried, and the emit comes last.
NoticesInv ==
    /\ stage \in [Notes -> {"none", "save", "send", "done", "failed", "unsure", "dead"}]
    /\ to \in [Notes -> Users \cup {None}]
    /\ rows \in [Notes -> {"none", "unread", "read"}]
    /\ emitted \subseteq Notes
    /\ \A n \in Notes : stage[n] # "none" => to[n] \in Users
    /\ \A n \in Notes : rows[n] # "none" => stage[n] \in {"send", "done", "unsure", "dead"}
    /\ \A n \in Notes : stage[n] = "done" => n \in emitted

IInv == DriversInv /\ GatewayInv /\ NoticesInv
-----------------------------------------------------------------------------
LEMMA InitIInv == Init => IInv
<1> SUFFICES ASSUME Init PROVE IInv
  OBVIOUS
<1> USE DEF Init, RealtimeInit, DriversInit
<1>1. Nowhere \in AnyPlace
  BY DEF Nowhere, AnyPlace
<1>2. Row(FALSE, Nowhere) \in Rows
  BY <1>1 DEF Row, Rows
<1>3. \A u \in Users : profile[u] \in {NoProfile} \cup Rows
  BY <1>2
<1>4. \A u \in Users : profile[u] \in [online : BOOLEAN \cup {None}, place : AnyPlace \cup {None}]
  <2>1. NoProfile \in [online : BOOLEAN \cup {None}, place : AnyPlace \cup {None}]
    BY DEF NoProfile, Row
  <2>2. Row(FALSE, Nowhere) \in [online : BOOLEAN \cup {None}, place : AnyPlace \cup {None}]
    BY <1>1 DEF Row
  <2> QED  BY <2>1, <2>2
<1>5. DriverTypes
  <2>1. profile \in [Users -> {NoProfile} \cup Rows]
    BY <1>2
  <2>2. sure \in [Users -> [online : BOOLEAN \cup {None}, place : AnyPlace \cup {None}]]
    BY <1>4, <2>1
  <2> QED  BY <2>1, <2>2 DEF DriverTypes
<1>6. AloneKnows /\ ProfileAsReported
  BY DEF AloneKnows, ProfileAsReported, Saving
<1>7. GatewayInv
  BY NoneAssumption DEF GatewayInv, Open
<1>8. NoticesInv
  BY DEF NoticesInv
<1> QED  BY <1>5, <1>6, <1>7, <1>8 DEF IInv, DriversInv
-----------------------------------------------------------------------------
\* A call is dropped: it sets nothing any more.
LEMMA LeaveKeeps ==
    ASSUME DriversInv, NEW r \in Slots, Leave(r), UNCHANGED <<profile, sure>>
    PROVE  DriversInv'
<1>1. DriverTypes'
  BY DEF DriversInv, DriverTypes, Leave
<1>2. /\ \A q \in Slots \ {r} : /\ pc'[q] = pc[q] /\ who'[q] = who[q] /\ sets'[q] = sets[q]
                                /\ mine'[q] = mine[q] /\ seen'[q] = seen[q]
                                /\ q \in alone' <=> q \in alone
      /\ pc'[r] = "idle"
  BY DEF DriversInv, DriverTypes, Leave
<1>3. \A u \in Users : Saving(u)' \subseteq Saving(u)
  BY <1>2 DEF Saving
<1>4. \A u \in Users : r \notin Saving(u)'
  BY <1>2 DEF Saving
<1>5. AloneKnows'
  <2>1. \A q \in alone' : pc'[q] \in {"reload", "write"}
    BY <1>2 DEF AloneKnows, DriversInv, DriverTypes, Leave
  <2>2. ASSUME NEW u \in Users, NEW q \in Saving(u)'
        PROVE  Knows(q, u)'
    <3>1. q \in Slots \ {r} /\ q \in Saving(u)
      BY <1>3, <1>4, <2>2 DEF Saving
    <3> QED  BY <1>2, <1>3, <3>1 DEF AloneKnows, Knows, DriversInv
  <2> QED  BY <2>1, <2>2 DEF AloneKnows
<1>6. ProfileAsReported'
  BY DEF DriversInv, ProfileAsReported
<1> QED  BY <1>1, <1>5, <1>6 DEF DriversInv

\* A call loads the profile and assigns one column of it.
LEMMA LoadKeeps ==
    ASSUME DriversInv, NEW r \in Slots, NEW u \in Users, NEW column \in {"online", "place"},
           NEW entity \in Rows, Load(r, u, column, entity),
           pc[r] \in {"idle", "order"},
           column = "place" => entity.online = profile[u].online,
           column = "online" => entity.place = profile[u].place
    PROVE  DriversInv'
<1>a. DriverTypes /\ AloneKnows /\ ProfileAsReported
  BY DEF DriversInv
<1>1. /\ \A q \in Slots \ {r} : /\ pc'[q] = pc[q] /\ who'[q] = who[q] /\ sets'[q] = sets[q]
                                /\ mine'[q] = mine[q] /\ seen'[q] = seen[q]
      /\ pc'[r] = "reload" /\ who'[r] = u /\ sets'[r] = column /\ mine'[r] = entity
      /\ profile' = profile /\ seen' = seen /\ profile[u] \in Rows
  BY <1>a DEF Load, DriverTypes
<1>2. /\ Saving(u)' = Saving(u) \cup {r}
      /\ \A w \in Users \ {u} : Saving(w)' = Saving(w)
  BY <1>1 DEF Saving
<1>3. r \notin Saving(u)
  BY DEF Saving
<1>4. NoProfile \in [online : BOOLEAN \cup {None}, place : AnyPlace \cup {None}]
  BY DEF NoProfile, Row
<1>5. sure' \in [Users -> [online : BOOLEAN \cup {None}, place : AnyPlace \cup {None}]]
  BY <1>a, <1>4 DEF Load, DriverTypes
<1>6. DriverTypes'
  <2>1. /\ pc' \in [Slots -> {"idle", "order", "reload", "write"}]
        /\ who' \in [Slots -> Users \cup {None}]
        /\ sets' \in [Slots -> {"online", "place", None}]
        /\ mine' \in [Slots -> {None} \cup Places \cup Rows]
        /\ alone' \subseteq Slots
    BY <1>a DEF Load, DriverTypes
  <2>2. \A q \in Slots : pc'[q] # "idle" => who'[q] \in Users
    BY <1>1, <1>a DEF DriverTypes
  <2>3. \A q \in Slots : pc'[q] = "order" => mine'[q] \in Places
    BY <1>1, <1>a DEF DriverTypes
  <2>4. \A q \in Slots : pc'[q] \in {"reload", "write"} =>
          /\ mine'[q] \in Rows /\ profile'[who'[q]] \in Rows
          /\ sets'[q] \in {"online", "place"}
    BY <1>1, <1>a DEF DriverTypes
  <2> QED  BY <1>1, <1>5, <1>a, <2>1, <2>2, <2>3, <2>4 DEF DriverTypes
<1>7. CASE Saving(u) = {}
  <2>1. alone' = alone \cup {r} /\ sure' = sure
    BY <1>7 DEF Load
  <2>2. \A q \in Slots \ {r} : pc[q] \in {"reload", "write"} => who[q] # u
    BY <1>7 DEF Saving
  <2>3. ASSUME NEW w \in Users, NEW q \in Saving(w)', w # u
        PROVE  Knows(q, w)'
    <3>1. q \in Saving(w) /\ q \in Slots \ {r} /\ Saving(w)' = Saving(w)
      BY <1>1, <1>2, <2>3 DEF Saving
    <3> QED  BY <1>1, <1>a, <2>1, <3>1 DEF AloneKnows, Knows
  <2>4. AloneKnows'
    <3>1. Saving(u)' = {r}
      BY <1>2, <1>7
    <3>2. \A q \in alone' : pc'[q] \in {"reload", "write"}
      BY <1>1, <1>a, <2>1 DEF AloneKnows, DriverTypes
    <3>3. ASSUME NEW q \in Saving(u)'
          PROVE  Knows(q, u)'
      BY <1>1, <2>1, <3>1 DEF Knows
    <3> QED  BY <2>3, <3>2, <3>3 DEF AloneKnows
  <2>5. ProfileAsReported'
    BY <1>1, <1>a, <2>1 DEF ProfileAsReported
  <2> QED  BY <1>6, <2>4, <2>5 DEF DriversInv
<1>8. CASE Saving(u) # {}
  <2>1. alone' = alone \ Saving(u) /\ sure' = [sure EXCEPT ![u] = NoProfile]
    BY <1>8 DEF Load
  <2>2. sure'[u] = NoProfile /\ \A w \in Users \ {u} : sure'[w] = sure[w]
    BY <1>a, <2>1 DEF DriverTypes
  <2>3. r \notin alone'
    BY <1>a, <2>1 DEF AloneKnows
  <2>4. \A q \in Saving(u)' : q \notin alone'
    BY <1>2, <2>1, <2>3
  <2>5. ASSUME NEW w \in Users, NEW q \in Saving(w)', w # u
        PROVE  Knows(q, w)'
    <3>1. q \in Saving(w) /\ q \in Slots \ {r} /\ Saving(w)' = Saving(w)
      BY <1>1, <1>2, <2>5 DEF Saving
    <3>2. q \in alone' <=> q \in alone
      BY <2>1, <2>5, <3>1 DEF Saving
    <3> QED  BY <1>1, <1>a, <2>2, <2>5, <3>1, <3>2 DEF AloneKnows, Knows
  <2>6. \A q \in alone' : pc'[q] \in {"reload", "write"}
    BY <1>1, <1>a, <2>1, <2>3 DEF AloneKnows, DriverTypes
  <2>7. AloneKnows'
    BY <2>2, <2>4, <2>5, <2>6 DEF AloneKnows, Knows
  <2>8. ProfileAsReported'
    BY <1>1, <1>a, <2>2 DEF ProfileAsReported, NoProfile, Row
  <2> QED  BY <1>6, <2>7, <2>8 DEF DriversInv
<1> QED  BY <1>7, <1>8

\* The save reads the row again.
LEMMA ReloadKeeps ==
    ASSUME DriversInv, NEW r \in Slots, Reload(r)
    PROVE  DriversInv'
<1>a. DriverTypes /\ AloneKnows /\ ProfileAsReported
  BY DEF DriversInv
<1>1. /\ pc[r] = "reload" /\ pc'[r] = "write" /\ seen'[r] = profile[who[r]] /\ who[r] \in Users
      /\ \A q \in Slots \ {r} : pc'[q] = pc[q] /\ seen'[q] = seen[q]
      /\ UNCHANGED <<profile, who, sets, mine, alone, sure>>
  BY <1>a DEF Reload, DriverTypes
<1>2. DriverTypes'
  <2>1. pc' \in [Slots -> {"idle", "order", "reload", "write"}]
    BY <1>a DEF Reload, DriverTypes
  <2>2. seen' \in [Slots -> {None} \cup {NoProfile} \cup Rows]
    BY <1>1, <1>a DEF Reload, DriverTypes
  <2> QED  BY <1>1, <1>a, <2>1, <2>2 DEF DriverTypes
<1>3. \A u \in Users : Saving(u)' = Saving(u)
  BY <1>1 DEF Saving
<1>4. ASSUME NEW u \in Users, NEW q \in Saving(u)
      PROVE  Knows(q, u)'
  <2>1. who[q] = u /\ q \in Slots
    BY <1>4 DEF Saving
  <2> QED  BY <1>1, <1>3, <1>4, <1>a, <2>1 DEF AloneKnows, Knows
<1>5. \A q \in alone' : pc'[q] \in {"reload", "write"}
  BY <1>1, <1>a DEF AloneKnows, DriverTypes
<1>6. AloneKnows'
  BY <1>3, <1>4, <1>5 DEF AloneKnows
<1>7. ProfileAsReported'
  BY <1>1, <1>a DEF ProfileAsReported
<1> QED  BY <1>2, <1>6, <1>7 DEF DriversInv

\* The UPDATE: the column a call sets, and the others as they are in the table
\* when it ran alone.
LEMMA WriteKeeps ==
    ASSUME DriversInv, NEW r \in Slots, Write(r)
    PROVE  DriversInv'
<1>a. DriverTypes /\ AloneKnows /\ ProfileAsReported
  BY DEF DriversInv
<1>0. PICK u \in Users : u = who[r] /\ pc[r] = "write" /\ r \in Saving(u)
  BY <1>a DEF Write, DriverTypes, Saving
<1> DEFINE here == IF sets[r] = "place" THEN mine[r].place
                   ELSE [c \in {"lat", "lng"} |->
                           Column(mine[r].place[c], seen[r].place[c], profile[u].place[c])]
           row == Row(Column(mine[r].online, seen[r].online, profile[u].online), here)
<1>1. /\ mine[r] \in Rows /\ profile[u] \in Rows /\ sets[r] \in {"online", "place"}
  BY <1>0, <1>a DEF DriverTypes
<1>2. /\ mine[r].online \in BOOLEAN /\ mine[r].place \in AnyPlace
      /\ profile[u].online \in BOOLEAN /\ profile[u].place \in AnyPlace
  BY <1>1 DEF Rows
<1>3. here \in AnyPlace
  BY <1>2 DEF AnyPlace, Column
<1>4. row \in Rows /\ row.place = here
      /\ row.online = Column(mine[r].online, seen[r].online, profile[u].online)
  BY <1>2, <1>3 DEF Rows, Row, Column
<1>5. profile' = [profile EXCEPT ![u] = row]
  BY <1>0 DEF Write
<1>6. profile'[u] = row /\ \A w \in Users \ {u} : profile'[w] = profile[w]
  BY <1>5, <1>a DEF DriverTypes
<1>7. Leave(r)
  BY DEF Write
<1>8. /\ \A q \in Slots \ {r} : /\ pc'[q] = pc[q] /\ who'[q] = who[q] /\ sets'[q] = sets[q]
                                /\ mine'[q] = mine[q] /\ seen'[q] = seen[q]
                                /\ q \in alone' <=> q \in alone
      /\ pc'[r] = "idle" /\ alone' = alone \ {r}
  BY <1>7, <1>a DEF DriverTypes, Leave
<1>9. sure' \in [Users -> [online : BOOLEAN \cup {None}, place : AnyPlace \cup {None}]]
  <2>1. CASE r \notin alone
    BY <1>a, <2>1 DEF Write, DriverTypes
  <2>2. CASE r \in alone /\ sets[r] = "place"
    BY <1>0, <1>2, <1>a, <2>2 DEF Write, DriverTypes
  <2>3. CASE r \in alone /\ sets[r] # "place"
    BY <1>0, <1>2, <1>a, <2>3 DEF Write, DriverTypes
  <2> QED  BY <2>1, <2>2, <2>3
<1> HIDE DEF here, row
<1>10. DriverTypes'
  <2>1. profile' \in [Users -> {NoProfile} \cup Rows]
    BY <1>4, <1>5, <1>a DEF DriverTypes
  <2>2. /\ pc' \in [Slots -> {"idle", "order", "reload", "write"}]
        /\ who' \in [Slots -> Users \cup {None}]
        /\ sets' \in [Slots -> {"online", "place", None}]
        /\ mine' \in [Slots -> {None} \cup Places \cup Rows]
        /\ seen' \in [Slots -> {None} \cup {NoProfile} \cup Rows]
        /\ alone' \subseteq Slots
    BY <1>7, <1>a DEF Leave, DriverTypes
  <2>3. /\ \A q \in Slots : pc'[q] # "idle" => who'[q] \in Users
        /\ \A q \in Slots : pc'[q] = "order" => mine'[q] \in Places
    BY <1>8, <1>a DEF DriverTypes
  <2>4. ASSUME NEW q \in Slots, pc'[q] \in {"reload", "write"}
        PROVE  /\ mine'[q] \in Rows /\ profile'[who'[q]] \in Rows
               /\ sets'[q] \in {"online", "place"}
    <3>1. /\ q # r /\ pc[q] \in {"reload", "write"} /\ mine'[q] = mine[q] /\ sets'[q] = sets[q]
          /\ who'[q] = who[q]
      BY <1>8, <2>4
    <3>2. mine[q] \in Rows /\ profile[who[q]] \in Rows /\ sets[q] \in {"online", "place"}
          /\ who[q] \in Users
      BY <1>a, <3>1 DEF DriverTypes
    <3>3. profile'[who[q]] \in Rows
      BY <1>4, <1>6, <3>2
    <3> QED  BY <3>1, <3>2, <3>3
  <2> QED  BY <1>9, <2>1, <2>2, <2>3, <2>4 DEF DriverTypes
<1>11. /\ Saving(u)' = Saving(u) \ {r}
       /\ \A w \in Users \ {u} : Saving(w)' = Saving(w) /\ r \notin Saving(w)
  BY <1>0, <1>8 DEF Saving
<1>12. /\ r \notin alone => sure' = sure
       /\ \A w \in Users \ {u} : sure'[w] = sure[w]
       /\ r \in alone /\ sets[r] = "place" =>
             sure'[u].place = mine[r].place /\ sure'[u].online = sure[u].online
       /\ r \in alone /\ sets[r] = "online" =>
             sure'[u].online = mine[r].online /\ sure'[u].place = sure[u].place
  BY <1>0, <1>a DEF Write, DriverTypes
<1>13. Knows(r, u)
  BY <1>0, <1>a DEF AloneKnows
<1>14. AloneKnows'
  <2>1. ASSUME NEW w \in Users, w # u, NEW q \in Saving(w)'
        PROVE  Knows(q, w)'
    <3>1. q \in Saving(w) /\ q \in Slots \ {r} /\ Saving(w)' = Saving(w)
      BY <1>11, <2>1 DEF Saving
    <3>2. Knows(q, w) /\ profile'[w] = profile[w] /\ sure'[w] = sure[w]
      BY <1>6, <1>12, <1>a, <2>1, <3>1 DEF AloneKnows
    <3> QED  BY <1>8, <3>1, <3>2 DEF Knows
  <2>2. ASSUME NEW q \in Saving(u)'
        PROVE  Knows(q, u)'
    <3>1. q \in Saving(u) /\ q \in Slots \ {r}
      BY <1>11, <2>2 DEF Saving
    <3>2. r \notin alone
      BY <1>13, <3>1 DEF Knows
    <3>3. q \notin alone
      <4>1. Knows(q, u)
        BY <1>a, <3>1 DEF AloneKnows
      <4> QED  BY <1>0, <3>1, <4>1 DEF Knows
    <3> QED  BY <1>8, <1>12, <1>13, <3>1, <3>2, <3>3 DEF Knows
  <2>3. \A q \in alone' : pc'[q] \in {"reload", "write"}
    BY <1>8, <1>a DEF AloneKnows, DriverTypes
  <2> QED  BY <2>1, <2>2, <2>3 DEF AloneKnows
<1>15. ProfileAsReported'
  <2>1. /\ sure'[u].online # None => row.online = sure'[u].online
        /\ sure'[u].place # None => row.place = sure'[u].place
    <3>1. CASE r \notin alone
      BY <1>12, <1>13, <3>1 DEF Knows, NoProfile, Row
    <3>2. CASE r \in alone /\ sets[r] = "place"
      <4>1. row.online = profile[u].online /\ row.place = mine[r].place
        BY <1>4, <1>13, <3>2 DEF Knows, Column, here
      <4> QED  BY <1>12, <1>a, <3>2, <4>1 DEF ProfileAsReported
    <3>3. CASE r \in alone /\ sets[r] = "online"
      <4>1. seen[r] = profile[u] /\ mine[r].place = profile[u].place
        BY <1>0, <1>13, <3>3 DEF Knows
      <4>2. row.online = mine[r].online
        BY <1>4, <4>1 DEF Column
      <4>3. here = [c \in {"lat", "lng"} |-> profile[u].place[c]]
        BY <3>3, <4>1 DEF here, Column
      <4>4. here = profile[u].place
        BY <1>2, <4>3 DEF AnyPlace
      <4> QED  BY <1>4, <1>12, <1>a, <3>3, <4>2, <4>4 DEF ProfileAsReported
    <3> QED  BY <1>1, <3>1, <3>2, <3>3
  <2>2. ASSUME NEW w \in Users, w # u
        PROVE  /\ sure'[w].online # None => profile'[w].online = sure'[w].online
               /\ sure'[w].place # None => profile'[w].place = sure'[w].place
    BY <1>6, <1>12, <1>a, <2>2 DEF ProfileAsReported
  <2> QED  BY <1>6, <2>1, <2>2 DEF ProfileAsReported
<1> QED  BY <1>10, <1>14, <1>15 DEF DriversInv

LEMMA DriversStep == DriversInv /\ (DriversNext \/ UNCHANGED profiles) => DriversInv'
<1> SUFFICES ASSUME DriversInv, DriversNext \/ UNCHANGED profiles PROVE DriversInv'
  OBVIOUS
<1>a. DriverTypes
  BY DEF DriversInv
<1>1. ASSUME NEW u \in Users, profile[u] # NoProfile
      PROVE  profile[u] \in Rows
  BY <1>1, <1>a DEF DriverTypes
<1>2. ASSUME NEW r \in Slots, NEW u \in Users, NEW online \in BOOLEAN, UpdateOnlineStatus(r, u, online)
      PROVE  DriversInv'
  <2> DEFINE entity == [profile[u] EXCEPT !.online = online]
  <2>1. pc[r] = "idle" /\ Load(r, u, "online", entity)
    BY <1>2 DEF UpdateOnlineStatus
  <2>2. entity \in Rows /\ entity.place = profile[u].place
    BY <1>1, <2>1 DEF Load, Rows
  <2> HIDE DEF entity
  <2> QED  BY <2>1, <2>2, LoadKeeps
<1>3. ASSUME NEW r \in Slots, NEW u \in Users, NEW place \in Places, UpdateLocation(r, u, place)
      PROVE  DriversInv'
  <2>1. pc[r] = "idle" /\ Load(r, u, "place", Locate(u, place))
    BY <1>3 DEF UpdateLocation
  <2>2. Locate(u, place) \in Rows /\ Locate(u, place).online = profile[u].online
    BY <1>1, <2>1 DEF Load, Locate, Rows, Places, AnyPlace
  <2> QED  BY <2>1, <2>2, LoadKeeps
<1>4. ASSUME NEW r \in Slots, Fail(r)
      PROVE  DriversInv'
  BY <1>4, LeaveKeeps DEF Fail
<1>5. CASE UNCHANGED profiles
  <2>1. \A u \in Users : Saving(u)' = Saving(u)
    BY <1>5 DEF profiles, Saving
  <2>2. \A u \in Users : \A r \in Saving(u) : Knows(r, u) => Knows(r, u)'
    BY <1>5, <2>1 DEF profiles, Knows
  <2>3. AloneKnows'
    BY <1>5, <2>1, <2>2 DEF profiles, AloneKnows, DriversInv
  <2> QED  BY <1>5, <2>3 DEF profiles, DriversInv, DriverTypes, ProfileAsReported
<1> QED  BY <1>2, <1>3, <1>4, <1>5, ReloadKeeps, WriteKeeps DEF DriversNext

\* The gateway's own steps with a profile: a call begins, or loads the profile
\* once the order is saved.
LEMMA LocationKeeps ==
    ASSUME IInv, NEW r \in Slots
    PROVE  /\ \A s \in Sockets, place \in Places : DriverLocationUpdate(r, s, place) => DriversInv'
           /\ OrderSaved(r) => DriversInv'
<1>a. DriverTypes /\ AloneKnows /\ ProfileAsReported /\ GatewayInv
  BY DEF IInv, DriversInv
<1>1. ASSUME NEW s \in Sockets, NEW place \in Places, DriverLocationUpdate(r, s, place)
      PROVE  DriversInv'
  <2>1. /\ pc[r] = "idle" /\ pc'[r] = "order" /\ who'[r] \in Users /\ mine'[r] = place
        /\ \A q \in Slots \ {r} : pc'[q] = pc[q] /\ who'[q] = who[q] /\ mine'[q] = mine[q]
        /\ UNCHANGED <<profile, sets, seen, alone, sure>>
    BY <1>1, <1>a DEF DriverLocationUpdate, Guarded, DriverTypes, GatewayInv
  <2>2. DriverTypes'
    <3>1. /\ pc' \in [Slots -> {"idle", "order", "reload", "write"}]
          /\ who' \in [Slots -> Users \cup {None}]
          /\ mine' \in [Slots -> {None} \cup Places \cup Rows]
      BY <1>1, <1>a DEF DriverLocationUpdate, Guarded, DriverTypes, GatewayInv
    <3> QED  BY <1>a, <2>1, <3>1 DEF DriverTypes
  <2>3. \A u \in Users : Saving(u)' = Saving(u) /\ r \notin Saving(u)
    BY <2>1 DEF Saving
  <2>4. \A u \in Users : \A q \in Saving(u) : Knows(q, u)'
    <3>1. ASSUME NEW u \in Users, NEW q \in Saving(u)
          PROVE  Knows(q, u)'
      <4>1. q \in Slots \ {r} /\ Knows(q, u)
        BY <1>a, <2>3, <3>1 DEF AloneKnows, Saving
      <4> QED  BY <2>1, <2>3, <4>1 DEF Knows
    <3> QED  BY <3>1
  <2>5. AloneKnows'
    BY <1>a, <2>1, <2>3, <2>4 DEF AloneKnows, DriverTypes
  <2> QED  BY <1>a, <2>1, <2>2, <2>5 DEF DriversInv, ProfileAsReported
<1>2. ASSUME OrderSaved(r)
      PROVE  DriversInv'
  <2>1. PICK u \in Users : u = who[r]
    BY <1>2, <1>a DEF OrderSaved, DriverTypes
  <2>2. /\ pc[r] = "order" /\ Load(r, u, "place", Locate(u, mine[r])) /\ mine[r] \in Places
        /\ profile[u] \in Rows
    BY <1>2, <1>a, <2>1 DEF OrderSaved, Load, DriverTypes
  <2>3. Locate(u, mine[r]) \in Rows /\ Locate(u, mine[r]).online = profile[u].online
    BY <2>2 DEF Locate, Rows, Places, AnyPlace
  <2> QED  BY <2>2, <2>3, LoadKeeps DEF IInv
<1> QED  BY <1>1, <1>2

LEMMA NextDrivers == IInv /\ [Next]_vars => DriversInv'
<1> SUFFICES ASSUME IInv, [Next]_vars PROVE DriversInv'
  OBVIOUS
<1>a. DriversInv
  BY DEF IInv
<1>1. ASSUME UNCHANGED profiles
      PROVE  DriversInv'
  BY <1>1, <1>a, DriversStep
<1>2. CASE RealtimeNext
  <2>1. ASSUME NEW s \in Sockets, NEW u \in Users, Connect(s, u)
        PROVE  DriversInv'
    BY <1>1, <2>1 DEF Connect
  <2>2. ASSUME NEW s \in Sockets, Disconnect(s) \/ \E o \in Orders : JoinOrder(s, o) \/ LeaveOrder(s, o)
        PROVE  DriversInv'
    BY <1>1, <2>2 DEF Disconnect, JoinOrder, LeaveOrder
  <2> QED  BY <1>2, <1>a, <2>1, <2>2, LocationKeeps, DriversStep DEF RealtimeNext
<1>3. CASE Restart
  <2>1. /\ \A r \in Slots : pc'[r] = "idle" /\ who'[r] = None /\ sets'[r] = None
                            /\ mine'[r] = None /\ seen'[r] = None
        /\ alone' = {} /\ UNCHANGED <<profile, sure>>
    BY <1>3 DEF Restart, RealtimeRestart
  <2>2. DriverTypes'
    BY <1>3, <1>a DEF Restart, RealtimeRestart, DriversInv, DriverTypes
  <2>3. AloneKnows'
    BY <2>1 DEF AloneKnows, Saving
  <2> QED  BY <1>a, <2>1, <2>2, <2>3 DEF DriversInv, ProfileAsReported
<1>4. ASSUME NEW n \in Notes, Save(n) \/ Send(n) \/ Emit(n)
      PROVE  DriversInv'
  BY <1>1, <1>4 DEF Save, Send, Emit
<1>5. ASSUME NEW n \in Notes, NEW u, NEW kind, NEW has, Notify(n, u, kind, has)
      PROVE  DriversInv'
  BY <1>1, <1>5 DEF Notify
<1>6. ASSUME NEW u, MarkAllAsRead(u) \/ \E n \in Notes : MarkAsRead(n, u)
      PROVE  DriversInv'
  BY <1>1, <1>6 DEF MarkAllAsRead, MarkAsRead
<1>7. CASE UNCHANGED vars
  BY <1>1, <1>7 DEF vars
<1> QED  BY <1>2, <1>3, <1>4, <1>5, <1>6, <1>7 DEF Next
-----------------------------------------------------------------------------
LEMMA NextGateway == IInv /\ [Next]_vars => GatewayInv'
<1> SUFFICES ASSUME IInv, [Next]_vars PROVE GatewayInv'
  OBVIOUS
<1>a. GatewayInv
  BY DEF IInv
<1>1. ASSUME UNCHANGED <<user, userSockets, overlapped>>
      PROVE  GatewayInv'
  BY <1>1, <1>a DEF GatewayInv, Open
<1>2. ASSUME NEW s \in Sockets, NEW u \in Users, Connect(s, u)
      PROVE  GatewayInv'
  <2>1. /\ user[s] = None /\ user' = [user EXCEPT ![s] = u]
        /\ userSockets' = [userSockets EXCEPT ![u] = s]
        /\ overlapped' = IF Open(u) = {} THEN overlapped \ {u} ELSE overlapped \cup {u}
    BY <1>2 DEF Connect
  <2>2. \A w \in Users : userSockets'[w] # None => user'[userSockets'[w]] = w
    <3>1. userSockets'[u] = s /\ user'[s] = u
      BY <1>a, <2>1 DEF GatewayInv
    <3>2. ASSUME NEW w \in Users \ {u}, userSockets'[w] # None
          PROVE  user'[userSockets'[w]] = w
      <4>1. userSockets'[w] = userSockets[w] /\ user[userSockets[w]] = w
        BY <1>a, <2>1, <3>2 DEF GatewayInv
      <4> QED  BY <1>a, <2>1, <4>1, NoneAssumption DEF GatewayInv
    <3> QED  BY <3>1, <3>2
  <2>3. ASSUME NEW w \in Users \ overlapped', NEW t \in Open(w)'
        PROVE  userSockets'[w] = t
    <3>1. CASE w = u
      <4>1. Open(u) = {}
        BY <2>1, <2>3, <3>1
      <4>2. t = s
        BY <1>a, <2>1, <2>3, <3>1, <4>1 DEF Open, GatewayInv
      <4> QED  BY <1>a, <2>1, <3>1, <4>2 DEF GatewayInv
    <3>2. CASE w # u
      <4>1. w \notin overlapped /\ t \in Open(w) /\ userSockets'[w] = userSockets[w]
        BY <1>a, <2>1, <2>3, <3>2 DEF Open, GatewayInv
      <4> QED  BY <1>a, <4>1 DEF GatewayInv
    <3> QED  BY <3>1, <3>2
  <2> QED  BY <1>a, <2>1, <2>2, <2>3 DEF GatewayInv
<1>3. ASSUME NEW s \in Sockets, Disconnect(s)
      PROVE  GatewayInv'
  <2>1. PICK u \in Users : u = user[s]
    BY <1>3, <1>a DEF Disconnect, GatewayInv
  <2>2. /\ user' = [user EXCEPT ![s] = None]
        /\ userSockets' = [userSockets EXCEPT ![u] = None]
        /\ overlapped' = overlapped
    BY <1>3, <2>1 DEF Disconnect
  <2>3. \A w \in Users : userSockets'[w] # None => user'[userSockets'[w]] = w
    BY <1>a, <2>1, <2>2 DEF GatewayInv
  <2>4. ASSUME NEW w \in Users \ overlapped', NEW t \in Open(w)'
        PROVE  userSockets'[w] = t
    <3>1. t \in Open(w) /\ t # s
      BY <1>a, <2>2, <2>4, NoneAssumption DEF Open, GatewayInv
    <3>2. userSockets[w] = t
      BY <1>a, <2>2, <3>1 DEF GatewayInv
    <3>3. w # u
      <4>1. s \in Open(u)
        BY <2>1 DEF Open
      <4>2. w = u => userSockets[w] = s
        BY <1>a, <2>2, <4>1 DEF GatewayInv
      <4> QED  BY <3>1, <3>2, <4>2
    <3> QED  BY <1>a, <2>2, <3>2, <3>3 DEF GatewayInv
  <2> QED  BY <1>a, <2>2, <2>3, <2>4 DEF GatewayInv
<1>4. CASE RealtimeNext
  <2>1. ASSUME NEW s \in Sockets, NEW o \in Orders, JoinOrder(s, o) \/ LeaveOrder(s, o)
        PROVE  GatewayInv'
    BY <1>1, <2>1 DEF JoinOrder, LeaveOrder
  <2>2. ASSUME NEW r \in Slots, NEW s \in Sockets, NEW place \in Places, DriverLocationUpdate(r, s, place)
        PROVE  GatewayInv'
    BY <1>1, <2>2 DEF DriverLocationUpdate, gateway
  <2>3. ASSUME NEW r \in Slots, OrderSaved(r)
        PROVE  GatewayInv'
    BY <1>1, <2>3 DEF OrderSaved, gateway
  <2>4. ASSUME UNCHANGED gateway
        PROVE  GatewayInv'
    BY <1>1, <2>4 DEF gateway
  <2> QED  BY <1>2, <1>3, <1>4, <2>1, <2>2, <2>3, <2>4 DEF RealtimeNext
<1>5. CASE Restart
  <2>1. /\ user' = [s \in Sockets |-> None] /\ userSockets' = [u \in Users |-> None] /\ overlapped' = {}
    BY <1>5 DEF Restart, RealtimeRestart
  <2> QED  BY <2>1, NoneAssumption DEF GatewayInv, Open
<1>6. ASSUME NEW n \in Notes, Save(n) \/ Send(n) \/ Emit(n)
      PROVE  GatewayInv'
  BY <1>1, <1>6 DEF Save, Send, Emit, gateway
<1>7. ASSUME NEW n \in Notes, NEW u, NEW kind, NEW has, Notify(n, u, kind, has)
      PROVE  GatewayInv'
  BY <1>1, <1>7 DEF Notify, gateway
<1>8. ASSUME NEW u, MarkAllAsRead(u) \/ \E n \in Notes : MarkAsRead(n, u)
      PROVE  GatewayInv'
  BY <1>1, <1>8 DEF MarkAllAsRead, MarkAsRead, gateway
<1>9. CASE UNCHANGED vars
  BY <1>1, <1>9 DEF vars, gateway
<1> QED  BY <1>4, <1>5, <1>6, <1>7, <1>8, <1>9 DEF Next

LEMMA NextNotices == IInv /\ [Next]_vars => NoticesInv'
<1> SUFFICES ASSUME IInv, [Next]_vars PROVE NoticesInv'
  OBVIOUS
<1>a. NoticesInv
  BY DEF IInv
<1>1. ASSUME UNCHANGED notices
      PROVE  NoticesInv'
  BY <1>1, <1>a DEF NoticesInv, notices
<1>2. ASSUME NEW n \in Notes, NEW u \in Users, NEW kind, NEW has, Notify(n, u, kind, has)
      PROVE  NoticesInv'
  BY <1>2, <1>a DEF Notify, Goto, NoticesInv
<1>3. ASSUME NEW n \in Notes, Save(n)
      PROVE  NoticesInv'
  BY <1>3, <1>a DEF Save, Goto, NoticesInv
<1>4. ASSUME NEW n \in Notes, Send(n)
      PROVE  NoticesInv'
  BY <1>4, <1>a DEF Send, NoticesInv
<1>5. ASSUME NEW n \in Notes, Emit(n)
      PROVE  NoticesInv'
  BY <1>5, <1>a DEF Emit, Goto, NoticesInv
<1>6. ASSUME NEW n \in Notes, NEW u \in Users, MarkAsRead(n, u)
      PROVE  NoticesInv'
  BY <1>6, <1>a DEF MarkAsRead, NoticesInv
<1>7. ASSUME NEW u \in Users, MarkAllAsRead(u)
      PROVE  NoticesInv'
  BY <1>7, <1>a DEF MarkAllAsRead, NoticesInv
<1>8. CASE Restart
  BY <1>8, <1>a DEF Restart, NoticesInv
<1>9. CASE UNCHANGED vars
  BY <1>1, <1>9 DEF vars
<1> QED  BY <1>1, <1>2, <1>3, <1>4, <1>5, <1>6, <1>7, <1>8, <1>9 DEF Next
-----------------------------------------------------------------------------
\* The inductive invariant holds in every reachable state: what a call that runs
\* alone has in memory is what the table has, a user's entry is their one socket,
\* and a stored notification is still being sent, or emitted, or its process died or
\* did not hear of the COMMIT.
THEOREM NotificationsInvariant == Spec => []IInv
<1>1. Init => IInv
  BY InitIInv
<1>2. IInv /\ [Next]_vars => IInv'
  BY NextDrivers, NextGateway, NextNotices DEF IInv
<1> QED  BY <1>1, <1>2, PTL DEF Spec

\* updateOnlineStatus and updateLocation, each saving the whole profile, leave the
\* other's columns as they were reported unless the calls overlap.
THEOREM ProfilesAreAsReported == Spec => []ProfileAsReported
<1>1. IInv => ProfileAsReported
  BY DEF IInv, DriversInv
<1> QED  BY <1>1, NotificationsInvariant, PTL

\* No error of a channel keeps a stored notification from being emitted: only a crash
\* does, or an answer of the database lost after the COMMIT of create.
THEOREM StoredAreEmitted == Spec => []StoredIsEmitted
<1>1. IInv => StoredIsEmitted
  BY DEF IInv, NoticesInv, StoredIsEmitted
<1> QED  BY <1>1, NotificationsInvariant, PTL

\* Whoever is connected is in the map userSockets, unless a second socket of
\* theirs was open since they last had none (handleConnection, handleDisconnect).
THEOREM ConnectedAreReachable == Spec => []ConnectedIsReachable
<1>1. IInv => ConnectedIsReachable
  <2> SUFFICES ASSUME IInv, NEW u \in Users \ overlapped, Open(u) # {}
               PROVE  userSockets[u] # None
    BY DEF ConnectedIsReachable
  <2>1. PICK s \in Sockets : s \in Open(u)
    BY DEF Open
  <2> QED  BY <2>1, SocketsAssumption DEF IInv, GatewayInv
<1> QED  BY <1>1, NotificationsInvariant, PTL

\* A notification emitted to a user with an open socket, who has not had two, goes
\* out on it: userSockets forgets nobody it should not.
THEOREM EmittedReachConnected == Spec => EmittedReachesConnected
<1> DEFINE Reaches ==
       \A n \in Notes :
          n \in emitted' \ emitted /\ to[n] \notin overlapped /\ Open(to[n]) # {} =>
              n \in received'
<1>1. IInv /\ [Next]_vars => [Reaches]_vars
  <2> SUFFICES ASSUME IInv, [Next]_vars, NEW n \in Notes, n \in emitted' \ emitted,
                      to[n] \notin overlapped, Open(to[n]) # {}
               PROVE  n \in received'
    OBVIOUS
  <2>1. ASSUME emitted' = emitted
        PROVE  FALSE
    BY <2>1
  <2>2. Emit(n)
    <3>1. CASE RealtimeNext /\ UNCHANGED notices
      BY <2>1, <3>1 DEF notices
    <3>2. ASSUME NEW m \in Notes, NEW u, NEW kind, NEW has, Notify(m, u, kind, has)
          PROVE  FALSE
      BY <2>1, <3>2 DEF Notify
    <3>3. ASSUME NEW u, MarkAllAsRead(u) \/ \E m \in Notes : MarkAsRead(m, u)
          PROVE  FALSE
      BY <2>1, <3>3 DEF MarkAllAsRead, MarkAsRead
    <3>4. ASSUME NEW m \in Notes, Save(m) \/ Send(m)
          PROVE  FALSE
      BY <2>1, <3>4 DEF Save, Send
    <3>5. ASSUME NEW m \in Notes, Emit(m)
          PROVE  m = n
      BY <3>5 DEF Emit
    <3>6. CASE Restart
      BY <2>1, <3>6 DEF Restart
    <3>7. CASE UNCHANGED vars
      BY <2>1, <3>7 DEF vars, notices
    <3> QED  BY <3>1, <3>2, <3>3, <3>4, <3>5, <3>6, <3>7 DEF Next
  <2>3. to[n] \in Users
    BY <2>2 DEF Emit, IInv, NoticesInv
  <2>4. PICK s \in Sockets : s \in Open(to[n])
    BY DEF Open
  <2>5. userSockets[to[n]] = s
    BY <2>3, <2>4 DEF IInv, GatewayInv
  <2> QED  BY <2>2, <2>5, SocketsAssumption DEF Emit
<1>2. Spec => [][Reaches]_vars
  BY <1>1, NotificationsInvariant, PTL DEF Spec
<1> QED  BY <1>2 DEF EmittedReachesConnected
-----------------------------------------------------------------------------
(* The types of the rest: what TypeOK says beyond the invariant. *)

\* A save only ever reads a row again that exists, a closed socket is in no room,
\* and only what was emitted is received.
TypesInv ==
    /\ seen \in [Slots -> {None} \cup Rows]
    /\ rooms \in [Sockets -> SUBSET Orders]
    /\ \A s \in Sockets : user[s] = None => rooms[s] = {}
    /\ channels \in [Notes -> Queues]
    /\ received \subseteq emitted

\* The channels that are left when one was tried are a list of the same kind.
LEMMA QueuesFacts ==
    /\ <<>> \in Queues
    /\ \A cs \in Queues : cs # <<>> => Tail(cs) \in Queues
<1> DEFINE Chars == {"push", "email", "sms"}
<1>1. ASSUME NEW c \in Chars, NEW some PROVE Try(c, some) \in Seq(Chars)
  <2> HIDE DEF Chars
  <2>1. <<>> \in Seq(Chars) /\ <<c>> \in Seq(Chars)
    BY <1>1
  <2> QED  BY <2>1 DEF Try
<1>2. ASSUME NEW c, NEW s \in Seq(Chars), NEW t \in Seq(Chars)
      PROVE  /\ <<>> \o s = s
             /\ c \in Chars => Tail(<<c>> \o s) = s /\ Tail((<<c>> \o s) \o t) = s \o t
  OBVIOUS
<1>3. InTurn({}) = <<>>
  BY DEF InTurn, Try
<1>4. ASSUME NEW some \in SUBSET Chars, InTurn(some) # <<>>
      PROVE  \E rest \in SUBSET Chars : Tail(InTurn(some)) = InTurn(rest)
  <2>1. CASE "push" \in some
    <3>1. Tail(InTurn(some)) = InTurn(some \ {"push"})
      BY <1>1, <1>2, <2>1 DEF InTurn, Try
    <3> QED  BY <3>1
  <2>2. CASE "push" \notin some /\ "email" \in some
    <3>1. Tail(InTurn(some)) = InTurn(some \ {"email"})
      BY <1>1, <1>2, <2>2 DEF InTurn, Try
    <3> QED  BY <3>1
  <2>3. CASE some \subseteq {"sms"}
    <3>1. Try("push", some) = <<>> /\ Try("email", some) = <<>>
      BY <2>3 DEF Try
    <3>2. InTurn(some) = Try("sms", some)
      BY <1>1, <1>2, <3>1 DEF InTurn
    <3>3. Tail(InTurn(some)) = <<>>
      BY <1>4, <3>2 DEF Try
    <3> QED  BY <1>3, <3>3
  <2> QED  BY <2>1, <2>2, <2>3
<1> QED  BY <1>3, <1>4 DEF Queues

LEMMA InitTypes == Init => TypesInv
<1> SUFFICES ASSUME Init PROVE TypesInv
  OBVIOUS
<1> QED  BY QueuesFacts DEF Init, RealtimeInit, DriversInit, TypesInv

LEMMA NextTypes == IInv /\ TypesInv /\ [Next]_vars => TypesInv'
<1> SUFFICES ASSUME IInv, TypesInv, [Next]_vars PROVE TypesInv'
  OBVIOUS
<1> DEFINE Saved == seen \in [Slots -> {None} \cup Rows]
           Joined == /\ rooms \in [Sockets -> SUBSET Orders]
                     /\ \A s \in Sockets : user[s] = None => rooms[s] = {}
           Sent == channels \in [Notes -> Queues] /\ received \subseteq emitted
<1>a. Saved /\ Joined /\ Sent /\ DriverTypes /\ GatewayInv
  BY DEF TypesInv, IInv, DriversInv
<1>1. ASSUME UNCHANGED profiles PROVE Saved'
  BY <1>1, <1>a DEF profiles
<1>2. ASSUME UNCHANGED gateway PROVE Joined'
  BY <1>2, <1>a DEF gateway
<1>3. ASSUME UNCHANGED notices PROVE Sent'
  BY <1>3, <1>a DEF notices
<1>4. ASSUME DriversNext PROVE Saved'
  <2>1. ASSUME NEW r \in Slots, Leave(r) PROVE Saved'
    BY <1>a, <2>1 DEF Leave
  <2>2. ASSUME NEW r \in Slots, NEW u, NEW column, NEW row, Load(r, u, column, row)
        PROVE  Saved'
    BY <1>a, <2>2 DEF Load
  <2>3. ASSUME NEW r \in Slots, Reload(r) PROVE Saved'
    BY <1>a, <2>3 DEF Reload, DriverTypes
  <2> QED  BY <1>4, <2>1, <2>2, <2>3 DEF DriversNext, UpdateOnlineStatus, UpdateLocation,
              Write, Fail
<1>5. ASSUME RealtimeNext PROVE Saved' /\ Joined'
  <2>1. ASSUME NEW s \in Sockets, NEW u \in Users, Connect(s, u) PROVE Saved' /\ Joined'
    BY <1>1, <1>a, <2>1, NoneAssumption DEF Connect, GatewayInv
  <2>2. ASSUME NEW s \in Sockets, Disconnect(s) PROVE Saved' /\ Joined'
    BY <1>1, <1>a, <2>2 DEF Disconnect, GatewayInv
  <2>3. ASSUME NEW s \in Sockets, NEW o \in Orders, JoinOrder(s, o) \/ LeaveOrder(s, o)
        PROVE  Saved' /\ Joined'
    BY <1>1, <1>a, <2>3 DEF JoinOrder, LeaveOrder, Guarded
  <2>4. ASSUME NEW r \in Slots, NEW s \in Sockets, NEW place \in Places,
               DriverLocationUpdate(r, s, place)
        PROVE  Saved' /\ Joined'
    BY <1>2, <1>a, <2>4 DEF DriverLocationUpdate
  <2>5. ASSUME NEW r \in Slots, OrderSaved(r) PROVE Saved' /\ Joined'
    BY <1>2, <1>a, <2>5 DEF OrderSaved, Load
  <2> QED  BY <1>2, <1>4, <1>5, <2>1, <2>2, <2>3, <2>4, <2>5 DEF RealtimeNext
<1>6. ASSUME NEW n \in Notes, NEW u \in Users, NEW kind \in DOMAIN Channels,
             NEW has \in SUBSET {"push", "sms"}, Notify(n, u, kind, has)
      PROVE  Sent'
  <2>1. Channels[kind] \cap (has \cup {"email"}) \in SUBSET {"push", "email", "sms"}
    OBVIOUS
  <2>2. InTurn(Channels[kind] \cap (has \cup {"email"})) \in Queues
    BY <2>1 DEF Queues
  <2> QED  BY <1>6, <1>a, <2>2 DEF Notify
<1>7. ASSUME NEW n \in Notes, Save(n) \/ Send(n) \/ Emit(n) PROVE Sent'
  <2>1. CASE Save(n)
    BY <1>a, <2>1, QueuesFacts DEF Save
  <2>2. CASE Send(n)
    BY <1>a, <2>2, QueuesFacts DEF Send
  <2>3. CASE Emit(n)
    BY <1>a, <2>3 DEF Emit
  <2> QED  BY <1>7, <2>1, <2>2, <2>3
<1>8. ASSUME NEW u, MarkAllAsRead(u) \/ \E n \in Notes : MarkAsRead(n, u) PROVE Sent'
  BY <1>8, <1>a DEF MarkAllAsRead, MarkAsRead
<1>9. CASE Restart
  <2>1. Saved' /\ Joined'
    BY <1>9 DEF Restart, RealtimeRestart
  <2>2. Sent'
    BY <1>9, <1>a, QueuesFacts DEF Restart
  <2> QED  BY <2>1, <2>2 DEF TypesInv
<1>10. CASE UNCHANGED vars
  BY <1>1, <1>2, <1>3, <1>10 DEF vars, TypesInv
<1>11. ASSUME NEW n \in Notes, Save(n) \/ Send(n) \/ Emit(n)
       PROVE  UNCHANGED <<profiles, gateway>>
  BY <1>11 DEF Save, Send, Emit
<1>12. ASSUME NEW n, NEW u, NEW kind, NEW has, Notify(n, u, kind, has)
       PROVE  UNCHANGED <<profiles, gateway>>
  BY <1>12 DEF Notify
<1>13. ASSUME NEW u, MarkAllAsRead(u) \/ \E n \in Notes : MarkAsRead(n, u)
       PROVE  UNCHANGED <<profiles, gateway>>
  BY <1>13 DEF MarkAllAsRead, MarkAsRead
<1>14. ASSUME Saved', Joined', Sent' PROVE TypesInv'
  BY <1>14 DEF TypesInv
<1> HIDE DEF Saved, Joined, Sent
<1> QED
  BY <1>1, <1>2, <1>3, <1>5, <1>6, <1>7, <1>8, <1>9, <1>10, <1>11, <1>12, <1>13, <1>14 DEF Next

\* Every variable of the three components keeps its type: the map names open
\* sockets of its own users only, and no call shares a driver with one that runs
\* alone.
THEOREM TypeCorrect == Spec => []TypeOK
<1>1. IInv /\ TypesInv => TypeOK
  <2> SUFFICES ASSUME IInv, TypesInv PROVE TypeOK
    OBVIOUS
  <2>1. ASSUME NEW u \in Users, NEW r \in Saving(u), NEW q \in Saving(u), r \in alone
        PROVE  q = r
    BY <2>1 DEF IInv, DriversInv, AloneKnows, Knows
  <2>2. DriversTypeOK
    BY <2>1 DEF IInv, DriversInv, DriverTypes, TypesInv, DriversTypeOK, Rows
  <2>3. RealtimeTypeOK
    BY <2>2 DEF IInv, GatewayInv, TypesInv, RealtimeTypeOK
  <2> QED  BY <2>3 DEF IInv, NoticesInv, TypesInv, TypeOK
<1> QED  BY <1>1, InitTypes, NextTypes, NotificationsInvariant, PTL DEF Spec
=============================================================================
