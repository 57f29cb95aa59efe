------------------------------- MODULE Drivers -------------------------------
(***************************************************************************)
(* src/src/drivers/drivers.service.ts: the table driver_profiles, and the  *)
(* two operations something calls, updateOnlineStatus and updateLocation.   *)
(* Each loads the whole row, assigns its columns and saves the entity; the *)
(* save reads the row again and updates the columns that differ.           *)
(*                                                                         *)
(* TypeORM hands a decimal column over as a string, so the coordinates that *)
(* updateLocation has assigned as numbers always differ and are written;   *)
(* those another call has loaded are compared as they are.                 *)
(*                                                                         *)
(* createProfile, updateDeliveryStatus, updateEarnings and updateRating    *)
(* have no caller; a driver has a profile from elsewhere, or none.         *)
(***************************************************************************)
EXTENDS Naturals, FiniteSets, Sequences, TypeORM

CONSTANTS
    Users,
    Slots,     \* calls that can be in progress at once
    Latitudes, Longitudes,
    None

ASSUME NoneAssumption == None \notin Users \cup Latitudes \cup Longitudes

\* The places drivers report, and those a row may have.
Places == [lat : Latitudes, lng : Longitudes]
AnyPlace == [lat : Latitudes \cup {None}, lng : Longitudes \cup {None}]
Nowhere == [lat |-> None, lng |-> None]

VARIABLES
    profile,   \* table driver_profiles: user -> row, or NoProfile
    pc,        \* slot -> where its call is
    who,       \* slot -> the driver it is about
    sets,      \* slot -> what the call assigns: "online", "place", or None
    mine,      \* slot -> the entity it has in memory (a place, before that)
    seen,      \* slot -> the row its save has read again
    alone,     \* history: slots whose call no other call of the driver overlaps
    sure       \* history: user -> what the last calls that ran alone have set

profiles == <<profile, pc, who, sets, mine, seen, alone, sure>>

Row(online, place) == [online |-> online, place |-> place]
NoProfile == Row(None, None)

Saving(u) == {r \in Slots : pc[r] \in {"reload", "write"} /\ who[r] = u}

DriversInit ==
    /\ profile \in [Users -> {NoProfile, Row(FALSE, Nowhere)}]
    /\ pc = [r \in Slots |-> "idle"]
    /\ who = [r \in Slots |-> None]
    /\ sets = [r \in Slots |-> None]
    /\ mine = [r \in Slots |-> None]
    /\ seen = [r \in Slots |-> None]
    /\ alone = {}
    /\ sure = profile

\* The profile is found and a column assigned.
Load(r, u, column, entity) ==
    /\ profile[u] # NoProfile
    /\ pc' = [pc EXCEPT ![r] = "reload"]
    /\ who' = [who EXCEPT ![r] = u]
    /\ sets' = [sets EXCEPT ![r] = column]
    /\ mine' = [mine EXCEPT ![r] = entity]
    /\ IF Saving(u) = {}
       THEN alone' = alone \cup {r} /\ UNCHANGED sure
       ELSE /\ alone' = alone \ Saving(u)
            /\ sure' = [sure EXCEPT ![u] = NoProfile]
    /\ UNCHANGED <<profile, seen>>

UpdateOnlineStatus(r, u, online) ==
    /\ pc[r] = "idle"
    /\ Load(r, u, "online", [profile[u] EXCEPT !.online = online])

\* Faulty variant: a driver who reports a place is taken to be online.
LocateOnline(u, place) == Row(TRUE, place)

\* updateLocation's assignment.
Locate(u, place) == [profile[u] EXCEPT !.place = place]

UpdateLocation(r, u, place) ==
    /\ pc[r] = "idle"
    /\ Load(r, u, "place", Locate(u, place))

\* The call returns or throws; its local variables go with it.
Leave(r) ==
    /\ pc' = [pc EXCEPT ![r] = "idle"]
    /\ who' = [who EXCEPT ![r] = None]
    /\ sets' = [sets EXCEPT ![r] = None]
    /\ mine' = [mine EXCEPT ![r] = None]
    /\ seen' = [seen EXCEPT ![r] = None]
    /\ alone' = alone \ {r}

\* The save reads the row again ...
Reload(r) ==
    /\ pc[r] = "reload"
    /\ pc' = [pc EXCEPT ![r] = "write"]
    /\ seen' = [seen EXCEPT ![r] = profile[who[r]]]
    /\ UNCHANGED <<profile, who, sets, mine, alone, sure>>

\* ... and updates what differs; the call returns.
Write(r) ==
    LET u == who[r]
        place == IF sets[r] = "place" THEN mine[r].place
                 ELSE [c \in {"lat", "lng"} |->
                          Column(mine[r].place[c], seen[r].place[c], profile[u].place[c])]
    IN
    /\ pc[r] = "write"
    /\ profile' = [profile EXCEPT ![u] =
            Row(Column(mine[r].online, seen[r].online, @.online), place)]
    /\ sure' = IF r \notin alone THEN sure
               ELSE IF sets[r] = "place" THEN [sure EXCEPT ![u].place = mine[r].place]
               ELSE [sure EXCEPT ![u].online = mine[r].online]
    /\ Leave(r)

\* Whatever the call does next raises an error.
Fail(r) ==
    /\ pc[r] # "idle"
    /\ Leave(r)
    /\ UNCHANGED <<profile, sure>>

DriversNext ==
    \E r \in Slots :
        \/ \E u \in Users, online \in BOOLEAN : UpdateOnlineStatus(r, u, online)
        \/ \E u \in Users, place \in Places : UpdateLocation(r, u, place)
        \/ Reload(r) \/ Write(r) \/ Fail(r)
-----------------------------------------------------------------------------
DriversTypeOK ==
    /\ profile \in [Users -> {NoProfile} \cup [online : BOOLEAN, place : AnyPlace]]
    /\ pc \in [Slots -> {"idle", "order", "reload", "write"}]
    /\ who \in [Slots -> Users \cup {None}]
    /\ sets \in [Slots -> {"online", "place", None}]
    /\ mine \in [Slots -> {None} \cup Places \cup [online : BOOLEAN, place : AnyPlace]]
    /\ seen \in [Slots -> {None} \cup [online : BOOLEAN, place : AnyPlace]]
    /\ alone \subseteq Slots
    /\ \A u \in Users : \A r, q \in Saving(u) : r \in alone => q = r
    /\ sure \in [Users -> [online : BOOLEAN \cup {None}, place : AnyPlace \cup {None}]]

\* Whether a driver is online, and where, is what was last reported by a call no
\* other overlapped, until calls overlap: each of the two operations saves the
\* whole profile and leaves the other's columns as they are.
ProfileAsReported ==
    \A u \in Users :
        /\ sure[u].online # None => profile[u].online = sure[u].online
        /\ sure[u].place # None => profile[u].place = sure[u].place
=============================================================================
