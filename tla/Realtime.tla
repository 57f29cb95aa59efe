------------------------------ MODULE Realtime ------------------------------
(***************************************************************************)
(* src/src/realtime/realtime.gateway.ts: the sockets of one process, the   *)
(* map userSockets it finds a user's socket in, and the rooms of orders;   *)
(* over Drivers, whose profile a driver's location update saves.           *)
(*                                                                         *)
(* A handler runs to its first await undisturbed, so connecting, joining   *)
(* and leaving are single steps; update_driver_location is not.  A socket  *)
(* whose token is refused is closed before anything is kept of it, and     *)
(* WsJwtGuard sets the user a socket already has.  What is sent to a room   *)
(* is not kept, so send_message changes nothing.                           *)
(*                                                                         *)
(* The server learns of a lost connection late: a user may be back on a    *)
(* new socket before the old one is disconnected.                          *)
(***************************************************************************)
EXTENDS Drivers

CONSTANTS
    Sockets,   \* the ids open sockets may have
    Orders

ASSUME SocketsAssumption == None \notin Sockets

VARIABLES
    user,         \* socket -> its user, None when it is closed
    userSockets,  \* the map: user -> socket, or None
    rooms,        \* socket -> the orders whose rooms it is in
    overlapped    \* history: users who had two sockets since they last had none

gateway == <<user, userSockets, rooms, overlapped>>

Open(u) == {s \in Sockets : user[s] = u}

RealtimeInit ==
    /\ DriversInit
    /\ user = [s \in Sockets |-> None]
    /\ userSockets = [u \in Users |-> None]
    /\ rooms = [s \in Sockets |-> {}]
    /\ overlapped = {}

\* Faulty variant: entering the map is left to the first message.
ConnectUnnamed(s, u) ==
    /\ user[s] = None
    /\ user' = [user EXCEPT ![s] = u]
    /\ overlapped' = IF Open(u) = {} THEN overlapped \ {u} ELSE overlapped \cup {u}
    /\ UNCHANGED <<profiles, userSockets, rooms>>

\* handleConnection: the latest socket counts.
Connect(s, u) ==
    /\ user[s] = None
    /\ user' = [user EXCEPT ![s] = u]
    /\ userSockets' = [userSockets EXCEPT ![u] = s]
    /\ overlapped' = IF Open(u) = {} THEN overlapped \ {u} ELSE overlapped \cup {u}
    /\ UNCHANGED <<profiles, rooms>>

\* Faulty variant: the entry outlives the socket.
DisconnectKeeps(s) ==
    /\ user[s] # None
    /\ user' = [user EXCEPT ![s] = None]
    /\ rooms' = [rooms EXCEPT ![s] = {}]
    /\ UNCHANGED <<profiles, userSockets, overlapped>>

\* handleDisconnect: the user's entry goes, whichever socket it names.
Disconnect(s) ==
    /\ user[s] # None
    /\ userSockets' = [userSockets EXCEPT ![user[s]] = None]
    /\ user' = [user EXCEPT ![s] = None]
    /\ rooms' = [rooms EXCEPT ![s] = {}]
    /\ UNCHANGED <<profiles, overlapped>>

\* WsJwtGuard, which asks for the token again: only a connected socket has one.
Guarded(s) == user[s] # None

JoinOrder(s, o) ==
    /\ Guarded(s)
    /\ rooms' = [rooms EXCEPT ![s] = @ \cup {o}]
    /\ UNCHANGED <<profiles, user, userSockets, overlapped>>

LeaveOrder(s, o) ==
    /\ Guarded(s)
    /\ rooms' = [rooms EXCEPT ![s] = @ \ {o}]
    /\ UNCHANGED <<profiles, user, userSockets, overlapped>>

\* handleDriverLocationUpdate: the order is saved first (Orders) ...
DriverLocationUpdate(r, s, place) ==
    /\ Guarded(s) /\ pc[r] = "idle"
    /\ pc' = [pc EXCEPT ![r] = "order"]
    /\ who' = [who EXCEPT ![r] = user[s]]
    /\ mine' = [mine EXCEPT ![r] = place]
    /\ UNCHANGED <<profile, sets, seen, alone, sure, gateway>>

\* ... then the driver's profile.  Once that is saved the order's room is told,
\* and when either save fails the answer says so.
OrderSaved(r) ==
    /\ pc[r] = "order"
    /\ Load(r, who[r], "place", Locate(who[r], mine[r]))
    /\ UNCHANGED gateway

\* The process starts again: sockets, rooms and calls are gone.
RealtimeRestart ==
    /\ user' = [s \in Sockets |-> None]
    /\ userSockets' = [u \in Users |-> None]
    /\ rooms' = [s \in Sockets |-> {}]
    /\ overlapped' = {}
    /\ pc' = [r \in Slots |-> "idle"]
    /\ who' = [r \in Slots |-> None]
    /\ sets' = [r \in Slots |-> None]
    /\ mine' = [r \in Slots |-> None]
    /\ seen' = [r \in Slots |-> None]
    /\ alone' = {}
    /\ UNCHANGED <<profile, sure>>

RealtimeNext ==
    \/ \E s \in Sockets, u \in Users : Connect(s, u)
    \/ \E s \in Sockets : Disconnect(s)
    \/ \E s \in Sockets, o \in Orders : JoinOrder(s, o) \/ LeaveOrder(s, o)
    \/ \E r \in Slots, s \in Sockets, place \in Places : DriverLocationUpdate(r, s, place)
    \/ \E r \in Slots : OrderSaved(r)
    \/ DriversNext /\ UNCHANGED gateway
-----------------------------------------------------------------------------
\* The map names open sockets only, each its own user's; who is in a room is
\* connected.
RealtimeTypeOK ==
    /\ DriversTypeOK
    /\ user \in [Sockets -> Users \cup {None}]
    /\ userSockets \in [Users -> Sockets \cup {None}]
    /\ \A u \in Users : userSockets[u] # None => user[userSockets[u]] = u
    /\ rooms \in [Sockets -> SUBSET Orders]
    /\ \A s \in Sockets : user[s] = None => rooms[s] = {}
    /\ overlapped \subseteq Users

\* Whoever is connected can be reached through the map, unless a second socket of
\* theirs was open since they last had none: then disconnecting one makes the
\* gateway forget them, though the other is still there.
ConnectedIsReachable ==
    \A u \in Users \ overlapped : Open(u) # {} => userSockets[u] # None
=============================================================================
