---------------------------- MODULE Notifications ----------------------------
(***************************************************************************)
(* src/src/notifications/*.ts over the gateway: a notification is stored,  *)
(* sent through the channels its kind has, one after the other, and last   *)
(* of all emitted to the user's socket.                                    *)
(*                                                                         *)
(* The channels (Firebase, nodemailer, Twilio) are external.  Each service *)
(* catches what they throw and returns it as a value, which nobody looks   *)
(* at, so only the save of the row can end a notification early: its error *)
(* is thrown to the caller, and the row may have been committed all the    *)
(* same, when only the answer was lost.  The notify methods are exported,  *)
(* and nothing in src/ calls them yet: the model calls them at any moment. *)
(***************************************************************************)
EXTENDS Realtime

CONSTANTS Notes   \* the notifications there may be

VARIABLES
    stage,     \* note -> "none", "save", "send", "done", "dead"; "failed" when an
               \* error ended it, "unsure" when that was the answer of a COMMIT
    to,        \* note -> its user
    channels,  \* note -> the channels still to be tried
    rows,      \* table notifications: note -> "none", "unread" or "read"
    emitted,   \* notes that have been handed to the gateway
    received   \* notes that went out on an open socket of their user

notices == <<stage, to, channels, rows, emitted, received>>
vars == <<profiles, gateway, notices>>

\* The channels of each notify method, and the order all of them try theirs in.
Channels ==
    [order_created |-> {"push", "email"},
     order_accepted |-> {"push", "email", "sms"},
     order_picked_up |-> {"push"},
     order_delivered |-> {"push", "email", "sms"},
     payment_success |-> {"push"},
     payment_failed |-> {"push"}]

Try(c, some) == IF c \in some THEN <<c>> ELSE <<>>
InTurn(some) == Try("push", some) \o Try("email", some) \o Try("sms", some)

Init ==
    /\ RealtimeInit
    /\ stage = [n \in Notes |-> "none"]
    /\ to = [n \in Notes |-> None]
    /\ channels = [n \in Notes |-> <<>>]
    /\ rows = [n \in Notes |-> "none"]
    /\ emitted = {} /\ received = {}

Goto(n, label) == stage' = [stage EXCEPT ![n] = label]

\* A push needs a token of the user's, an SMS their number.
Notify(n, u, kind, has) ==
    /\ stage[n] = "none"
    /\ Goto(n, "save")
    /\ to' = [to EXCEPT ![n] = u]
    /\ channels' = [channels EXCEPT ![n] = InTurn(Channels[kind] \cap (has \cup {"email"}))]
    /\ UNCHANGED <<profiles, gateway, rows, emitted, received>>

\* create; an error there is the caller's.  The row is stored all the same when it
\* is the answer of the COMMIT that got lost.
Save(n) ==
    /\ stage[n] = "save"
    /\ \/ /\ Goto(n, "send")
          /\ rows' = [rows EXCEPT ![n] = "unread"]
          /\ UNCHANGED channels
       \/ /\ \/ Goto(n, "failed") /\ UNCHANGED rows
             \/ Goto(n, "unsure") /\ rows' = [rows EXCEPT ![n] = "unread"]
          /\ channels' = [channels EXCEPT ![n] = <<>>]
    /\ UNCHANGED <<profiles, gateway, to, emitted, received>>

\* Faulty variant: a channel's error is thrown on.
SendThrows(n) ==
    /\ stage[n] = "send" /\ channels[n] # <<>>
    /\ channels' = [channels EXCEPT ![n] = Tail(@)]
    /\ stage' \in {stage, [stage EXCEPT ![n] = "failed"]}
    /\ UNCHANGED <<profiles, gateway, to, rows, emitted, received>>

\* sendToDevice, sendEmail or sendSms, which return whatever happens.
Send(n) ==
    /\ stage[n] = "send" /\ channels[n] # <<>>
    /\ channels' = [channels EXCEPT ![n] = Tail(@)]
    /\ UNCHANGED <<profiles, gateway, stage, to, rows, emitted, received>>

\* notifyUser; nothing is sent when the map has no socket.
Emit(n) ==
    /\ stage[n] = "send" /\ channels[n] = <<>>
    /\ Goto(n, "done")
    /\ emitted' = emitted \cup {n}
    /\ received' = IF userSockets[to[n]] = None THEN received ELSE received \cup {n}
    /\ UNCHANGED <<profiles, gateway, to, channels, rows>>

\* markAsRead of one's own row, a findOne and a save; isRead never goes back, so
\* the moment between the two changes nothing.
MarkAsRead(n, u) ==
    /\ rows[n] # "none" /\ to[n] = u
    /\ rows' = [rows EXCEPT ![n] = "read"]
    /\ UNCHANGED <<profiles, gateway, stage, to, channels, emitted, received>>

MarkAllAsRead(u) ==
    /\ rows' = [n \in Notes |-> IF rows[n] = "unread" /\ to[n] = u THEN "read" ELSE rows[n]]
    /\ UNCHANGED <<profiles, gateway, stage, to, channels, emitted, received>>

Restart ==
    /\ RealtimeRestart
    /\ stage' = [n \in Notes |-> IF stage[n] \in {"save", "send"} THEN "dead" ELSE stage[n]]
    /\ channels' = [n \in Notes |-> <<>>]
    /\ UNCHANGED <<to, rows, emitted, received>>

Next ==
    \/ RealtimeNext /\ UNCHANGED notices
    \/ \E n \in Notes, u \in Users :
          \/ \E kind \in DOMAIN Channels, has \in SUBSET {"push", "sms"} : Notify(n, u, kind, has)
          \/ MarkAsRead(n, u)
    \/ \E n \in Notes : Save(n) \/ Send(n) \/ Emit(n)
    \/ \E u \in Users : MarkAllAsRead(u)
    \/ Restart

Spec == Init /\ [][Next]_vars
-----------------------------------------------------------------------------
\* What is left of the channels of a notification.
Queues == {InTurn(some) : some \in SUBSET {"push", "email", "sms"}}

\* Every variable of the three components has its type.
TypeOK ==
    /\ RealtimeTypeOK
    /\ stage \in [Notes -> {"none", "save", "send", "done", "failed", "unsure", "dead"}]
    /\ to \in [Notes -> Users \cup {None}]
    /\ channels \in [Notes -> Queues]
    /\ rows \in [Notes -> {"none", "unread", "read"}]
    /\ emitted \subseteq Notes /\ received \subseteq emitted

\* A notification that was stored is emitted before its method returns, whatever
\* becomes of its channels: only the end of the process keeps it back, or the loss
\* of the COMMIT's own answer, which ends the method with an error.
StoredIsEmitted ==
    \A n \in Notes : rows[n] # "none" => n \in emitted \/ stage[n] \in {"send", "unsure", "dead"}

\* A notification that is emitted to a user who is connected goes out on one of
\* their sockets, unless they have had two at once: no disconnect of another
\* connection, and no restart, makes the gateway forget them.
EmittedReachesConnected ==
    [][\A n \in Notes :
          n \in emitted' \ emitted /\ to[n] \notin overlapped /\ Open(to[n]) # {} =>
              n \in received']_vars
=============================================================================
