--------------------------- MODULE PaymentsProofs ---------------------------
(***************************************************************************)
(* What TLC checks of Payments on a small instance, proved for any pool,   *)
(* any slots and any events, users and accounts.                           *)
(***************************************************************************)
EXTENDS Payments, FiniteSetTheorems, TLAPS

\* The tickets that are held or waited with.
Out == held \cup Waiting

Types ==
    /\ pc \in [Slots -> {"idle", "connect", "select", "setting", "save", "rollback",
                         "provider", "insert"}]
    /\ call \in [Slots -> [kind : Kinds \cup {"none"},
                           user : Users \cup {None},
                           about : Events \cup Accounts \cup {None}]]
    /\ rowLine \in [Users -> Seq(Lockers)]
    /\ cached \in BOOLEAN
    /\ payer \in [Events -> Users \cup {None}]
    /\ acknowledged \subseteq Events /\ failed \subseteq Events
    /\ deliveries \in [Events -> 0 .. MaxDeliveries]
    /\ posts \in [Events -> Nat]
    /\ account \in [Users -> Accounts \cup {None}]
    /\ opened \in [Users -> SUBSET Accounts]
    /\ told \in [Users -> SUBSET Accounts]
    /\ contested \subseteq Users

\* The pool is sound, and no more than the tickets are out.
PoolOK ==
    /\ size \in Sizes /\ lost \in 0 .. MaxLost
    /\ IsFiniteSet(held) /\ held \subseteq Tickets
    /\ line \in Seq(Tickets)
    /\ PoolSound

\* What the place of a call says of it, and of the connections it has or waits
\* for: a transaction keeps one, and only who fetches a setting wants a second.
CallOK(r) ==
    /\ pc[r] = "idle" => call[r] = NoCall
    /\ pc[r] # "idle" => call[r].kind \in Serves[r] /\ User(r) \in Users
    /\ call[r].kind = "hook" => call[r].about \in Events
    /\ pc[r] \in {"select", "setting", "save", "rollback"} => call[r].kind \in Locking
    /\ pc[r] \in Opening => call[r].kind = "account"
    /\ pc[r] = "provider" => call[r].about = None
    /\ pc[r] = "insert" => call[r].about \in Accounts
    /\ call[r].kind = "account" /\ pc[r] = "connect" => call[r].about = None
    /\ Own(r) \in Out <=> pc[r] \notin {"idle", "provider"}
    /\ Own(r) \in Waiting => pc[r] \in {"connect", "insert"}
    /\ Extra(r) \in Out <=> pc[r] = "setting"

\* Every post of an event, and every hook at work on it, is one of its deliveries.
Hooks(e) == {r \in Slots : call[r].kind = "hook" /\ call[r].about = e}
Delivered == \A e \in Events : posts[e] + Cardinality(Hooks(e)) <= deliveries[e]

\* Who is opening an uncontested user's account is alone, and it is not stored.
OpensAlone ==
    \A u \in Users \ contested : \A q, r \in OpeningFor(u) : q = r /\ account[u] = None

IInv ==
    /\ Types
    /\ PoolOK
    /\ \A r \in Slots : CallOK(r)
    /\ Delivered
    /\ AcknowledgedIsPosted
    /\ OneAccountTold
    /\ OpensAlone
    /\ OrphansAreContested
-----------------------------------------------------------------------------
LEMMA WaitingFacts ==
    ASSUME line \in Seq(Tickets)
    PROVE  /\ Waiting \subseteq Tickets
           /\ line = <<>> <=> Waiting = {}
<1>1. \A i \in 1 .. Len(line) : line[i] \in Tickets
  OBVIOUS
<1>2. line # <<>> => 1 \in 1 .. Len(line)
  OBVIOUS
<1> QED  BY <1>1, <1>2 DEF Waiting

\* Asking for a connection gives it, or puts the ticket in line.
LEMMA AskFacts ==
    ASSUME PoolOK, NEW t \in Tickets \ Out, Ask(t)
    PROVE  /\ PoolOK'
           /\ Out' = Out \cup {t}
           /\ Waiting \subseteq Waiting' /\ Waiting' \subseteq Waiting \cup {t}
<1> USE SizesAssumption, MaxLostAssumption DEF PoolOK, PoolSound, Out
<1>1. Cardinality(held) \in Nat /\ size \in Nat /\ lost \in Nat
  BY FS_CardinalityType
<1>2. CASE Cardinality(held) + lost < size
  <2>1. IsFiniteSet(held') /\ Cardinality(held') = Cardinality(held) + 1
    BY <1>2, FS_AddElement DEF Ask
  <2>2. line' = line /\ Waiting' = Waiting /\ held' = held \cup {t} /\ size' = size /\ lost' = lost
    BY <1>2 DEF Ask, Waiting
  <2>3. line = <<>>
    BY <1>1, <1>2
  <2> QED  BY <1>1, <1>2, <2>1, <2>2, <2>3
<1>3. CASE ~(Cardinality(held) + lost < size)
  <2>1. line' = Append(line, t) /\ held' = held /\ size' = size /\ lost' = lost
    BY <1>3 DEF Ask
  <2>2. /\ line' \in Seq(Tickets) /\ Len(line') = Len(line) + 1
        /\ line'[Len(line) + 1] = t
        /\ \A i \in 1 .. Len(line) : line'[i] = line[i]
    BY <2>1
  <2>3. Waiting' = Waiting \cup {t}
    BY <2>2 DEF Waiting
  <2>4. \A i, j \in 1 .. Len(line') : line'[i] = line'[j] => i = j
    <3>1. \A i \in 1 .. Len(line) : line[i] # t
      BY DEF Waiting
    <3> QED  BY <2>2, <3>1
  <2>5. Cardinality(held) + lost = size
    BY <1>1, <1>3
  <2> QED  BY <1>1, <2>1, <2>2, <2>3, <2>4, <2>5
<1> QED  BY <1>2, <1>3

\* Giving one back takes the ticket out, and perhaps another out of the line.
LEMMA GiveBackFacts ==
    ASSUME PoolOK, NEW t \in held, GiveBack(t)
    PROVE  /\ PoolOK'
           /\ Out' = Out \ {t}
           /\ Waiting' \subseteq Waiting
<1> USE SizesAssumption, MaxLostAssumption DEF PoolOK, PoolSound, Out
<1>1. Cardinality(held) \in Nat /\ size \in Nat /\ lost \in Nat
  BY FS_CardinalityType
<1>2. IsFiniteSet(held \ {t}) /\ Cardinality(held \ {t}) = Cardinality(held) - 1
  BY FS_RemoveElement
<1>3. CASE line = <<>>
  <2>1. /\ line' = line /\ Waiting' = Waiting /\ held' = held \ {t}
        /\ size' = size /\ lost' = lost
    BY <1>3 DEF GiveBack, Waiting
  <2> QED  BY <1>1, <1>2, <1>3, <2>1
<1>4. CASE line # <<>>
  <2>1. /\ line' = Tail(line) /\ held' = (held \ {t}) \cup {Head(line)}
        /\ size' = size /\ lost' = lost
    BY <1>4 DEF GiveBack
  <2>2. /\ Len(line) \in Nat /\ Len(line) > 0
        /\ line' \in Seq(Tickets) /\ Len(line') = Len(line) - 1
        /\ Head(line) = line[1] /\ Head(line) \in Tickets
        /\ \A i \in 1 .. Len(line') : line'[i] = line[i + 1]
    BY <1>4, <2>1
  <2>3. Waiting = Waiting' \cup {Head(line)}
    <3>1. \A i \in 1 .. Len(line) : i = 1 \/ (i - 1 \in 1 .. Len(line') /\ line[i] = line'[i - 1])
      BY <2>2
    <3>2. ASSUME NEW w \in Waiting  PROVE w \in Waiting' \cup {Head(line)}
      <4>1. PICK i \in 1 .. Len(line) : w = line[i]
        BY DEF Waiting
      <4>2. CASE i = 1
        BY <2>2, <4>1, <4>2
      <4>3. CASE i # 1
        BY <3>1, <4>1, <4>3 DEF Waiting
      <4> QED  BY <4>2, <4>3
    <3>3. Waiting' \subseteq Waiting
      <4>1. \A i \in 1 .. Len(line') : i + 1 \in 1 .. Len(line)
        BY <2>2
      <4> QED  BY <2>2, <4>1 DEF Waiting
    <3>4. Head(line) \in Waiting
      <4>1. 1 \in 1 .. Len(line)
        BY <2>2
      <4> QED  BY <2>2, <4>1 DEF Waiting
    <3> QED  BY <3>2, <3>3, <3>4
  <2>4. Head(line) \notin Waiting'
    <3>1. \A i \in 1 .. Len(line') : i + 1 \in 1 .. Len(line) /\ 1 \in 1 .. Len(line) /\ i + 1 # 1
      BY <2>2
    <3>2. \A i \in 1 .. Len(line') : line'[i] # Head(line)
      BY <2>2, <3>1
    <3> QED  BY <3>2 DEF Waiting
  <2>5. \A i, j \in 1 .. Len(line') : line'[i] = line'[j] => i = j
    BY <2>2
  <2>6. Head(line) \notin held
    BY <2>3
  <2>7. IsFiniteSet(held') /\ Cardinality(held') = Cardinality(held)
    <3>1. Head(line) \notin held \ {t}
      BY <2>6
    <3>2. /\ IsFiniteSet((held \ {t}) \cup {Head(line)})
          /\ Cardinality((held \ {t}) \cup {Head(line)}) = Cardinality(held \ {t}) + 1
      BY <1>2, <3>1, FS_AddElement
    <3> QED  BY <1>1, <1>2, <2>1, <3>2
  <2>8. Cardinality(held) + lost = size
    BY <1>4
  <2>9. held' \cap Waiting' = {}
    BY <2>1, <2>3, <2>4
  <2> QED  BY <1>1, <2>1, <2>2, <2>3, <2>5, <2>7, <2>8, <2>9
<1> QED  BY <1>3, <1>4

LEMMA LoseFacts ==
    ASSUME PoolOK, NEW t \in held, Lose(t)
    PROVE  /\ PoolOK'
           /\ Out' = Out \ {t}
           /\ Waiting' = Waiting
<1> USE SizesAssumption, MaxLostAssumption DEF PoolOK, PoolSound, Out
<1>1. Cardinality(held) \in Nat /\ size \in Nat /\ lost \in Nat
  BY FS_CardinalityType
<1>2. IsFiniteSet(held') /\ Cardinality(held') = Cardinality(held) - 1
  BY FS_RemoveElement DEF Lose
<1>3. line' = line /\ Waiting' = Waiting /\ held' = held \ {t} /\ size' = size /\ lost' = lost + 1
  BY DEF Lose, Waiting
<1>4. lost' \in 0 .. MaxLost
  BY <1>1, <1>3 DEF Lose
<1> QED  BY <1>1, <1>2, <1>3, <1>4

LEMMA ReopenFacts ==
    ASSUME PoolOK, Reopen
    PROVE  PoolOK' /\ Out' = {}
<1> USE SizesAssumption, MaxLostAssumption DEF PoolOK, PoolSound, Out
<1>1. IsFiniteSet(held') /\ Cardinality(held') = 0
  BY FS_EmptySet DEF Reopen
<1>2. line' = <<>> /\ lost' = 0 /\ size' = size /\ held' = {}
  BY DEF Reopen
<1>3. Waiting' = {}
  BY <1>2 DEF Waiting
<1>4. size \in Nat
  OBVIOUS
<1> QED  BY <1>1, <1>2, <1>3, <1>4
-----------------------------------------------------------------------------
LEMMA TicketFacts ==
    \A q, r \in Slots :
        /\ Own(r) \in Tickets /\ Extra(r) \in Tickets
        /\ Own(q) # Extra(r)
        /\ Own(q) = Own(r) => q = r
        /\ Extra(q) = Extra(r) => q = r
BY TicketsAssumption DEF Own, Extra

\* A call another slot's step leaves alone keeps its place and its connections.
LEMMA OthersKeep ==
    ASSUME NEW r \in Slots, NEW q \in Slots, q # r, CallOK(q),
           pc'[q] = pc[q], call'[q] = call[q],
           NEW t \in {Own(r), Extra(r)},
           Out' \in {Out, Out \cup {t}, Out \ {t}},
           Waiting' \subseteq Waiting \cup {t}
    PROVE  CallOK(q)'
<1>1. Own(q) # t /\ Extra(q) # t
  BY TicketFacts
<1>2. Own(q)' = Own(q) /\ Extra(q)' = Extra(q) /\ User(q)' = User(q)
  BY DEF Own, Extra, User
<1>3. (Own(q) \in Out' <=> Own(q) \in Out) /\ (Extra(q) \in Out' <=> Extra(q) \in Out)
  BY <1>1
<1>4. Own(q) \in Waiting' => Own(q) \in Waiting
  BY <1>1
<1> QED  BY <1>2, <1>3, <1>4 DEF CallOK

LEMMA InitIInv == Init => IInv
<1> SUFFICES ASSUME Init PROVE IInv
  OBVIOUS
<1> USE DEF Init, PoolInit
<1>1. Types
  BY BoundAssumption DEF Types, NoCall
<1>2. Waiting = {} /\ Out = {}
  BY DEF Waiting, Out
<1>3. PoolOK
  BY <1>2, FS_EmptySet, SizesAssumption, MaxLostAssumption DEF PoolOK, PoolSound
<1>4. \A r \in Slots : CallOK(r)
  BY <1>2 DEF CallOK, NoCall, Opening
<1>5. Delivered
  <2>1. \A e \in Events : Hooks(e) = {}
    BY DEF Hooks, NoCall
  <2>2. Cardinality({}) = 0
    BY FS_EmptySet
  <2>3. \A e \in Events : Cardinality(Hooks(e)) = 0
    BY <2>1, <2>2
  <2>4. \A e \in Events : posts[e] = 0 /\ deliveries[e] = 0
    OBVIOUS
  <2> QED  BY <2>3, <2>4 DEF Delivered
<1>6. \A u \in Users : OpeningFor(u) = {}
  BY DEF OpeningFor, NoCall
<1> QED  BY <1>1, <1>3, <1>4, <1>5, <1>6 DEF IInv, AcknowledgedIsPosted, OneAccountTold,
            OpensAlone, OrphansAreContested
-----------------------------------------------------------------------------
\* A step of a call about its own place and one of its tickets.
Touches(r, t) ==
    /\ PoolOK'
    /\ Out' \in {Out, Out \cup {t}, Out \ {t}}
    /\ Waiting' \subseteq Waiting \cup {t}
    /\ \A q \in Slots \ {r} : pc'[q] = pc[q] /\ call'[q] = call[q]

LEMMA StepCalls ==
    ASSUME IInv, NEW r \in Slots, NEW t \in {Own(r), Extra(r)}, Touches(r, t), CallOK(r)'
    PROVE  PoolOK' /\ \A q \in Slots : CallOK(q)'
BY OthersKeep DEF IInv, Touches

\* The pool as it was.
LEMMA PoolUnchanged ==
    ASSUME PoolOK, UNCHANGED pool
    PROVE  PoolOK' /\ Out' = Out /\ Waiting' = Waiting
BY DEF PoolOK, PoolSound, Out, Waiting, pool

LEMMA NextCalls == IInv /\ [Next]_vars => PoolOK' /\ \A r \in Slots : CallOK(r)'
<1> SUFFICES ASSUME IInv, [Next]_vars PROVE PoolOK' /\ \A r \in Slots : CallOK(r)'
  OBVIOUS
<1> DEFINE Goal == PoolOK' /\ \A q \in Slots : CallOK(q)'
<1>a. PoolOK /\ Types /\ \A r \in Slots : CallOK(r)
  BY DEF IInv
<1>b. \A r \in Slots : /\ Own(r) \in Tickets /\ Extra(r) \in Tickets /\ Own(r) # Extra(r)
                       /\ Own(r)' = Own(r) /\ Extra(r)' = Extra(r)
  BY TicketFacts DEF Own, Extra
<1>c. held \cap Waiting = {}
  BY <1>a DEF PoolOK, PoolSound
<1>1. ASSUME NEW r \in Slots, NEW kind, NEW u, NEW about, NEW label \in {"connect"},
             Begin(r, label, kind, u, about), Ask(Own(r)),
             kind \in Serves[r], kind \in {"hook", "pay", "write", "account", "read"}, u \in Users,
             IF kind = "hook" THEN about \in Events ELSE about = None
      PROVE  Goal
  <2>1. Own(r) \notin Out /\ Extra(r) \notin Out
    BY <1>1, <1>a DEF CallOK, Begin
  <2>2. /\ PoolOK' /\ Out' = Out \cup {Own(r)} /\ Waiting' \subseteq Waiting \cup {Own(r)}
    BY <1>1, <1>a, <1>b, <2>1, AskFacts
  <2>3. Touches(r, Own(r))
    BY <1>1, <1>a, <2>2 DEF Touches, Begin, Types
  <2>4. /\ pc'[r] = "connect"
        /\ call'[r] = [kind |-> kind, user |-> u, about |-> about]
    BY <1>1, <1>a DEF Begin, Types
  <2>5. CallOK(r)'
    BY <1>1, <1>b, <2>1, <2>2, <2>4 DEF CallOK, User, Opening, Locking, Money, Out
  <2> QED  BY <2>3, <2>5, StepCalls
\* A call goes on, or ends, and the connection it has comes back or is lost.
<1>2. ASSUME NEW r \in Slots, NEW t \in {Own(r), Extra(r)}, t \in held,
             GiveBack(t) \/ Lose(t),
             \A q \in Slots \ {r} : pc'[q] = pc[q] /\ call'[q] = call[q]
      PROVE  /\ Touches(r, t)
             /\ Out' = Out \ {t} /\ Waiting' \subseteq Waiting
  BY <1>2, <1>a, GiveBackFacts, LoseFacts DEF Touches
<1>3. ASSUME NEW r \in Slots, Leave(r)
      PROVE  /\ pc'[r] = "idle" /\ call'[r] = NoCall
             /\ \A q \in Slots \ {r} : pc'[q] = pc[q] /\ call'[q] = call[q]
  BY <1>3, <1>a DEF Leave, Types
<1>4. ASSUME NEW r \in Slots, NEW label, Goto(r, label)
      PROVE  /\ pc'[r] = label /\ call' = call
             /\ \A q \in Slots \ {r} : pc'[q] = pc[q] /\ call'[q] = call[q]
  BY <1>4, <1>a DEF Goto, Types
\* It ends with its own connection coming back.
<1>5. ASSUME NEW r \in Slots, Own(r) \in held, GiveBack(Own(r)) \/ Lose(Own(r)), Leave(r),
             pc[r] # "setting"
      PROVE  Goal
  <2>1. Touches(r, Own(r)) /\ Out' = Out \ {Own(r)} /\ Waiting' \subseteq Waiting
    BY <1>2, <1>3, <1>5
  <2>2. Extra(r) \notin Out
    BY <1>5, <1>a DEF CallOK
  <2>3. Own(r) \notin Waiting'
    BY <1>5, <1>c, <2>1
  <2>4. CallOK(r)'
    BY <1>3, <1>5, <1>b, <2>1, <2>2, <2>3 DEF CallOK, NoCall, Opening, Locking, Money
  <2> QED  BY <2>1, <2>4, StepCalls
<1>6. ASSUME NEW r \in Slots, pc[r] \in {"select", "save", "rollback", "setting"}
      PROVE  Own(r) \in held
  BY <1>6, <1>a DEF CallOK, Out
\* It goes on with the connections it has.
<1>7. ASSUME NEW r \in Slots, UNCHANGED pool, call[r].kind \in Locking, Own(r) \in held,
             \/ pc[r] = "connect" /\ Goto(r, "select")
             \/ pc[r] = "select" /\ Goto(r, "save")
      PROVE  Goal
  <2>1. PoolOK' /\ Out' = Out /\ Waiting' = Waiting
    BY <1>7, <1>a, PoolUnchanged
  <2>2. Touches(r, Own(r))
    BY <1>4, <1>7, <2>1 DEF Touches
  <2>3. CallOK(r)'
    BY <1>4, <1>7, <1>a, <1>b, <1>c, <2>1 DEF CallOK, User, Opening
  <2> QED  BY <2>2, <2>3, StepCalls
<1>8. ASSUME NEW r \in Slots, StartTransaction(r) \/ StartFails(r)
      PROVE  Goal
  <2>1. CASE StartTransaction(r)
    BY <1>7, <2>1 DEF StartTransaction, Connected
  <2>2. CASE StartFails(r)
    BY <1>5, <2>2 DEF StartFails, Connected, Return
  <2> QED  BY <1>8, <2>1, <2>2
<1>9. ASSUME NEW r \in Slots, Select(r)
      PROVE  Goal
  <2>1. pc[r] = "select" /\ call[r].kind \in Locking /\ Own(r) \in held
    BY <1>6, <1>9, <1>a DEF Select, CallOK
  <2>2. CASE UNCHANGED pool /\ Goto(r, "save")
    BY <1>7, <2>1, <2>2
  <2>3. CASE Goto(r, "setting") /\ Ask(Extra(r))
    <3>1. Extra(r) \notin Out
      BY <1>a, <2>1 DEF CallOK
    <3>2. /\ PoolOK' /\ Out' = Out \cup {Extra(r)} /\ Waiting' \subseteq Waiting \cup {Extra(r)}
      BY <1>a, <1>b, <2>3, <3>1, AskFacts
    <3>3. Touches(r, Extra(r))
      BY <1>4, <2>3, <3>2 DEF Touches
    <3>4. Own(r) \notin Waiting' /\ Own(r) \in Out'
      BY <1>b, <1>c, <2>1, <3>2 DEF Out
    <3>5. CallOK(r)'
      BY <1>4, <1>a, <1>b, <2>1, <2>3, <3>2, <3>4 DEF CallOK, User, Opening
    <3> QED  BY <3>3, <3>5, StepCalls
  <2> QED  BY <1>9, <2>2, <2>3 DEF Select
<1>10. ASSUME NEW r \in Slots, Fetch(r)
      PROVE  Goal
  <2>1. /\ pc[r] = "setting" /\ Extra(r) \in held /\ GiveBack(Extra(r)) /\ Own(r) \in held
        /\ Goto(r, "save") \/ Goto(r, "rollback")
    BY <1>6, <1>10 DEF Fetch
  <2>2. Touches(r, Extra(r)) /\ Out' = Out \ {Extra(r)} /\ Waiting' \subseteq Waiting
    BY <1>2, <1>4, <2>1
  <2>3. Own(r) \notin Waiting' /\ Own(r) \in Out' /\ Extra(r) \notin Out'
    BY <1>b, <1>c, <2>1, <2>2 DEF Out
  <2>4. CallOK(r)'
    BY <1>4, <1>a, <1>b, <2>1, <2>3 DEF CallOK, User, Opening
  <2> QED  BY <2>2, <2>4, StepCalls
<1>11. ASSUME NEW r \in Slots, Commit(r) \/ Rollback(r)
      PROVE  Goal
  BY <1>5, <1>6, <1>11 DEF Commit, Rollback, Return
<1>12. ASSUME NEW r \in Slots, Query(r) \/ Insert(r) \/ InsertFails(r)
      PROVE  Goal
  BY <1>5, <1>12 DEF Query, Insert, InsertFails, Connected
<1>13. ASSUME NEW r \in Slots, Find(r)
      PROVE  Goal
  <2>1. /\ pc[r] = "connect" /\ Own(r) \in held /\ call[r].kind = "account" /\ GiveBack(Own(r))
        /\ Leave(r) \/ Goto(r, "provider")
    BY <1>13 DEF Find, Connected
  <2>2. CASE Leave(r)
    BY <1>5, <2>1, <2>2
  <2>3. CASE Goto(r, "provider")
    <3>1. Touches(r, Own(r)) /\ Out' = Out \ {Own(r)} /\ Waiting' \subseteq Waiting
      BY <1>2, <1>4, <2>1, <2>3
    <3>2. Own(r) \notin Waiting' /\ Own(r) \notin Out' /\ Extra(r) \notin Out'
      BY <1>a, <1>b, <1>c, <2>1, <3>1 DEF CallOK, Out
    <3>3. CallOK(r)'
      BY <1>4, <1>a, <1>b, <2>1, <2>3, <3>2 DEF CallOK, User, Opening
    <3> QED  BY <3>1, <3>3, StepCalls
  <2> QED  BY <2>1, <2>2, <2>3
<1>14. ASSUME NEW r \in Slots, Create(r)
      PROVE  Goal
  <2>1. PICK a \in Accounts : call' = [call EXCEPT ![r].about = a]
    BY <1>14 DEF Create
  <2>2. /\ pc[r] = "provider" /\ pc'[r] = "insert" /\ Ask(Own(r))
        /\ \A q \in Slots \ {r} : pc'[q] = pc[q] /\ call'[q] = call[q]
        /\ call'[r].about = a /\ call'[r].kind = call[r].kind /\ call'[r].user = call[r].user
    BY <1>14, <1>a, <2>1 DEF Create, Types
  <2>3. Own(r) \notin Out /\ Extra(r) \notin Out /\ call[r].kind = "account"
    BY <1>a, <2>2 DEF CallOK, Opening
  <2>4. PoolOK' /\ Out' = Out \cup {Own(r)} /\ Waiting' \subseteq Waiting \cup {Own(r)}
    BY <1>a, <1>b, <2>2, <2>3, AskFacts
  <2>5. Touches(r, Own(r))
    BY <2>2, <2>4 DEF Touches
  <2>6. CallOK(r)'
    BY <1>a, <1>b, <2>2, <2>3, <2>4 DEF CallOK, User, Opening, Locking, Money
  <2> QED  BY <2>5, <2>6, StepCalls
<1>15. ASSUME NEW r \in Slots, CreateFails(r)
      PROVE  Goal
  <2>1. pc[r] = "provider" /\ Leave(r) /\ UNCHANGED pool
    BY <1>15 DEF CreateFails
  <2>2. PoolOK' /\ Out' = Out /\ Waiting' = Waiting
    BY <1>a, <2>1, PoolUnchanged
  <2>3. Touches(r, Own(r))
    BY <1>3, <2>1, <2>2 DEF Touches
  <2>4. Own(r) \notin Out /\ Extra(r) \notin Out
    BY <1>a, <2>1 DEF CallOK
  <2>5. CallOK(r)'
    BY <1>3, <1>b, <2>1, <2>2, <2>4 DEF CallOK, NoCall, Opening, Locking, Money, Out
  <2> QED  BY <2>3, <2>5, StepCalls
<1>16. CASE Restart
  <2>1. PoolOK' /\ Out' = {}
    BY <1>a, <1>16, ReopenFacts DEF Restart
  <2>2. \A r \in Slots : pc'[r] = "idle" /\ call'[r] = NoCall
    BY <1>16 DEF Restart
  <2> QED  BY <2>1, <2>2 DEF CallOK, NoCall, Opening, Locking, Money, Out
<1>17. CASE UNCHANGED <<pool, pc, call>>
  <2>1. PoolOK' /\ Out' = Out /\ Waiting' = Waiting /\ pc' = pc /\ call' = call
    BY <1>a, <1>17, PoolUnchanged
  <2> QED  BY <1>a, <1>b, <2>1 DEF CallOK, User
<1>18. ASSUME NEW r \in Slots, NEW kind \in Kinds \ {"hook"}, NEW u \in Users, Call(r, kind, u)
      PROVE  Goal
  BY <1>1, <1>18 DEF Call, Kinds, Locking, Money
<1>19. ASSUME NEW r \in Slots, NEW e \in Events, Deliver(r, e)
      PROVE  Goal
  <2>1. payer[e] \in Users
    BY <1>19, <1>a DEF Deliver, Types
  <2> QED  BY <1>1, <1>19, <2>1 DEF Deliver
<1>20. UNCHANGED vars \/ DeleteSetting \/ (\E e \in Events : DeliverNameless(e)) =>
          UNCHANGED <<pool, pc, call>>
  BY DEF vars, DeleteSetting, DeliverNameless
<1> QED  BY <1>8, <1>9, <1>10, <1>11, <1>12, <1>13, <1>14, <1>15, <1>16, <1>17, <1>18, <1>19, <1>20
         DEF Next, Proceed
-----------------------------------------------------------------------------
\* Who may wait at a row is a locker; to stand in a row's line, and to leave it, keeps
\* the line one of lockers.
LEMMA RowLines ==
    ASSUME IInv, NEW r \in Slots, pc[r] # "idle", call[r].kind \in Locking
    PROVE  /\ r \in Lockers /\ User(r) \in Users
           /\ Unlock(r) => rowLine' \in [Users -> Seq(Lockers)]
<1>1. r \in Lockers /\ User(r) \in Users
  BY DEF IInv, CallOK, Lockers
<1>2. rowLine \in [Users -> Seq(Lockers)]
  BY DEF IInv, Types
<1>3. ASSUME NEW q \in Seq(Lockers), NEW i \in 1 .. Len(q)
      PROVE  SubSeq(q, 1, i - 1) \o SubSeq(q, i + 1, Len(q)) \in Seq(Lockers)
  <2>1. SubSeq(q, 1, i - 1) \in Seq(Lockers) /\ SubSeq(q, i + 1, Len(q)) \in Seq(Lockers)
    OBVIOUS
  <2> QED  BY <2>1
<1>4. ASSUME Unlock(r)  PROVE rowLine' \in [Users -> Seq(Lockers)]
  <2> DEFINE q == rowLine[User(r)]
  <2>1. PICK i \in 1 .. Len(q) :
           rowLine' = [rowLine EXCEPT ![User(r)] = SubSeq(q, 1, i - 1) \o SubSeq(q, i + 1, Len(q))]
    BY <1>4 DEF Unlock
  <2>2. q \in Seq(Lockers)
    BY <1>1, <1>2
  <2>3. SubSeq(q, 1, i - 1) \o SubSeq(q, i + 1, Len(q)) \in Seq(Lockers)
    BY <1>3, <2>2
  <2> HIDE DEF q
  <2> QED  BY <1>1, <1>2, <2>1, <2>3
<1> QED  BY <1>1, <1>4

LEMMA NextTypes == IInv /\ [Next]_vars => Types'
<1> SUFFICES ASSUME IInv, [Next]_vars PROVE Types'
  OBVIOUS
<1> USE DEF Types, wallet, virtual, provider
<1>a. Types /\ \A r \in Slots : CallOK(r)
  BY DEF IInv
<1>b. NoCall \in [kind : Kinds \cup {"none"}, user : Users \cup {None},
                  about : Events \cup Accounts \cup {None}]
  BY DEF NoCall
<1>c. ASSUME NEW u \in Users, NEW a \in Accounts,
             told' \in {told, [told EXCEPT ![u] = @ \cup {a}]}
      PROVE  told' \in [Users -> SUBSET Accounts]
  <2>1. [told EXCEPT ![u] = @ \cup {a}] \in [Users -> SUBSET Accounts]
    BY <1>a
  <2> QED  BY <1>a, <1>c, <2>1
<1>1. ASSUME NEW r \in Slots, NEW kind \in Kinds \ {"hook"}, NEW u \in Users, Call(r, kind, u)
      PROVE  Types'
  BY <1>1, <1>a DEF Call, Begin, Kinds, Locking, Money
<1>2. ASSUME NEW r \in Slots, NEW e \in Events, Deliver(r, e)
      PROVE  Types'
  <2>1. deliveries' \in [Events -> 0 .. MaxDeliveries]
    BY <1>2, <1>a, BoundAssumption DEF Deliver
  <2>2. payer[e] \in Users
    BY <1>2, <1>a DEF Deliver
  <2> QED  BY <1>2, <1>a, <2>1, <2>2 DEF Deliver, Begin, Kinds, Locking, Money
<1>3. ASSUME NEW r \in Slots, StartTransaction(r)
      PROVE  Types'
  <2>1. r \in Lockers /\ User(r) \in Users
    BY <1>3, RowLines DEF StartTransaction, Connected
  <2>2. rowLine' \in [Users -> Seq(Lockers)]
    BY <1>3, <1>a, <2>1 DEF StartTransaction
  <2> QED  BY <1>3, <1>a, <2>2 DEF StartTransaction, Goto
<1>4. ASSUME NEW r \in Slots, Return(r), CallOK(r)
      PROVE  /\ pc' \in [Slots -> {"idle", "connect", "select", "setting", "save", "rollback",
                                   "provider", "insert"}]
             /\ call' \in [Slots -> [kind : Kinds \cup {"none"}, user : Users \cup {None},
                                     about : Events \cup Accounts \cup {None}]]
             /\ acknowledged' \subseteq Events
  BY <1>4, <1>a, <1>b DEF Return, Leave, CallOK
<1>5. ASSUME NEW r \in Slots, NotPosted(r), CallOK(r)
      PROVE  failed' \subseteq Events
  BY <1>5, <1>a DEF NotPosted, CallOK
<1>6. ASSUME NEW r \in Slots, StartFails(r)
      PROVE  Types'
  BY <1>4, <1>5, <1>6, <1>a DEF StartFails
<1>7. ASSUME NEW r \in Slots, Select(r) \/ Fetch(r)
      PROVE  Types'
  BY <1>7, <1>a DEF Select, Fetch, Goto
<1>8. ASSUME NEW r \in Slots, Commit(r)
      PROVE  Types'
  <2>1. rowLine' \in [Users -> Seq(Lockers)]
    BY <1>8, <1>a, RowLines DEF Commit, CallOK
  <2>2. posts' \in [Events -> Nat]
    <3>1. call[r].kind = "hook" => call[r].about \in Events
      BY <1>a DEF CallOK
    <3> QED  BY <1>8, <1>a, <3>1 DEF Commit
  <2>3. failed' \subseteq Events
    BY <1>5, <1>8, <1>a DEF Commit
  <2>4. Return(r) /\ UNCHANGED <<cached, provider, virtual>>
    BY <1>8 DEF Commit
  <2> QED  BY <1>4, <1>a, <2>1, <2>2, <2>3, <2>4
<1>9. ASSUME NEW r \in Slots, Rollback(r)
      PROVE  Types'
  <2>1. rowLine' \in [Users -> Seq(Lockers)]
    BY <1>9, <1>a, RowLines DEF Rollback, CallOK
  <2> QED  BY <1>4, <1>5, <1>9, <1>a, <2>1 DEF Rollback
<1>10. ASSUME NEW r \in Slots, Query(r)
       PROVE  Types'
  BY <1>10, <1>a, <1>b DEF Query, Leave
<1>11. ASSUME NEW r \in Slots, Find(r)
       PROVE  Types'
  <2>1. User(r) \in Users
    BY <1>11, <1>a DEF Find, Connected, CallOK
  <2>2. pc' \in [Slots -> {"idle", "connect", "select", "setting", "save", "rollback",
                           "provider", "insert"}]
    BY <1>11, <1>a DEF Find, Leave, Goto
  <2>3. call' \in [Slots -> [kind : Kinds \cup {"none"}, user : Users \cup {None},
                             about : Events \cup Accounts \cup {None}]]
    BY <1>11, <1>a, <1>b DEF Find, Leave, Goto
  <2>4. told' \in [Users -> SUBSET Accounts]
    <3>1. account[User(r)] # None => account[User(r)] \in Accounts
      BY <1>a, <2>1
    <3>2. told' = told \/ /\ account[User(r)] # None
                          /\ told' = [told EXCEPT ![User(r)] = @ \cup {account[User(r)]}]
      BY <1>11 DEF Find
    <3> QED  BY <1>a, <1>c, <2>1, <3>1, <3>2
  <2>5. contested' \subseteq Users
    BY <1>11, <1>a, <2>1 DEF Find
  <2> QED  BY <1>11, <1>a, <2>2, <2>3, <2>4, <2>5 DEF Find
<1>12. ASSUME NEW r \in Slots, Create(r)
       PROVE  Types'
  <2>1. PICK a \in Accounts : /\ opened' = [opened EXCEPT ![User(r)] = @ \cup {a}]
                              /\ call' = [call EXCEPT ![r].about = a]
    BY <1>12 DEF Create
  <2>2. opened' \in [Users -> SUBSET Accounts]
    BY <1>a, <2>1
  <2>3. call' \in [Slots -> [kind : Kinds \cup {"none"}, user : Users \cup {None},
                             about : Events \cup Accounts \cup {None}]]
    BY <1>a, <2>1
  <2> QED  BY <1>12, <1>a, <2>2, <2>3 DEF Create
<1>13. ASSUME NEW r \in Slots, CreateFails(r)
       PROVE  Types'
  <2>1. User(r) \in Users
    BY <1>13, <1>a DEF CreateFails, CallOK
  <2>2. ASSUME NEW a \in Accounts
        PROVE  [opened EXCEPT ![User(r)] = @ \cup {a}] \in [Users -> SUBSET Accounts]
    BY <1>a
  <2>3. opened' \in [Users -> SUBSET Accounts]
    BY <1>13, <1>a, <2>2 DEF CreateFails
  <2> QED  BY <1>13, <1>a, <1>b, <2>1, <2>3 DEF CreateFails, Leave
<1>14. ASSUME NEW r \in Slots, Insert(r) \/ InsertFails(r)
       PROVE  Types'
  <2>1. User(r) \in Users /\ call[r].about \in Accounts
    BY <1>14, <1>a DEF Insert, InsertFails, Connected, CallOK
  <2>2. account' \in [Users -> Accounts \cup {None}]
    BY <1>14, <1>a, <2>1 DEF Insert, InsertFails
  <2>3. told' \in [Users -> SUBSET Accounts]
    <3>1. told' \in {told, [told EXCEPT ![User(r)] = @ \cup {call[r].about}]}
      BY <1>14 DEF Insert, InsertFails
    <3> QED  BY <1>c, <2>1, <3>1
  <2>4. contested' \subseteq Users
    BY <1>14, <1>a, <2>1 DEF Insert, InsertFails
  <2>5. /\ pc' = [pc EXCEPT ![r] = "idle"] /\ call' = [call EXCEPT ![r] = NoCall]
        /\ UNCHANGED <<rowLine, posts, cached, acknowledged, provider, opened, failed>>
    BY <1>14 DEF Insert, InsertFails, Leave
  <2> QED  BY <1>a, <1>b, <2>2, <2>3, <2>4, <2>5
<1>15. CASE Restart
  <2>1. rowLine' \in [Users -> Seq(Lockers)]
    BY <1>15 DEF Restart
  <2> QED  BY <1>15, <1>a, <1>b, <2>1 DEF Restart
<1>16. CASE UNCHANGED vars \/ DeleteSetting \/ \E e \in Events : DeliverNameless(e)
  BY <1>16, <1>a DEF vars, DeleteSetting, DeliverNameless
<1> QED  BY <1>1, <1>2, <1>3, <1>6, <1>7, <1>8, <1>9, <1>10, <1>11, <1>12, <1>13, <1>14, <1>15, <1>16
         DEF Next, Proceed
-----------------------------------------------------------------------------
\* How the hooks at work on an event change with one slot's call.
LEMMA HooksStep ==
    ASSUME NEW r \in Slots, NEW e \in Events, \A q \in Slots \ {r} : call'[q] = call[q]
    PROVE  /\ Cardinality(Hooks(e)) \in Nat /\ Cardinality(Hooks(e)') \in Nat
           /\ r \notin Hooks(e)' /\ r \in Hooks(e) =>
                 Cardinality(Hooks(e)') = Cardinality(Hooks(e)) - 1
           /\ r \notin Hooks(e)' => Cardinality(Hooks(e)') <= Cardinality(Hooks(e))
           /\ Cardinality(Hooks(e)') <= Cardinality(Hooks(e)) + 1
           /\ call'[r] = call[r] => Cardinality(Hooks(e)') = Cardinality(Hooks(e))
<1>1. IsFiniteSet(Hooks(e)) /\ IsFiniteSet(Hooks(e)')
  BY SlotsAssumption, FS_Subset DEF Hooks
<1>2. \A q \in Slots \ {r} : q \in Hooks(e)' <=> q \in Hooks(e)
  BY DEF Hooks
<1>3. Hooks(e) \subseteq Slots /\ Hooks(e)' \subseteq Slots
  BY DEF Hooks
<1>4. call'[r] = call[r] => Hooks(e)' = Hooks(e)
  BY <1>2, <1>3 DEF Hooks
<1>5. Cardinality(Hooks(e)) \in Nat /\ Cardinality(Hooks(e)') \in Nat
  BY <1>1, FS_CardinalityType
<1>6. CASE r \notin Hooks(e)' /\ r \in Hooks(e)
  <2>1. Hooks(e)' = Hooks(e) \ {r}
    BY <1>2, <1>3, <1>6
  <2>2. Cardinality(Hooks(e) \ {r}) = Cardinality(Hooks(e)) - 1
    BY <1>1, <1>6, FS_RemoveElement
  <2> QED  BY <1>4, <1>5, <1>6, <2>1, <2>2
<1>7. CASE r \in Hooks(e)' /\ r \notin Hooks(e)
  <2>1. Hooks(e)' = Hooks(e) \cup {r}
    BY <1>2, <1>3, <1>7
  <2>2. Cardinality(Hooks(e) \cup {r}) = Cardinality(Hooks(e)) + 1
    BY <1>1, <1>7, FS_AddElement
  <2> QED  BY <1>4, <1>5, <1>7, <2>1, <2>2
<1>8. CASE r \in Hooks(e)' <=> r \in Hooks(e)
  <2>1. Hooks(e)' = Hooks(e)
    BY <1>2, <1>3, <1>8
  <2> QED  BY <1>5, <1>8, <2>1
<1> QED  BY <1>6, <1>7, <1>8

\* One slot's call has begun or gone on; the others' are as they were.
Only(r) == \A q \in Slots \ {r} : pc'[q] = pc[q] /\ call'[q] = call[q]

\* What the shared parts of the actions do to the calls.
LEMMA CallSteps ==
    ASSUME Types, NEW r \in Slots
    PROVE  /\ Leave(r) => Only(r) /\ pc'[r] = "idle" /\ call'[r] = NoCall
           /\ Return(r) => Leave(r)
           /\ \A label : Goto(r, label) => Only(r) /\ pc'[r] = label /\ call' = call
           /\ \A a : pc' = [pc EXCEPT ![r] = "insert"] /\ call' = [call EXCEPT ![r].about = a] =>
                 /\ Only(r) /\ pc'[r] = "insert" /\ call'[r].about = a
                 /\ call'[r].kind = call[r].kind /\ call'[r].user = call[r].user
BY DEF Types, Leave, Return, Goto, Begin, Only

LEMMA NextDelivered == IInv /\ [Next]_vars => Delivered'
<1> SUFFICES ASSUME IInv, [Next]_vars PROVE Delivered'
  OBVIOUS
<1> USE DEF wallet, virtual, provider
<1>a. /\ Types /\ Delivered /\ \A r \in Slots : CallOK(r)
      /\ posts \in [Events -> Nat] /\ deliveries \in [Events -> 0 .. MaxDeliveries]
  BY DEF IInv, Types
<1>b. \A e \in Events : posts[e] \in Nat /\ deliveries[e] \in Nat
  BY <1>a, BoundAssumption
\* A step that neither posts nor delivers, and begins no hook.
<1>1. ASSUME NEW r \in Slots, Only(r), UNCHANGED <<posts, deliveries>>,
             call'[r] = call[r] \/ call'[r].kind # "hook"
      PROVE  Delivered'
  <2>1. ASSUME NEW e \in Events
        PROVE  posts[e] + Cardinality(Hooks(e)') <= deliveries[e]
    <3>1. r \notin Hooks(e)' \/ call'[r] = call[r]
      BY <1>1 DEF Hooks
    <3>2. Cardinality(Hooks(e)') <= Cardinality(Hooks(e))
      BY <1>1, <3>1, HooksStep DEF Only
    <3>3. posts[e] + Cardinality(Hooks(e)) <= deliveries[e]
      BY <1>a DEF Delivered
    <3> QED  BY <1>1, <1>b, <3>2, <3>3, HooksStep DEF Only
  <2> QED  BY <1>1, <2>1 DEF Delivered
<1>2. ASSUME NEW r \in Slots, Leave(r), UNCHANGED <<posts, deliveries>>
      PROVE  Delivered'
  BY <1>1, <1>2, <1>a, CallSteps DEF NoCall
<1>3. ASSUME NEW r \in Slots, NEW label, Goto(r, label), UNCHANGED <<posts, deliveries>>
      PROVE  Delivered'
  BY <1>1, <1>3, <1>a, CallSteps
<1>4. ASSUME NEW r \in Slots, NEW kind \in Kinds \ {"hook"}, NEW u \in Users, Call(r, kind, u)
      PROVE  Delivered'
  <2>1. Begin(r, "connect", kind, u, None) /\ UNCHANGED <<posts, deliveries>>
    BY <1>4 DEF Call
  <2>2. Only(r) /\ call'[r].kind = kind
    <3>1. /\ Only(r)
          /\ call'[r] = [kind |-> kind, user |-> u, about |-> None]
      BY <1>a, <2>1 DEF Types, Begin, Only
    <3> QED  BY <3>1
  <2> QED  BY <1>1, <2>1, <2>2
<1>5. ASSUME NEW r \in Slots, NEW d \in Events, Deliver(r, d)
      PROVE  Delivered'
  <2>1. /\ Begin(r, "connect", "hook", payer[d], d) /\ posts' = posts
        /\ deliveries' = [deliveries EXCEPT ![d] = @ + 1]
    BY <1>5 DEF Deliver
  <2>2. Only(r) /\ call'[r].about = d
    <3>1. /\ Only(r)
          /\ call'[r] = [kind |-> "hook", user |-> payer[d], about |-> d]
      BY <1>a, <2>1 DEF Types, Begin, Only
    <3> QED  BY <3>1
  <2>3. ASSUME NEW e \in Events
        PROVE  posts'[e] + Cardinality(Hooks(e)') <= deliveries'[e]
    <3>1. posts[e] + Cardinality(Hooks(e)) <= deliveries[e]
      BY <1>a DEF Delivered
    <3>2. CASE e = d
      BY <1>a, <1>b, <2>1, <2>2, <3>1, <3>2, HooksStep DEF Only
    <3>3. CASE e # d
      <4>1. r \notin Hooks(e)'
        BY <2>2, <3>3 DEF Hooks
      <4>2. Cardinality(Hooks(e)') <= Cardinality(Hooks(e))
        BY <2>2, <4>1, HooksStep DEF Only
      <4>3. deliveries'[e] = deliveries[e] /\ posts'[e] = posts[e]
        BY <1>a, <2>1, <3>3
      <4> QED  BY <1>b, <2>2, <3>1, <4>2, <4>3, HooksStep DEF Only
    <3> QED  BY <3>2, <3>3
  <2> QED  BY <2>3 DEF Delivered
<1>6. ASSUME NEW r \in Slots, Commit(r)
      PROVE  Delivered'
  <2>1. /\ Return(r) /\ deliveries' = deliveries
        /\ posts' = IF call[r].kind = "hook" THEN [posts EXCEPT ![call[r].about] = @ + 1] ELSE posts
    BY <1>6 DEF Commit
  <2>2. Only(r) /\ call'[r] = NoCall
    BY <1>a, <2>1, CallSteps
  <2>3. ASSUME NEW e \in Events
        PROVE  posts'[e] + Cardinality(Hooks(e)') <= deliveries[e]
    <3>1. posts[e] + Cardinality(Hooks(e)) <= deliveries[e]
      BY <1>a DEF Delivered
    <3>2. r \notin Hooks(e)'
      BY <2>2 DEF Hooks, NoCall
    <3>3. CASE r \in Hooks(e)
      <4>1. posts'[e] = posts[e] + 1
        BY <1>a, <2>1, <3>3 DEF Hooks
      <4>2. Cardinality(Hooks(e)') = Cardinality(Hooks(e)) - 1
        BY <2>2, <3>2, <3>3, HooksStep DEF Only
      <4> QED  BY <1>b, <2>2, <3>1, <4>1, <4>2, HooksStep DEF Only
    <3>4. CASE r \notin Hooks(e)
      <4>1. posts'[e] = posts[e]
        BY <1>a, <2>1, <3>4 DEF Hooks
      <4> QED  BY <1>b, <2>2, <3>1, <3>2, <4>1, HooksStep DEF Only
    <3> QED  BY <3>3, <3>4
  <2> QED  BY <2>1, <2>3 DEF Delivered
<1>7. ASSUME NEW r \in Slots, StartTransaction(r) \/ Select(r) \/ Fetch(r)
      PROVE  Delivered'
  BY <1>3, <1>7 DEF StartTransaction, Select, Fetch
<1>8. ASSUME NEW r \in Slots, StartFails(r) \/ Rollback(r) \/ Query(r) \/ CreateFails(r)
                              \/ Insert(r) \/ InsertFails(r)
      PROVE  Delivered'
  BY <1>2, <1>8, <1>a, CallSteps DEF StartFails, Rollback, Query, CreateFails, Insert, InsertFails
<1>9. ASSUME NEW r \in Slots, Find(r)
      PROVE  Delivered'
  BY <1>2, <1>3, <1>9 DEF Find
<1>10. ASSUME NEW r \in Slots, Create(r)
       PROVE  Delivered'
  <2>1. PICK a \in Accounts : call' = [call EXCEPT ![r].about = a]
    BY <1>10 DEF Create
  <2>2. Only(r) /\ call'[r].kind = call[r].kind
    BY <1>10, <1>a, <2>1, CallSteps DEF Create
  <2>3. call[r].kind = "account"
    BY <1>10, <1>a DEF Create, CallOK, Opening
  <2> QED  BY <1>1, <1>10, <2>2, <2>3 DEF Create
<1>11. CASE Restart
  <2>1. \A e \in Events : Hooks(e)' = {}
    BY <1>11 DEF Restart, Hooks, NoCall
  <2>2. \A e \in Events : Cardinality(Hooks(e)') = 0
    BY <2>1, FS_EmptySet
  <2>3. \A e \in Events : Cardinality(Hooks(e)) \in Nat
    <3>1. \A e \in Events : IsFiniteSet(Hooks(e))
      BY SlotsAssumption, FS_Subset DEF Hooks
    <3> QED  BY <3>1, FS_CardinalityType
  <2>4. ASSUME NEW e \in Events
        PROVE  posts'[e] + Cardinality(Hooks(e)') <= deliveries'[e]
    <3>1. posts[e] + Cardinality(Hooks(e)) <= deliveries[e]
      BY <1>a DEF Delivered
    <3>2. posts'[e] = posts[e] /\ deliveries'[e] = deliveries[e]
      BY <1>11 DEF Restart
    <3> QED  BY <1>b, <2>2, <2>3, <3>1, <3>2
  <2> QED  BY <2>4 DEF Delivered
<1>12. CASE UNCHANGED <<call, posts, deliveries>>
  <2>1. \A e \in Events : Hooks(e)' = Hooks(e)
    BY <1>12 DEF Hooks
  <2> QED  BY <1>12, <1>a, <2>1 DEF Delivered
<1>13. UNCHANGED vars \/ DeleteSetting \/ (\E e \in Events : DeliverNameless(e)) =>
          UNCHANGED <<call, posts, deliveries>>
  BY DEF vars, DeleteSetting, DeliverNameless
<1> QED  BY <1>4, <1>5, <1>6, <1>7, <1>8, <1>9, <1>10, <1>11, <1>12, <1>13 DEF Next, Proceed

\* An event is acknowledged when its hook returns: it has posted, or raised an error.
LEMMA NextAcknowledged == IInv /\ [Next]_vars => AcknowledgedIsPosted'
<1> SUFFICES ASSUME IInv, [Next]_vars PROVE AcknowledgedIsPosted'
  OBVIOUS
<1> USE DEF wallet, virtual, provider
<1>a. /\ Types /\ AcknowledgedIsPosted /\ \A r \in Slots : CallOK(r)
      /\ posts \in [Events -> Nat] /\ acknowledged \subseteq Events /\ failed \subseteq Events
  BY DEF IInv, Types
<1>0. payer' = payer
  BY DEF Next, Proceed, vars, Call, Deliver, DeliverNameless, StartTransaction, StartFails,
         Select, Fetch, Commit, Rollback, Query, Find, Create, CreateFails, Insert,
         InsertFails, DeleteSetting, Restart
<1> USE <1>0
<1>1. ASSUME UNCHANGED <<posts, acknowledged, failed>>
      PROVE  AcknowledgedIsPosted'
  BY <1>1, <1>a DEF AcknowledgedIsPosted
<1>2. ASSUME NEW r \in Slots, Return(r), NotPosted(r),
             posts' = posts \/ \A e \in Events : posts'[e] \in Nat /\ posts'[e] >= posts[e]
      PROVE  AcknowledgedIsPosted'
  <2>1. failed \subseteq failed' /\ (call[r].kind = "hook" => call[r].about \in failed')
    BY <1>2 DEF NotPosted
  <2>2. \A e \in acknowledged' : e \in acknowledged \/ (call[r].kind = "hook" /\ e = call[r].about)
    BY <1>2 DEF Return
  <2>3. \A e \in acknowledged : payer[e] # None => posts'[e] > 0 \/ e \in failed'
    BY <1>2, <1>a, <2>1 DEF AcknowledgedIsPosted
  <2> QED  BY <2>1, <2>2, <2>3 DEF AcknowledgedIsPosted
<1>3. ASSUME NEW r \in Slots, Commit(r)
      PROVE  AcknowledgedIsPosted'
  <2>0. Return(r)
    BY <1>3 DEF Commit
  <2>1. /\ failed' = failed \/ NotPosted(r)
        /\ posts' = IF call[r].kind = "hook" THEN [posts EXCEPT ![call[r].about] = @ + 1] ELSE posts
    BY <1>3 DEF Commit
  <2>2. call[r].kind = "hook" => call[r].about \in Events
    BY <1>a DEF CallOK
  <2>3. /\ \A e \in Events : posts'[e] \in Nat /\ posts'[e] >= posts[e]
        /\ call[r].kind = "hook" => posts'[call[r].about] > 0
    BY <1>a, <2>1, <2>2
  <2>4. failed \subseteq failed'
    BY <2>1 DEF NotPosted
  <2>5. \A e \in acknowledged' : e \in acknowledged \/ (call[r].kind = "hook" /\ e = call[r].about)
    BY <2>0 DEF Return
  <2>6. \A e \in acknowledged : payer[e] # None => posts'[e] > 0 \/ e \in failed'
    BY <1>a, <2>3, <2>4 DEF AcknowledgedIsPosted
  <2> QED  BY <2>3, <2>5, <2>6 DEF AcknowledgedIsPosted
<1>4. ASSUME NEW r \in Slots, StartFails(r) \/ Rollback(r)
      PROVE  AcknowledgedIsPosted'
  BY <1>2, <1>4 DEF StartFails, Rollback
<1>5. ASSUME NEW r \in Slots, StartTransaction(r) \/ Select(r) \/ Fetch(r) \/ Query(r)
                              \/ Find(r) \/ Create(r) \/ CreateFails(r) \/ Insert(r) \/ InsertFails(r)
      PROVE  AcknowledgedIsPosted'
  BY <1>1, <1>5 DEF StartTransaction, Select, Fetch, Query, Find, Create, CreateFails, Insert, InsertFails
<1>6. ASSUME NEW r \in Slots, NEW kind, NEW u, Call(r, kind, u)
      PROVE  AcknowledgedIsPosted'
  BY <1>1, <1>6 DEF Call
<1>7. ASSUME NEW r \in Slots, NEW e \in Events, Deliver(r, e)
      PROVE  AcknowledgedIsPosted'
  BY <1>1, <1>7 DEF Deliver
<1>8. ASSUME NEW e \in Events, DeliverNameless(e)
      PROVE  AcknowledgedIsPosted'
  BY <1>8, <1>a DEF DeliverNameless, AcknowledgedIsPosted
<1>9. CASE DeleteSetting \/ Restart \/ UNCHANGED vars
  BY <1>1, <1>9 DEF DeleteSetting, Restart, vars
<1> QED  BY <1>3, <1>4, <1>5, <1>6, <1>7, <1>8, <1>9 DEF Next, Proceed

\* The stored account changes only while there is none, and then nobody was told.
LEMMA NextTold == IInv /\ [Next]_vars => OneAccountTold'
<1> SUFFICES ASSUME IInv, [Next]_vars PROVE OneAccountTold'
  OBVIOUS
<1> USE DEF wallet, virtual, provider
<1>a. /\ OneAccountTold /\ \A r \in Slots : CallOK(r)
      /\ told \in [Users -> SUBSET Accounts] /\ account \in [Users -> Accounts \cup {None}]
  BY DEF IInv, Types
<1>b. \A u \in Users : account[u] = None => told[u] = {}
  BY <1>a, NoneAssumption DEF OneAccountTold
<1>1. ASSUME UNCHANGED <<account, told>>
      PROVE  OneAccountTold'
  BY <1>1, <1>a DEF OneAccountTold
<1>2. ASSUME NEW r \in Slots, Find(r)
      PROVE  OneAccountTold'
  <2>1. /\ account' = account
        /\ \/ told' = told
           \/ told' = [told EXCEPT ![User(r)] = @ \cup {account[User(r)]}]
    BY <1>2 DEF Find
  <2> QED  BY <1>a, <2>1 DEF OneAccountTold
<1>3. ASSUME NEW r \in Slots, Insert(r) \/ InsertFails(r)
      PROVE  OneAccountTold'
  <2>1. \/ UNCHANGED <<account, told>>
        \/ /\ account[User(r)] = None
           /\ account' = [account EXCEPT ![User(r)] = call[r].about]
           /\ told' \in {told, [told EXCEPT ![User(r)] = @ \cup {call[r].about}]}
    BY <1>3, <1>a DEF Insert, InsertFails
  <2>2. CASE UNCHANGED <<account, told>>
    BY <1>1, <2>2
  <2>3. CASE /\ account[User(r)] = None
             /\ account' = [account EXCEPT ![User(r)] = call[r].about]
             /\ told' \in {told, [told EXCEPT ![User(r)] = @ \cup {call[r].about}]}
    <3>1. ASSUME NEW u \in Users  PROVE told'[u] \subseteq {account'[u]}
      <4>1. CASE u = User(r)
        <5>1. told[u] = {} /\ account'[u] = call[r].about
          BY <1>a, <1>b, <2>3, <4>1
        <5>2. told'[u] \subseteq {call[r].about}
          BY <1>a, <2>3, <4>1, <5>1
        <5> QED  BY <5>1, <5>2
      <4>2. CASE u # User(r)
        <5>1. account'[u] = account[u] /\ told'[u] = told[u]
          BY <1>a, <2>3, <4>2
        <5> QED  BY <1>a, <5>1 DEF OneAccountTold
      <4> QED  BY <4>1, <4>2
    <3> QED  BY <3>1 DEF OneAccountTold
  <2> QED  BY <2>1, <2>2, <2>3
<1>4. ASSUME NEW r \in Slots, StartTransaction(r) \/ StartFails(r) \/ Select(r) \/ Fetch(r)
                              \/ Commit(r) \/ Rollback(r) \/ Query(r) \/ Create(r) \/ CreateFails(r)
      PROVE  OneAccountTold'
  BY <1>1, <1>4 DEF StartTransaction, StartFails, Select, Fetch, Commit, Rollback, Query, Create, CreateFails
<1>5. ASSUME NEW r \in Slots, NEW kind, NEW u, Call(r, kind, u)
      PROVE  OneAccountTold'
  BY <1>1, <1>5 DEF Call
<1>6. ASSUME NEW r \in Slots, NEW e \in Events, Deliver(r, e)
      PROVE  OneAccountTold'
  BY <1>1, <1>6 DEF Deliver
<1>7. ASSUME NEW e \in Events, DeliverNameless(e)
      PROVE  OneAccountTold'
  BY <1>1, <1>7 DEF DeliverNameless
<1>8. CASE DeleteSetting \/ Restart \/ UNCHANGED vars
  BY <1>1, <1>8 DEF DeleteSetting, Restart, vars
<1> QED  BY <1>2, <1>3, <1>4, <1>5, <1>6, <1>7, <1>8 DEF Next, Proceed
-----------------------------------------------------------------------------
\* Whose account is being opened changes with one slot's call alone.
LEMMA OpeningStep ==
    ASSUME NEW r \in Slots, Only(r), NEW u \in Users
    PROVE  /\ \A q \in Slots \ {r} : q \in OpeningFor(u)' <=> q \in OpeningFor(u)
           /\ OpeningFor(u) \subseteq Slots /\ OpeningFor(u)' \subseteq Slots
           /\ pc'[r] \notin Opening => r \notin OpeningFor(u)'
           /\ pc[r] \notin Opening => r \notin OpeningFor(u)
BY DEF OpeningFor, Only, User

\* A step that begins or ends no opening, and leaves the accounts alone.
LEMMA OpeningStays ==
    ASSUME IInv, NEW r \in Slots, Only(r), pc[r] \notin Opening, pc'[r] \notin Opening,
           UNCHANGED virtual
    PROVE  OpensAlone' /\ OrphansAreContested'
<1>1. ASSUME NEW u \in Users
      PROVE  OpeningFor(u)' = OpeningFor(u) /\ r \notin OpeningFor(u)
  <2>1. /\ \A q \in Slots \ {r} : q \in OpeningFor(u)' <=> q \in OpeningFor(u)
        /\ OpeningFor(u) \subseteq Slots /\ OpeningFor(u)' \subseteq Slots
        /\ r \notin OpeningFor(u)' /\ r \notin OpeningFor(u)
    BY OpeningStep
  <2> QED  BY <2>1
<1>2. \A u \in Users : \A q \in OpeningFor(u) : call'[q].about = call[q].about
  BY <1>1 DEF Only, OpeningFor
<1>3. /\ contested' = contested /\ account' = account /\ opened' = opened
      /\ OpensAlone /\ OrphansAreContested
  BY DEF virtual, IInv
<1>4. OpensAlone'
  BY <1>1, <1>3 DEF OpensAlone
<1>5. OrphansAreContested'
  BY <1>1, <1>2, <1>3 DEF OrphansAreContested
<1> QED  BY <1>4, <1>5

\* A step about one user leaves what it does not touch of the others alone.
LEMMA OthersUncontested ==
    ASSUME IInv, NEW r \in Slots, NEW u \in Users, Only(r), User(r) = u,
           pc'[r] \in Opening => call'[r].user = u,
           NEW w \in Users \ contested, w # u,
           account'[w] = account[w], opened'[w] = opened[w]
    PROVE  /\ \A p, q \in OpeningFor(w)' : p = q /\ account'[w] = None
           /\ opened'[w] \subseteq {account'[w]} \cup {call'[q].about : q \in OpeningFor(w)'}
<1>1. r \notin OpeningFor(w) /\ r \notin OpeningFor(w)'
  BY DEF OpeningFor, User
<1>2. OpeningFor(w)' = OpeningFor(w)
  <2>1. /\ \A q \in Slots \ {r} : q \in OpeningFor(w)' <=> q \in OpeningFor(w)
        /\ OpeningFor(w) \subseteq Slots /\ OpeningFor(w)' \subseteq Slots
    BY OpeningStep
  <2> QED  BY <1>1, <2>1
<1>3. \A q \in OpeningFor(w) : call'[q].about = call[q].about
  BY <1>1 DEF Only, OpeningFor
<1>4. OpensAlone /\ OrphansAreContested
  BY DEF IInv
<1>5. opened[w] \subseteq {account[w]} \cup {call[q].about : q \in OpeningFor(w)}
  BY <1>4 DEF OrphansAreContested
<1>6. \A p, q \in OpeningFor(w) : p = q /\ account[w] = None
  BY <1>4 DEF OpensAlone
<1> QED  BY <1>2, <1>3, <1>5, <1>6

\* The user a step is about, unless the step leaves it contested.
LEMMA ThisUser ==
    ASSUME IInv, NEW r \in Slots, NEW u \in Users, Only(r), User(r) = u,
           pc'[r] \in Opening => call'[r].user = u,
           contested' = contested \/ contested' = contested \cup {u},
           \A w \in Users \ {u} : account'[w] = account[w] /\ opened'[w] = opened[w],
           u \in contested' \/
              /\ \A p, q \in OpeningFor(u)' : p = q /\ account'[u] = None
              /\ opened'[u] \subseteq
                    {account'[u]} \cup {call'[q].about : q \in OpeningFor(u)'}
    PROVE  OpensAlone' /\ OrphansAreContested'
<1>1. ASSUME NEW w \in Users \ contested'
      PROVE  /\ \A p, q \in OpeningFor(w)' : p = q /\ account'[w] = None
             /\ opened'[w] \subseteq {account'[w]} \cup {call'[q].about : q \in OpeningFor(w)'}
  <2>1. CASE w = u
    BY <1>1, <2>1
  <2>2. CASE w # u
    BY <1>1, <2>2, OthersUncontested
  <2> QED  BY <2>1, <2>2
<1> QED  BY <1>1 DEF OpensAlone, OrphansAreContested

LEMMA NextOpenings == IInv /\ [Next]_vars => OpensAlone' /\ OrphansAreContested'
<1> SUFFICES ASSUME IInv, [Next]_vars PROVE OpensAlone' /\ OrphansAreContested'
  OBVIOUS
<1> DEFINE Goal == OpensAlone' /\ OrphansAreContested'
<1> USE DEF wallet
<1>a. /\ Types /\ OpensAlone /\ OrphansAreContested
      /\ \A r \in Slots : CallOK(r)
  BY DEF IInv
<1>1. ASSUME NEW r \in Slots, pc[r] \notin Opening, Leave(r), UNCHANGED virtual
      PROVE  Goal
  BY <1>1, <1>a, CallSteps, OpeningStays DEF Opening
<1>2. ASSUME NEW r \in Slots, pc[r] \notin Opening, NEW label, label \notin Opening,
             Goto(r, label), UNCHANGED virtual
      PROVE  Goal
  BY <1>2, <1>a, CallSteps, OpeningStays
<1>3. ASSUME NEW r \in Slots, NEW kind, NEW u, NEW about, Begin(r, "connect", kind, u, about),
             UNCHANGED virtual
      PROVE  Goal
  <2>1. Only(r) /\ pc[r] = "idle" /\ pc'[r] = "connect"
    BY <1>3, <1>a DEF Types, Begin, Only
  <2> QED  BY <1>3, <2>1, OpeningStays DEF Opening
<1>4. ASSUME NEW r \in Slots, NEW kind, NEW u, Call(r, kind, u)
      PROVE  Goal
  BY <1>3, <1>4 DEF Call
<1>5. ASSUME NEW r \in Slots, NEW e \in Events, Deliver(r, e)
      PROVE  Goal
  BY <1>3, <1>5 DEF Deliver
<1>6. ASSUME NEW r \in Slots, StartTransaction(r) \/ Select(r) \/ Fetch(r)
      PROVE  Goal
  BY <1>2, <1>6 DEF StartTransaction, Select, Fetch, Connected, Opening
<1>7. ASSUME NEW r \in Slots, StartFails(r) \/ Commit(r) \/ Rollback(r) \/ Query(r)
      PROVE  Goal
  BY <1>1, <1>7 DEF StartFails, Commit, Rollback, Query, Return, Connected, Opening
\* What is known of the user whose account a call is about.
<1>b. ASSUME NEW r \in Slots, NEW u \in Users, User(r) = u, call[r].kind = "account", pc[r] # "idle"
      PROVE  /\ pc[r] \in Opening /\ u \notin contested =>
                   OpeningFor(u) = {r} /\ account[u] = None
             /\ opened[u] \subseteq Accounts
  <2>1. pc[r] \in Opening => r \in OpeningFor(u)
    BY <1>b DEF OpeningFor
  <2> QED  BY <1>a, <1>b, <2>1 DEF OpensAlone, Types
<1>c. ASSUME NEW r \in Slots, pc[r] # "idle"
      PROVE  \E u \in Users : User(r) = u
  BY <1>a, <1>c DEF CallOK
<1>8. ASSUME NEW r \in Slots, Find(r)
      PROVE  Goal
  <2>0. PICK u \in Users : User(r) = u
    BY <1>8, <1>c DEF Find, Connected
  <2>1. pc[r] = "connect" /\ call[r].kind = "account" /\ UNCHANGED <<account, opened>>
    BY <2>0, <1>8 DEF Find, Connected
  <2>2. CASE account[u] # None
    <3>1. Leave(r) /\ contested' = contested
      BY <2>0, <1>8, <2>2 DEF Find
    <3>2. Only(r) /\ pc'[r] = "idle"
      BY <2>0, <1>a, <3>1, CallSteps
    <3>3. OpeningFor(u)' = OpeningFor(u) /\ r \notin OpeningFor(u)
      BY <2>0, <2>1, <3>2, OpeningStep DEF Opening
    <3>4. \A q \in OpeningFor(u) : call'[q].about = call[q].about
      BY <2>0, <3>2, <3>3 DEF Only, OpeningFor
    <3>5. u \notin contested =>
             /\ \A p, q \in OpeningFor(u) : p = q /\ account[u] = None
             /\ opened[u] \subseteq {account[u]} \cup {call[q].about : q \in OpeningFor(u)}
      BY <2>0, <1>a, <2>1 DEF OpensAlone, OrphansAreContested
    <3>6. u \notin contested =>
             /\ \A p, q \in OpeningFor(u)' : p = q /\ account'[u] = None
             /\ opened'[u] \subseteq {account'[u]} \cup {call'[q].about : q \in OpeningFor(u)'}
      BY <2>0, <2>1, <3>3, <3>4, <3>5
    <3> QED  BY <2>0, <2>1, <3>1, <3>2, <3>6, ThisUser DEF Opening
  <2>3. CASE account[u] = None
    <3>1. /\ Goto(r, "provider")
          /\ contested' = IF OpeningFor(u) = {} THEN contested ELSE contested \cup {u}
      BY <2>0, <1>8, <2>3 DEF Find
    <3>2. Only(r) /\ pc'[r] = "provider" /\ call' = call
      BY <2>0, <1>a, <3>1, CallSteps
    <3>3. CASE u \notin contested'
      <4>1. OpeningFor(u) = {} /\ u \notin contested
        BY <2>0, <3>1, <3>3
      <4>2. OpeningFor(u)' \subseteq {r}
        BY <2>0, <2>1, <3>2, <4>1, OpeningStep
      <4>3. opened[u] \subseteq {account[u]}
        BY <2>0, <1>a, <2>1, <4>1 DEF OrphansAreContested
      <4> QED  BY <2>0, <2>1, <2>3, <3>1, <3>2, <4>2, <4>3, ThisUser DEF User
    <3>4. CASE u \in contested'
      BY <2>0, <2>1, <3>1, <3>2, <3>4, ThisUser DEF User
    <3> QED  BY <2>0, <3>3, <3>4
  <2> QED  BY <2>2, <2>3
<1>9. ASSUME NEW r \in Slots, Create(r)
      PROVE  Goal
  <2>0. PICK u \in Users : User(r) = u
    BY <1>9, <1>c DEF Create
  <2>1. PICK a \in Accounts : /\ opened' = [opened EXCEPT ![u] = @ \cup {a}]
                              /\ call' = [call EXCEPT ![r].about = a]
    BY <2>0, <1>9 DEF Create
  <2>2. /\ pc[r] = "provider" /\ pc' = [pc EXCEPT ![r] = "insert"]
        /\ UNCHANGED <<account, contested>> /\ call[r].kind = "account"
    BY <2>0, <1>9, <1>a DEF Create, CallOK, Opening
  <2>3. /\ Only(r) /\ pc'[r] = "insert" /\ call'[r].about = a
        /\ call'[r].kind = "account" /\ call'[r].user = u
    BY <2>0, <1>a, <2>1, <2>2, CallSteps DEF User
  <2>4. call[r].about = None
    BY <2>0, <1>a, <1>b, <2>2 DEF CallOK, Opening
  <2>5. /\ opened'[u] = opened[u] \cup {a}
        /\ \A w \in Users \ {u} : opened'[w] = opened[w]
    BY <2>0, <1>a, <2>1, <2>4 DEF Types
  <2>6. CASE u \notin contested
    <3>1. OpeningFor(u) = {r} /\ account[u] = None
      BY <2>0, <1>b, <2>2, <2>6 DEF Opening
    <3>2. OpeningFor(u)' = {r}
      <4>1. r \in OpeningFor(u)'
        BY <2>0, <2>3 DEF OpeningFor, Opening, User
      <4> QED  BY <2>0, <2>3, <2>4, <3>1, <4>1, OpeningStep
    <3>3. opened[u] \subseteq {None}
      BY <2>0, <1>a, <2>4, <2>6, <3>1 DEF OrphansAreContested
    <3> QED  BY <2>0, <2>2, <2>3, <2>4, <2>5, <3>1, <3>2, <3>3, ThisUser
  <2>7. CASE u \in contested
    BY <2>0, <2>2, <2>3, <2>4, <2>5, <2>7, ThisUser
  <2> QED  BY <2>6, <2>7
<1>10. ASSUME NEW r \in Slots, CreateFails(r)
       PROVE  Goal
  <2>0. PICK u \in Users : User(r) = u
    BY <1>10, <1>c DEF CreateFails
  <2>1. /\ pc[r] = "provider" /\ Leave(r) /\ account' = account /\ contested' = contested \cup {u}
        /\ opened' = opened \/ \E a \in Accounts : opened' = [opened EXCEPT ![u] = @ \cup {a}]
    BY <2>0, <1>10 DEF CreateFails
  <2>2. Only(r) /\ pc'[r] = "idle" /\ call[r].kind = "account"
    BY <2>0, <1>a, <1>b, <2>1, CallSteps DEF CallOK, Opening
  <2>3. \A w \in Users \ {u} : opened'[w] = opened[w]
    BY <2>0, <1>a, <2>1 DEF Types
  <2> QED  BY <2>0, <2>1, <2>2, <2>3, ThisUser DEF Opening
<1>11. ASSUME NEW r \in Slots, Insert(r) \/ InsertFails(r)
       PROVE  Goal
  <2>0. PICK u \in Users : User(r) = u
    BY <1>11, <1>c DEF Insert, InsertFails, Connected
  <2>1. pc[r] = "insert" /\ Leave(r) /\ opened' = opened /\ call[r].kind = "account"
    BY <2>0, <1>11, <1>a DEF Insert, InsertFails, Connected, CallOK, Opening
  <2>2. Only(r) /\ pc'[r] = "idle"
    BY <2>0, <1>a, <1>b, <2>1, CallSteps
  <2>3. \A w \in Users \ {u} : account'[w] = account[w]
    BY <2>0, <1>11, <1>a DEF Insert, InsertFails, Types
  <2>4. CASE contested' = contested \cup {u}
    BY <2>0, <2>1, <2>2, <2>3, <2>4, ThisUser DEF Opening
  <2>5. CASE Insert(r) /\ u \in contested
    BY <2>0, <2>1, <2>2, <2>3, <2>5, ThisUser DEF Opening, Insert
  <2>6. CASE Insert(r) /\ u \notin contested
    <3>1. OpeningFor(u) = {r} /\ account[u] = None /\ opened[u] \subseteq Accounts
      BY <2>0, <1>b, <2>1, <2>6 DEF Opening
    <3>2. OpeningFor(u)' = {}
      BY <2>0, <2>2, <3>1, OpeningStep DEF Opening
    <3>3. account'[u] = call[r].about
      BY <2>0, <1>a, <2>2, <2>6, <3>1 DEF Insert, Types
    <3>4. opened[u] \subseteq {None} \cup {call[r].about}
      BY <2>0, <1>a, <2>2, <2>6, <3>1 DEF OrphansAreContested
    <3>5. opened'[u] \subseteq {account'[u]}
      BY <2>0, <2>1, <3>1, <3>3, <3>4, NoneAssumption
    <3>6. contested' = contested
      BY <2>0, <2>6 DEF Insert
    <3> QED  BY <2>0, <2>1, <2>2, <2>3, <3>2, <3>5, <3>6, ThisUser DEF Opening
  <2> QED  BY <2>0, <1>11, <2>4, <2>5, <2>6 DEF InsertFails
<1>12. CASE Restart
  <2>1. /\ \A u \in Users : OpeningFor(u)' = {}
        /\ UNCHANGED <<account, opened>>
        /\ contested' = contested \cup {u \in Users : OpeningFor(u) # {}}
    BY <1>12 DEF Restart, OpeningFor, Opening
  <2>2. \A u \in Users \ contested' : opened[u] \subseteq {account[u]}
    BY <1>a, <2>1 DEF OrphansAreContested
  <2> QED  BY <2>1, <2>2 DEF OpensAlone, OrphansAreContested
<1>13. CASE UNCHANGED vars \/ DeleteSetting \/ \E e \in Events : DeliverNameless(e)
  <2>1. UNCHANGED <<pc, call, account, opened, contested>>
    BY <1>13 DEF vars, virtual, DeleteSetting, DeliverNameless
  <2>2. \A u \in Users : OpeningFor(u)' = OpeningFor(u)
    BY <2>1 DEF OpeningFor, User
  <2> QED  BY <1>a, <2>1, <2>2 DEF OpensAlone, OrphansAreContested
<1> QED  BY <1>4, <1>5, <1>6, <1>7, <1>8, <1>9, <1>10, <1>11, <1>12, <1>13 DEF Next, Proceed
-----------------------------------------------------------------------------
LEMMA NextIInv == IInv /\ [Next]_vars => IInv'
BY NextTypes, NextCalls, NextDelivered, NextAcknowledged, NextTold, NextOpenings DEF IInv

\* The inductive invariant holds in every state that can be reached: a transaction
\* keeps one connection and wants at most one more, and every hook at work or
\* posted is one of its event's deliveries.
THEOREM PaymentsInvariant == Spec => []IInv
<1>1. Init => IInv
  BY InitIInv
<1>2. IInv /\ [Next]_vars => IInv'
  BY NextIInv
<1> QED  BY <1>1, <1>2, PTL DEF Spec

LEMMA IInvTypeOK == IInv => TypeOK
<1> SUFFICES ASSUME IInv PROVE TypeOK
  OBVIOUS
<1>1. ASSUME NEW e \in Events  PROVE posts[e] \in 0 .. deliveries[e]
  <2>1. IsFiniteSet(Hooks(e))
    BY SlotsAssumption, FS_Subset DEF Hooks
  <2>2. Cardinality(Hooks(e)) \in Nat
    BY <2>1, FS_CardinalityType
  <2>3. posts[e] + Cardinality(Hooks(e)) <= deliveries[e]
    BY DEF IInv, Delivered
  <2>4. posts[e] \in Nat /\ deliveries[e] \in Nat
    BY BoundAssumption DEF IInv, Types
  <2> QED  BY <2>2, <2>3, <2>4
<1>2. Waiting \subseteq Tickets
  BY WaitingFacts DEF IInv, PoolOK
<1> QED  BY <1>1, <1>2 DEF IInv, Types, PoolOK, TypeOK

\* Every variable has its type in every reachable state, the pool is never
\* overdrawn, and no event tops a wallet up more often than it is delivered
\* (addFundsToWallet of the webhook, under any interleaving and restart).
THEOREM PaymentsTypeCorrect == Spec => []TypeOK
BY PaymentsInvariant, IInvTypeOK, PTL

\* When everybody who has a connection waits, each has but its own.
LEMMA NobodyHasTwo ==
    ASSUME IInv, LockedUp
    PROVE  held \subseteq {Own(r) : r \in Lockers}
<1>a. /\ \A r \in Slots : CallOK(r)
      /\ held \subseteq Tickets /\ held \cap Waiting = {}
  BY DEF IInv, PoolOK, PoolSound
<1>1. ASSUME NEW r \in Slots, Extra(r) \in held
      PROVE  FALSE
  <2>1. pc[r] = "setting"
    BY <1>1, <1>a DEF CallOK, Out
  <2>2. Own(r) \notin Waiting /\ Extra(r) \notin Waiting
    BY <1>1, <1>a, <2>1 DEF CallOK
  <2>3. WaitsForConnection(r) \/ WaitsForRow(r)
    BY <1>1 DEF LockedUp
  <2> QED  BY <2>1, <2>2, <2>3 DEF WaitsForConnection, WaitsForRow
<1>2. ASSUME NEW r \in Slots, Own(r) \in held
      PROVE  r \in Lockers
  <2>1. WaitsForConnection(r) \/ WaitsForRow(r)
    BY <1>2 DEF LockedUp
  <2>2. Own(r) \notin Waiting
    BY <1>2, <1>a
  <2>3. pc[r] \in {"setting", "select"}
    BY <1>a, <2>1, <2>2 DEF WaitsForConnection, WaitsForRow, CallOK, Out
  <2>4. call[r].kind \in Locking /\ call[r].kind \in Serves[r]
    BY <1>a, <2>3 DEF CallOK
  <2> QED  BY <2>4 DEF Lockers
<1>3. \A t \in held : \E r \in Slots : t = Own(r) \/ t = Extra(r)
  BY <1>a, TicketsAssumption DEF Own, Extra
<1> QED  BY <1>1, <1>2, <1>3

\* So no more connections are out than there are lockers, and a pool with one to
\* spare would have given it to the first in line.
LEMMA IInvNeverLockedUp == IInv => NeverLockedUp
<1> SUFFICES ASSUME IInv, Cardinality(Lockers) + lost < size, LockedUp PROVE FALSE
  BY DEF NeverLockedUp
<1>1. IsFiniteSet(Lockers) /\ Lockers \subseteq Slots
  BY SlotsAssumption, FS_Subset DEF Lockers
<1>2. held \subseteq {Own(r) : r \in Lockers} /\ IsFiniteSet(held)
  BY NobodyHasTwo DEF IInv, PoolOK
<1> DEFINE f == [t \in held |-> t[1]]
<1>3. f \in Injection(held, Lockers)
  <2>1. \A t \in held : t[1] \in Lockers /\ t = Own(t[1])
    BY <1>2 DEF Own
  <2>2. f \in [held -> Lockers]
    BY <2>1
  <2>3. \A s, t \in held : f[s] = f[t] => s = t
    BY <2>1
  <2> HIDE DEF f
  <2> QED  BY <2>2, <2>3 DEF Injection, IsInjective
<1>4. Cardinality(held) <= Cardinality(Lockers)
  BY <1>1, <1>2, <1>3, FS_Injection
<1>5. Cardinality(held) + lost = size
  BY DEF IInv, PoolOK, PoolSound, LockedUp
<1>6. /\ Cardinality(held) \in Nat /\ Cardinality(Lockers) \in Nat
      /\ lost \in Nat /\ size \in Nat
  BY <1>1, <1>2, FS_CardinalityType, SizesAssumption, MaxLostAssumption DEF IInv, PoolOK
<1> QED  BY <1>4, <1>5, <1>6

\* With a connection to spare for everybody who may wait at a wallet's row with one
\* in hand -- money operations, the saves of lockWallet and unlockWallet, removals of
\* users -- the pool never locks up, whatever its size and however many of them fetch
\* a setting while they hold a row (wallet.service.ts, getNumber inside transactions).
THEOREM PoolNeverLocksUp == Spec => []NeverLockedUp
BY PaymentsInvariant, IInvNeverLockedUp, PTL

\* The webhook acknowledges no payment whose event names a user and that is neither
\* posted nor has raised an error in addFunds.
THEOREM AcknowledgedArePosted == Spec => []AcknowledgedIsPosted
<1>1. IInv => AcknowledgedIsPosted
  BY DEF IInv
<1> QED  BY <1>1, PaymentsInvariant, PTL

\* getOrCreateVirtualAccount never tells two callers of two accounts of one user.
THEOREM OneAccountIsTold == Spec => []OneAccountTold
<1>1. IInv => OneAccountTold
  BY DEF IInv
<1> QED  BY <1>1, PaymentsInvariant, PTL

\* An account the provider opened and nobody stored comes of two calls that
\* overlapped, or of one that failed: getOrCreateVirtualAccount leaves no other.
THEOREM OrphansOnlyContested == Spec => []OrphansAreContested
<1>1. IInv => OrphansAreContested
  BY DEF IInv
<1> QED  BY <1>1, PaymentsInvariant, PTL
-----------------------------------------------------------------------------
\* A ticket that a step asks with is new, and one it gives back or loses is held.
LEMMA PoolSteps ==
    ASSUME IInv, NEW r \in Slots
    PROVE  /\ pc[r] \in {"idle", "provider"} /\ Ask(Own(r)) => PoolNext
           /\ pc[r] # "setting" /\ Ask(Extra(r)) => PoolNext
           /\ Own(r) \in held /\ (GiveBack(Own(r)) \/ Lose(Own(r))) => PoolNext
           /\ pc[r] \in {"select", "save", "rollback"} /\ GiveBack(Own(r)) => PoolNext
           /\ Extra(r) \in held /\ GiveBack(Extra(r)) => PoolNext
<1>1. CallOK(r)
  BY DEF IInv
<1>2. Own(r) \in Tickets /\ Extra(r) \in Tickets
  BY TicketFacts
<1>3. /\ pc[r] \in {"idle", "provider"} => Own(r) \in Tickets \ (held \cup Waiting)
      /\ pc[r] # "setting" => Extra(r) \in Tickets \ (held \cup Waiting)
      /\ pc[r] \in {"select", "save", "rollback"} => Own(r) \in held
  BY <1>1, <1>2 DEF CallOK, Out
<1> QED  BY <1>3 DEF PoolNext

\* Whatever the calls do, they use the pool as it is meant to be used: a call asks
\* with a ticket that is neither out nor in line, gives back or loses only what it
\* holds, and every other step leaves the pool alone.
THEOREM CallsUsePool == Spec => PoolSpec
<1>1. Init => PoolInit
  BY DEF Init
<1>2. IInv /\ [Next]_vars => [PoolNext]_pool
  <2> SUFFICES ASSUME IInv, [Next]_vars PROVE [PoolNext]_pool
    OBVIOUS
  <2>1. ASSUME NEW r \in Slots, NEW kind, NEW u, Call(r, kind, u)
        PROVE  PoolNext
    BY <2>1, PoolSteps DEF Call, Begin
  <2>2. ASSUME NEW r \in Slots, NEW e, Deliver(r, e)
        PROVE  PoolNext
    BY <2>2, PoolSteps DEF Deliver, Begin
  <2>3. ASSUME \/ \E r \in Slots : StartTransaction(r) \/ CreateFails(r)
               \/ \E e \in Events : DeliverNameless(e)
               \/ DeleteSetting
        PROVE  UNCHANGED pool
    BY <2>3 DEF StartTransaction, CreateFails, DeliverNameless, DeleteSetting
  <2>4. ASSUME NEW r \in Slots, StartFails(r)
        PROVE  PoolNext
    BY <2>4, PoolSteps DEF StartFails, Connected
  <2>5. ASSUME NEW r \in Slots, Select(r)
        PROVE  PoolNext \/ UNCHANGED pool
    BY <2>5, PoolSteps DEF Select
  <2>6. ASSUME NEW r \in Slots, Fetch(r)
        PROVE  PoolNext
    BY <2>6, PoolSteps DEF Fetch
  <2>7. ASSUME NEW r \in Slots, Commit(r) \/ Rollback(r)
        PROVE  PoolNext
    BY <2>7, PoolSteps DEF Commit, Rollback
  <2>8. ASSUME NEW r \in Slots, Query(r) \/ Find(r) \/ Insert(r) \/ InsertFails(r)
        PROVE  PoolNext
    BY <2>8, PoolSteps DEF Query, Find, Insert, InsertFails, Connected
  <2>9. ASSUME NEW r \in Slots, Create(r)
        PROVE  PoolNext
    BY <2>9, PoolSteps DEF Create
  <2>10. Restart => PoolNext
    BY DEF Restart, PoolNext
  <2>11. UNCHANGED vars => UNCHANGED pool
    BY DEF vars
  <2> QED
    BY <2>1, <2>2, <2>3, <2>4, <2>5, <2>6, <2>7, <2>8, <2>9, <2>10, <2>11 DEF Next, Proceed
<1> QED  BY <1>1, <1>2, PaymentsInvariant, PTL DEF Spec, PoolSpec
=============================================================================
