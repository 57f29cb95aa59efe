--------------------------- MODULE SessionsProofs ---------------------------
(***************************************************************************)
(* What TLC checks of Sessions on a small instance, proved for any persons *)
(* and devices and any number of requests at once.                         *)
(***************************************************************************)
EXTENDS Sessions, TLAPS

\* A call in progress is about somebody, and about a device where it revokes.
CallOK(r) ==
    pc[r] # "idle" =>
        /\ who[r] \in Persons
        /\ pc[r] = "revoke" => device[r] \in Devices
        /\ pc[r] = "enrol" => device[r] = None

\* Tokens that were returned exist; who has logged out had an account.
RowsKnown ==
    /\ \A t \in held : tokens[t] # NoToken
    /\ \A u \in out : account[u] # "absent"

\* While an exchange of an uncontested device is about to insert, it is the only
\* one, and every token of the device is revoked.
InsertsAlone ==
    \A u \in Persons, d \in Devices :
        <<u, d>> \notin contested =>
            \A r \in Slots : Inserting(r, u, d) =>
                /\ \A t \in Of(u, d) : ~Unrevoked(t)
                /\ \A q \in Slots : Inserting(q, u, d) => q = r

IInv ==
    /\ TypeOK
    /\ \A r \in Slots : CallOK(r)
    /\ RowsKnown
    /\ InsertsAlone
    /\ OneTokenPerDevice
    /\ DeviceKeepsAccess
    /\ LogoutAllHolds
-----------------------------------------------------------------------------
\* What an UPDATE that revokes does to each row.
LEMMA RevokedFacts ==
    ASSUME tokens \in [Tokens -> Row \cup {NoToken}], NEW S \in SUBSET Tokens,
           tokens' = Revoked(S)
    PROVE  /\ tokens' \in [Tokens -> Row \cup {NoToken}]
           /\ \A t \in Tokens :
                 /\ (tokens'[t] = NoToken) <=> (tokens[t] = NoToken)
                 /\ tokens[t] # NoToken =>
                       /\ tokens'[t].user = tokens[t].user
                       /\ tokens'[t].device = tokens[t].device
                       /\ tokens'[t].expired = tokens[t].expired
                       /\ t \in S => tokens'[t].revoked
                       /\ t \notin S => tokens'[t].revoked = tokens[t].revoked
<1> SUFFICES ASSUME NEW t \in Tokens
             PROVE  /\ tokens'[t] \in Row \cup {NoToken}
                    /\ (tokens'[t] = NoToken) <=> (tokens[t] = NoToken)
                    /\ tokens[t] # NoToken =>
                          /\ tokens'[t].user = tokens[t].user
                          /\ tokens'[t].device = tokens[t].device
                          /\ tokens'[t].expired = tokens[t].expired
                          /\ t \in S => tokens'[t].revoked
                          /\ t \notin S => tokens'[t].revoked = tokens[t].revoked
  BY DEF Revoked
<1>1. NoToken \notin Row
  BY NoneAssumption DEF NoToken, Row
<1>2. CASE tokens[t] \in Row
  <2>1. [tokens[t] EXCEPT !.revoked = TRUE] \in Row
    BY <1>2 DEF Row
  <2> QED  BY <1>1, <1>2, <2>1 DEF Revoked, Row
<1>3. CASE tokens[t] = NoToken
  <2>1. [NoToken EXCEPT !.revoked = TRUE] = NoToken
    BY DEF NoToken
  <2> QED  BY <1>3, <2>1 DEF Revoked
<1> QED  BY <1>2, <1>3

LEMMA InitIInv == Init => IInv
BY DEF Init, IInv, TypeOK, CallOK, RowsKnown, InsertsAlone, OneTokenPerDevice,
       DeviceKeepsAccess, LogoutAllHolds, Inserting, Issuing, Of, Unrevoked
-----------------------------------------------------------------------------
LEMMA NextTypes == IInv /\ [Next]_vars => TypeOK'
<1> SUFFICES ASSUME IInv, [Next]_vars PROVE TypeOK'
  OBVIOUS
<1> USE DEF IInv, TypeOK, history, locals, RowsKnown
<1>0. \A t \in Tokens : tokens[t] # NoToken => tokens[t].user \in Persons
  BY DEF Row
<1>1. ASSUME NEW r \in Slots, NEW u \in Persons, Register(r, u) \/ Login(r, u)
      PROVE  TypeOK'
  BY <1>1 DEF Register, Login, Begin, Has
<1>2. ASSUME NEW r \in Slots, NEW t \in Tokens, NEW d \in Devices \cup {None}, Refresh(r, t, d)
      PROVE  TypeOK'
  <2>1. tokens[t] \in Row
    BY <1>2 DEF Refresh, Good, Unrevoked
  <2>2. tokens[t].user \in Persons /\ DeviceOf(t, d) \in Devices \cup {None}
    BY <2>1 DEF Row, DeviceOf
  <2> QED  BY <1>2, <2>2 DEF Refresh, Begin, Has
<1>3. ASSUME NEW r \in Slots, CallOK(r), Enrol(r) \/ Fail(r)
      PROVE  TypeOK'
  BY <1>0, <1>3 DEF CallOK, Enrol, Fail, Leave, Has
<1>4. ASSUME NEW r \in Slots, CallOK(r), RevokeDevice(r)
      PROVE  TypeOK'
  <2>1. Of(who[r], device[r]) \in SUBSET Tokens
    BY DEF Of
  <2> QED  BY <1>4, <2>1, RevokedFacts DEF CallOK, RevokeDevice, Has
<1>5. ASSUME NEW r \in Slots, CallOK(r), InsertToken(r)
      PROVE  TypeOK'
  <2>1. [user |-> who[r], device |-> device[r], revoked |-> FALSE, expired |-> FALSE] \in Row
    BY <1>5 DEF CallOK, InsertToken, Row
  <2>2. {who[r]} \X ({device[r]} \ {None}) \subseteq Persons \X Devices
    BY <1>5 DEF CallOK, InsertToken
  <2> QED  BY <1>5, <2>1, <2>2 DEF InsertToken, Leave, Has
<1>6. ASSUME NEW t \in Tokens, Logout(t)
      PROVE  TypeOK'
  BY <1>6, RevokedFacts DEF Logout, Has
<1>7. ASSUME NEW u \in Persons, LogoutAll(u)
      PROVE  TypeOK'
  <2>1. UNION {Of(u, d) : d \in Devices \cup {None}} \in SUBSET Tokens
    BY DEF Of
  <2> QED  BY <1>7, <2>1, RevokedFacts DEF LogoutAll, Authenticated, Has
<1>8. ASSUME NEW u \in Persons, Remove(u) \/ Deactivate(u)
      PROVE  TypeOK'
  BY <1>0, <1>8 DEF Remove, Deactivate, Has
<1>9. ASSUME NEW t \in Tokens, Expire(t)
      PROVE  TypeOK'
  <2>1. [tokens[t] EXCEPT !.expired = TRUE] \in Row
    BY <1>9 DEF Expire, Row
  <2>2. [tokens[t] EXCEPT !.expired = TRUE].user = tokens[t].user
    BY <1>9 DEF Expire, Row
  <2> QED  BY <1>9, <2>1, <2>2 DEF Expire, Has
<1>10. CASE UNCHANGED vars
  BY <1>10 DEF vars, Has
<1> QED  BY <1>1, <1>2, <1>3, <1>4, <1>5, <1>6, <1>7, <1>8, <1>9, <1>10 DEF Next

LEMMA NextCalls == IInv /\ [Next]_vars => \A r \in Slots : CallOK(r)'
<1> SUFFICES ASSUME IInv, [Next]_vars, NEW q \in Slots PROVE CallOK(q)'
  OBVIOUS
<1> USE DEF IInv, TypeOK, history, locals, CallOK
<1>1. ASSUME NEW r \in Slots, NEW t \in Tokens, NEW d \in Devices \cup {None}, Refresh(r, t, d)
      PROVE  CallOK(q)'
  <2>1. tokens[t] \in Row
    BY <1>1 DEF Refresh, Good, Unrevoked
  <2>2. tokens[t].user \in Persons /\ DeviceOf(t, d) \in Devices \cup {None}
    BY <2>1 DEF Row, DeviceOf
  <2> QED  BY <1>1, <2>2 DEF Refresh, Begin
<1>2. ASSUME NEW r \in Slots,
             \/ \E u \in Persons : Register(r, u) \/ Login(r, u)
             \/ Enrol(r) \/ RevokeDevice(r) \/ InsertToken(r) \/ Fail(r)
      PROVE  CallOK(q)'
  BY <1>2 DEF Register, Login, Enrol, RevokeDevice, InsertToken, Fail, Begin, Leave
<1>3. CASE \/ \E u \in Persons : LogoutAll(u) \/ Remove(u) \/ Deactivate(u)
           \/ \E t \in Tokens : Logout(t) \/ Expire(t)
           \/ UNCHANGED vars
  BY <1>3 DEF LogoutAll, Remove, Deactivate, Logout, Expire, vars
<1> QED  BY <1>1, <1>2, <1>3 DEF Next

\* Rows are never deleted, and an account never becomes absent again.
LEMMA NextRowsKnown == IInv /\ [Next]_vars => RowsKnown'
<1> SUFFICES ASSUME IInv, [Next]_vars PROVE RowsKnown'
  OBVIOUS
<1> USE DEF IInv, TypeOK, RowsKnown, history, locals
<1>1. ASSUME NEW r \in Slots,
             \/ \E u \in Persons : Register(r, u) \/ Login(r, u)
             \/ \E t \in Tokens, d \in Devices \cup {None} : Refresh(r, t, d)
             \/ Enrol(r) \/ Fail(r)
      PROVE  RowsKnown'
  BY <1>1 DEF Register, Login, Refresh, Enrol, Fail, Begin, Leave
<1>2. ASSUME NEW r \in Slots, CallOK(r), InsertToken(r)
      PROVE  RowsKnown'
  <2>1. [user |-> who[r], device |-> device[r], revoked |-> FALSE, expired |-> FALSE] # NoToken
    BY <1>2, NoneAssumption DEF NoToken, InsertToken, CallOK
  <2> QED  BY <1>2, <2>1 DEF InsertToken
<1>3. ASSUME NEW S \in SUBSET Tokens, tokens' = Revoked(S),
             UNCHANGED <<account, held>>, out' \subseteq out \cup {u \in Persons : account[u] = "active"}
      PROVE  RowsKnown'
  BY <1>3, RevokedFacts
<1>4. ASSUME NEW r \in Slots, RevokeDevice(r)
      PROVE  RowsKnown'
  BY <1>3, <1>4 DEF RevokeDevice, Of
<1>5. ASSUME NEW u \in Persons, LogoutAll(u)
      PROVE  RowsKnown'
  <2>1. UNION {Of(u, d) : d \in Devices \cup {None}} \in SUBSET Tokens
    BY DEF Of
  <2> QED  BY <1>3, <1>5, <2>1 DEF LogoutAll, Authenticated
<1>6. ASSUME NEW t \in Tokens, Logout(t)
      PROVE  RowsKnown'
  BY <1>3, <1>6 DEF Logout
<1>7. ASSUME NEW t \in Tokens, Expire(t)
      PROVE  RowsKnown'
  <2>1. [tokens[t] EXCEPT !.expired = TRUE] # NoToken
    BY <1>7, NoneAssumption DEF Expire, NoToken, Row
  <2> QED  BY <1>7, <2>1 DEF Expire
<1>8. CASE (\E u \in Persons : Remove(u) \/ Deactivate(u)) \/ UNCHANGED vars
  BY <1>8 DEF Remove, Deactivate, Has, vars
<1> QED  BY <1>1, <1>2, <1>4, <1>5, <1>6, <1>7, <1>8 DEF Next
-----------------------------------------------------------------------------
\* Of, Unrevoked and the like after a step, from what it does to each row.
LEMMA RevokedSets ==
    ASSUME IInv, NEW S \in SUBSET Tokens, tokens' = Revoked(S)
    PROVE  \A u \in Persons, d \in Devices \cup {None} :
              /\ Of(u, d)' = Of(u, d)
              /\ \A t \in Tokens : Unrevoked(t)' <=> (Unrevoked(t) /\ t \notin S)
<1> USE DEF IInv, TypeOK
<1>1. \A t \in Tokens : Unrevoked(t)' <=> (Unrevoked(t) /\ t \notin S)
  BY RevokedFacts DEF Unrevoked, Row
<1>2. ASSUME NEW u \in Persons, NEW d \in Devices \cup {None}
      PROVE  Of(u, d)' = Of(u, d)
  BY RevokedFacts DEF Of
<1> QED  BY <1>1, <1>2

\* The row an INSERT adds.
LEMMA InsertedSets ==
    ASSUME IInv, NEW r \in Slots, CallOK(r), pc[r] = "insert", NEW t \in Tokens,
           tokens[t] = NoToken,
           tokens' = [tokens EXCEPT ![t] =
               [user |-> who[r], device |-> device[r], revoked |-> FALSE, expired |-> FALSE]]
    PROVE  /\ \A u \in Persons, d \in Devices \cup {None} :
                 Of(u, d)' = IF u = who[r] /\ d = device[r] THEN Of(u, d) \cup {t} ELSE Of(u, d)
           /\ \A s \in Tokens : Unrevoked(s)' <=> (Unrevoked(s) \/ s = t)
           /\ tokens'[t].user = who[r] /\ ~tokens'[t].expired
           /\ \A s \in Tokens : s # t => tokens'[s] = tokens[s]
<1> USE DEF IInv, TypeOK
<1>1. [user |-> who[r], device |-> device[r], revoked |-> FALSE, expired |-> FALSE] # NoToken
  BY NoneAssumption DEF CallOK, NoToken
<1>2. tokens'[t] = [user |-> who[r], device |-> device[r], revoked |-> FALSE, expired |-> FALSE]
  OBVIOUS
<1>3. \A s \in Tokens : s # t => tokens'[s] = tokens[s]
  OBVIOUS
<1>4. \A s \in Tokens : Unrevoked(s)' <=> (Unrevoked(s) \/ s = t)
  BY <1>1, <1>2, <1>3 DEF Unrevoked
<1>5. ASSUME NEW u \in Persons, NEW d \in Devices \cup {None}
      PROVE  Of(u, d)' = IF u = who[r] /\ d = device[r] THEN Of(u, d) \cup {t} ELSE Of(u, d)
  <2>1. ASSUME NEW s \in Tokens
        PROVE  s \in Of(u, d)' <=> (s \in Of(u, d) \/ (s = t /\ u = who[r] /\ d = device[r]))
    <3>1. CASE s = t
      BY <1>1, <1>2, <3>1 DEF Of
    <3>2. CASE s # t
      BY <1>3, <3>2 DEF Of
    <3> QED  BY <3>1, <3>2
  <2>2. Of(u, d) \subseteq Tokens /\ Of(u, d)' \subseteq Tokens
    BY DEF Of
  <2> QED  BY <2>1, <2>2
<1> QED  BY <1>2, <1>3, <1>4, <1>5

\* Expiry leaves revocation and ownership alone.
LEMMA ExpiredSets ==
    ASSUME IInv, NEW t \in Tokens, Expire(t)
    PROVE  /\ \A u \in Persons, d \in Devices \cup {None} : Of(u, d)' = Of(u, d)
           /\ \A s \in Tokens : (Unrevoked(s)' <=> Unrevoked(s))
           /\ \A s \in Tokens : s # t => tokens'[s] = tokens[s]
           /\ tokens'[t].user = tokens[t].user
<1> USE DEF IInv, TypeOK
<1>1. tokens[t] \in Row /\ tokens[t] # NoToken
  BY DEF Expire
<1>2. /\ tokens'[t] = [tokens[t] EXCEPT !.expired = TRUE]
      /\ \A s \in Tokens : s # t => tokens'[s] = tokens[s]
  BY DEF Expire
<1>3. /\ tokens'[t] \in Row
      /\ tokens'[t].user = tokens[t].user /\ tokens'[t].device = tokens[t].device
      /\ tokens'[t].revoked = tokens[t].revoked
  BY <1>1, <1>2 DEF Row
<1>4. NoToken \notin Row
  BY NoneAssumption DEF NoToken, Row
<1>5. \A s \in Tokens : (Unrevoked(s)' <=> Unrevoked(s))
  BY <1>1, <1>2, <1>3, <1>4 DEF Unrevoked
<1>6. ASSUME NEW u \in Persons, NEW d \in Devices \cup {None}
      PROVE  Of(u, d)' = Of(u, d)
  <2>1. ASSUME NEW s \in Tokens PROVE s \in Of(u, d)' <=> s \in Of(u, d)
    <3>1. CASE s = t
      BY <1>1, <1>3, <1>4, <3>1 DEF Of
    <3>2. CASE s # t
      BY <1>2, <3>2 DEF Of
    <3> QED  BY <3>1, <3>2
  <2>2. Of(u, d) \subseteq Tokens /\ Of(u, d)' \subseteq Tokens
    BY DEF Of
  <2> QED  BY <2>1, <2>2
<1> QED  BY <1>2, <1>3, <1>5, <1>6
-----------------------------------------------------------------------------
\* Steps that touch neither the tokens of a device nor who is about to insert one.
LEMMA DeviceUntouched ==
    ASSUME IInv, NEW u \in Persons, NEW d \in Devices,
           <<u, d>> \notin contested', <<u, d>> \notin contested,
           Of(u, d)' \subseteq Of(u, d),
           \A t \in Of(u, d)' : Unrevoked(t)' => Unrevoked(t),
           \A q \in Slots : Inserting(q, u, d)' => Inserting(q, u, d)
    PROVE  /\ \A r \in Slots : Inserting(r, u, d)' =>
                 /\ \A t \in Of(u, d)' : ~Unrevoked(t)'
                 /\ \A q \in Slots : Inserting(q, u, d)' => q = r
           /\ \A s, t \in Of(u, d)' : Unrevoked(s)' /\ Unrevoked(t)' => s = t
BY DEF IInv, InsertsAlone, OneTokenPerDevice

\* One token per device: an exchange that revokes with nobody else about to
\* insert is alone until it inserts, and what it inserts is then alone.
LEMMA NextOneToken == IInv /\ [Next]_vars => (InsertsAlone /\ OneTokenPerDevice)'
<1> SUFFICES ASSUME IInv, [Next]_vars, NEW u \in Persons, NEW d \in Devices,
                    <<u, d>> \notin contested'
             PROVE  /\ \A r \in Slots : Inserting(r, u, d)' =>
                          /\ \A t \in Of(u, d)' : ~Unrevoked(t)'
                          /\ \A q \in Slots : Inserting(q, u, d)' => q = r
                    /\ \A s, t \in Of(u, d)' : Unrevoked(s)' /\ Unrevoked(t)' => s = t
  BY DEF InsertsAlone, OneTokenPerDevice
<1> DEFINE Goal ==
        /\ \A r \in Slots : Inserting(r, u, d)' =>
              /\ \A t \in Of(u, d)' : ~Unrevoked(t)'
              /\ \A q \in Slots : Inserting(q, u, d)' => q = r
        /\ \A s, t \in Of(u, d)' : Unrevoked(s)' /\ Unrevoked(t)' => s = t
<1> USE DEF history, locals
<1>0. d # None
  BY NoneAssumption
<1>1. ASSUME NEW r \in Slots,
             \/ \E p \in Persons : Register(r, p) \/ Login(r, p)
             \/ \E t \in Tokens, e \in Devices \cup {None} : Refresh(r, t, e)
             \/ Fail(r) \/ Enrol(r)
      PROVE  Goal
  <2>1. tokens' = tokens /\ contested' = contested
    BY <1>1 DEF Register, Login, Refresh, Fail, Enrol
  <2>2. ASSUME NEW q \in Slots, Inserting(q, u, d)' PROVE Inserting(q, u, d)
    BY <1>0, <1>1, <2>2 DEF IInv, TypeOK, CallOK, Inserting, Register, Login, Refresh, Fail,
                            Enrol, Begin, Leave
  <2> QED  BY <2>1, <2>2, DeviceUntouched DEF Of, Unrevoked
<1>2. ASSUME NEW r \in Slots, CallOK(r), RevokeDevice(r)
      PROVE  Goal
  <2>1. Of(who[r], device[r]) \in SUBSET Tokens /\ tokens' = Revoked(Of(who[r], device[r]))
    BY <1>2 DEF RevokeDevice, Of
  <2>2. /\ Of(u, d)' = Of(u, d)
        /\ \A t \in Tokens : Unrevoked(t)' <=> (Unrevoked(t) /\ t \notin Of(who[r], device[r]))
    BY <2>1, RevokedSets
  <2>3. CASE u = who[r] /\ d = device[r]
    <3>1. \A t \in Of(u, d)' : ~Unrevoked(t)'
      BY <2>2, <2>3 DEF Of
    <3>2. \A q \in Slots : ~Inserting(q, u, d)
      BY <1>2, <2>3 DEF RevokeDevice
    <3>3. ASSUME NEW q \in Slots, Inserting(q, u, d)' PROVE q = r
      BY <1>2, <3>2, <3>3 DEF IInv, TypeOK, RevokeDevice, Inserting
    <3> QED  BY <3>1, <3>3
  <2>4. CASE ~(u = who[r] /\ d = device[r])
    <3>1. ASSUME NEW q \in Slots, Inserting(q, u, d)' PROVE Inserting(q, u, d)
      BY <1>2, <2>4, <3>1 DEF IInv, TypeOK, RevokeDevice, Inserting
    <3>2. <<u, d>> \notin contested
      BY <1>2, <2>4 DEF RevokeDevice
    <3>3. Of(u, d) \subseteq Tokens
      BY DEF Of
    <3> QED  BY <2>2, <3>1, <3>2, <3>3, DeviceUntouched
  <2> QED  BY <2>3, <2>4
<1>3. ASSUME NEW r \in Slots, CallOK(r), InsertToken(r)
      PROVE  Goal
  <2>1. PICK t \in Tokens :
           /\ tokens[t] = NoToken
           /\ tokens' = [tokens EXCEPT ![t] =
                 [user |-> who[r], device |-> device[r], revoked |-> FALSE, expired |-> FALSE]]
    BY <1>3 DEF InsertToken
  <2>2. /\ Of(u, d)' = IF u = who[r] /\ d = device[r] THEN Of(u, d) \cup {t} ELSE Of(u, d)
        /\ \A s \in Tokens : Unrevoked(s)' <=> (Unrevoked(s) \/ s = t)
    <3>1. pc[r] = "insert" /\ d \in Devices \cup {None}
      BY <1>3 DEF InsertToken
    <3>2. tokens[t] = NoToken /\ CallOK(r) /\ tokens' = [tokens EXCEPT ![t] =
                 [user |-> who[r], device |-> device[r], revoked |-> FALSE, expired |-> FALSE]]
      BY <1>3, <2>1
    <3>3. \A v \in Persons, e \in Devices \cup {None} :
             Of(v, e)' = IF v = who[r] /\ e = device[r] THEN Of(v, e) \cup {t} ELSE Of(v, e)
      BY <3>1, <3>2, InsertedSets
    <3>4. \A s \in Tokens : Unrevoked(s)' <=> (Unrevoked(s) \/ s = t)
      BY <3>1, <3>2, InsertedSets
    <3> QED  BY <3>1, <3>3, <3>4
  <2>3. /\ \A q \in Slots : Inserting(q, u, d)' => Inserting(q, u, d) /\ q # r
        /\ contested' = contested
    BY <1>3 DEF IInv, TypeOK, InsertToken, Leave, Inserting
  <2>4. Of(u, d) \subseteq Tokens /\ t \notin Of(u, d)
    BY <2>1 DEF Of
  <2>5. CASE u = who[r] /\ d = device[r]
    <3>1. Inserting(r, u, d)
      BY <1>3, <2>5 DEF InsertToken, Inserting
    <3>2. /\ \A s \in Of(u, d) : ~Unrevoked(s)
          /\ \A q \in Slots : Inserting(q, u, d) => q = r
      BY <2>3, <3>1 DEF IInv, InsertsAlone
    <3> QED  BY <2>2, <2>3, <2>4, <3>2
  <2>6. CASE ~(u = who[r] /\ d = device[r])
    BY <2>2, <2>3, <2>4, <2>6, DeviceUntouched
  <2> QED  BY <2>5, <2>6
<1>4. ASSUME NEW S \in SUBSET Tokens, tokens' = Revoked(S), contested' = contested,
             UNCHANGED locals
      PROVE  Goal
  <2>1. Of(u, d) \subseteq Tokens
    BY DEF Of
  <2>2. /\ Of(u, d)' = Of(u, d)
        /\ \A t \in Tokens : Unrevoked(t)' => Unrevoked(t)
    BY <1>4, RevokedSets
  <2>3. \A q \in Slots : Inserting(q, u, d)' => Inserting(q, u, d)
    BY <1>4 DEF Inserting
  <2> QED  BY <1>4, <2>1, <2>2, <2>3, DeviceUntouched
<1>5. ASSUME NEW p \in Persons, LogoutAll(p)
      PROVE  Goal
  <2>1. UNION {Of(p, e) : e \in Devices \cup {None}} \in SUBSET Tokens
    BY DEF Of
  <2> QED  BY <1>4, <1>5, <2>1 DEF LogoutAll
<1>6. ASSUME NEW t \in Tokens, Logout(t)
      PROVE  Goal
  BY <1>4, <1>6 DEF Logout
<1>7. ASSUME NEW t \in Tokens, Expire(t)
      PROVE  Goal
  <2>1. Of(u, d) \subseteq Tokens
    BY DEF Of
  <2>2. \A q \in Slots : Inserting(q, u, d)' => Inserting(q, u, d)
    BY <1>7 DEF Inserting, Expire
  <2>3. contested' = contested
    BY <1>7 DEF Expire
  <2> QED  BY <1>7, <2>1, <2>2, <2>3, ExpiredSets, DeviceUntouched
<1>8. CASE (\E p \in Persons : Remove(p) \/ Deactivate(p)) \/ UNCHANGED vars
  BY <1>8, DeviceUntouched DEF Remove, Deactivate, vars, Of, Unrevoked, Inserting
<1> QED  BY <1>1, <1>2, <1>3, <1>5, <1>6, <1>7, <1>8 DEF Next, IInv

\* A token a device can use stays until it is revoked, and whoever revokes it
\* either signs the device out or is about to insert the next one.
LEMMA NextAccess == IInv /\ [Next]_vars => DeviceKeepsAccess'
<1> SUFFICES ASSUME IInv, [Next]_vars, NEW u \in Persons, NEW d \in Devices,
                    (<<u, d>> \in signedIn)'
             PROVE  \/ \E t \in Of(u, d)' \cap held' : Unrevoked(t)' /\ ~tokens'[t].expired
                    \/ \E r \in Slots : Inserting(r, u, d)'
  BY DEF DeviceKeepsAccess
<1> DEFINE Goal == \/ \E t \in Of(u, d)' \cap held' : Unrevoked(t)' /\ ~tokens'[t].expired
                   \/ \E r \in Slots : Inserting(r, u, d)'
<1>0. <<u, d>> \in signedIn =>
         \/ \E t \in Of(u, d) \cap held : Unrevoked(t) /\ ~tokens[t].expired
         \/ \E r \in Slots : Inserting(r, u, d)
  BY DEF IInv, DeviceKeepsAccess
<1>1. ASSUME NEW r \in Slots, UNCHANGED <<tokens, held, signedIn>>,
             \A q \in Slots : Inserting(q, u, d) => Inserting(q, u, d)'
      PROVE  Goal
  BY <1>0, <1>1 DEF Of, Unrevoked
<1>2. ASSUME NEW r \in Slots,
             \/ \E p \in Persons : Register(r, p) \/ Login(r, p)
             \/ \E t \in Tokens, e \in Devices \cup {None} : Refresh(r, t, e)
             \/ Enrol(r)
      PROVE  Goal
  <2>1. \A q \in Slots : Inserting(q, u, d) => Inserting(q, u, d)'
    BY <1>2 DEF IInv, TypeOK, Register, Login, Refresh, Enrol, Begin, Leave, Inserting
  <2> QED  BY <1>1, <1>2, <2>1 DEF Register, Login, Refresh, Enrol, history
<1>3. ASSUME NEW r \in Slots, CallOK(r), RevokeDevice(r)
      PROVE  Goal
  <2>1. CASE u = who[r] /\ d = device[r]
    BY <1>3, <2>1 DEF IInv, TypeOK, RevokeDevice, Inserting
  <2>2. CASE ~(u = who[r] /\ d = device[r])
    <3>1. Of(who[r], device[r]) \in SUBSET Tokens
      BY DEF Of
    <3>2. tokens' = Revoked(Of(who[r], device[r])) /\ held' = held /\ signedIn' = signedIn
      BY <1>3 DEF RevokeDevice
    <3>3. /\ Of(u, d)' = Of(u, d)
          /\ \A t \in Tokens : Unrevoked(t)' <=> (Unrevoked(t) /\ t \notin Of(who[r], device[r]))
      BY <3>1, <3>2, RevokedSets
    <3>4. \A t \in Of(u, d) : t \in Tokens /\ tokens'[t].expired = tokens[t].expired
      BY <3>1, <3>2, RevokedFacts DEF IInv, TypeOK, Of
    <3>5. \A t \in Of(u, d) : t \notin Of(who[r], device[r])
      BY <2>2 DEF Of
    <3>6. \A q \in Slots : Inserting(q, u, d) => Inserting(q, u, d)'
      BY <1>3 DEF IInv, TypeOK, RevokeDevice, Inserting
    <3> QED  BY <1>0, <3>2, <3>3, <3>4, <3>5, <3>6
  <2> QED  BY <2>1, <2>2
<1>4. ASSUME NEW r \in Slots, CallOK(r), InsertToken(r)
      PROVE  Goal
  <2>1. PICK t \in Tokens :
           /\ tokens[t] = NoToken
           /\ tokens' = [tokens EXCEPT ![t] =
                 [user |-> who[r], device |-> device[r], revoked |-> FALSE, expired |-> FALSE]]
           /\ \/ /\ held' = held \cup {t}
                 /\ signedIn' = signedIn \cup ({who[r]} \X ({device[r]} \ {None}))
              \/ /\ signedIn' = signedIn \ {<<who[r], device[r]>>}
                 /\ UNCHANGED held
    BY <1>4 DEF InsertToken
  <2>2. /\ Of(u, d)' = IF u = who[r] /\ d = device[r] THEN Of(u, d) \cup {t} ELSE Of(u, d)
        /\ \A s \in Tokens : Unrevoked(s)' <=> (Unrevoked(s) \/ s = t)
        /\ tokens'[t].user = who[r] /\ ~tokens'[t].expired
        /\ \A s \in Tokens : s # t => tokens'[s] = tokens[s]
    <3>1. pc[r] = "insert" /\ d \in Devices \cup {None}
      BY <1>4 DEF InsertToken
    <3>2. tokens[t] = NoToken /\ CallOK(r) /\ tokens' = [tokens EXCEPT ![t] =
                 [user |-> who[r], device |-> device[r], revoked |-> FALSE, expired |-> FALSE]]
      BY <1>4, <2>1
    <3>3. \A v \in Persons, e \in Devices \cup {None} :
             Of(v, e)' = IF v = who[r] /\ e = device[r] THEN Of(v, e) \cup {t} ELSE Of(v, e)
      BY <3>1, <3>2, InsertedSets
    <3>4. \A s \in Tokens : Unrevoked(s)' <=> (Unrevoked(s) \/ s = t)
      BY <3>1, <3>2, InsertedSets
    <3>5. /\ tokens'[t].user = who[r] /\ ~tokens'[t].expired
          /\ \A s \in Tokens : s # t => tokens'[s] = tokens[s]
      BY <3>1, <3>2, InsertedSets
    <3> QED  BY <3>1, <3>3, <3>4, <3>5
  <2>3. CASE u = who[r] /\ d = device[r]
    <3>1. held' = held \cup {t}
      BY <2>1, <2>3
    <3> QED  BY <2>2, <2>3, <3>1
  <2>4. CASE ~(u = who[r] /\ d = device[r])
    <3>1. <<u, d>> \in signedIn /\ held \subseteq held'
      BY <2>1, <2>4
    <3>2. \A q \in Slots : Inserting(q, u, d) => Inserting(q, u, d)'
      BY <1>4, <2>4 DEF IInv, TypeOK, InsertToken, Leave, Inserting
    <3>3. t \notin Of(u, d) /\ Of(u, d) \subseteq Tokens
      BY <2>1 DEF Of
    <3>4. \A s \in Of(u, d) : tokens'[s] = tokens[s] /\ (Unrevoked(s) => Unrevoked(s)')
      BY <2>2, <3>3
    <3> QED  BY <1>0, <2>2, <2>4, <3>1, <3>2, <3>4
  <2> QED  BY <2>3, <2>4
<1>5. ASSUME NEW r \in Slots, Fail(r)
      PROVE  Goal
  <2>1. ~Inserting(r, u, d) /\ <<u, d>> \in signedIn
    BY <1>5 DEF Fail, Inserting
  <2>2. \A q \in Slots : Inserting(q, u, d) => Inserting(q, u, d)'
    BY <1>5, <2>1 DEF IInv, TypeOK, Fail, Leave, Inserting
  <2> QED  BY <1>0, <1>5, <2>1, <2>2 DEF Fail, Of, Unrevoked
<1>6. ASSUME NEW S \in SUBSET Tokens, tokens' = Revoked(S), held' = held,
             UNCHANGED locals, <<u, d>> \in signedIn, S \cap Of(u, d) = {}
      PROVE  Goal
  <2>1. /\ Of(u, d)' = Of(u, d)
        /\ \A t \in Tokens : Unrevoked(t)' <=> (Unrevoked(t) /\ t \notin S)
    BY <1>6, RevokedSets
  <2>2. \A t \in Of(u, d) : t \in Tokens /\ tokens'[t].expired = tokens[t].expired
    BY <1>6, RevokedFacts DEF IInv, TypeOK, Of
  <2>3. \A q \in Slots : Inserting(q, u, d) => Inserting(q, u, d)'
    BY <1>6 DEF Inserting, locals
  <2> QED  BY <1>0, <1>6, <2>1, <2>2, <2>3
<1>7. ASSUME NEW t \in Tokens, Logout(t)
      PROVE  Goal
  <2>1. {t} \cap Of(u, d) = {}
    BY <1>7 DEF Logout, Of
  <2> QED  BY <1>6, <1>7, <2>1 DEF Logout
<1>8. ASSUME NEW p \in Persons, LogoutAll(p)
      PROVE  Goal
  <2>1. u # p
    BY <1>8 DEF LogoutAll
  <2> DEFINE S == UNION {Of(p, e) : e \in Devices \cup {None}}
  <2>2. S \in SUBSET Tokens /\ S \cap Of(u, d) = {}
    BY <2>1 DEF Of
  <2>3. tokens' = Revoked(S) /\ held' = held /\ UNCHANGED locals /\ <<u, d>> \in signedIn
    BY <1>8 DEF LogoutAll
  <2> HIDE DEF S
  <2> QED  BY <1>6, <2>2, <2>3
<1>9. ASSUME NEW t \in Tokens, Expire(t)
      PROVE  Goal
  <2>1. /\ Of(u, d)' = Of(u, d)
        /\ \A s \in Tokens : (Unrevoked(s)' <=> Unrevoked(s))
        /\ \A s \in Tokens : s # t => tokens'[s] = tokens[s]
    BY <1>9, ExpiredSets
  <2>2. t \notin Of(u, d) /\ Of(u, d) \subseteq Tokens /\ <<u, d>> \in signedIn /\ held' = held
    BY <1>9 DEF Expire, Of
  <2>3. \A q \in Slots : Inserting(q, u, d) => Inserting(q, u, d)'
    BY <1>9 DEF Expire, Inserting, locals
  <2>4. \A s \in Of(u, d) : s \in Tokens /\ tokens'[s] = tokens[s]
    BY <2>1, <2>2
  <2> QED  BY <1>0, <2>1, <2>2, <2>3, <2>4
<1>10. CASE (\E p \in Persons : Remove(p) \/ Deactivate(p)) \/ UNCHANGED vars
  <2>1. UNCHANGED <<tokens, held, signedIn, locals>>
    BY <1>10 DEF Remove, Deactivate, vars, locals, history
  <2> QED  BY <1>0, <2>1 DEF Of, Unrevoked, Inserting, locals
<1> QED  BY <1>2, <1>3, <1>4, <1>5, <1>7, <1>8, <1>9, <1>10 DEF Next, IInv

\* Nobody issues anything for who is out but the steps after a sign-in, and
\* nothing un-revokes a token.
LEMMA NextOut == IInv /\ [Next]_vars => LogoutAllHolds'
<1> SUFFICES ASSUME IInv, [Next]_vars, NEW u \in out'
             PROVE  /\ \A t \in Tokens : Unrevoked(t)' => tokens'[t].user # u
                    /\ \A r \in Slots : ~Issuing(r, u)'
  BY DEF LogoutAllHolds
<1> DEFINE Goal == /\ \A t \in Tokens : Unrevoked(t)' => tokens'[t].user # u
                   /\ \A r \in Slots : ~Issuing(r, u)'
<1>0. u \in out =>
         /\ \A t \in Tokens : Unrevoked(t) => tokens[t].user # u
         /\ \A r \in Slots : ~Issuing(r, u)
         /\ account[u] # "absent"
  BY DEF IInv, LogoutAllHolds, RowsKnown
<1>1. ASSUME NEW r \in Slots, NEW p \in Persons, Register(r, p) \/ Login(r, p)
      PROVE  Goal
  <2>1. u \in out /\ tokens' = tokens
    BY <1>1 DEF Register, Login, history
  <2>2. \A q \in Slots : Issuing(q, u)' => Issuing(q, u)
    BY <1>1 DEF IInv, TypeOK, Register, Login, Begin, Issuing
  <2> QED  BY <1>0, <2>1, <2>2 DEF Unrevoked
<1>2. ASSUME NEW r \in Slots, NEW t \in Tokens, NEW d \in Devices \cup {None}, Refresh(r, t, d)
      PROVE  Goal
  <2>1. u \in out /\ tokens' = tokens /\ Unrevoked(t)
    BY <1>2 DEF Refresh, Good, history
  <2>2. tokens[t].user # u
    BY <1>0, <2>1
  <2>3. \A q \in Slots : Issuing(q, u)' => Issuing(q, u)
    BY <1>2, <2>2 DEF IInv, TypeOK, Refresh, Begin, Issuing
  <2> QED  BY <1>0, <2>1, <2>3 DEF Unrevoked
<1>3. ASSUME NEW r \in Slots, Enrol(r)
      PROVE  Goal
  <2>1. u \in out /\ tokens' = tokens
    BY <1>3 DEF Enrol, history
  <2>2. \A q \in Slots : Issuing(q, u)' => Issuing(q, u)
    BY <1>0, <1>3, <2>1 DEF IInv, TypeOK, Enrol, Leave, Issuing
  <2> QED  BY <1>0, <2>1, <2>2 DEF Unrevoked
<1>4. ASSUME NEW S \in SUBSET Tokens, tokens' = Revoked(S), u \in out,
             \A q \in Slots : Issuing(q, u)' => Issuing(q, u)
      PROVE  Goal
  BY <1>0, <1>4, RevokedFacts, RevokedSets DEF IInv, TypeOK, Unrevoked
<1>5. ASSUME NEW r \in Slots, RevokeDevice(r)
      PROVE  Goal
  <2>1. Of(who[r], device[r]) \in SUBSET Tokens
    BY DEF Of
  <2>2. \A q \in Slots : Issuing(q, u)' => Issuing(q, u)
    BY <1>5 DEF IInv, TypeOK, RevokeDevice, Issuing
  <2>3. u \in out /\ tokens' = Revoked(Of(who[r], device[r]))
    BY <1>5 DEF RevokeDevice
  <2> QED  BY <1>4, <2>1, <2>2, <2>3
<1>6. ASSUME NEW r \in Slots, CallOK(r), InsertToken(r)
      PROVE  Goal
  <2>1. u \in out /\ who[r] # u
    BY <1>0, <1>6 DEF InsertToken, Issuing
  <2>2. PICK t \in Tokens :
           /\ tokens[t] = NoToken
           /\ tokens' = [tokens EXCEPT ![t] =
                 [user |-> who[r], device |-> device[r], revoked |-> FALSE, expired |-> FALSE]]
    BY <1>6 DEF InsertToken
  <2>3. \A s \in Tokens : s # t => tokens'[s] = tokens[s]
    BY <2>2 DEF IInv, TypeOK
  <2>4. tokens'[t].user = who[r]
    BY <2>2 DEF IInv, TypeOK
  <2>5. \A q \in Slots : Issuing(q, u)' => Issuing(q, u)
    BY <1>6 DEF IInv, TypeOK, InsertToken, Leave, Issuing
  <2> QED  BY <1>0, <2>1, <2>3, <2>4, <2>5 DEF Unrevoked
<1>7. ASSUME NEW t \in Tokens, Logout(t)
      PROVE  Goal
  <2>1. u \in out /\ tokens' = Revoked({t}) /\ \A q \in Slots : Issuing(q, u)' => Issuing(q, u)
    BY <1>7 DEF Logout, locals, Issuing
  <2> QED  BY <1>4, <1>7, <2>1
<1>8. ASSUME NEW p \in Persons, LogoutAll(p)
      PROVE  Goal
  <2> DEFINE S == UNION {Of(p, e) : e \in Devices \cup {None}}
  <2>1. S \in SUBSET Tokens
    BY DEF Of
  <2>2. /\ tokens' = Revoked(S)
        /\ \A q \in Slots : Issuing(q, u)' <=> Issuing(q, u)
    BY <1>8 DEF LogoutAll, locals, Issuing
  <2>3. \A t \in Tokens : Of(p, None) \subseteq S /\ \A e \in Devices : Of(p, e) \subseteq S
    OBVIOUS
  <2>4. CASE u \in out
    <3> HIDE DEF S
    <3> QED  BY <1>4, <2>1, <2>2, <2>4
  <2>5. CASE u \notin out
    <3>1. u = p /\ \A q \in Slots : ~Issuing(q, u)
      BY <1>8, <2>5 DEF LogoutAll
    <3>2. \A t \in Tokens : tokens[t] # NoToken /\ tokens[t].user = p =>
             t \in Of(p, tokens[t].device) /\ tokens[t].device \in Devices \cup {None}
      BY DEF IInv, TypeOK, Of, Row
    <3>3. \A t \in Tokens : tokens[t] # NoToken /\ tokens[t].user = p => t \in S
      BY <2>3, <3>2
    <3> HIDE DEF S
    <3>4. \A t \in Tokens : Unrevoked(t)' => Unrevoked(t) /\ t \notin S
      BY <2>1, <2>2, RevokedSets
    <3>5. \A t \in Tokens : Unrevoked(t)' => tokens'[t].user = tokens[t].user
      BY <2>1, <2>2, <3>4, RevokedFacts DEF IInv, TypeOK, Unrevoked
    <3> QED  BY <2>2, <3>1, <3>3, <3>4, <3>5 DEF Unrevoked
  <2> QED  BY <2>4, <2>5
<1>9. ASSUME NEW t \in Tokens, Expire(t)
      PROVE  Goal
  <2>1. u \in out /\ \A q \in Slots : Issuing(q, u)' => Issuing(q, u)
    BY <1>9 DEF Expire, locals, Issuing
  <2>2. \A s \in Tokens : (Unrevoked(s)' <=> Unrevoked(s)) /\ tokens'[s].user = tokens[s].user
    BY <1>9, ExpiredSets
  <2> QED  BY <1>0, <2>1, <2>2
<1>10. ASSUME NEW r \in Slots, Fail(r)
      PROVE  Goal
  <2>1. u \in out /\ tokens' = tokens
    BY <1>10 DEF Fail
  <2>2. \A q \in Slots : Issuing(q, u)' => Issuing(q, u)
    BY <1>10 DEF IInv, TypeOK, Fail, Leave, Issuing
  <2> QED  BY <1>0, <2>1, <2>2 DEF Unrevoked
<1>11. CASE (\E p \in Persons : Remove(p) \/ Deactivate(p)) \/ UNCHANGED vars
  <2>1. UNCHANGED <<tokens, out, locals>>
    BY <1>11 DEF Remove, Deactivate, vars, locals, history
  <2> QED  BY <1>0, <2>1 DEF Unrevoked, Issuing, locals
<1> QED  BY <1>1, <1>2, <1>3, <1>5, <1>6, <1>7, <1>8, <1>9, <1>10, <1>11 DEF Next, IInv
-----------------------------------------------------------------------------
\* Every run of sign-ins, exchanges and sign-outs keeps the inductive invariant.
THEOREM SessionsInvariant == Spec => []IInv
<1>1. IInv /\ [Next]_vars => IInv'
  BY NextTypes, NextCalls, NextRowsKnown, NextOneToken, NextAccess, NextOut DEF IInv
<1> QED  BY InitIInv, <1>1, PTL DEF Spec

\* Every variable keeps its type, and no token outlives its account: the foreign
\* key refuses the DELETE in UsersService.remove while there is one.
THEOREM SessionsTypeCorrect == Spec => []TypeOK
<1>1. IInv => TypeOK
  BY DEF IInv
<1> QED  BY SessionsInvariant, <1>1, PTL

\* However many exchanges run at once, a device of which no two were between
\* the UPDATE and the INSERT of createRefreshToken has one unrevoked token.
THEOREM OneTokenStays == Spec => []OneTokenPerDevice
<1>1. IInv => OneTokenPerDevice
  BY DEF IInv
<1> QED  BY SessionsInvariant, <1>1, PTL

\* Exchanging tokens alone locks no device out, whatever overlaps.
THEOREM DeviceNotLockedOut == Spec => []DeviceKeepsAccess
<1>1. IInv => DeviceKeepsAccess
  BY DEF IInv
<1> QED  BY SessionsInvariant, <1>1, PTL

\* After revokeAllUserTokens with nothing in progress, only a sign-in issues.
THEOREM LogoutAllIsFinal == Spec => []LogoutAllHolds
<1>1. IInv => LogoutAllHolds
  BY DEF IInv
<1> QED  BY SessionsInvariant, <1>1, PTL
=============================================================================
