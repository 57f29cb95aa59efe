---------------------------- MODULE UsersProofs ----------------------------
(***************************************************************************)
(* What TLC checks of Users on a small instance, proved for any users,     *)
(* addresses and codes and any number of requests at once.                 *)
(***************************************************************************)
EXTENDS Users, TLAPS

\* What a call in progress has in its local variables.
CallOK(r) ==
    /\ pc[r] = "insert" => mine[r] \in UserRow
    /\ pc[r] \notin {"idle", "insert"} => who[r] \in Ids /\ Exists(who[r])
    /\ pc[r] \in Saving => mine[r] \in UserRow
    /\ pc[r] = "userWrite" => seen[r] \in UserRow
    /\ pc[r] \in {"invalidate", "newCode"} => mine[r] \in Emails
    /\ pc[r] \in Checking \cup {"mark"} =>
          code[r] \in Codes /\ codes[code[r]] # NoCode /\ codes[code[r]].user = who[r]
    /\ pc[r] \in Checking => mine[r] \in CodeRow
    /\ pc[r] \in {"tryWrite", "useWrite"} => seen[r] \in CodeRow
    /\ pc[r] \in {"useReload", "useWrite"} => mine[r].used

\* What a save would write back of isEmailVerified is true if somebody was told
\* so, and only if the address was proved.
SaveOK(r) ==
    pc[r] \in Saving =>
        /\ who[r] \in told => mine[r].verified
        /\ mine[r].verified /\ who[r] \notin moved => users[who[r]].email \in proved[who[r]]

\* An address a code goes to is the user's, or the user's is another by now,
\* which was proved unless it was only changed.
Settled(u, e) == u \in moved \/ users[u].email = e \/ users[u].email \in proved[u]
AddressesOK ==
    /\ \A c \in Codes : codes[c] # NoCode => Settled(codes[c].user, codes[c].email)
    /\ \A r \in Slots : pc[r] \in {"invalidate", "newCode"} => Settled(who[r], mine[r])

\* While the codes of a user are uncontested, who sends one is alone with none
\* unused, and all who check one check the same.
OneFlow ==
    \A u \in Ids \ contested : \A r \in CodeCalls(u) :
        /\ pc[r] = "newCode" => Unused(u) = {} /\ \A q \in CodeCalls(u) : q = r
        /\ pc[r] \in Checking => Unused(u) \subseteq {code[r]}
                                 /\ \A q \in CodeCalls(u) : pc[q] \in Checking /\ code[q] = code[r]

\* No two users have one address.
UniqueAddresses ==
    \A u, v \in Ids : Exists(u) /\ users[u].email = users[v].email => u = v

IInv ==
    /\ TypeOK
    /\ UniqueAddresses
    /\ \A r \in Slots : CallOK(r) /\ SaveOK(r)
    /\ AddressesOK
    /\ VerifiedWasProved
    /\ VerificationSticks
    /\ OneFlow
    /\ OneUsableCode
    /\ RetiredStaysUsed
-----------------------------------------------------------------------------
LEMMA RowFacts ==
    /\ NoCode \notin CodeRow /\ NoUser \notin UserRow
    /\ NoCode.user = None /\ ~NoUser.verified /\ NoUser.email = None
    /\ \A m \in CodeRow : m.used \in BOOLEAN /\ m.attempts \in 0 .. MaxAttempts
                       /\ m.user \in Ids /\ m.email \in Emails
    /\ \A m \in UserRow : m.email \in Emails /\ m.verified \in BOOLEAN
BY NoneAssumption DEF NoCode, CodeRow, NoUser, UserRow

\* What the UPDATE of a code writes.
LEMMA OverwrittenFacts ==
    ASSUME TypeOK, NEW r \in Slots, CallOK(r), pc[r] \in {"tryWrite", "useWrite"},
           codes' = CodeOverwritten(r)
    PROVE  /\ codes' \in [Codes -> CodeRow \cup {NoCode}]
           /\ \A c \in Codes : c # code[r] => codes'[c] = codes[c]
           /\ codes'[code[r]] \in CodeRow
           /\ codes'[code[r]].user = codes[code[r]].user
           /\ codes'[code[r]].email = codes[code[r]].email
           /\ codes'[code[r]].used = Column(mine[r].used, seen[r].used, codes[code[r]].used)
<1> DEFINE c == code[r]
           row == [codes[c] EXCEPT !.used = Column(mine[r].used, seen[r].used, @),
                                   !.attempts = Column(mine[r].attempts, seen[r].attempts, @)]
<1>1. c \in Codes /\ codes[c] \in CodeRow /\ mine[r] \in CodeRow /\ seen[r] \in CodeRow
  BY DEF CallOK, TypeOK, Checking
<1>2. /\ Column(mine[r].used, seen[r].used, codes[c].used) \in BOOLEAN
      /\ Column(mine[r].attempts, seen[r].attempts, codes[c].attempts) \in 0 .. MaxAttempts
  BY <1>1, RowFacts DEF Column
<1>3. /\ row \in CodeRow
      /\ row.user = codes[c].user /\ row.email = codes[c].email
      /\ row.used = Column(mine[r].used, seen[r].used, codes[c].used)
  BY <1>1, <1>2 DEF CodeRow
<1>4. codes' = [codes EXCEPT ![c] = row]
  BY <1>1 DEF CodeOverwritten, TypeOK, CodeRow
<1> QED  BY <1>1, <1>3, <1>4 DEF TypeOK

\* What the UPDATE of a user's codes does to each.
LEMMA InvalidatedFacts ==
    ASSUME TypeOK, NEW r \in Slots, CallOK(r), Invalidate(r)
    PROVE  /\ codes' \in [Codes -> CodeRow \cup {NoCode}]
           /\ \A c \in Codes :
                 /\ c \notin Unused(who[r]) => codes'[c] = codes[c]
                 /\ codes'[c].user = codes[c].user /\ codes'[c].email = codes[c].email
                 /\ (codes'[c] = NoCode) <=> (codes[c] = NoCode)
                 /\ c \in Unused(who[r]) => codes'[c].used
<1> SUFFICES ASSUME NEW c \in Codes
             PROVE  /\ codes'[c] \in CodeRow \cup {NoCode}
                    /\ c \notin Unused(who[r]) => codes'[c] = codes[c]
                    /\ codes'[c].user = codes[c].user /\ codes'[c].email = codes[c].email
                    /\ (codes'[c] = NoCode) <=> (codes[c] = NoCode)
                    /\ c \in Unused(who[r]) => codes'[c].used
  BY DEF Invalidate
<1>1. CASE c \in Unused(who[r]) /\ codes[c] \in CodeRow
  <2>1. [codes[c] EXCEPT !.used = TRUE] \in CodeRow
    BY <1>1 DEF CodeRow
  <2>2. codes'[c] = [codes[c] EXCEPT !.used = TRUE]
    BY <1>1 DEF Invalidate
  <2> QED  BY <1>1, <2>1, <2>2, RowFacts DEF CodeRow
<1>2. CASE c \notin Unused(who[r])
  BY <1>2 DEF Invalidate, TypeOK
<1>3. CASE c \in Unused(who[r]) /\ codes[c] = NoCode
  <2>1. who[r] \in Ids
    BY DEF Invalidate, CallOK
  <2> QED  BY <1>3, <2>1, RowFacts, NoneAssumption DEF Unused
<1> QED  BY <1>1, <1>2, <1>3 DEF TypeOK

\* The row an UPDATE of a user ends with.
LEMMA WrittenFacts ==
    ASSUME TypeOK, NEW r \in Slots, CallOK(r), UserWrite(r)
    PROVE  /\ who[r] \in Ids /\ Exists(who[r])
           /\ users' \in [Ids -> UserRow \cup {NoUser}]
           /\ \A u \in Ids : u # who[r] => users'[u] = users[u]
           /\ users'[who[r]] \in UserRow
           /\ \/ users' = users /\ moved' = moved
              \/ /\ users'[who[r]].verified
                     = Column(mine[r].verified, seen[r].verified, users[who[r]].verified)
                 /\ \A v \in Ids \ {who[r]} : users[v].email # users'[who[r]].email
                 /\ \/ users'[who[r]].email = users[who[r]].email /\ moved' = moved
                    \/ moved' = moved \cup {who[r]}
<1> DEFINE u == who[r]
           row == [email |-> Column(mine[r].email, seen[r].email, users[u].email),
                   verified |-> Column(mine[r].verified, seen[r].verified, users[u].verified)]
<1>1. u \in Ids /\ users[u] \in UserRow /\ mine[r] \in UserRow /\ seen[r] \in UserRow
  BY DEF CallOK, TypeOK, Saving, UserWrite, Exists
<1>2. row \in UserRow
  BY <1>1 DEF Column, UserRow
<1>3. \/ users' = users /\ moved' = moved
      \/ /\ users' = [users EXCEPT ![u] = row]
         /\ \A v \in Ids \ {u} : users[v].email # row.email
         /\ moved' = IF row.email = users[u].email THEN moved ELSE moved \cup {u}
  BY DEF UserWrite
<1>4. row.verified = Column(mine[r].verified, seen[r].verified, users[u].verified)
  OBVIOUS
<1> HIDE DEF row
<1>5. CASE users' = users /\ moved' = moved
  BY <1>1, <1>5, RowFacts DEF TypeOK, Exists
<1>6. CASE /\ users' = [users EXCEPT ![u] = row]
           /\ \A v \in Ids \ {u} : users[v].email # row.email
           /\ moved' = IF row.email = users[u].email THEN moved ELSE moved \cup {u}
  BY <1>1, <1>2, <1>4, <1>6, RowFacts DEF TypeOK, Exists
<1> QED  BY <1>3, <1>5, <1>6

LEMMA InitIInv == Init => IInv
<1> SUFFICES ASSUME Init PROVE IInv
  OBVIOUS
<1>1. TypeOK
  BY RowFacts DEF Init, TypeOK, Exists
<1>2. \A r \in Slots : CallOK(r) /\ SaveOK(r)
  BY DEF Init, CallOK, SaveOK, Saving, Checking
<1>3. VerifiedWasProved /\ VerificationSticks /\ RetiredStaysUsed
  BY RowFacts DEF Init, VerifiedWasProved, VerificationSticks, RetiredStaysUsed
<1>4. \A u \in Ids : Unused(u) = {} /\ CodeCalls(u) = {}
  BY RowFacts, NoneAssumption DEF Init, Unused, CodeCalls, Checking
<1>5. OneFlow /\ OneUsableCode
  BY <1>4 DEF OneFlow, OneUsableCode
<1>6. AddressesOK /\ UniqueAddresses
  BY DEF Init, AddressesOK, UniqueAddresses, Exists
<1> QED  BY <1>1, <1>2, <1>3, <1>5, <1>6 DEF IInv
-----------------------------------------------------------------------------
\* No account goes away, no code changes hands.
LEMMA RowsStay ==
    ASSUME IInv, [Next]_vars
    PROVE  /\ \A u \in Ids : Exists(u) => Exists(u)'
           /\ \A c \in Codes : codes[c] # NoCode =>
                 codes'[c] # NoCode /\ codes'[c].user = codes[c].user /\ codes'[c].email = codes[c].email
<1> DEFINE Goal == /\ \A u \in Ids : Exists(u) => Exists(u)'
                   /\ \A c \in Codes : codes[c] # NoCode =>
                         codes'[c] # NoCode /\ codes'[c].user = codes[c].user /\ codes'[c].email = codes[c].email
<1> USE DEF IInv, TypeOK, Exists
<1>1. ASSUME NEW r \in Slots, Insert(r) PROVE Goal
  <2>1. mine[r] \in UserRow /\ codes' = codes
    BY <1>1 DEF Insert, CallOK
  <2> QED  BY <1>1, <2>1, RowFacts DEF Insert
<1>2. ASSUME NEW r \in Slots, UserWrite(r) PROVE Goal
  <2>1. codes' = codes
    BY <1>2 DEF UserWrite
  <2> QED  BY <1>2, <2>1, WrittenFacts, RowFacts
<1>3. ASSUME NEW r \in Slots, Invalidate(r) PROVE Goal
  <2>1. users' = users
    BY <1>3 DEF Invalidate
  <2> QED  BY <1>3, <2>1, InvalidatedFacts
<1>4. ASSUME NEW r \in Slots, NewCode(r) PROVE Goal
  BY <1>4 DEF NewCode
<1>5. ASSUME NEW r \in Slots, TryWrite(r) \/ UseWrite(r) PROVE Goal
  <2>1. /\ users' = users /\ codes' = CodeOverwritten(r)
        /\ pc[r] \in {"tryWrite", "useWrite"}
    BY <1>5 DEF TryWrite, UseWrite
  <2> QED  BY <2>1, OverwrittenFacts, RowFacts
<1>6. ASSUME NEW r \in Slots, Mark(r) PROVE Goal
  <2>1. users[who[r]] \in UserRow /\ codes' = codes
    BY <1>6 DEF Mark, CallOK
  <2>2. [users[who[r]] EXCEPT !.verified = TRUE] # NoUser
    BY <2>1, NoneAssumption DEF UserRow, NoUser
  <2> QED  BY <1>6, <2>1, <2>2 DEF Mark
<1>7. ASSUME UNCHANGED <<users, codes>> PROVE Goal
  BY <1>7
<1> QED  BY <1>1, <1>2, <1>3, <1>4, <1>5, <1>6, <1>7
         DEF Next, Enrol, GoogleFound, GoogleLinked, Send, Update, Verify, UserReload, CodeReload,
             Fail, vars

LEMMA NextTypes == IInv /\ [Next]_vars => TypeOK'
<1> SUFFICES ASSUME IInv, [Next]_vars PROVE TypeOK'
  OBVIOUS
<1> USE DEF IInv, TypeOK, history, locals, Exists
<1> USE RowFacts
<1>0. /\ {"userReload", "userWrite"} = Saving
      /\ {"tryReload", "tryWrite", "useReload", "useWrite"} = Checking
  BY DEF Saving, Checking
<1>1. ASSUME NEW r \in Slots, NEW e \in Emails, NEW google \in BOOLEAN, Enrol(r, e, google)
      PROVE  TypeOK'
  <2>1. [email |-> e, verified |-> google] \in UserRow
    BY DEF UserRow
  <2> QED  BY <1>1, <2>1 DEF Enrol, Begin
<1>2. ASSUME NEW r \in Slots, NEW u \in Ids, NEW e \in Emails,
             GoogleFound(r, u) \/ GoogleLinked(r, u) \/ Update(r, u, e) \/ Send(r, u)
      PROVE  TypeOK'
  <2>1. users[u] \in UserRow
    BY <1>2 DEF GoogleFound, GoogleLinked, Update, Send
  <2>2. /\ [users[u] EXCEPT !.verified = TRUE] \in UserRow
        /\ [users[u] EXCEPT !.email = e] \in UserRow
        /\ users[u].email \in Emails
    BY <2>1 DEF UserRow
  <2>3. ASSUME NEW label \in {"userReload", "invalidate"}, NEW m \in UserRow \cup Emails,
               Begin(r, label, u, None, m), UNCHANGED <<users, codes, arrived>>,
               UNCHANGED <<moved, contested, retired, told>>,
               proved' \in [Ids -> SUBSET Emails]
        PROVE  TypeOK'
    BY <1>0, <2>3 DEF Begin
  <2>4. [proved EXCEPT ![u] = @ \cup {users[u].email}] \in [Ids -> SUBSET Emails]
    BY <2>2
  <2>5. CASE GoogleFound(r, u)
    BY <2>1, <2>3, <2>5 DEF GoogleFound
  <2>6. CASE GoogleLinked(r, u)
    BY <2>2, <2>3, <2>4, <2>6 DEF GoogleLinked
  <2>7. CASE Update(r, u, e)
    BY <2>2, <2>3, <2>7 DEF Update
  <2>8. CASE Send(r, u)
    BY <2>2, <2>3, <2>8 DEF Send
  <2> QED  BY <1>2, <2>5, <2>6, <2>7, <2>8
<1>3. ASSUME NEW r \in Slots, NEW u \in Ids, NEW c \in Codes, Verify(r, u, c)
      PROVE  TypeOK'
  <2>1. codes[c] \in CodeRow /\ codes[c].attempts < MaxAttempts
    BY <1>3, NoneAssumption DEF Verify, Acceptable
  <2>2. codes[c].attempts + 1 \in 0 .. MaxAttempts
    BY <2>1, AttemptsAssumption
  <2>3. [codes[c] EXCEPT !.attempts = @ + 1] \in CodeRow
    BY <2>1, <2>2 DEF CodeRow
  <2> QED  BY <1>0, <1>3, <2>3 DEF Verify, Begin
<1>4. ASSUME NEW r \in Slots, CallOK(r), Insert(r)
      PROVE  TypeOK'
  <2>1. mine[r] \in UserRow
    BY <1>4 DEF CallOK, Insert
  <2>2. CASE Taken(mine[r].email)
    BY <1>4, <2>2 DEF Insert, Leave
  <2>3. CASE ~Taken(mine[r].email)
    <3>1. PICK u \in Ids : /\ ~Exists(u)
                           /\ users' = [users EXCEPT ![u] = mine[r]]
                           /\ proved' = [proved EXCEPT ![u] =
                                  IF mine[r].verified THEN {mine[r].email} ELSE {}]
      BY <1>4, <2>3 DEF Insert
    <3>2. users' \in [Ids -> UserRow \cup {NoUser}] /\ proved' \in [Ids -> SUBSET Emails]
      BY <2>1, <3>1
    <3>3. \A c \in Codes : codes[c] # NoCode => users'[codes[c].user] # NoUser
      BY <2>1, <3>1
    <3> QED  BY <1>4, <3>2, <3>3 DEF Insert, Leave
  <2> QED  BY <2>2, <2>3
<1>5. ASSUME NEW r \in Slots, CallOK(r), UserReload(r)
      PROVE  TypeOK'
  <2>1. users[who[r]] \in UserRow
    BY <1>0, <1>5 DEF CallOK, UserReload, Reread
  <2> QED  BY <1>0, <1>5, <2>1 DEF UserReload, Reread
<1>6. ASSUME NEW r \in Slots, CallOK(r), UserWrite(r)
      PROVE  TypeOK'
  <2>1. \A c \in Codes : codes[c] # NoCode => users'[codes[c].user] # NoUser
    BY <1>6, WrittenFacts
  <2>2. users' \in [Ids -> UserRow \cup {NoUser}] /\ moved' \subseteq Ids
    BY <1>6, WrittenFacts
  <2> QED  BY <1>6, <2>1, <2>2 DEF UserWrite, Leave
<1>7. ASSUME NEW r \in Slots, CallOK(r), Invalidate(r)
      PROVE  TypeOK'
  <2>1. who[r] \in Ids /\ mine[r] \in Emails
    BY <1>7 DEF CallOK, Invalidate
  <2>2. \A c \in Codes : codes'[c] # NoCode => users[codes'[c].user] # NoUser
    BY <1>7, InvalidatedFacts
  <2>3. retired' \subseteq Codes
    BY <1>7 DEF Invalidate, Unused
  <2>4. codes' \in [Codes -> CodeRow \cup {NoCode}]
    BY <1>7, InvalidatedFacts
  <2> QED  BY <1>7, <2>1, <2>2, <2>3, <2>4 DEF Invalidate, Goto
<1>8. ASSUME NEW r \in Slots, CallOK(r), NewCode(r)
      PROVE  TypeOK'
  <2>1. who[r] \in Ids /\ mine[r] \in Emails /\ users[who[r]] # NoUser
    BY <1>8 DEF CallOK, NewCode
  <2>2. 0 \in 0 .. MaxAttempts
    BY AttemptsAssumption
  <2>3. /\ [user |-> who[r], email |-> mine[r], used |-> FALSE, attempts |-> 0] \in CodeRow
        /\ [user |-> who[r], email |-> mine[r], used |-> FALSE, attempts |-> 0].user = who[r]
    BY <2>1, <2>2 DEF CodeRow
  <2> QED  BY <1>8, <2>1, <2>2, <2>3 DEF NewCode, Leave
<1>9. ASSUME NEW r \in Slots, CallOK(r), CodeReload(r)
      PROVE  TypeOK'
  <2>1. codes[code[r]] \in CodeRow
    BY <1>9 DEF CallOK, CodeReload, Reread, Checking
  <2> QED  BY <1>0, <1>9, <2>1 DEF CodeReload, Reread
<1>10. ASSUME NEW r \in Slots, CallOK(r), TryWrite(r) \/ UseWrite(r)
       PROVE  TypeOK'
  <2>1. codes' = CodeOverwritten(r) /\ code[r] \in Codes /\ codes[code[r]] # NoCode
        /\ pc[r] \in {"tryWrite", "useWrite"}
    BY <1>10 DEF TryWrite, UseWrite, CallOK, Checking
  <2>2. codes' \in [Codes -> CodeRow \cup {NoCode}]
    BY <1>10, <2>1, OverwrittenFacts
  <2>3. \A c \in Codes : codes'[c] # NoCode => users[codes'[c].user] # NoUser
    BY <1>10, <2>1, OverwrittenFacts
  <2>4. CASE TryWrite(r)
    <3>1. mine[r] \in CodeRow
      BY <2>4 DEF TryWrite, CallOK, Checking
    <3>2. [mine[r] EXCEPT !.used = TRUE] \in CodeRow
      BY <3>1 DEF CodeRow
    <3> QED  BY <1>0, <2>2, <2>3, <2>4, <3>2 DEF TryWrite, Goto
  <2>5. CASE UseWrite(r)
    BY <2>1, <2>2, <2>3, <2>5 DEF UseWrite, Goto
  <2> QED  BY <1>10, <2>4, <2>5
<1>11. ASSUME NEW r \in Slots, CallOK(r), Mark(r)
       PROVE  TypeOK'
  <2>1. who[r] \in Ids /\ users[who[r]] \in UserRow /\ code[r] \in Codes
        /\ codes[code[r]] \in CodeRow
    BY <1>11 DEF CallOK, Mark
  <2>2. /\ [users[who[r]] EXCEPT !.verified = TRUE] \in UserRow
        /\ [users[who[r]] EXCEPT !.verified = TRUE].email = users[who[r]].email
        /\ codes[code[r]].email \in Emails
    BY <2>1 DEF UserRow
  <2>3. users' = [users EXCEPT ![who[r]] = [users[who[r]] EXCEPT !.verified = TRUE]]
    BY <1>11 DEF Mark
  <2>4. users' \in [Ids -> UserRow \cup {NoUser}]
    BY <2>1, <2>2, <2>3
  <2>5. \A c \in Codes : codes[c] # NoCode => users'[codes[c].user] # NoUser
    BY <2>1, <2>2, <2>3
  <2>6. proved' \in [Ids -> SUBSET Emails] /\ moved' \subseteq Ids /\ told' \subseteq Ids
    BY <1>11, <2>1, <2>2 DEF Mark
  <2> QED  BY <1>11, <2>4, <2>5, <2>6 DEF Mark, Leave
<1>12. ASSUME NEW r \in Slots, Fail(r)
       PROVE  TypeOK'
  BY <1>12 DEF Fail, Leave
<1>13. CASE UNCHANGED vars
  BY <1>13 DEF vars
<1>14. ASSUME Next PROVE TypeOK'
  <2>1. PICK r \in Slots :
           \/ \E e \in Emails, google \in BOOLEAN : Enrol(r, e, google)
           \/ \E u \in Ids : GoogleFound(r, u) \/ GoogleLinked(r, u) \/ Send(r, u)
           \/ \E u \in Ids, e \in Emails : Update(r, u, e)
           \/ \E u \in Ids, c \in Codes : Verify(r, u, c)
           \/ Insert(r) \/ UserReload(r) \/ UserWrite(r)
           \/ Invalidate(r) \/ NewCode(r)
           \/ CodeReload(r) \/ TryWrite(r) \/ UseWrite(r) \/ Mark(r)
           \/ Fail(r)
    BY <1>14 DEF Next
  <2>2. CallOK(r)
    OBVIOUS
  <2>3. \A u \in Ids : GoogleFound(r, u) \/ GoogleLinked(r, u) \/ Send(r, u) => Emails # {}
    <3>1. \A u \in Ids : Exists(u) => users[u].email \in Emails
      OBVIOUS
    <3> QED  BY <3>1 DEF GoogleFound, GoogleLinked, Send
  <2> HIDE DEF IInv, TypeOK, history, locals, Exists
  <2> QED  BY <1>1, <1>2, <1>3, <1>4, <1>5, <1>6, <1>7, <1>8, <1>9, <1>10, <1>11, <1>12, <2>1, <2>2, <2>3
<1> QED  BY <1>13, <1>14

\* An address is written only where no other user has it.
LEMMA NextUnique == IInv /\ [Next]_vars => UniqueAddresses'
<1> SUFFICES ASSUME IInv, [Next]_vars PROVE UniqueAddresses'
  OBVIOUS
<1>a. TypeOK /\ UniqueAddresses /\ \A r \in Slots : CallOK(r)
  BY DEF IInv
<1>1. ASSUME NEW r \in Slots, Insert(r)
      PROVE  UniqueAddresses'
  <2>1. CASE users' = users
    BY <1>a, <2>1 DEF UniqueAddresses, Exists
  <2>2. CASE users' # users
    <3>1. PICK u \in Ids : users' = [users EXCEPT ![u] = mine[r]] /\ ~Exists(u)
      BY <1>1, <2>2 DEF Insert
    <3>2. \A v \in Ids : users[v].email # mine[r].email
      BY <1>1, <2>2 DEF Insert, Taken
    <3> QED  BY <1>a, <3>1, <3>2 DEF UniqueAddresses, Exists, TypeOK
  <2> QED  BY <2>1, <2>2
<1>2. ASSUME NEW r \in Slots, UserWrite(r)
      PROVE  UniqueAddresses'
  <2>1. CASE users' = users
    BY <1>a, <2>1 DEF UniqueAddresses, Exists
  <2>2. CASE users' # users
    <3>1. who[r] \in Ids /\ Exists(who[r])
      BY <1>2, <1>a DEF UserWrite, CallOK
    <3>2. PICK row : /\ users' = [users EXCEPT ![who[r]] = row]
                     /\ \A v \in Ids \ {who[r]} : users[v].email # row.email
      BY <1>2, <2>2 DEF UserWrite
    <3> QED  BY <1>a, <3>1, <3>2 DEF UniqueAddresses, Exists, TypeOK
  <2> QED  BY <2>1, <2>2
<1>3. ASSUME NEW r \in Slots, Mark(r)
      PROVE  UniqueAddresses'
  <2>1. /\ who[r] \in Ids /\ Exists(who[r])
        /\ users' = [users EXCEPT ![who[r]].verified = TRUE]
    BY <1>3, <1>a DEF Mark, CallOK
  <2>2. \A v \in Ids : users'[v].email = users[v].email /\ (users'[v] # NoUser => Exists(v))
    BY <1>a, <2>1 DEF TypeOK, Exists
  <2> QED  BY <1>a, <2>2 DEF UniqueAddresses, Exists
<1>4. ASSUME users' = users
      PROVE  UniqueAddresses'
  BY <1>4, <1>a DEF UniqueAddresses, Exists
<1> QED
  BY <1>1, <1>2, <1>3, <1>4
  DEF Next, Enrol, GoogleFound, GoogleLinked, Send, Update, Verify, UserReload, Invalidate,
      NewCode, CodeReload, TryWrite, UseWrite, Fail, vars

\* What the call in a slot may do, which leaves the local variables of the other
\* calls alone.
Step(r) ==
    \/ \E e \in Emails, google \in BOOLEAN : Enrol(r, e, google)
    \/ \E u \in Ids : GoogleFound(r, u) \/ GoogleLinked(r, u) \/ Send(r, u)
    \/ \E u \in Ids, e \in Emails : Update(r, u, e)
    \/ \E u \in Ids, c \in Codes : Verify(r, u, c)
    \/ Insert(r) \/ UserReload(r) \/ UserWrite(r)
    \/ Invalidate(r) \/ NewCode(r)
    \/ CodeReload(r) \/ TryWrite(r) \/ UseWrite(r) \/ Mark(r)
    \/ Fail(r)

Others(r) == \A q \in Slots \ {r} : pc'[q] = pc[q] /\ who'[q] = who[q] /\ code'[q] = code[q]
                                    /\ mine'[q] = mine[q] /\ seen'[q] = seen[q]

LEMMA StepOthers == ASSUME TypeOK, NEW r \in Slots, Step(r) PROVE Others(r)
<1> USE DEF TypeOK, Others
<1>1. CASE \/ \E e \in Emails, google \in BOOLEAN : Enrol(r, e, google)
           \/ \E u \in Ids : GoogleFound(r, u) \/ GoogleLinked(r, u) \/ Send(r, u)
           \/ \E u \in Ids, e \in Emails : Update(r, u, e)
           \/ \E u \in Ids, c \in Codes : Verify(r, u, c)
  BY <1>1 DEF Enrol, GoogleFound, GoogleLinked, Send, Update, Verify, Begin
<1>2. CASE Insert(r) \/ UserWrite(r) \/ NewCode(r) \/ Mark(r) \/ Fail(r)
  BY <1>2 DEF Insert, UserWrite, NewCode, Mark, Fail, Leave
<1>3. CASE UserReload(r) \/ CodeReload(r)
  BY <1>3 DEF UserReload, CodeReload, Reread
<1>4. CASE Invalidate(r) \/ TryWrite(r) \/ UseWrite(r)
  BY <1>4 DEF Invalidate, TryWrite, UseWrite, Goto
<1> QED  BY <1>1, <1>2, <1>3, <1>4 DEF Step

LEMMA NextCalls == IInv /\ [Next]_vars => \A r \in Slots : CallOK(r)'
<1> SUFFICES ASSUME IInv, [Next]_vars, NEW q \in Slots PROVE CallOK(q)'
  OBVIOUS
<1>0. /\ Saving = {"userReload", "userWrite"}
      /\ Checking = {"tryReload", "tryWrite", "useReload", "useWrite"}
  BY DEF Saving, Checking
<1>1. CallOK(q) /\ TypeOK
  BY DEF IInv
<1>2. ASSUME pc'[q] = pc[q], who'[q] = who[q], code'[q] = code[q], mine'[q] = mine[q],
             seen'[q] = seen[q]
      PROVE  CallOK(q)'
  BY <1>0, <1>1, <1>2, RowsStay DEF CallOK
<1>3. ASSUME NEW r \in Slots, r # q, Others(r) PROVE CallOK(q)'
  BY <1>2, <1>3 DEF Others
<1>4. ASSUME pc'[q] = "idle" PROVE CallOK(q)'
  BY <1>0, <1>4 DEF CallOK
<1>5. ASSUME NEW e \in Emails, NEW google \in BOOLEAN, Enrol(q, e, google)
      PROVE  CallOK(q)'
  BY <1>0, <1>1, <1>5 DEF TypeOK, Enrol, Begin, CallOK, UserRow
<1>6. ASSUME NEW u \in Ids, NEW e \in Emails \cup {None},
             \/ GoogleFound(q, u) \/ GoogleLinked(q, u) \/ Send(q, u)
             \/ e # None /\ Update(q, u, e)
      PROVE  CallOK(q)'
  <2>1. users[u] \in UserRow /\ Exists(u)'
    BY <1>1, <1>6, RowsStay DEF TypeOK, Exists, GoogleFound, GoogleLinked, Send, Update
  <2>2. /\ [users[u] EXCEPT !.verified = TRUE] \in UserRow
        /\ e # None => [users[u] EXCEPT !.email = e] \in UserRow
        /\ users[u].email \in Emails
    BY <2>1 DEF UserRow
  <2>3. ASSUME NEW m \in UserRow, Begin(q, "userReload", u, None, m) PROVE CallOK(q)'
    BY <1>0, <1>1, <2>1, <2>3 DEF TypeOK, Begin, CallOK
  <2>4. ASSUME NEW m \in Emails, Begin(q, "invalidate", u, None, m) PROVE CallOK(q)'
    BY <1>0, <1>1, <2>1, <2>4 DEF TypeOK, Begin, CallOK
  <2> QED  BY <1>6, <2>1, <2>2, <2>3, <2>4 DEF GoogleFound, GoogleLinked, Send, Update
<1>7. ASSUME NEW u \in Ids, NEW c \in Codes, Verify(q, u, c)
      PROVE  CallOK(q)'
  <2>1. codes[c] \in CodeRow /\ codes[c].attempts < MaxAttempts /\ codes[c] # NoCode
    BY <1>1, <1>7, NoneAssumption, RowFacts DEF TypeOK, Verify, Acceptable
  <2>2. codes[c].attempts + 1 \in 0 .. MaxAttempts
    BY <2>1, AttemptsAssumption, RowFacts
  <2>3. [codes[c] EXCEPT !.attempts = @ + 1] \in CodeRow
    BY <2>1, <2>2 DEF CodeRow
  <2>4. Exists(u)' /\ codes'[c] # NoCode /\ codes'[c].user = u
    BY <1>7, <2>1, RowsStay DEF Verify
  <2>5. /\ pc'[q] = "tryReload" /\ who'[q] = u /\ code'[q] = c
        /\ mine'[q] = [codes[c] EXCEPT !.attempts = @ + 1]
    BY <1>1, <1>7 DEF Verify, Begin, TypeOK
  <2> QED  BY <1>0, <2>3, <2>4, <2>5 DEF CallOK
<1>8. CASE UserReload(q)
  <2>1. users[who[q]] \in UserRow
    BY <1>0, <1>1, <1>8 DEF CallOK, UserReload, Reread, TypeOK, Exists
  <2> QED  BY <1>0, <1>1, <1>8, <2>1, RowsStay DEF CallOK, UserReload, Reread, TypeOK
<1>9. CASE Invalidate(q)
  BY <1>0, <1>1, <1>9, RowsStay DEF CallOK, Invalidate, Goto, TypeOK
<1>10. CASE CodeReload(q)
  <2>1. codes[code[q]] \in CodeRow
    BY <1>0, <1>1, <1>10 DEF CallOK, CodeReload, Reread, TypeOK
  <2> QED  BY <1>0, <1>1, <1>10, <2>1, RowsStay DEF CallOK, CodeReload, Reread, TypeOK
<1>11. CASE TryWrite(q)
  <2>1. mine[q] \in CodeRow
    BY <1>0, <1>1, <1>11 DEF CallOK, TryWrite
  <2>2. [mine[q] EXCEPT !.used = TRUE] \in CodeRow /\ [mine[q] EXCEPT !.used = TRUE].used
    BY <2>1 DEF CodeRow
  <2> QED  BY <1>0, <1>1, <1>11, <2>2, RowsStay DEF CallOK, TryWrite, Goto, TypeOK
<1>12. CASE UseWrite(q)
  BY <1>0, <1>1, <1>12, RowsStay DEF CallOK, UseWrite, Goto, TypeOK
<1>13. CASE Insert(q) \/ UserWrite(q) \/ NewCode(q) \/ Mark(q) \/ Fail(q)
  BY <1>1, <1>4, <1>13 DEF Insert, UserWrite, NewCode, Mark, Fail, Leave, TypeOK
<1>14. ASSUME NEW r \in Slots, Step(r) PROVE CallOK(q)'
  <2>1. CASE r # q
    BY <1>1, <1>3, <1>14, <2>1, StepOthers
  <2>2. CASE r = q
    <3>1. Step(q)
      BY <1>14, <2>2
    <3>2. \A u \in Ids : GoogleFound(q, u) \/ GoogleLinked(q, u) \/ Send(q, u) => CallOK(q)'
      BY <1>6
    <3>3. \A u \in Ids, e \in Emails : Update(q, u, e) => CallOK(q)'
      BY <1>6, NoneAssumption
    <3> QED  BY <1>5, <1>7, <1>8, <1>9, <1>10, <1>11, <1>12, <1>13, <3>1, <3>2, <3>3 DEF Step
  <2> QED  BY <2>1, <2>2
<1>15. CASE UNCHANGED vars
  BY <1>2, <1>15 DEF vars
<1> QED  BY <1>14, <1>15 DEF Next, Step
-----------------------------------------------------------------------------
\* What the steps do to the accounts: nothing, or one of the following.
LEMMA AccountSteps ==
    ASSUME IInv, [Next]_vars
    PROVE  \/ UNCHANGED <<users, proved, moved, told>>
           \/ \E r \in Slots :
                 \/ \E u \in Ids : GoogleLinked(r, u)
                 \/ Insert(r) \/ UserWrite(r) \/ Mark(r)
BY DEF Next, Enrol, GoogleFound, Send, Update, Verify, UserReload, Invalidate, NewCode,
       CodeReload, TryWrite, UseWrite, Fail, vars, history

\* What an INSERT of an account changes.
LEMMA InsertedFacts ==
    ASSUME IInv, NEW r \in Slots, Insert(r)
    PROVE  /\ moved' = moved /\ told' = told
           /\ \A u \in Ids : \/ users'[u] = users[u] /\ proved'[u] = proved[u]
                             \/ ~Exists(u) /\ (users'[u].verified => users'[u].email \in proved'[u])
<1>1. moved' = moved /\ told' = told
  BY DEF Insert
<1>2. CASE Taken(mine[r].email)
  BY <1>1, <1>2 DEF Insert
<1>3. CASE ~Taken(mine[r].email)
  <2>1. PICK u \in Ids : /\ ~Exists(u)
                         /\ users' = [users EXCEPT ![u] = mine[r]]
                         /\ proved' = [proved EXCEPT ![u] =
                                IF mine[r].verified THEN {mine[r].email} ELSE {}]
    BY <1>3 DEF Insert
  <2> QED  BY <1>1, <2>1 DEF IInv, TypeOK
<1> QED  BY <1>2, <1>3

\* What the UPDATE after a code was accepted changes.
LEMMA MarkedFacts ==
    ASSUME IInv, NEW r \in Slots, Mark(r)
    PROVE  /\ who[r] \in Ids
           /\ \A u \in Ids : u # who[r] => users'[u] = users[u] /\ proved'[u] = proved[u]
           /\ users'[who[r]].verified /\ users'[who[r]].email = users[who[r]].email
           /\ proved[who[r]] \subseteq proved'[who[r]]
           /\ moved' \subseteq moved /\ moved \subseteq moved' \cup {who[r]}
           /\ who[r] \notin moved' => users[who[r]].email \in proved'[who[r]]
<1> DEFINE u == who[r]
           c == code[r]
<1>1. u \in Ids /\ users[u] \in UserRow /\ c \in Codes /\ codes[c] # NoCode /\ codes[c].user = u
  BY DEF IInv, CallOK, TypeOK, Mark, Exists
<1>2. Settled(u, codes[c].email)
  BY <1>1 DEF IInv, AddressesOK
<1>3. /\ users' = [users EXCEPT ![u] = [users[u] EXCEPT !.verified = TRUE]]
      /\ proved' = [proved EXCEPT ![u] = proved[u] \cup {codes[c].email}]
      /\ moved' = IF codes[c].email = users[u].email THEN moved \ {u} ELSE moved
  BY <1>1 DEF Mark, IInv, TypeOK
<1>4. /\ [users[u] EXCEPT !.verified = TRUE].verified
      /\ [users[u] EXCEPT !.verified = TRUE].email = users[u].email
  BY <1>1 DEF UserRow
<1> HIDE DEF u, c
<1> QED  BY <1>1, <1>2, <1>3, <1>4 DEF Settled, IInv, TypeOK, u, c

\* Settled in the next state, of an address as it is now.
SettledNext(u, e) == u \in moved' \/ users'[u].email = e \/ users'[u].email \in proved'[u]

\* No step unsettles an address.
LEMMA SettledStays ==
    ASSUME IInv, [Next]_vars, NEW u \in Ids, Exists(u), NEW e, Settled(u, e)
    PROVE  SettledNext(u, e)
<1>1. CASE UNCHANGED <<users, proved, moved, told>>
  BY <1>1 DEF Settled, SettledNext
<1>2. ASSUME NEW r \in Slots, NEW v \in Ids, GoogleLinked(r, v) PROVE SettledNext(u, e)
  BY <1>2 DEF GoogleLinked, Settled, SettledNext, IInv, TypeOK
<1>3. ASSUME NEW r \in Slots, Insert(r) PROVE SettledNext(u, e)
  BY <1>3, InsertedFacts DEF Settled, SettledNext
<1>4. ASSUME NEW r \in Slots, UserWrite(r) PROVE SettledNext(u, e)
  <2>1. proved' = proved
    BY <1>4 DEF UserWrite
  <2>2. TypeOK /\ CallOK(r)
    BY DEF IInv
  <2>3. /\ u # who[r] => users'[u] = users[u]
        /\ moved \subseteq moved'
        /\ users'[u].email = users[u].email \/ who[r] \in moved'
    BY <1>4, <2>2, WrittenFacts
  <2> QED  BY <2>1, <2>3 DEF Settled, SettledNext
<1>5. ASSUME NEW r \in Slots, Mark(r) PROVE SettledNext(u, e)
  BY <1>5, MarkedFacts DEF Settled, SettledNext
<1> QED  BY <1>1, <1>2, <1>3, <1>4, <1>5, AccountSteps

LEMMA NextAddresses == IInv /\ [Next]_vars => AddressesOK'
<1> SUFFICES ASSUME IInv, [Next]_vars PROVE AddressesOK'
  OBVIOUS
<1>0. TypeOK /\ AddressesOK /\ \A r \in Slots : CallOK(r)
  BY DEF IInv
<1>1. ASSUME NEW c \in Codes, codes[c] # NoCode
      PROVE  SettledNext(codes[c].user, codes[c].email)
  <2>1. Settled(codes[c].user, codes[c].email) /\ Exists(codes[c].user) /\ codes[c].user \in Ids
    BY <1>0, <1>1, RowFacts DEF AddressesOK, TypeOK
  <2> QED  BY <2>1, SettledStays
<1>2. ASSUME NEW r \in Slots, pc[r] \in {"invalidate", "newCode"}
      PROVE  SettledNext(who[r], mine[r])
  <2>1. Settled(who[r], mine[r]) /\ Exists(who[r]) /\ who[r] \in Ids
    BY <1>0, <1>2 DEF AddressesOK, CallOK
  <2> QED  BY <2>1, SettledStays
<1>3. ASSUME NEW c \in Codes, codes'[c] # NoCode
      PROVE  SettledNext(codes'[c].user, codes'[c].email)
  <2>1. CASE codes[c] # NoCode
    <3>1. codes'[c].user = codes[c].user /\ codes'[c].email = codes[c].email
      BY <2>1, RowsStay
    <3> QED  BY <1>1, <2>1, <3>1
  <2>2. ASSUME codes[c] = NoCode, NEW r \in Slots, NewCode(r)
        PROVE  SettledNext(codes'[c].user, codes'[c].email)
    <3>1. codes'[c] = [user |-> who[r], email |-> mine[r], used |-> FALSE, attempts |-> 0]
      BY <1>0, <1>3, <2>2 DEF NewCode, TypeOK
    <3>2. codes'[c].user = who[r] /\ codes'[c].email = mine[r]
      BY <3>1
    <3>3. pc[r] = "newCode"
      BY <2>2 DEF NewCode
    <3> QED  BY <1>2, <3>2, <3>3
  <2>3. ASSUME codes[c] = NoCode, \A r \in Slots : ~NewCode(r) PROVE FALSE
    <3>1. ASSUME NEW r \in Slots, Invalidate(r) PROVE FALSE
      BY <1>0, <1>3, <2>3, <3>1, InvalidatedFacts
    <3>2. ASSUME NEW r \in Slots, TryWrite(r) \/ UseWrite(r) PROVE FALSE
      <4>1. codes' = CodeOverwritten(r) /\ pc[r] \in {"tryWrite", "useWrite"}
            /\ codes[code[r]] # NoCode
        BY <1>0, <3>2 DEF TryWrite, UseWrite, CallOK, Checking
      <4> QED  BY <1>0, <1>3, <2>3, <4>1, OverwrittenFacts
    <3> QED  BY <1>3, <2>3, <3>1, <3>2
             DEF Next, Enrol, GoogleFound, GoogleLinked, Send, Update, Verify, Insert, UserReload,
                 UserWrite, CodeReload, Mark, Fail, vars
  <2> QED  BY <2>1, <2>2, <2>3
<1>4. ASSUME NEW q \in Slots, pc'[q] \in {"invalidate", "newCode"}
      PROVE  SettledNext(who'[q], mine'[q])
  <2>1. CASE pc[q] \in {"invalidate", "newCode"} /\ who'[q] = who[q] /\ mine'[q] = mine[q]
    BY <1>2, <2>1
  <2>2. ASSUME NEW u \in Ids, Send(q, u) PROVE SettledNext(who'[q], mine'[q])
    BY <1>0, <2>2 DEF Send, Begin, TypeOK, Settled, SettledNext
  <2>3. ASSUME NEW r \in Slots, Step(r), r # q
        PROVE  pc[q] \in {"invalidate", "newCode"} /\ who'[q] = who[q] /\ mine'[q] = mine[q]
    BY <1>0, <1>4, <2>3, StepOthers DEF Others
  <2>4. ASSUME Step(q), \A u \in Ids : ~Send(q, u)
        PROVE  pc[q] \in {"invalidate", "newCode"} /\ who'[q] = who[q] /\ mine'[q] = mine[q]
    <3>1. Invalidate(q)
      <4>1. \A u \in Ids, c \in Codes : ~Verify(q, u, c)
        BY <1>0, <1>4 DEF Verify, Begin, TypeOK
      <4>2. \A u \in Ids, e \in Emails : ~Update(q, u, e)
        BY <1>0, <1>4 DEF Update, Begin, TypeOK
      <4>3. \A u \in Ids : ~GoogleFound(q, u) /\ ~GoogleLinked(q, u)
        BY <1>0, <1>4 DEF GoogleFound, GoogleLinked, Begin, TypeOK
      <4>4. \A e \in Emails, google \in BOOLEAN : ~Enrol(q, e, google)
        BY <1>0, <1>4 DEF Enrol, Begin, TypeOK
      <4>5. ~Insert(q) /\ ~UserWrite(q) /\ ~NewCode(q) /\ ~Mark(q) /\ ~Fail(q)
        BY <1>0, <1>4 DEF Insert, UserWrite, NewCode, Mark, Fail, Leave, TypeOK
      <4>6. ~UserReload(q) /\ ~CodeReload(q) /\ ~TryWrite(q) /\ ~UseWrite(q)
        BY <1>0, <1>4 DEF UserReload, CodeReload, TryWrite, UseWrite, Reread, Goto, TypeOK
      <4> QED  BY <2>4, <4>1, <4>2, <4>3, <4>4, <4>5, <4>6 DEF Step
    <3> QED  BY <1>0, <3>1 DEF Invalidate, Goto, TypeOK
  <2>5. CASE UNCHANGED vars
    BY <1>4, <2>1, <2>5 DEF vars
  <2> QED  BY <2>1, <2>2, <2>3, <2>4, <2>5 DEF Next, Step
<1> QED  BY <1>3, <1>4 DEF AddressesOK, Settled, SettledNext

\* What the calls that save an account would write stays right.
LEMMA NextSaves == IInv /\ [Next]_vars => \A r \in Slots : SaveOK(r)'
<1> SUFFICES ASSUME IInv, [Next]_vars, NEW q \in Slots, pc'[q] \in Saving
             PROVE  /\ who'[q] \in told' => mine'[q].verified
                    /\ mine'[q].verified /\ who'[q] \notin moved'
                          => users'[who'[q]].email \in proved'[who'[q]]
  BY DEF SaveOK, Saving
<1> DEFINE Goal == /\ who'[q] \in told' => mine'[q].verified
                   /\ mine'[q].verified /\ who'[q] \notin moved'
                         => users'[who'[q]].email \in proved'[who'[q]]
<1>0. /\ TypeOK /\ \A r \in Slots : CallOK(r) /\ SaveOK(r)
      /\ VerifiedWasProved /\ VerificationSticks
      /\ Saving = {"userReload", "userWrite"}
  BY DEF IInv, Saving
<1>1. CASE ~(pc[q] \in Saving /\ who'[q] = who[q] /\ mine'[q] = mine[q])
  <2>1. ASSUME NEW r \in Slots, r # q, Step(r) PROVE FALSE
    BY <1>0, <1>1, <2>1, StepOthers DEF Others
  <2>2. CASE UNCHANGED vars
    BY <1>1, <2>2 DEF vars
  <2>3. ASSUME NEW u \in Ids, NEW e \in Emails, Update(q, u, e) PROVE Goal
    <3>1. users[u] \in UserRow /\ [users[u] EXCEPT !.email = e].verified = users[u].verified
      BY <1>0, <2>3 DEF Update, Exists, TypeOK, UserRow
    <3> QED  BY <1>0, <2>3, <3>1 DEF Update, Begin, TypeOK, VerifiedWasProved, VerificationSticks,
                 history
  <2>4. ASSUME NEW u \in Ids, GoogleFound(q, u) PROVE Goal
    BY <1>0, <2>4 DEF GoogleFound, Begin, TypeOK, VerifiedWasProved, VerificationSticks, history
  <2>5. ASSUME NEW u \in Ids, GoogleLinked(q, u) PROVE Goal
    <3>1. users[u] \in UserRow /\ [users[u] EXCEPT !.verified = TRUE].verified
      BY <1>0, <2>5 DEF GoogleLinked, Exists, TypeOK, UserRow
    <3> QED  BY <1>0, <2>5, <3>1 DEF GoogleLinked, Begin, TypeOK
  <2>6. ASSUME NEW u \in Ids, NEW c \in Codes, Verify(q, u, c) PROVE FALSE
    BY <1>0, <2>6 DEF Verify, Begin, TypeOK
  <2>7. ASSUME NEW u \in Ids, Send(q, u) PROVE FALSE
    BY <1>0, <2>7 DEF Send, Begin, TypeOK
  <2>8. ASSUME NEW e \in Emails, NEW google \in BOOLEAN, Enrol(q, e, google) PROVE FALSE
    BY <1>0, <2>8 DEF Enrol, Begin, TypeOK
  <2>9. CASE UserReload(q) \/ CodeReload(q)
    BY <1>0, <1>1, <2>9 DEF UserReload, CodeReload, Reread, TypeOK
  <2>10. CASE Invalidate(q) \/ TryWrite(q) \/ UseWrite(q)
    BY <1>0, <2>10 DEF Invalidate, TryWrite, UseWrite, Goto, TypeOK
  <2>11. CASE Insert(q) \/ UserWrite(q) \/ NewCode(q) \/ Mark(q) \/ Fail(q)
    BY <1>0, <2>11 DEF Insert, UserWrite, NewCode, Mark, Fail, Leave, TypeOK
  <2> QED  BY <2>1, <2>2, <2>3, <2>4, <2>5, <2>6, <2>7, <2>8, <2>9, <2>10, <2>11 DEF Next, Step
<1>2. CASE pc[q] \in Saving /\ who'[q] = who[q] /\ mine'[q] = mine[q]
  <2> DEFINE u == who[q]
  <2>1. u \in Ids /\ Exists(u)
    BY <1>0, <1>2 DEF CallOK
  <2>2. /\ u \in told => mine[q].verified
        /\ mine[q].verified /\ u \notin moved => users[u].email \in proved[u]
    BY <1>0, <1>2 DEF SaveOK
  <2> HIDE DEF u
  <2>3. CASE UNCHANGED <<users, proved, moved, told>>
    BY <1>2, <2>2, <2>3 DEF u
  <2>4. ASSUME NEW r \in Slots, NEW v \in Ids, GoogleLinked(r, v) PROVE Goal
    BY <1>0, <1>2, <2>1, <2>2, <2>4 DEF GoogleLinked, TypeOK, u
  <2>5. ASSUME NEW r \in Slots, Insert(r) PROVE Goal
    BY <1>2, <2>1, <2>2, <2>5, InsertedFacts DEF u
  <2>6. ASSUME NEW r \in Slots, UserWrite(r) PROVE Goal
    <3>1. /\ u # who[r] => users'[u] = users[u]
          /\ moved \subseteq moved'
          /\ users'[u].email = users[u].email \/ u \in moved'
      <4>1. CASE u # who[r]
        BY <1>0, <2>1, <2>6, <4>1, WrittenFacts
      <4>2. CASE u = who[r]
        BY <1>0, <2>6, <4>2, WrittenFacts
      <4> QED  BY <4>1, <4>2
    <3>2. proved' = proved /\ told' = told
      BY <2>6 DEF UserWrite
    <3> QED  BY <1>2, <2>1, <2>2, <3>1, <3>2 DEF u
  <2>7. ASSUME NEW r \in Slots, Mark(r) PROVE Goal
    <3>1. u \in told' => u \in told
      BY <1>2, <2>7 DEF Mark, Savers, u
    <3> QED  BY <1>2, <2>1, <2>2, <2>7, <3>1, MarkedFacts DEF u
  <2> QED  BY <2>3, <2>4, <2>5, <2>6, <2>7, AccountSteps
<1> QED  BY <1>1, <1>2

LEMMA NextVerified == IInv /\ [Next]_vars => (VerifiedWasProved /\ VerificationSticks)'
<1> SUFFICES ASSUME IInv, [Next]_vars PROVE (VerifiedWasProved /\ VerificationSticks)'
  OBVIOUS
<1>a. TypeOK'
  BY NextTypes
<1>b. told' \subseteq Ids
  BY <1>a DEF TypeOK
<1> SUFFICES ASSUME NEW u \in Ids
             PROVE  /\ u \notin moved' /\ users'[u].verified => users'[u].email \in proved'[u]
                    /\ u \in told' => users'[u].verified
  BY <1>b DEF VerifiedWasProved, VerificationSticks
<1> DEFINE Goal == /\ u \notin moved' /\ users'[u].verified => users'[u].email \in proved'[u]
                   /\ u \in told' => users'[u].verified
<1>0. /\ TypeOK /\ \A r \in Slots : CallOK(r) /\ SaveOK(r)
      /\ u \notin moved /\ users[u].verified => users[u].email \in proved[u]
      /\ u \in told => users[u].verified
  BY DEF IInv, VerifiedWasProved, VerificationSticks
<1>1. CASE UNCHANGED <<users, proved, moved, told>>
  BY <1>0, <1>1
<1>2. ASSUME NEW r \in Slots, NEW v \in Ids, GoogleLinked(r, v) PROVE Goal
  BY <1>0, <1>2 DEF GoogleLinked, TypeOK
<1>3. ASSUME NEW r \in Slots, Insert(r) PROVE Goal
  <2>1. ~Exists(u) => ~users[u].verified
    BY RowFacts DEF Exists
  <2> QED  BY <1>0, <1>3, <2>1, InsertedFacts
<1>4. ASSUME NEW r \in Slots, UserWrite(r) PROVE Goal
  <2>1. proved' = proved /\ told' = told /\ pc[r] \in Saving
    BY <1>4 DEF UserWrite, Saving
  <2>2. CASE u # who[r]
    <3>1. users'[u] = users[u] /\ moved \subseteq moved'
      BY <1>0, <1>4, <2>2, WrittenFacts
    <3> QED  BY <1>0, <2>1, <3>1
  <2>3. CASE u = who[r]
    <3>1. /\ u \in told => mine[r].verified
          /\ mine[r].verified /\ u \notin moved => users[u].email \in proved[u]
      BY <1>0, <2>1, <2>3 DEF SaveOK
    <3>2. \/ users' = users /\ moved' = moved
          \/ /\ users'[u].verified = Column(mine[r].verified, seen[r].verified, users[u].verified)
             /\ \/ users'[u].email = users[u].email /\ moved' = moved
                \/ moved' = moved \cup {u}
      BY <1>0, <1>4, <2>3, WrittenFacts
    <3> QED  BY <1>0, <2>1, <3>1, <3>2 DEF Column
  <2> QED  BY <2>2, <2>3
<1>5. ASSUME NEW r \in Slots, Mark(r) PROVE Goal
  <2>1. told' \subseteq told \cup {who[r]}
    BY <1>5 DEF Mark
  <2>2. CASE u # who[r]
    BY <1>0, <1>5, <2>1, <2>2, MarkedFacts
  <2>3. CASE u = who[r]
    BY <1>5, <2>3, MarkedFacts
  <2> QED  BY <2>2, <2>3
<1> QED  BY <1>1, <1>2, <1>3, <1>4, <1>5, AccountSteps
-----------------------------------------------------------------------------
\* What the steps do to the codes and to who holds them: nothing but letting go,
\* or one of the following.
LEMMA CodeSteps ==
    ASSUME IInv, [Next]_vars
    PROVE  \/ /\ UNCHANGED <<codes, contested, retired>>
              /\ \A q \in Slots : pc'[q] \in Checking \cup {"newCode"} =>
                    /\ pc[q] \in Checking \cup {"newCode"}
                    /\ (pc'[q] = "newCode") <=> (pc[q] = "newCode")
                    /\ who'[q] = who[q] /\ code'[q] = code[q]
           \/ \E r \in Slots :
                 \/ \E u \in Ids, c \in Codes : Verify(r, u, c)
                 \/ Invalidate(r) \/ NewCode(r) \/ TryWrite(r) \/ UseWrite(r)
<1> DEFINE Keeps == /\ UNCHANGED <<codes, contested, retired>>
                    /\ \A q \in Slots : pc'[q] \in Checking \cup {"newCode"} =>
                          /\ pc[q] \in Checking \cup {"newCode"}
                          /\ (pc'[q] = "newCode") <=> (pc[q] = "newCode")
                          /\ who'[q] = who[q] /\ code'[q] = code[q]
<1>0. TypeOK /\ Checking = {"tryReload", "tryWrite", "useReload", "useWrite"}
  BY DEF IInv, Checking
<1>1. ASSUME NEW r \in Slots,
             \/ \E e \in Emails, google \in BOOLEAN : Enrol(r, e, google)
             \/ \E u \in Ids : GoogleFound(r, u) \/ GoogleLinked(r, u) \/ Send(r, u)
             \/ \E u \in Ids, e \in Emails : Update(r, u, e)
      PROVE  Keeps
  BY <1>0, <1>1 DEF TypeOK, Enrol, GoogleFound, GoogleLinked, Send, Update, Begin, history
<1>2. ASSUME NEW r \in Slots, UserReload(r) \/ CodeReload(r) PROVE Keeps
  BY <1>0, <1>2 DEF TypeOK, UserReload, CodeReload, Reread, history
<1>3. ASSUME NEW r \in Slots, Insert(r) \/ UserWrite(r) \/ Mark(r) \/ Fail(r) PROVE Keeps
  BY <1>0, <1>3 DEF TypeOK, Insert, UserWrite, Mark, Fail, Leave, history
<1>4. CASE UNCHANGED vars
  BY <1>4 DEF vars
<1> HIDE DEF Keeps
<1>5. ASSUME Next
      PROVE  Keeps \/ \E r \in Slots :
                 \/ \E u \in Ids, c \in Codes : Verify(r, u, c)
                 \/ Invalidate(r) \/ NewCode(r) \/ TryWrite(r) \/ UseWrite(r)
  BY <1>1, <1>2, <1>3, <1>5 DEF Next
<1> QED  BY <1>4, <1>5 DEF Keeps

\* A retired code is held by nobody, and nobody takes it up: it is used.
LEMMA NextRetired == IInv /\ [Next]_vars => RetiredStaysUsed'
<1> SUFFICES ASSUME IInv, [Next]_vars, NEW c \in retired'
             PROVE  codes'[c].used /\ \A q \in Slots : ~(pc'[q] \in Checking /\ code'[q] = c)
  BY DEF RetiredStaysUsed, Holders, Checking
<1> DEFINE Goal == codes'[c].used /\ \A q \in Slots : ~(pc'[q] \in Checking /\ code'[q] = c)
<1>0. /\ TypeOK /\ Checking = {"tryReload", "tryWrite", "useReload", "useWrite"}
      /\ \A r \in Slots : CallOK(r)
      /\ c \in retired =>
            c \in Codes /\ codes[c].used /\ \A q \in Slots : ~(pc[q] \in Checking /\ code[q] = c)
  BY DEF IInv, TypeOK, RetiredStaysUsed, Holders, Checking
<1>1. CASE /\ UNCHANGED <<codes, contested, retired>>
           /\ \A q \in Slots : pc'[q] \in Checking \cup {"newCode"} =>
                 /\ pc[q] \in Checking \cup {"newCode"}
                 /\ (pc'[q] = "newCode") <=> (pc[q] = "newCode")
                 /\ who'[q] = who[q] /\ code'[q] = code[q]
  BY <1>0, <1>1
<1>2. ASSUME NEW r \in Slots, NEW u \in Ids, NEW d \in Codes, Verify(r, u, d) PROVE Goal
  <2>1. c \in retired /\ ~codes[d].used /\ codes' = codes
    BY <1>2 DEF Verify, Acceptable, history
  <2>2. \A q \in Slots : (pc'[q] = pc[q] /\ code'[q] = code[q]) \/ code'[q] = d
    BY <1>0, <1>2 DEF Verify, Begin, TypeOK
  <2> QED  BY <1>0, <2>1, <2>2
<1>3. ASSUME NEW r \in Slots, Invalidate(r) PROVE Goal
  <2>1. \A q \in Slots : pc'[q] \in Checking => pc[q] \in Checking /\ code'[q] = code[q]
    BY <1>0, <1>3 DEF Invalidate, Goto, TypeOK
  <2>2. \/ c \in retired
        \/ c \in Unused(who[r]) /\ \A q \in Slots : ~(pc[q] \in Checking /\ code[q] = c)
    BY <1>3 DEF Invalidate, Holders
  <2>3. c \in Codes
    BY <1>0, <2>2 DEF Unused
  <2>4. codes'[c].used
    <3>1. CASE c \in Unused(who[r])
      BY <1>0, <1>3, <2>3, <3>1, InvalidatedFacts
    <3>2. CASE c \notin Unused(who[r])
      BY <1>0, <1>3, <2>2, <2>3, <3>2, InvalidatedFacts
    <3> QED  BY <3>1, <3>2
  <2> QED  BY <1>0, <2>1, <2>2, <2>4
<1>4. ASSUME NEW r \in Slots, NewCode(r) PROVE Goal
  <2>1. c \in retired
    BY <1>4 DEF NewCode, history
  <2>2. codes'[c] = codes[c]
    <3>1. codes[c] # NoCode
      BY <1>0, <2>1 DEF NoCode
    <3> QED  BY <1>4, <3>1 DEF NewCode
  <2>3. \A q \in Slots : pc'[q] \in Checking => pc[q] \in Checking /\ code'[q] = code[q]
    BY <1>0, <1>4 DEF NewCode, Leave, TypeOK
  <2> QED  BY <1>0, <2>1, <2>2, <2>3
<1>5. ASSUME NEW r \in Slots, TryWrite(r) PROVE Goal
  <2>1. c \in retired /\ code[r] # c /\ CallOK(r) /\ codes' = CodeOverwritten(r)
        /\ pc[r] \in {"tryWrite", "useWrite"}
    BY <1>0, <1>5 DEF TryWrite, history
  <2>2. codes'[c] = codes[c]
    BY <1>0, <2>1, OverwrittenFacts
  <2>3. \A q \in Slots : pc'[q] \in Checking => pc[q] \in Checking /\ code'[q] = code[q]
    BY <1>0, <1>5 DEF TryWrite, Goto, TypeOK
  <2> QED  BY <1>0, <2>1, <2>2, <2>3
<1>6. ASSUME NEW r \in Slots, UseWrite(r) PROVE Goal
  <2>1. CallOK(r) /\ codes' = CodeOverwritten(r) /\ pc[r] \in {"tryWrite", "useWrite"}
        /\ pc[r] = "useWrite"
    BY <1>0, <1>6 DEF UseWrite
  <2>2. \A q \in Slots : pc'[q] \in Checking => pc[q] \in Checking /\ code'[q] = code[q] /\ q # r
    BY <1>0, <1>6 DEF UseWrite, Goto, TypeOK
  <2>3. CASE c \in retired
    <3>1. code[r] # c
      BY <1>0, <2>1, <2>3
    <3>2. codes'[c] = codes[c]
      BY <1>0, <2>1, <2>3, <3>1, OverwrittenFacts
    <3> QED  BY <1>0, <2>2, <2>3, <3>2
  <2>4. CASE c \notin retired
    <3>1. c = code[r] /\ Holders(c) = {r} /\ ~seen[r].used
      BY <1>6, <2>4 DEF UseWrite
    <3>2. mine[r].used
      BY <2>1 DEF CallOK
    <3>3. codes'[c].used
      BY <1>0, <2>1, <3>1, <3>2, OverwrittenFacts DEF Column
    <3>4. \A q \in Slots : pc[q] \in Checking /\ code[q] = c => q = r
      BY <3>1 DEF Holders
    <3> QED  BY <2>2, <3>3, <3>4
  <2> QED  BY <2>3, <2>4
<1> QED  BY <1>1, <1>2, <1>3, <1>4, <1>5, <1>6, CodeSteps

\* A code that is sent alone replaces the others before anybody can take one up.
LEMMA NextFlow == IInv /\ [Next]_vars => (OneFlow /\ OneUsableCode)'
<1> SUFFICES ASSUME IInv, [Next]_vars PROVE (OneFlow /\ OneUsableCode)'
  OBVIOUS
<1>p. Checking' = Checking
  BY DEF Checking
<1> SUFFICES ASSUME NEW u \in Ids, u \notin contested'
             PROVE  /\ \A r \in CodeCalls(u)' :
                          /\ pc'[r] = "newCode" => Unused(u)' = {} /\ \A q \in CodeCalls(u)' : q = r
                          /\ pc'[r] \in Checking => Unused(u)' \subseteq {code'[r]}
                                /\ \A q \in CodeCalls(u)' : pc'[q] \in Checking /\ code'[q] = code'[r]
                    /\ \A d, e \in Unused(u)' : d = e
  BY <1>p DEF OneFlow, OneUsableCode
<1> DEFINE Calls == CodeCalls(u)'
           Usable == Unused(u)'
           Goal == /\ \A r \in Calls :
                         /\ pc'[r] = "newCode" => Usable = {} /\ \A q \in Calls : q = r
                         /\ pc'[r] \in Checking => Usable \subseteq {code'[r]}
                               /\ \A q \in Calls : pc'[q] \in Checking /\ code'[q] = code'[r]
                   /\ \A d, e \in Usable : d = e
<1> SUFFICES Goal
  OBVIOUS
<1>c. "newCode" \notin Checking /\ "idle" \notin Checking
  BY DEF Checking
<1>t. /\ TypeOK /\ Checking = {"tryReload", "tryWrite", "useReload", "useWrite"}
      /\ \A r \in Slots : CallOK(r)
  BY DEF IInv, Checking
<1>0. u \notin contested =>
            /\ \A d, e \in Unused(u) : d = e
            /\ \A r \in CodeCalls(u) :
                 /\ pc[r] = "newCode" => Unused(u) = {} /\ \A q \in CodeCalls(u) : q = r
                 /\ pc[r] \in Checking => Unused(u) \subseteq {code[r]}
                       /\ \A q \in CodeCalls(u) : pc[q] \in Checking /\ code[q] = code[r]
  BY DEF IInv, OneFlow, OneUsableCode
<1>m. /\ \A q : q \in Calls <=>
               q \in Slots /\ pc'[q] \in Checking \cup {"newCode"} /\ who'[q] = u
      /\ \A q : q \in CodeCalls(u) <=>
               q \in Slots /\ pc[q] \in Checking \cup {"newCode"} /\ who[q] = u
      /\ \A d : d \in Usable <=> d \in Codes /\ codes'[d].user = u /\ ~codes'[d].used
      /\ \A v, d : d \in Unused(v) <=> d \in Codes /\ codes[d].user = v /\ ~codes[d].used
  BY <1>p DEF CodeCalls, Unused
<1> HIDE DEF Calls, Usable
<1>1. ASSUME u \notin contested, Usable \subseteq Unused(u),
             \A q \in Calls : /\ q \in CodeCalls(u) /\ code'[q] = code[q]
                              /\ (pc'[q] = "newCode") <=> (pc[q] = "newCode")
      PROVE  Goal
  <2>1. \A q \in Slots : q \in Calls => ((pc'[q] \in Checking) <=> (pc[q] \in Checking))
    BY <1>m, <1>c, <1>1
  <2> QED  BY <1>m, <1>0, <1>1, <2>1
<1>2. CASE /\ UNCHANGED <<codes, contested, retired>>
           /\ \A q \in Slots : pc'[q] \in Checking \cup {"newCode"} =>
                 /\ pc[q] \in Checking \cup {"newCode"}
                 /\ (pc'[q] = "newCode") <=> (pc[q] = "newCode")
                 /\ who'[q] = who[q] /\ code'[q] = code[q]
  <2>1. u \notin contested /\ Usable \subseteq Unused(u)
    BY <1>m, <1>2
  <2>2. \A q \in Calls : /\ q \in CodeCalls(u) /\ code'[q] = code[q]
                         /\ (pc'[q] = "newCode") <=> (pc[q] = "newCode")
    BY <1>m, <1>2
  <2> HIDE DEF Goal
  <2> QED  BY <1>1, <2>1, <2>2
<1>3. ASSUME NEW r \in Slots, NEW v \in Ids, NEW d \in Codes, Verify(r, v, d) PROVE Goal
  <2>1. /\ u \notin contested /\ Usable = Unused(u)
        /\ codes[d].user = v /\ ~codes[d].used /\ pc[r] = "idle"
        /\ pc'[r] = "tryReload" /\ who'[r] = v /\ code'[r] = d
        /\ \A q \in Slots \ {r} : pc'[q] = pc[q] /\ who'[q] = who[q] /\ code'[q] = code[q]
    <3>1. UNCHANGED <<codes, contested>> /\ u \notin contested
      BY <1>3 DEF Verify, history
    <3>a. codes' = codes
      BY <3>1
    <3>b. \A c \in Codes : c \in Usable <=> c \in Unused(u)
      BY <1>m, <3>a
    <3>c. Usable \subseteq Codes /\ Unused(u) \subseteq Codes
      BY <1>m
    <3>2. Usable = Unused(u)
      BY <3>b, <3>c
    <3>3. codes[d].user = v /\ ~codes[d].used /\ Begin(r, "tryReload", v, d, [codes[d] EXCEPT !.attempts = @ + 1])
      BY <1>3 DEF Verify, Acceptable
    <3>4. /\ pc[r] = "idle" /\ pc'[r] = "tryReload" /\ who'[r] = v /\ code'[r] = d
          /\ \A q \in Slots \ {r} : pc'[q] = pc[q] /\ who'[q] = who[q] /\ code'[q] = code[q]
      BY <1>t, <3>3 DEF Begin, TypeOK
    <3> QED  BY <3>1, <3>2, <3>3, <3>4
  <2>2. CASE u # v
    <3>1. \A q \in Calls : /\ q \in CodeCalls(u) /\ code'[q] = code[q]
                           /\ (pc'[q] = "newCode") <=> (pc[q] = "newCode")
      BY <1>m, <2>1, <2>2
    <3> HIDE DEF Goal
    <3> QED  BY <1>1, <2>1, <3>1
  <2>3. CASE u = v
    <3>1. d \in Unused(u) /\ Unused(u) \subseteq {d}
      BY <1>m, <1>c, <1>t, <1>0, <2>1, <2>3
    <3>2. \A q \in CodeCalls(u) : pc[q] \in Checking /\ code[q] = d
      BY <1>m, <1>c, <1>t, <1>0, <2>1, <3>1
    <3>3. \A q \in Calls : q = r \/ q \in CodeCalls(u) \ {r}
      BY <1>m, <2>1
    <3>4. \A q \in Calls : pc'[q] \in Checking /\ code'[q] = d
      BY <1>m, <1>c, <1>t, <1>0, <2>1, <3>2, <3>3
    <3>5. "newCode" \notin Checking
      BY <1>c, <1>t, <1>0
    <3> QED  BY <2>1, <3>1, <3>4, <3>5
  <2> QED  BY <2>2, <2>3
<1>4. ASSUME NEW r \in Slots, Invalidate(r) PROVE Goal
  <2>1. /\ who[r] \in Ids /\ pc[r] = "invalidate" /\ pc'[r] = "newCode" /\ who' = who /\ code' = code
        /\ \A q \in Slots \ {r} : pc'[q] = pc[q]
        /\ contested' = IF CodeCalls(who[r]) # {} THEN contested \cup {who[r]}
                        ELSE contested \ {who[r]}
    BY <1>c, <1>t, <1>0, <1>4 DEF Invalidate, Goto, TypeOK, CallOK
  <2>2. \A c \in Codes : /\ codes'[c].user = codes[c].user
                         /\ c \notin Unused(who[r]) => codes'[c] = codes[c]
                         /\ c \in Unused(who[r]) => codes'[c].used
    BY <1>c, <1>t, <1>0, <1>4, InvalidatedFacts
  <2>3. CASE u # who[r]
    <3>1. u \notin contested
      BY <2>1, <2>3
    <3>a. ASSUME NEW c \in Usable PROVE c \in Unused(u)
      <4>1. c \in Codes /\ codes'[c].user = u /\ ~codes'[c].used
        BY <1>m
      <4>2. c \notin Unused(who[r])
        BY <2>2, <4>1
      <4>3. codes'[c] = codes[c]
        BY <2>2, <4>1, <4>2
      <4> QED  BY <1>m, <4>1, <4>3
    <3>2. Usable \subseteq Unused(u)
      BY <3>a
    <3>3. \A q \in Calls : /\ q \in CodeCalls(u) /\ code'[q] = code[q]
                           /\ (pc'[q] = "newCode") <=> (pc[q] = "newCode")
      BY <1>m, <2>1, <2>3
    <3> HIDE DEF Goal
    <3> QED  BY <1>1, <3>1, <3>2, <3>3
  <2>4. CASE u = who[r]
    <3>1. CodeCalls(u) = {}
      BY <2>1, <2>4
    <3>2. \A q \in Calls : q = r
      BY <1>m, <2>1, <3>1
    <3>a. ASSUME NEW c \in Usable PROVE FALSE
      <4>1. c \in Codes /\ codes'[c].user = u /\ ~codes'[c].used
        BY <1>m
      <4>2. c \notin Unused(u)
        BY <2>2, <2>4, <4>1
      <4>3. codes'[c] = codes[c]
        BY <2>2, <2>4, <4>1, <4>2
      <4> QED  BY <1>m, <4>1, <4>2, <4>3
    <3>3. Usable = {}
      BY <3>a
    <3>4. pc'[r] \notin Checking
      BY <1>c, <1>t, <1>0, <2>1
    <3> QED  BY <3>2, <3>3, <3>4
  <2> QED  BY <2>3, <2>4
<1>5. ASSUME NEW r \in Slots, NewCode(r) PROVE Goal
  <2>1. PICK c \in Codes :
           /\ codes[c] = NoCode
           /\ codes' = [codes EXCEPT ![c] =
                 [user |-> who[r], email |-> mine[r], used |-> FALSE, attempts |-> 0]]
    BY <1>5 DEF NewCode
  <2>2. /\ u \notin contested /\ pc[r] = "newCode" /\ pc'[r] = "idle"
        /\ \A q \in Slots \ {r} : pc'[q] = pc[q] /\ who'[q] = who[q] /\ code'[q] = code[q]
    BY <1>c, <1>t, <1>0, <1>5 DEF NewCode, Leave, TypeOK, history
  <2>3. /\ codes'[c].user = who[r]
        /\ \A d \in Codes : d # c => codes'[d] = codes[d]
    BY <1>c, <1>t, <1>0, <2>1 DEF TypeOK
  <2>4. \A q \in Calls : /\ q \in CodeCalls(u) /\ q # r /\ code'[q] = code[q]
                         /\ (pc'[q] = "newCode") <=> (pc[q] = "newCode")
    BY <1>m, <1>c, <1>t, <1>0, <2>2
  <2>5. CASE u # who[r]
    <3>1. Usable \subseteq Unused(u)
      BY <1>m, <2>3, <2>5
    <3> HIDE DEF Goal
    <3> QED  BY <1>1, <2>2, <2>4, <3>1
  <2>6. CASE u = who[r]
    <3>1. r \in CodeCalls(u)
      BY <1>m, <2>2, <2>6
    <3>2. Unused(u) = {} /\ \A q \in CodeCalls(u) : q = r
      BY <1>c, <1>t, <1>0, <2>2, <3>1
    <3>3. Calls = {}
      BY <2>4, <3>2
    <3>4. Usable \subseteq {c}
      BY <1>m, <2>3, <3>2
    <3> QED  BY <3>3, <3>4
  <2> QED  BY <2>5, <2>6
<1>6. ASSUME NEW r \in Slots, TryWrite(r) \/ UseWrite(r) PROVE Goal
  <2>1. /\ pc[r] \in {"tryWrite", "useWrite"} /\ codes' = CodeOverwritten(r)
        /\ u \notin contested /\ who' = who /\ code' = code
        /\ \A q \in Slots \ {r} : pc'[q] = pc[q]
        /\ pc'[r] \in {"useReload", "mark"}
    <3>1. CASE TryWrite(r)
      BY <1>t, <3>1 DEF TryWrite, Goto, TypeOK, history
    <3>2. CASE UseWrite(r)
      BY <1>t, <3>2 DEF UseWrite, Goto, TypeOK
    <3> QED  BY <1>6, <3>1, <3>2
  <2>2. /\ codes'[code[r]].user = who[r] /\ code[r] \in Codes
        /\ \A c \in Codes : c # code[r] => codes'[c] = codes[c]
    BY <1>c, <1>t, <1>0, <2>1, OverwrittenFacts DEF CallOK, Checking
  <2>3. \A q \in Calls : /\ q \in CodeCalls(u) /\ code'[q] = code[q]
                         /\ (pc'[q] = "newCode") <=> (pc[q] = "newCode")
    BY <1>m, <1>c, <1>t, <1>0, <2>1
  <2>4. CASE u # who[r]
    <3>1. Usable \subseteq Unused(u)
      BY <1>m, <2>2, <2>4
    <3> HIDE DEF Goal
    <3> QED  BY <1>1, <2>1, <2>3, <3>1
  <2>5. CASE u = who[r]
    <3>1. r \in CodeCalls(u) /\ pc[r] \in Checking
      BY <1>m, <1>c, <1>t, <1>0, <2>1, <2>5
    <3>2. /\ Unused(u) \subseteq {code[r]}
          /\ \A q \in CodeCalls(u) : pc[q] \in Checking /\ code[q] = code[r]
      BY <1>c, <1>t, <1>0, <2>1, <3>1
    <3>3. Usable \subseteq {code[r]}
      BY <1>m, <2>2, <3>2
    <3>4. \A q \in Calls : code'[q] = code[r] /\ pc'[q] # "newCode" /\ pc'[q] \in Checking
      BY <1>m, <1>c, <2>3, <3>2
    <3> QED  BY <3>3, <3>4
  <2> QED  BY <2>4, <2>5
<1> HIDE DEF Goal
<1> QED  BY <1>2, <1>3, <1>4, <1>5, <1>6, CodeSteps
-----------------------------------------------------------------------------
\* Every run of sign-ups, profile saves, codes sent and codes checked keeps the
\* inductive invariant.
THEOREM UsersInvariant == Spec => []IInv
<1>1. IInv /\ [Next]_vars => IInv'
  BY NextTypes, NextUnique, NextCalls, NextSaves, NextAddresses, NextVerified, NextRetired, NextFlow DEF IInv
<1> QED  BY InitIInv, <1>1, PTL DEF Spec

\* Every variable keeps its type, and the column attempts its bound, whatever saves
\* overlap.
THEOREM UsersTypeCorrect == Spec => []TypeOK
<1>1. IInv => TypeOK
  BY DEF IInv
<1> QED  BY UsersInvariant, <1>1, PTL

\* No two users ever have one address, although create and update look for another
\* user of it, if at all, long before they write: the unique column decides.
THEOREM AddressesStayUnique == Spec => []UniqueAddresses
<1>1. IInv => UniqueAddresses
  BY DEF IInv
<1> QED  BY UsersInvariant, <1>1, PTL

\* isEmailVerified is true only of an address that was proved or changed later.
THEOREM VerifiedAddressesWereProved == Spec => []VerifiedWasProved
<1>1. IInv => VerifiedWasProved
  BY DEF IInv
<1> QED  BY UsersInvariant, <1>1, PTL

\* sendVerificationEmail leaves a user one usable code, unless calls overlapped.
THEOREM OneCodeStays == Spec => []OneUsableCode
<1>1. IInv => OneUsableCode
  BY DEF IInv
<1> QED  BY UsersInvariant, <1>1, PTL

\* verifyCode accepts no code twice that one call alone used or replaced.
THEOREM RetiredCodesStayUsed == Spec => []RetiredStaysUsed
<1>1. IInv => RetiredStaysUsed
  BY DEF IInv
<1> QED  BY UsersInvariant, <1>1, PTL

\* No later save of the account takes a verification back.
THEOREM VerificationIsKept == Spec => []VerificationSticks
<1>1. IInv => VerificationSticks
  BY DEF IInv
<1> QED  BY UsersInvariant, <1>1, PTL
=============================================================================
