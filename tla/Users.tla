------------------------------- MODULE Users -------------------------------
(***************************************************************************)
(* src/src/users/users.service.ts, src/src/email/email.service.ts and the  *)
(* calls of src/src/auth/auth.service.ts that lead there: the tables users *)
(* and verification_codes, and the requests that write them.               *)
(*                                                                         *)
(* No request runs in a transaction.  A row is loaded, changed in memory   *)
(* and saved, and a save is a SELECT and an UPDATE of the columns that      *)
(* differ (TypeORM), so requests interleave between any two of these steps *)
(* and may fail at each.  Of a user's row the model keeps the address and  *)
(* isEmailVerified; of a code's, whose it is, where it was sent, whether it *)
(* is used and its attempts.                                               *)
(*                                                                         *)
(* A request carries a code that arrived: any other finds no row and       *)
(* changes nothing, and so does one whose code is past its time, which     *)
(* Verify need not tell from a request that is not made.  Accounts are not *)
(* removed here: from its first token on the foreign keys keep a row       *)
(* (Sessions).  cleanupExpiredCodes and updatePhoneVerificationStatus have *)
(* no caller.                                                              *)
(***************************************************************************)
EXTENDS Naturals, FiniteSets, TypeORM

CONSTANTS
    Ids,          \* the ids users may get
    Emails,
    Codes,        \* the codes generateCode may return; enough that one is fresh
    Slots,        \* requests that can be in progress at once
    MaxAttempts,  \* MAX_VERIFICATION_ATTEMPTS
    None

ASSUME AttemptsAssumption == MaxAttempts \in Nat \ {0}
ASSUME NoneAssumption == None \notin Ids \cup Emails \cup Codes

VARIABLES
    users,      \* table users: id -> row, or NoUser
    codes,      \* table verification_codes: code -> row, or NoCode
    arrived,    \* the codes whose mail has arrived
    pc,         \* slot -> where its handler is
    who,        \* slot -> id of the user it is about
    code,       \* slot -> the code it checks
    mine,       \* slot -> the entity it has in memory
    seen,       \* slot -> the row its save has read again
    proved,     \* history: id -> addresses shown to be the user's
    moved,      \* history: users whose address was changed since it was last proved
    contested,  \* history: users whose codes were last replaced while another
                \* call was sending or checking one
    retired,    \* history: codes used or replaced while no other call held them
    told        \* history: users told they are verified while nothing was
                \* saving their row

vars == <<users, codes, arrived, pc, who, code, mine, seen,
          proved, moved, contested, retired, told>>
locals == <<pc, who, code, mine, seen>>
history == <<proved, moved, contested, retired, told>>

NoUser == [email |-> None, verified |-> FALSE]
NoCode == [user |-> None, email |-> None, used |-> FALSE, attempts |-> 0]
UserRow == [email : Emails, verified : BOOLEAN]
CodeRow == [user : Ids, email : Emails, used : BOOLEAN, attempts : 0 .. MaxAttempts]

Exists(u) == users[u] # NoUser
Taken(e) == \E u \in Ids : users[u].email = e

Saving == {"userReload", "userWrite"}
Checking == {"tryReload", "tryWrite", "useReload", "useWrite"}

\* The calls that hold a code in memory, and those that may still change which
\* of a user's codes are unused.
Holders(c) == {r \in Slots : pc[r] \in Checking /\ code[r] = c}
CodeCalls(u) == {r \in Slots : pc[r] \in Checking \cup {"newCode"} /\ who[r] = u}
Savers(u) == {r \in Slots : pc[r] \in Saving /\ who[r] = u}

Init ==
    /\ users = [u \in Ids |-> NoUser]
    /\ codes = [c \in Codes |-> NoCode]
    /\ arrived = {}
    /\ pc = [r \in Slots |-> "idle"]
    /\ who = [r \in Slots |-> None]
    /\ code = [r \in Slots |-> None]
    /\ mine = [r \in Slots |-> None]
    /\ seen = [r \in Slots |-> None]
    /\ proved = [u \in Ids |-> {}]
    /\ moved = {} /\ contested = {} /\ retired = {} /\ told = {}

Begin(r, label, u, c, entity) ==
    /\ pc[r] = "idle"
    /\ pc' = [pc EXCEPT ![r] = label]
    /\ who' = [who EXCEPT ![r] = u]
    /\ code' = [code EXCEPT ![r] = c]
    /\ mine' = [mine EXCEPT ![r] = entity]
    /\ UNCHANGED seen

\* On to the next statement, with the entity changed and what was read dropped.
Goto(r, label, entity) ==
    /\ pc' = [pc EXCEPT ![r] = label]
    /\ mine' = [mine EXCEPT ![r] = entity]
    /\ seen' = [seen EXCEPT ![r] = None]
    /\ UNCHANGED <<who, code>>

\* save reads the row again.
Reread(r, from, to, row) ==
    /\ pc[r] = from
    /\ pc' = [pc EXCEPT ![r] = to]
    /\ seen' = [seen EXCEPT ![r] = row]
    /\ UNCHANGED <<who, code, mine>>

\* The handler returns or throws; its local variables go with it.
Leave(r) ==
    /\ pc' = [pc EXCEPT ![r] = "idle"]
    /\ who' = [who EXCEPT ![r] = None]
    /\ code' = [code EXCEPT ![r] = None]
    /\ mine' = [mine EXCEPT ![r] = None]
    /\ seen' = [seen EXCEPT ![r] = None]
-----------------------------------------------------------------------------
\* create, and createOrUpdateGoogleUser when it finds nobody: findByEmail, and
\* then the INSERT.  Google vouches for the address.
Enrol(r, e, google) ==
    /\ ~Taken(e)
    /\ Begin(r, "insert", None, None, [email |-> e, verified |-> google])
    /\ UNCHANGED <<users, codes, arrived, history>>

\* Faulty variant: isEmailVerified is true by default.
InsertVerified(r) ==
    /\ pc[r] = "insert"
    /\ IF Taken(mine[r].email)
       THEN UNCHANGED <<users, proved>>
       ELSE \E u \in Ids :
               /\ ~Exists(u)
               /\ users' = [users EXCEPT ![u] = [mine[r] EXCEPT !.verified = TRUE]]
               /\ proved' = [proved EXCEPT ![u] = IF mine[r].verified THEN {mine[r].email} ELSE {}]
    /\ Leave(r)
    /\ UNCHANGED <<codes, arrived, moved, contested, retired, told>>

\* The INSERT, which the unique column refuses when the address is taken by now.
Insert(r) ==
    /\ pc[r] = "insert"
    /\ IF Taken(mine[r].email)
       THEN UNCHANGED <<users, proved>>
       ELSE \E u \in Ids :
               /\ ~Exists(u)
               /\ users' = [users EXCEPT ![u] = mine[r]]
               /\ proved' = [proved EXCEPT ![u] = IF mine[r].verified THEN {mine[r].email} ELSE {}]
    /\ Leave(r)
    /\ UNCHANGED <<codes, arrived, moved, contested, retired, told>>

\* createOrUpdateGoogleUser, the row found by its googleId: names and avatar are
\* set.  googleAuth passes the avatar there, and a profile without one asks for
\* no googleId at all, so it can be anybody's row.
GoogleFound(r, u) ==
    /\ Exists(u)
    /\ Begin(r, "userReload", u, None, users[u])
    /\ UNCHANGED <<users, codes, arrived, history>>

\* createOrUpdateGoogleUser, the row found by its address.
GoogleLinked(r, u) ==
    /\ Exists(u)
    /\ Begin(r, "userReload", u, None, [users[u] EXCEPT !.verified = TRUE])
    /\ proved' = [proved EXCEPT ![u] = @ \cup {users[u].email}]
    /\ UNCHANGED <<users, codes, arrived, moved, contested, retired, told>>

\* Faulty variant: a new entity is made of the request, its other columns at
\* their defaults, and saved over the row.
UpdateFresh(r, u, e) ==
    /\ Exists(u)
    /\ Begin(r, "userReload", u, None, [email |-> e, verified |-> FALSE])
    /\ UNCHANGED <<users, codes, arrived, history>>

\* update: the row is loaded, and the request's columns assigned.  A new address
\* leaves isEmailVerified as it is.
Update(r, u, e) ==
    /\ Exists(u)
    /\ Begin(r, "userReload", u, None, [users[u] EXCEPT !.email = e])
    /\ UNCHANGED <<users, codes, arrived, history>>

UserReload(r) ==
    /\ Reread(r, "userReload", "userWrite", users[who[r]])
    /\ UNCHANGED <<users, codes, arrived, history>>

\* The UPDATE, which the unique column refuses when the address is another's.
UserWrite(r) ==
    LET u == who[r]
        row == [email |-> Column(mine[r].email, seen[r].email, users[u].email),
                verified |-> Column(mine[r].verified, seen[r].verified, users[u].verified)]
    IN
    /\ pc[r] = "userWrite"
    /\ IF \E v \in Ids \ {u} : users[v].email = row.email
       THEN UNCHANGED <<users, moved>>
       ELSE /\ users' = [users EXCEPT ![u] = row]
            /\ moved' = IF row.email = users[u].email THEN moved ELSE moved \cup {u}
    /\ Leave(r)
    /\ UNCHANGED <<codes, arrived, proved, contested, retired, told>>
-----------------------------------------------------------------------------
\* sendVerificationEmail; the address is the one the guard has read.
Send(r, u) ==
    /\ Exists(u)
    /\ Begin(r, "invalidate", u, None, users[u].email)
    /\ UNCHANGED <<users, codes, arrived, history>>

Unused(u) == {c \in Codes : codes[c].user = u /\ ~codes[c].used}

\* Faulty variant: the old codes stay as they are.
InvalidateNothing(r) ==
    /\ pc[r] = "invalidate"
    /\ contested' = IF CodeCalls(who[r]) # {} THEN contested \cup {who[r]}
                    ELSE contested \ {who[r]}
    /\ Goto(r, "newCode", mine[r])
    /\ UNCHANGED <<users, codes, arrived, proved, moved, retired, told>>

\* The UPDATE of the user's unused codes.
Invalidate(r) ==
    /\ pc[r] = "invalidate"
    /\ codes' = [c \in Codes |-> IF c \in Unused(who[r]) THEN [codes[c] EXCEPT !.used = TRUE]
                                 ELSE codes[c]]
    /\ retired' = retired \cup {c \in Unused(who[r]) : Holders(c) = {}}
    /\ contested' = IF CodeCalls(who[r]) # {} THEN contested \cup {who[r]}
                    ELSE contested \ {who[r]}
    /\ Goto(r, "newCode", mine[r])
    /\ UNCHANGED <<users, arrived, proved, moved, told>>

\* The INSERT of a new code, and the driver's mail, which arrives or gets lost.
NewCode(r) ==
    /\ pc[r] = "newCode"
    /\ \E c \in Codes :
          /\ codes[c] = NoCode
          /\ codes' = [codes EXCEPT ![c] =
                 [user |-> who[r], email |-> mine[r], used |-> FALSE, attempts |-> 0]]
          /\ arrived' \in {arrived, arrived \cup {c}}
    /\ Leave(r)
    /\ UNCHANGED <<users, history>>
-----------------------------------------------------------------------------
\* What verifyCode asks of the row it finds.
Acceptable(c) == ~codes[c].used /\ codes[c].attempts < MaxAttempts

\* Faulty variant: the maximum is not asked for.
VerifyAgain(r, u, c) ==
    /\ Exists(u) /\ c \in arrived
    /\ codes[c].user = u /\ ~codes[c].used
    /\ Begin(r, "tryReload", u, c, [codes[c] EXCEPT !.attempts = @ + 1])
    /\ UNCHANGED <<users, codes, arrived, history>>

\* verifyEmail, verifyCode: the code is found and passes; one more attempt.
Verify(r, u, c) ==
    /\ Exists(u) /\ c \in arrived
    /\ codes[c].user = u
    /\ Acceptable(c)
    /\ Begin(r, "tryReload", u, c, [codes[c] EXCEPT !.attempts = @ + 1])
    /\ UNCHANGED <<users, codes, arrived, history>>

CodeReload(r) ==
    /\ \/ Reread(r, "tryReload", "tryWrite", codes[code[r]])
       \/ Reread(r, "useReload", "useWrite", codes[code[r]])
    /\ UNCHANGED <<users, codes, arrived, history>>

\* The UPDATE a save of a code ends with.
CodeOverwritten(r) ==
    [codes EXCEPT ![code[r]].used = Column(mine[r].used, seen[r].used, @),
                  ![code[r]].attempts = Column(mine[r].attempts, seen[r].attempts, @)]

\* The first save ends; the entity is marked as used.
TryWrite(r) ==
    /\ pc[r] = "tryWrite"
    /\ codes' = CodeOverwritten(r)
    /\ Goto(r, "useReload", [mine[r] EXCEPT !.used = TRUE])
    /\ UNCHANGED <<users, arrived, history>>

\* Faulty variant: the second save is forgotten.
UseNothing(r) ==
    /\ pc[r] = "useWrite"
    /\ retired' = IF Holders(code[r]) = {r} /\ ~seen[r].used THEN retired \cup {code[r]} ELSE retired
    /\ Goto(r, "mark", None)
    /\ UNCHANGED <<users, codes, arrived, proved, moved, contested, told>>

\* The second save ends, and with it verifyCode.
UseWrite(r) ==
    /\ pc[r] = "useWrite"
    /\ codes' = CodeOverwritten(r)
    /\ retired' = IF Holders(code[r]) = {r} /\ ~seen[r].used THEN retired \cup {code[r]} ELSE retired
    /\ Goto(r, "mark", None)
    /\ UNCHANGED <<users, arrived, proved, moved, contested, told>>

\* updateEmailVerificationStatus, and the answer.
Mark(r) ==
    LET u == who[r] IN
    /\ pc[r] = "mark"
    /\ users' = [users EXCEPT ![u].verified = TRUE]
    /\ proved' = [proved EXCEPT ![u] = IF codes[code[r]].user = u THEN @ \cup {codes[code[r]].email} ELSE @]
    /\ moved' = IF codes[code[r]].email = users[u].email THEN moved \ {u} ELSE moved
    /\ told' = IF Savers(u) = {} THEN told \cup {u} ELSE told
    /\ Leave(r)
    /\ UNCHANGED <<codes, arrived, contested, retired>>
-----------------------------------------------------------------------------
\* The next statement of a call raises an error, or the process dies.
Fail(r) ==
    /\ pc[r] # "idle"
    /\ Leave(r)
    /\ UNCHANGED <<users, codes, arrived, history>>

Next ==
    \E r \in Slots :
          \/ \E e \in Emails, google \in BOOLEAN : Enrol(r, e, google)
          \/ \E u \in Ids : GoogleFound(r, u) \/ GoogleLinked(r, u) \/ Send(r, u)
          \/ \E u \in Ids, e \in Emails : Update(r, u, e)
          \/ \E u \in Ids, c \in Codes : Verify(r, u, c)
          \/ Insert(r) \/ UserReload(r) \/ UserWrite(r)
          \/ Invalidate(r) \/ NewCode(r)
          \/ CodeReload(r) \/ TryWrite(r) \/ UseWrite(r) \/ Mark(r)
          \/ Fail(r)

Spec == Init /\ [][Next]_vars
-----------------------------------------------------------------------------
\* Every variable has its type, and a code belongs to a user there is.  The column
\* attempts never passes its maximum; of how often a code is tried it says less,
\* since checks that overlap count as one, and one that fails before it saves as none.
TypeOK ==
    /\ users \in [Ids -> UserRow \cup {NoUser}]
    /\ codes \in [Codes -> CodeRow \cup {NoCode}]
    /\ \A c \in Codes : codes[c] # NoCode => Exists(codes[c].user)
    /\ arrived \subseteq Codes
    /\ pc \in [Slots -> {"idle", "insert", "invalidate", "newCode", "mark"}
                        \cup Saving \cup Checking]
    /\ who \in [Slots -> Ids \cup {None}]
    /\ code \in [Slots -> Codes \cup {None}]
    /\ mine \in [Slots -> UserRow \cup CodeRow \cup Emails \cup {None}]
    /\ seen \in [Slots -> UserRow \cup CodeRow \cup {None}]
    /\ proved \in [Ids -> SUBSET Emails]
    /\ moved \subseteq Ids /\ contested \subseteq Ids /\ told \subseteq Ids
    /\ retired \subseteq Codes

\* An account is verified only for an address at which its user has received a
\* code, or for which Google has vouched, unless the address was changed later.
VerifiedWasProved ==
    \A u \in Ids \ moved : users[u].verified => users[u].email \in proved[u]

\* A user has one usable code, the last one sent, unless it was being sent while
\* another was being sent or checked; the next that is sent alone puts it right.
OneUsableCode ==
    \A u \in Ids \ contested : \A c, d \in Unused(u) : c = d

\* A code that was used, or replaced by a new one, while no other call had it in
\* memory is never accepted again: no save writes it back to unused.
RetiredStaysUsed == \A c \in retired : codes[c].used /\ Holders(c) = {}

\* Who was told that the address is verified, while nothing was saving the
\* account, stays verified whatever is saved later.
VerificationSticks == \A u \in told : users[u].verified
=============================================================================
