------------------------------ MODULE Sessions ------------------------------
(***************************************************************************)
(* src/src/auth/auth.service.ts: the table refresh_tokens, and the requests *)
(* that issue, exchange and revoke its rows.                               *)
(*                                                                         *)
(* Issuing a token takes up to three statements with nothing around them:  *)
(* the one that finds who asks, an UPDATE that revokes the device's tokens *)
(* when a device is known, and the INSERT.  Requests interleave between    *)
(* them, and any of them may fail.  A sign-in names no device, so only an  *)
(* exchange does, by its own parameter or by the token it is given.        *)
(*                                                                         *)
(* Signing in with Google ends as Register or as Login does (Users says    *)
(* which).  cleanupExpiredTokens has no caller.                            *)
(***************************************************************************)
EXTENDS FiniteSets, Naturals

CONSTANTS
    Persons,  \* those who have or get an account, each by one e-mail address
    Devices,
    Tokens,   \* the values randomBytes may return; enough that one is fresh
    Slots,    \* requests that can be in progress at once
    None      \* no device, no person

ASSUME NoneAssumption == None \notin Persons \cup Devices

VARIABLES
    account,    \* table users: person -> what there is of the account
    tokens,     \* table refresh_tokens: token -> row, or NoToken
    held,       \* the tokens that were returned to somebody
    pc,         \* slot -> where its handler is
    who,        \* slot -> the person it issues a token to
    device,     \* slot -> the device it issues a token for
    signedIn,   \* history: devices whose last exchange was answered, and
                \* that nothing has signed out since
    contested,  \* history: devices of which, when their tokens were last
                \* revoked, another exchange was about to insert
    out         \* history: who has logged out everywhere with nothing in
                \* progress, and has not signed in since

vars == <<account, tokens, held, pc, who, device, signedIn, contested, out>>
locals == <<pc, who, device>>
history == <<signedIn, contested, out>>

NoToken == [user |-> None]
Row == [user : Persons, device : Devices \cup {None}, revoked : BOOLEAN, expired : BOOLEAN]

Unrevoked(t) == tokens[t] # NoToken /\ ~tokens[t].revoked
Has(u) == account[u] \in {"active", "inactive"}

\* The tokens of a person on a device.
Of(u, d) == {t \in Tokens : tokens[t] # NoToken /\ tokens[t].user = u /\ tokens[t].device = d}

\* Whether a call is about to insert a token for a person on a device.
Inserting(r, u, d) == pc[r] = "insert" /\ who[r] = u /\ device[r] = d

\* Whether a call has made its checks and has not issued yet.
Issuing(r, u) == pc[r] \in {"revoke", "insert"} /\ who[r] = u

Init ==
    /\ account = [u \in Persons |-> "absent"]
    /\ tokens = [t \in Tokens |-> NoToken]
    /\ held = {}
    /\ pc = [r \in Slots |-> "idle"]
    /\ who = [r \in Slots |-> None]
    /\ device = [r \in Slots |-> None]
    /\ signedIn = {} /\ contested = {} /\ out = {}

Begin(r, label, u, d) ==
    /\ pc[r] = "idle"
    /\ pc' = [pc EXCEPT ![r] = label]
    /\ who' = [who EXCEPT ![r] = u]
    /\ device' = [device EXCEPT ![r] = d]

\* The handler returns or throws; its local variables go with it.
Leave(r) ==
    /\ pc' = [pc EXCEPT ![r] = "idle"]
    /\ who' = [who EXCEPT ![r] = None]
    /\ device' = [device EXCEPT ![r] = None]
-----------------------------------------------------------------------------
\* register: nobody has this address.
Register(r, u) ==
    /\ account[u] = "absent"
    /\ Begin(r, "enrol", u, None)
    /\ UNCHANGED <<account, tokens, held, history>>

\* The INSERT of the user, refused when another call has been quicker.
Enrol(r) ==
    /\ pc[r] = "enrol"
    /\ IF account[who[r]] = "absent"
       THEN /\ account' = [account EXCEPT ![who[r]] = "active"]
            /\ pc' = [pc EXCEPT ![r] = "insert"]
            /\ UNCHANGED <<who, device>>
       ELSE Leave(r) /\ UNCHANGED account
    /\ UNCHANGED <<tokens, held, history>>

\* login, with the right password.  It does not ask whether the account is active.
Login(r, u) ==
    /\ Has(u)
    /\ Begin(r, "insert", u, None)
    /\ out' = out \ {u}
    /\ UNCHANGED <<account, tokens, held, signedIn, contested>>

\* What an exchange asks of the token it is given, and of its user.
Good(t) == Unrevoked(t) /\ ~tokens[t].expired /\ account[tokens[t].user] = "active"

\* The parameter, or else the device the token was issued for.
DeviceOf(t, d) == IF d = None THEN tokens[t].device ELSE d

\* Faulty variant: whether the token has been revoked is not looked at.
RefreshUnchecked(r, t, d) ==
    /\ t \in held
    /\ tokens[t] # NoToken /\ ~tokens[t].expired /\ account[tokens[t].user] = "active"
    /\ Begin(r, IF DeviceOf(t, d) = None THEN "insert" ELSE "revoke",
             tokens[t].user, DeviceOf(t, d))
    /\ UNCHANGED <<account, tokens, held, history>>

\* refreshAccessToken: the token is found, with its user, and passes.
Refresh(r, t, d) ==
    /\ t \in held
    /\ Good(t)
    /\ Begin(r, IF DeviceOf(t, d) = None THEN "insert" ELSE "revoke",
             tokens[t].user, DeviceOf(t, d))
    /\ UNCHANGED <<account, tokens, held, history>>

Revoked(S) == [t \in Tokens |-> IF t \in S THEN [tokens[t] EXCEPT !.revoked = TRUE] ELSE tokens[t]]

\* Faulty variant: the UPDATE is forgotten.
RevokeNothing(r) ==
    /\ pc[r] = "revoke"
    /\ pc' = [pc EXCEPT ![r] = "insert"]
    /\ contested' = IF \E q \in Slots : Inserting(q, who[r], device[r])
                    THEN contested \cup {<<who[r], device[r]>>}
                    ELSE contested \ {<<who[r], device[r]>>}
    /\ UNCHANGED <<account, tokens, held, who, device, signedIn, out>>

\* createRefreshToken, for a device: the UPDATE.
RevokeDevice(r) ==
    /\ pc[r] = "revoke"
    /\ tokens' = Revoked(Of(who[r], device[r]))
    /\ pc' = [pc EXCEPT ![r] = "insert"]
    /\ contested' = IF \E q \in Slots : Inserting(q, who[r], device[r])
                    THEN contested \cup {<<who[r], device[r]>>}
                    ELSE contested \ {<<who[r], device[r]>>}
    /\ UNCHANGED <<account, held, who, device, signedIn, out>>

\* Faulty variant: the new token comes first and is revoked with the old ones.
InsertRevoked(r) ==
    /\ pc[r] = "insert" /\ Has(who[r])
    /\ \E t \in Tokens :
          /\ tokens[t] = NoToken
          /\ tokens' = [tokens EXCEPT ![t] =
                 [user |-> who[r], device |-> device[r], revoked |-> device[r] # None,
                  expired |-> FALSE]]
          /\ held' = held \cup {t}
    /\ signedIn' = signedIn \cup ({who[r]} \X ({device[r]} \ {None}))
    /\ Leave(r)
    /\ UNCHANGED <<account, contested, out>>

\* The INSERT, which needs the user's row.  Its answer may not arrive.
InsertToken(r) ==
    /\ pc[r] = "insert" /\ Has(who[r])
    /\ \E t \in Tokens :
          /\ tokens[t] = NoToken
          /\ tokens' = [tokens EXCEPT ![t] =
                 [user |-> who[r], device |-> device[r], revoked |-> FALSE, expired |-> FALSE]]
          /\ \/ /\ held' = held \cup {t}
                /\ signedIn' = signedIn \cup ({who[r]} \X ({device[r]} \ {None}))
             \/ /\ signedIn' = signedIn \ {<<who[r], device[r]>>}
                /\ UNCHANGED held
    /\ Leave(r)
    /\ UNCHANGED <<account, contested, out>>

\* revokeRefreshToken: one UPDATE.
Logout(t) ==
    /\ t \in held
    /\ tokens' = Revoked({t})
    /\ signedIn' = signedIn \ {<<tokens[t].user, tokens[t].device>>}
    /\ UNCHANGED <<account, held, locals, contested, out>>

\* The guard reads the account of whoever an access token names.
Authenticated(u) == account[u] = "active"

\* revokeAllUserTokens: one UPDATE.
LogoutAll(u) ==
    /\ Authenticated(u)
    /\ tokens' = Revoked(UNION {Of(u, d) : d \in Devices \cup {None}})
    /\ signedIn' = signedIn \ ({u} \X Devices)
    /\ out' = IF \E r \in Slots : Issuing(r, u) THEN out ELSE out \cup {u}
    /\ UNCHANGED <<account, held, locals, contested>>

\* Faulty variant: no foreign key, so the account goes whatever refers to it.
RemoveAnyway(u) ==
    /\ Has(u)
    /\ account' = [account EXCEPT ![u] = "removed"]
    /\ UNCHANGED <<tokens, held, locals, history>>

\* remove: the DELETE, which the foreign keys refuse while there is a token.
\* Nothing deletes tokens.
Remove(u) ==
    /\ Has(u)
    /\ \A t \in Tokens : tokens[t] # NoToken => tokens[t].user # u
    /\ account' = [account EXCEPT ![u] = "removed"]
    /\ UNCHANGED <<tokens, held, locals, history>>
-----------------------------------------------------------------------------
\* Someone sets isActive in the database; no code does.
Deactivate(u) ==
    /\ account[u] = "active"
    /\ account' = [account EXCEPT ![u] = "inactive"]
    /\ UNCHANGED <<tokens, held, locals, history>>

\* A token's time is over.
Expire(t) ==
    /\ tokens[t] # NoToken /\ ~tokens[t].expired
    /\ tokens' = [tokens EXCEPT ![t].expired = TRUE]
    /\ signedIn' = signedIn \ {<<tokens[t].user, tokens[t].device>>}
    /\ UNCHANGED <<account, held, locals, contested, out>>

\* The next statement of a call raises an error, or the process dies.
Fail(r) ==
    /\ pc[r] # "idle"
    /\ signedIn' = IF pc[r] = "insert" THEN signedIn \ {<<who[r], device[r]>>} ELSE signedIn
    /\ Leave(r)
    /\ UNCHANGED <<account, tokens, held, contested, out>>

Next ==
    \/ \E r \in Slots :
          \/ \E u \in Persons : Register(r, u) \/ Login(r, u)
          \/ \E t \in Tokens, d \in Devices \cup {None} : Refresh(r, t, d)
          \/ Enrol(r) \/ RevokeDevice(r) \/ InsertToken(r) \/ Fail(r)
    \/ \E u \in Persons : LogoutAll(u) \/ Remove(u) \/ Deactivate(u)
    \/ \E t \in Tokens : Logout(t) \/ Expire(t)

Spec == Init /\ [][Next]_vars
-----------------------------------------------------------------------------
\* Every variable has its type, and every token the account it refers to.
TypeOK ==
    /\ account \in [Persons -> {"absent", "active", "inactive", "removed"}]
    /\ tokens \in [Tokens -> Row \cup {NoToken}]
    /\ \A t \in Tokens : tokens[t] # NoToken => Has(tokens[t].user)
    /\ held \subseteq Tokens
    /\ pc \in [Slots -> {"idle", "enrol", "revoke", "insert"}]
    /\ who \in [Slots -> Persons \cup {None}]
    /\ device \in [Slots -> Devices \cup {None}]
    /\ signedIn \subseteq Persons \X Devices
    /\ contested \subseteq Persons \X Devices
    /\ out \subseteq Persons

\* A device has at most one token that is not revoked, whoever exchanges what,
\* unless two exchanges for it were between their UPDATE and their INSERT at
\* once; the next exchange that is alone there makes it true again.
OneTokenPerDevice ==
    \A u \in Persons, d \in Devices :
        <<u, d>> \notin contested =>
            \A s, t \in Of(u, d) : Unrevoked(s) /\ Unrevoked(t) => s = t

\* A device whose last exchange was answered, and that nobody has signed out,
\* is never without a token it knows and can use, but for the moment between the
\* UPDATE and the INSERT of an exchange: rotation alone locks nobody out.
DeviceKeepsAccess ==
    \A u \in Persons, d \in Devices :
        <<u, d>> \in signedIn =>
            \/ \E t \in Of(u, d) \cap held : Unrevoked(t) /\ ~tokens[t].expired
            \/ \E r \in Slots : Inserting(r, u, d)

\* Who has logged out everywhere while nothing of his was in progress stays out
\* until he signs in: no chain of exchanges leads past it.
LogoutAllHolds ==
    \A u \in out :
        /\ \A t \in Tokens : Unrevoked(t) => tokens[t].user # u
        /\ \A r \in Slots : ~Issuing(r, u)
=============================================================================
