-------------------------- MODULE PasskeyHandlers --------------------------
(***************************************************************************)
(* The passkey ceremonies as concurrent requests                           *)
(* (src/internal/auth/handler/passkeys.go), over the passkey and session   *)
(* parts of the store (PasskeyStore, RefreshStore).                        *)
(*                                                                         *)
(* As in AuthHandlers a request in flight is a record that names the store *)
(* call it makes next, and every action is one store call of one request   *)
(* with the branch taken on its result.  The two options calls, the        *)
(* deletion of a passkey or of a user and Reset change something in their  *)
(* last store call only, which repeats the checks made before it, and are  *)
(* single actions.  Any stored user can have a valid access token: how     *)
(* tokens come about and expire is the matter of AuthHandlers.             *)
(***************************************************************************)
EXTENDS Integers, FiniteSets, GoMap

CONSTANTS
    Request,        \* requests in flight at a time
    User, Session, Token, Method, NoToken, ReuseInterval,   \* of RefreshStore
    Passkey, Credential, Challenge, NoUser, ChallengeTTL,   \* of PasskeyStore
    MaxTime,        \* bound on the clock
    None            \* a field a request does not use (yet)

ASSUME MethodsAssumption == "webauthn" \in Method

\* What RefreshStore and PasskeyStore assume of their constants.
ASSUME StoreAssumption ==
    /\ NoToken \notin Token /\ "unissued" \notin Token /\ "refused" \notin Token
    /\ ReuseInterval \in Nat \ {0}
    /\ NoUser \notin User
    /\ ChallengeTTL \in Nat
    /\ MaxTime \in Nat

\* None marks an empty field of a request.
ASSUME NoneAssumption ==
    None \notin User /\ None \notin Credential /\ None \notin Challenge /\ None \notin Passkey

VARIABLES
    account, now,                                               \* shared
    sessions, refreshTokens, parentToChild, owner, minted,      \* of RefreshStore
    passkeys, passkeyByCred, passkeyChallenges, registered, challenged,  \* of PasskeyStore
    req,            \* request -> what it is doing
    requester,      \* history: challenge -> the user it was made for, or NoUser
    registeredWith, \* history: passkey -> its user, and the challenge it answered
    signedInWith    \* history: session -> the passkey and the challenge of its login

refreshVars == <<sessions, refreshTokens, parentToChild, owner, minted>>
passkeyVars == <<passkeys, passkeyByCred, passkeyChallenges, registered, challenged>>
storeVars == <<account, now, refreshVars, passkeyVars>>
historyVars == <<requester, registeredWith, signedInWith>>
vars == <<storeVars, req, historyVars>>

R == INSTANCE RefreshStore WITH Unissued <- "unissued", Refused <- "refused"
P == INSTANCE PasskeyStore

-----------------------------------------------------------------------------
(***************************************************************************)
(* Requests.                                                               *)
(***************************************************************************)
Idle == [at |-> "idle", user |-> None, credential |-> None, challenge |-> None, passkey |-> None]

At(r, call) == req[r].at = call

Goto(r, call) == req' = [req EXCEPT ![r].at = call]

Fail(r) == req' = [req EXCEPT ![r] = Idle]

Registering == {"ConsumeRegistration", "AddPasskey"}

SigningIn == {"ConsumeAuthentication", "FindPasskeyByCredentialID", "FindUserByID",
              "MarkPasskeyUsed", "IssueSession"}

\* A request starts only while there is an id for what it and the requests in
\* flight make: a bound of the model, not of the code.
Begin(r, call) ==
    /\ req[r] = Idle
    /\ call.at \in Registering =>
           Cardinality(Passkey \ registered) > Cardinality({q \in Request : req[q].at \in Registering})
    /\ call.at \in SigningIn =>
           LET logins == Cardinality({q \in Request : req[q].at \in SigningIn})
           IN  Cardinality(Session \ DOMAIN owner) > logins /\ Cardinality(Token \ minted) > logins
    /\ req' = [req EXCEPT ![r] = call]

requireUser(u) == R!UserExists(u)

SeedUser(u) ==
    /\ R!NewUser(u) /\ P!NewUser(u)
    /\ UNCHANGED <<req, historyVars>>

-----------------------------------------------------------------------------
(***************************************************************************)
(* Registration: options, then verify, which consumes the challenge,       *)
(* compares its user with the caller and adds the passkey.                 *)
(***************************************************************************)
PasskeyRegistrationOptions(u, c) ==
    /\ requireUser(u)
    /\ P!CreatePasskeyChallenge(u, "registration", c)
    /\ requester' = Put(requester, c, u)
    /\ UNCHANGED <<refreshVars, req, registeredWith, signedInWith>>

PasskeyRegistrationVerify(r, u, c, cred) ==
    /\ requireUser(u)
    /\ Begin(r, [Idle EXCEPT !.at = "ConsumeRegistration", !.user = u, !.challenge = c,
                             !.credential = cred])
    /\ UNCHANGED <<storeVars, historyVars>>

\* Variant with a bug: the user of the challenge is not compared.
ConsumeRegistration_AnyUser(r) ==
    LET c == req[r].challenge IN
    /\ At(r, "ConsumeRegistration")
    /\ \/ /\ P!ConsumePasskeyChallenge(c, "registration")
          /\ UNCHANGED refreshVars
          /\ IF P!Expired(c) THEN Fail(r) ELSE Goto(r, "AddPasskey")
       \/ /\ ~P!Found(c, "registration")
          /\ Fail(r)
          /\ UNCHANGED storeVars
    /\ UNCHANGED historyVars

\* The challenge is gone whether or not it turns out to be the caller's.
ConsumeRegistration(r) ==
    LET c == req[r].challenge IN
    /\ At(r, "ConsumeRegistration")
    /\ \/ /\ P!ConsumePasskeyChallenge(c, "registration")
          /\ UNCHANGED refreshVars
          /\ IF P!Expired(c) \/ passkeyChallenges[c].user # req[r].user
             THEN Fail(r)
             ELSE Goto(r, "AddPasskey")
       \/ /\ ~P!Found(c, "registration")
          /\ Fail(r)
          /\ UNCHANGED storeVars
    /\ UNCHANGED historyVars

\* Either way the request is answered here.
AddPasskey(r) ==
    LET u == req[r].user
        cred == req[r].credential
    IN  /\ At(r, "AddPasskey")
        /\ \/ \E pk \in Fresh(Passkey \ registered) :
                  /\ P!AddPasskey(u, cred, pk)
                  /\ UNCHANGED refreshVars
                  /\ registeredWith' =
                         Put(registeredWith, pk, [user |-> u, challenge |-> req[r].challenge])
           \/ /\ ~R!UserExists(u) \/ cred \in DOMAIN passkeyByCred
              /\ UNCHANGED <<storeVars, registeredWith>>
        /\ req' = [req EXCEPT ![r] = Idle]
        /\ UNCHANGED <<requester, signedInWith>>

-----------------------------------------------------------------------------
(***************************************************************************)
(* Authentication: options, then verify, which consumes the challenge,     *)
(* looks the passkey and its user up, marks the passkey used and issues a  *)
(* session.  Tokens.Build, the last call, only reads.                      *)
(***************************************************************************)
PasskeyAuthenticationOptions(c) ==
    /\ P!CreatePasskeyChallenge(NoUser, "authentication", c)
    /\ requester' = Put(requester, c, NoUser)
    /\ UNCHANGED <<refreshVars, req, registeredWith, signedInWith>>

PasskeyAuthenticationVerify(r, c, cred) ==
    /\ Begin(r, [Idle EXCEPT !.at = "ConsumeAuthentication", !.challenge = c, !.credential = cred])
    /\ UNCHANGED <<storeVars, historyVars>>

ConsumeAuthentication(r) ==
    LET c == req[r].challenge IN
    /\ At(r, "ConsumeAuthentication")
    /\ \/ /\ P!ConsumePasskeyChallenge(c, "authentication")
          /\ UNCHANGED refreshVars
          /\ IF P!Expired(c) THEN Fail(r) ELSE Goto(r, "FindPasskeyByCredentialID")
       \/ /\ ~P!Found(c, "authentication")
          /\ Fail(r)
          /\ UNCHANGED storeVars
    /\ UNCHANGED historyVars

\* Variant with a bug: the credential is looked up in a cache that deletions do
\* not reach.
FindPasskeyByCredentialID_Cached(r) ==
    /\ At(r, "FindPasskeyByCredentialID")
    /\ \/ \E pk \in DOMAIN registeredWith :
              req' = [req EXCEPT ![r].at = "FindUserByID", ![r].passkey = pk,
                                 ![r].user = registeredWith[pk].user]
       \/ DOMAIN registeredWith = {} /\ Fail(r)
    /\ UNCHANGED <<storeVars, historyVars>>

FindPasskeyByCredentialID(r) ==
    LET cred == req[r].credential IN
    /\ At(r, "FindPasskeyByCredentialID")
    /\ IF cred \in DOMAIN passkeyByCred /\ passkeyByCred[cred] \in DOMAIN passkeys
       THEN req' = [req EXCEPT ![r].at = "FindUserByID",
                               ![r].passkey = passkeyByCred[cred],
                               ![r].user = passkeys[passkeyByCred[cred]].user]
       ELSE Fail(r)
    /\ UNCHANGED <<storeVars, historyVars>>

\* Variant with a bug: the passkey is marked as soon as it is found.
FindUserByID_MarksUsed(r) ==
    /\ At(r, "FindUserByID")
    /\ \/ P!MarkPasskeyUsed(req[r].passkey) /\ UNCHANGED refreshVars
       \/ req[r].passkey \notin DOMAIN passkeys /\ UNCHANGED storeVars
    /\ IF R!UserExists(req[r].user) THEN Goto(r, "MarkPasskeyUsed") ELSE Fail(r)
    /\ UNCHANGED historyVars

FindUserByID(r) ==
    /\ At(r, "FindUserByID")
    /\ IF R!UserExists(req[r].user) THEN Goto(r, "MarkPasskeyUsed") ELSE Fail(r)
    /\ UNCHANGED <<storeVars, historyVars>>

\* A passkey that was deleted since is not missed.
MarkPasskeyUsed(r) ==
    /\ At(r, "MarkPasskeyUsed")
    /\ \/ P!MarkPasskeyUsed(req[r].passkey) /\ UNCHANGED refreshVars
       \/ req[r].passkey \notin DOMAIN passkeys /\ UNCHANGED storeVars
    /\ Goto(r, "IssueSession")
    /\ UNCHANGED historyVars

\* The request is answered here.
IssueSession(r) ==
    /\ At(r, "IssueSession")
    /\ \/ \E s \in Fresh(Session \ DOMAIN owner), t \in Fresh(Token \ minted) :
              /\ R!IssueSessionWithMethod(req[r].user, "webauthn", s, t)
              /\ UNCHANGED passkeyVars
              /\ signedInWith' =
                     Put(signedInWith, s, [passkey |-> req[r].passkey, challenge |-> req[r].challenge])
       \/ ~R!UserExists(req[r].user) /\ UNCHANGED <<storeVars, signedInWith>>
    /\ req' = [req EXCEPT ![r] = Idle]
    /\ UNCHANGED <<requester, registeredWith>>

-----------------------------------------------------------------------------
PasskeyDelete(u, pk) ==
    /\ requireUser(u)
    /\ P!DeletePasskey(u, pk)
    /\ UNCHANGED <<refreshVars, req, historyVars>>

\* Variant with a bug: the cascade forgets the passkeys.
AdminDeleteUser_PasskeysKept(u) ==
    /\ R!DeleteUser(u)
    /\ UNCHANGED <<passkeyVars, req, historyVars>>

AdminDeleteUser(u) ==
    /\ R!DeleteUser(u) /\ P!DeleteUser(u)
    /\ UNCHANGED <<req, historyVars>>

Reset ==
    /\ R!Reset /\ P!Reset
    /\ UNCHANGED <<req, historyVars>>

Tick ==
    /\ R!Tick /\ P!Tick
    /\ UNCHANGED <<req, historyVars>>

Init ==
    /\ R!Init /\ P!Init
    /\ req = [r \in Request |-> Idle]
    /\ requester = EmptyMap
    /\ registeredWith = EmptyMap
    /\ signedInWith = EmptyMap

\* The next store call of a request in flight.
Continue(r) ==
    \/ ConsumeRegistration(r)
    \/ AddPasskey(r)
    \/ ConsumeAuthentication(r)
    \/ FindPasskeyByCredentialID(r)
    \/ FindUserByID(r)
    \/ MarkPasskeyUsed(r)
    \/ IssueSession(r)

\* A request arrives.  A client sends the id of a challenge that was made.
Arrive(r) ==
    \E c \in DOMAIN challenged, cred \in Credential :
        \/ PasskeyAuthenticationVerify(r, c, cred)
        \/ \E u \in User : PasskeyRegistrationVerify(r, u, c, cred)

SingleCall ==
    \/ \E u \in User : SeedUser(u) \/ AdminDeleteUser(u)
    \/ \E c \in Fresh(Challenge \ DOMAIN challenged) :
           \/ PasskeyAuthenticationOptions(c)
           \/ \E u \in User : PasskeyRegistrationOptions(u, c)
    \/ \E u \in User, pk \in registered : PasskeyDelete(u, pk)
    \/ Reset

Next == Tick \/ SingleCall \/ \E r \in Request : Arrive(r) \/ Continue(r)

Spec == Init /\ [][Next]_vars

-----------------------------------------------------------------------------
(***************************************************************************)
(* Properties.                                                             *)
(***************************************************************************)
RequestRecord == [at : {"idle"} \cup Registering \cup SigningIn, user : User \cup {None},
                  credential : Credential \cup {None}, challenge : Challenge \cup {None},
                  passkey : Passkey \cup {None}]

\* Every variable of the handlers has its type; the histories follow the ids
\* that were handed out.
TypeOK ==
    /\ req \in [Request -> RequestRecord]
    /\ requester \in [DOMAIN challenged -> User \cup {NoUser}]
    /\ registeredWith \in [registered -> [user : User, challenge : DOMAIN challenged]]
    /\ signedInWith \in [DOMAIN signedInWith -> [passkey : registered, challenge : DOMAIN challenged]]
    /\ DOMAIN signedInWith \subseteq DOMAIN owner

\* A ceremony serves once and its own user: a passkey answers a registration
\* challenge its user asked for, a login an authentication challenge, and no
\* two of them answer the same one, however often a verify is sent and however
\* the requests overlap.  A login ends in a session of the passkey's user.
CeremonyBound ==
    /\ \A pk \in registered :
           requester[registeredWith[pk].challenge] = registeredWith[pk].user
    /\ \A pk, q \in registered :
           registeredWith[pk].challenge = registeredWith[q].challenge => pk = q
    /\ \A s \in DOMAIN signedInWith :
           /\ requester[signedInWith[s].challenge] = NoUser
           /\ owner[s] = registeredWith[signedInWith[s].passkey].user
    /\ \A s, t \in DOMAIN signedInWith :
           signedInWith[s].challenge = signedInWith[t].challenge => s = t

\* "last_used_at is null until the passkey's first successful authentication"
\* (PasskeyList): the mark is set by a store call before the one that issues
\* the session, so the two agree only because a login that fails in between has
\* lost its user, and the user's passkeys are gone with it.
UsedExactly ==
    \A pk \in DOMAIN passkeys :
        passkeys[pk].used <=>
            \/ \E s \in DOMAIN signedInWith : signedInWith[s].passkey = pk
            \/ \E r \in Request : At(r, "IssueSession") /\ req[r].passkey = pk

SessionsBy(pk) == {s \in DOMAIN signedInWith : signedInWith[s].passkey = pk}

\* A login in flight has looked the passkey up.
Resolved(pk) == \E r \in Request : req[r].passkey = pk

\* A deleted passkey logs nobody in, but for the logins that had already looked
\* it up: those do go on (there is no second look).
DeletionFinal ==
    [][\A pk \in registered \ DOMAIN passkeys :
          ~Resolved(pk) => ~Resolved(pk)' /\ SessionsBy(pk)' = SessionsBy(pk)]_vars

\* The handlers call the store only in the ways PasskeyStore and RefreshStore
\* allow for, so what is shown of those holds below the ceremonies as well.
StoreDiscipline == R!Spec /\ P!Spec

=============================================================================
