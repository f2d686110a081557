-------------------------- MODULE AccountHandlers --------------------------
(***************************************************************************)
(* Sign-up, seeding, the password and pkce grants, OAuth sign-in and       *)
(* unlinking as concurrent requests (src/internal/auth/handler/signup.go,  *)
(* seed_user.go, token.go, oauth.go and identities.go), over the accounts  *)
(* and sessions of the store (AccountStore, RefreshStore).                 *)
(*                                                                         *)
(* As in AuthHandlers a request in flight is a record that names the store *)
(* call it makes next; a request arrives with its first store call, and a  *)
(* first call that is refused changes nothing and has no action.  Any      *)
(* stored user can have a valid access token.                              *)
(***************************************************************************)
EXTENDS Integers, SequencesExt, GoMap

CONSTANTS
    Request,        \* requests in flight at a time
    User, Session, Token, Method, NoToken, ReuseInterval,       \* of RefreshStore
    NoUser, Mailbox, Synthetic, NoAddress, Provider, MixedCase, \* of AccountStore
    IdentityId, Code, Metadata, NoMetadata, AuthCodeTTL,
    MaxTime,        \* bound on the clock
    NoProvider,     \* an empty provider in the identities of a seed
    MaxSeeds,       \* bound on the identities of a seed
    None            \* a field a request does not use (yet)

ASSUME MethodsAssumption == {"password", "oauth"} \subseteq Method

\* What RefreshStore and AccountStore assume of their constants.
ASSUME StoreAssumption ==
    /\ NoToken \notin Token /\ "unissued" \notin Token /\ "refused" \notin Token
    /\ ReuseInterval \in Nat \ {0}
    /\ NoUser \notin User
    /\ Mailbox \cap Synthetic = {}
    /\ NoAddress \notin [mailbox : Mailbox \cup Synthetic, upper : BOOLEAN]
    /\ "email" \in Provider /\ MixedCase \subseteq Provider
    /\ AuthCodeTTL \in Nat
    /\ MaxTime \in Nat

ASSUME SeedAssumption == NoProvider \notin Provider /\ MaxSeeds \in Nat

\* None marks an empty field of a request.
ASSUME NoneAssumption == None \notin User /\ None \notin Code

VARIABLES
    users, emailIndex, authCodes, created, synthesized, linked, coded,  \* of AccountStore
    sessions, refreshTokens, parentToChild, owner, minted,              \* of RefreshStore
    now,            \* shared
    req,            \* request -> what it is doing
    addressOf,      \* history: code -> the address its user was found or made by
    signedInBy,     \* history: session -> the address of its login
    exchanged       \* history: session -> the code of its login

accountVars == <<users, emailIndex, authCodes, created, synthesized, linked, coded>>
refreshVars == <<sessions, refreshTokens, parentToChild, owner, minted>>
storeVars == <<accountVars, refreshVars, now>>
historyVars == <<addressOf, signedInBy, exchanged>>
vars == <<storeVars, req, historyVars>>

\* What RefreshStore keeps of a user.
Account ==
    [u \in User |-> IF u \in DOMAIN users THEN "live"
                    ELSE IF u \in created THEN "deleted" ELSE "unborn"]

A == INSTANCE AccountStore
R == INSTANCE RefreshStore WITH account <- Account, Unissued <- "unissued", Refused <- "refused"

-----------------------------------------------------------------------------
(***************************************************************************)
(* Requests.                                                               *)
(***************************************************************************)
Idle == [at |-> "idle", user |-> None, address |-> NoAddress, code |-> None,
         metadata |-> NoMetadata, seeds |-> <<>>]

At(r, call) == req[r].at = call

Goto(r, call) == req' = [req EXCEPT ![r].at = call]

Fail(r) == req' = [req EXCEPT ![r] = Idle]

LoggingIn == {"SetUserMetadata", "UpdateLastSignIn", "IssueSession"}

\* Bounds of the model, not of the code: a request starts only while there is an
\* id for what it and the requests in flight make.
IdentitiesLeft(n) ==
    Cardinality(IdentityId \ linked) >= n + MapThenSumSet(LAMBDA q : Len(req[q].seeds), Request)

Begin(r, call) ==
    /\ req[r] = Idle
    /\ call.at \in LoggingIn =>
           LET logins == Cardinality({q \in Request : req[q].at \in LoggingIn})
           IN  Cardinality(Session \ DOMAIN owner) > logins /\ Cardinality(Token \ minted) > logins
    /\ call.at = "CreateAuthCode" =>
           Cardinality(Code \ DOMAIN coded) > Cardinality({q \in Request : At(q, "CreateAuthCode")})
    /\ req' = [req EXCEPT ![r] = call]

-----------------------------------------------------------------------------
(***************************************************************************)
(* Sign-up and seeding: CreateUser, and then what else was asked for.      *)
(***************************************************************************)
Signup(r, a, data) ==
    /\ IdentitiesLeft(1)
    /\ \E u \in Fresh(User \ created), id \in Fresh(IdentityId \ linked) :
           /\ A!CreateUser(a, u, id)
           /\ Begin(r, [Idle EXCEPT !.at = IF data = NoMetadata THEN "IssueSession"
                                           ELSE "SetUserMetadata",
                                    !.user = u, !.address = A!ToLower(a), !.metadata = data])
    /\ UNCHANGED <<refreshVars, historyVars>>

\* A user that is gone is noticed by the next call only.
SetUserMetadata(r) ==
    /\ At(r, "SetUserMetadata")
    /\ \/ A!SetUserMetadata(req[r].user, req[r].metadata)
       \/ ~A!UserExists(req[r].user) /\ UNCHANGED <<accountVars, now>>
    /\ Goto(r, "IssueSession")
    /\ UNCHANGED <<refreshVars, historyVars>>

SeedUser(r, a, seeds) ==
    /\ IdentitiesLeft(1 + Len(seeds))
    /\ \E u \in Fresh(User \ created), id \in Fresh(IdentityId \ linked) :
           /\ A!CreateUser(a, u, id)
           /\ IF seeds = <<>>
              THEN UNCHANGED req
              ELSE Begin(r, [Idle EXCEPT !.at = "AddIdentity", !.user = u,
                                         !.address = A!ToLower(a), !.seeds = seeds])
    /\ UNCHANGED <<refreshVars, historyVars>>

Addable(u, p) == p # NoProvider /\ A!UserExists(u) /\ ~A!hasProvider(users[u], p)

\* A seed that fails here leaves the user, with the identities added so far.
AddIdentity(r) ==
    LET u == req[r].user
        p == Head(req[r].seeds)
    IN  /\ At(r, "AddIdentity")
        /\ \/ /\ Addable(u, p)
              /\ \E id \in Fresh(IdentityId \ linked) : A!AddIdentity(u, p, id)
              /\ IF Tail(req[r].seeds) = <<>>
                 THEN req' = [req EXCEPT ![r] = Idle]
                 ELSE req' = [req EXCEPT ![r].seeds = Tail(@)]
           \/ /\ ~Addable(u, p)
              /\ Fail(r)
              /\ UNCHANGED <<accountVars, now>>
        /\ UNCHANGED <<refreshVars, historyVars>>

-----------------------------------------------------------------------------
(***************************************************************************)
(* OAuth sign-in: authorize finds or makes the user and mints a code, the  *)
(* pkce grant swaps the code for a session.                                *)
(***************************************************************************)
Authorize(r, p, hint) ==
    /\ IdentitiesLeft(1)
    /\ \/ \E id \in Fresh(IdentityId \ linked) :
              /\ A!ReuseOAuthUser(p, hint, id)
              /\ Begin(r, [Idle EXCEPT !.at = "CreateAuthCode", !.user = A!FindUserByEmail(hint),
                                       !.address = A!ToLower(hint)])
       \/ \E u \in Fresh(User \ created), id \in Fresh(IdentityId \ linked) :
              /\ \/ A!HintedOAuthUser(p, hint, u, id)
                 \/ /\ hint = NoAddress
                    /\ \E box \in Fresh(Synthetic \ synthesized) : A!SyntheticOAuthUser(p, box, u, id)
              /\ Begin(r, [Idle EXCEPT !.at = "CreateAuthCode", !.user = u,
                                       !.address = users'[u].email])
    /\ UNCHANGED <<refreshVars, historyVars>>

\* The redirect that delivers the code is the answer.
CreateAuthCode(r) ==
    /\ At(r, "CreateAuthCode")
    /\ \/ \E c \in Fresh(Code \ DOMAIN coded) :
              /\ A!CreateAuthCode(req[r].user, c)
              /\ addressOf' = Put(addressOf, c, req[r].address)
       \/ ~A!UserExists(req[r].user) /\ UNCHANGED <<accountVars, now, addressOf>>
    /\ req' = [req EXCEPT ![r] = Idle]
    /\ UNCHANGED <<refreshVars, signedInBy, exchanged>>

\* Variant with a bug: the code is looked up and not consumed.
tokenPKCE_CodeKept(r, c) ==
    /\ A!Exchangeable(c)
    /\ Begin(r, [Idle EXCEPT !.at = "UpdateLastSignIn", !.user = authCodes[c].user,
                             !.address = addressOf[c], !.code = c])
    /\ UNCHANGED <<storeVars, historyVars>>

\* ConsumeAuthCode: an expired code is removed, and the request is answered.
tokenPKCE(r, c) ==
    /\ A!ConsumeAuthCode(c)
    /\ IF A!Exchangeable(c)
       THEN Begin(r, [Idle EXCEPT !.at = "UpdateLastSignIn", !.user = authCodes[c].user,
                                  !.address = addressOf[c], !.code = c])
       ELSE UNCHANGED req
    /\ UNCHANGED <<refreshVars, historyVars>>

\* FindUserByEmail; a user made by an OAuth sign-in has no password to match.
tokenPassword(r, a) ==
    LET u == A!FindUserByEmail(a) IN
    /\ u # NoUser
    /\ users[u].password
    /\ Begin(r, [Idle EXCEPT !.at = "UpdateLastSignIn", !.user = u, !.address = A!ToLower(a)])
    /\ UNCHANGED <<storeVars, historyVars>>

\* Variant with a bug: the sign-in of a user that is gone is tried again.
UpdateLastSignIn_RetriedForever(r) ==
    /\ At(r, "UpdateLastSignIn")
    /\ \/ A!UpdateLastSignIn(req[r].user) /\ Goto(r, "IssueSession")
       \/ ~A!UserExists(req[r].user) /\ UNCHANGED <<accountVars, now, req>>
    /\ UNCHANGED <<refreshVars, historyVars>>

UpdateLastSignIn(r) ==
    /\ At(r, "UpdateLastSignIn")
    /\ \/ A!UpdateLastSignIn(req[r].user) /\ Goto(r, "IssueSession")
       \/ /\ ~A!UserExists(req[r].user)
          /\ Fail(r)
          /\ UNCHANGED <<accountVars, now>>
    /\ UNCHANGED <<refreshVars, historyVars>>

\* IssueWithMethod: "oauth" for a code, "password" otherwise.
IssueSession(r) ==
    LET u == req[r].user IN
    /\ At(r, "IssueSession")
    /\ \/ \E s \in Fresh(Session \ DOMAIN owner), t \in Fresh(Token \ minted) :
              /\ UNCHANGED accountVars
              /\ R!IssueSessionWithMethod(u, IF req[r].code # None THEN "oauth" ELSE "password", s, t)
              /\ signedInBy' = Put(signedInBy, s, req[r].address)
              /\ exchanged' = IF req[r].code # None THEN Put(exchanged, s, req[r].code) ELSE exchanged
       \/ ~A!UserExists(u) /\ UNCHANGED <<storeVars, signedInBy, exchanged>>
    /\ req' = [req EXCEPT ![r] = Idle]
    /\ UNCHANGED addressOf

-----------------------------------------------------------------------------
UnlinkIdentity(u, id) ==
    /\ A!RemoveIdentity(u, id)
    /\ UNCHANGED <<refreshVars, req, historyVars>>

\* Variant with a bug: the cascade forgets the sessions.
AdminDeleteUser_SessionsKept(u) ==
    /\ A!DeleteUser(u)
    /\ UNCHANGED <<refreshVars, req, historyVars>>

AdminDeleteUser(u) ==
    /\ A!DeleteUser(u) /\ R!DeleteUser(u)
    /\ UNCHANGED <<req, historyVars>>

\* The empty users map makes every user of RefreshStore a deleted one.
Reset ==
    /\ A!Reset /\ R!Reset
    /\ UNCHANGED <<req, historyVars>>

Tick ==
    /\ A!Tick
    /\ UNCHANGED <<refreshVars, req, historyVars>>

Init ==
    /\ A!Init
    /\ sessions = EmptyMap /\ refreshTokens = EmptyMap /\ parentToChild = EmptyMap
    /\ owner = EmptyMap /\ minted = {}
    /\ req = [r \in Request |-> Idle]
    /\ addressOf = EmptyMap
    /\ signedInBy = EmptyMap
    /\ exchanged = EmptyMap

\* The next store call of a request in flight.
Continue(r) ==
    \/ SetUserMetadata(r)
    \/ AddIdentity(r)
    \/ CreateAuthCode(r)
    \/ UpdateLastSignIn(r)
    \/ IssueSession(r)

SeedLists == UNION {[1..n -> Provider \cup {NoProvider}] : n \in 0..MaxSeeds}

\* A request arrives.  A client sends an address of its own or one it was told,
\* in either case, and a code it was given.
Arrive(r) ==
    \/ \E a \in A!Typed :
           \/ \E data \in Metadata \cup {NoMetadata} : Signup(r, a, data)
           \/ \E seeds \in SeedLists : SeedUser(r, a, seeds)
           \/ tokenPassword(r, a)
    \/ \E p \in Provider, hint \in A!Typed \cup {NoAddress} : Authorize(r, p, hint)
    \/ \E c \in DOMAIN coded : tokenPKCE(r, c)

SingleCall ==
    \/ \E u \in User : AdminDeleteUser(u)
    \/ \E u \in User, id \in linked : UnlinkIdentity(u, id)
    \/ Reset

Next == Tick \/ SingleCall \/ \E r \in Request : Arrive(r) \/ Continue(r)

\* As in AuthHandlers: a request in flight goes on, nothing makes one arrive.
Fairness == \A r \in Request : WF_vars(Continue(r))

Spec == Init /\ [][Next]_vars /\ Fairness

-----------------------------------------------------------------------------
(***************************************************************************)
(* Properties.                                                             *)
(***************************************************************************)
RequestRecord == [at : {"idle", "AddIdentity", "CreateAuthCode"} \cup LoggingIn,
                  user : User \cup {None}, address : A!Address \cup {NoAddress},
                  code : Code \cup {None}, metadata : Metadata \cup {NoMetadata},
                  seeds : Seq(Provider \cup {NoProvider})]

\* Every variable of the handlers has its type; a seed in flight has an identity
\* to add, and the histories follow the ids that were handed out.
TypeOK ==
    /\ req \in [Request -> RequestRecord]
    /\ \A r \in Request : At(r, "AddIdentity") <=> req[r].seeds # <<>>
    /\ addressOf \in [DOMAIN coded -> A!Address]
    /\ signedInBy \in [DOMAIN owner -> A!Address]
    /\ exchanged \in [DOMAIN exchanged -> DOMAIN coded]
    /\ DOMAIN exchanged \subseteq DOMAIN owner

\* A code makes one session at most, however many grants send it and however
\* they overlap, and one of the user that authorize found or made; that user has
\* been stamped ("Stamp last_sign_in_at") as long as it is stored.
CodeExchangedOnce ==
    /\ \A s, t \in DOMAIN exchanged : exchanged[s] = exchanged[t] => s = t
    /\ \A s \in DOMAIN exchanged :
           /\ owner[s] = coded[exchanged[s]]
           /\ A!UserExists(owner[s]) => users[owner[s]].signedIn

\* Whoever signed in by an address, at sign-up, with a password or by way of a
\* hint and a code, holds that address as long as it is stored: between the
\* calls of a login the user may be deleted and the address registered anew, and
\* no call of it may then fall to the new holder.
SignedInHolder ==
    /\ \A s \in DOMAIN owner :
           A!UserExists(owner[s]) => A!FindUserByEmail(signedInBy[s]) = owner[s]
    /\ \A c \in DOMAIN coded :
           A!UserExists(coded[c]) => A!FindUserByEmail(addressOf[c]) = coded[c]

\* The handlers call the store only in the ways AccountStore and RefreshStore
\* allow for, so what is shown of those holds below these handlers as well.
StoreDiscipline == A!Spec /\ R!Spec

\* Every request is answered.
Answered == \A r \in Request : req[r] # Idle ~> req[r] = Idle

=============================================================================
