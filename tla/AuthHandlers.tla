---------------------------- MODULE AuthHandlers ----------------------------
(***************************************************************************)
(* The HTTP handlers of the auth service as concurrent requests            *)
(* (src/internal/auth/handler), over the session and factor parts of the   *)
(* store (RefreshStore, FactorStore).                                      *)
(*                                                                         *)
(* net/http runs every request in a goroutine of its own.  A store call is *)
(* atomic, a handler is not: between two store calls of one request any    *)
(* other request may run.  A request in flight is a record that names the  *)
(* store call it makes next; each action is one store call of one request  *)
(* together with the branch the handler takes on its result.               *)
(*                                                                         *)
(* EnrollFactor, ChallengeFactor, UnenrollFactor, Logout, AdminDeleteUser  *)
(* and Reset are single actions: their only store call that changes        *)
(* anything is their last one, and it repeats the checks made before it    *)
(* (the owner of a factor never changes).  A request that is refused before*)
(* it changed anything leaves no trace and has no action.                  *)
(***************************************************************************)
EXTENDS Integers, FiniteSets, GoMap

CONSTANTS
    Request,        \* requests in flight at a time
    User, Session, Token, Method, NoToken, ReuseInterval,   \* of RefreshStore
    Factor, Challenge, Name, NoName, ChallengeTTL,          \* of FactorStore
    JwtTTL,         \* Tokens.ttl: lifetime of an access token, in ticks
    MaxTime,        \* bound on the clock
    None            \* a field a request does not use (yet)

ASSUME JwtTTLAssumption == JwtTTL \in Nat \ {0}

ASSUME MethodsAssumption == {"password", "webauthn"} \subseteq Method

\* What RefreshStore and FactorStore assume of their constants.
ASSUME StoreAssumption ==
    /\ NoToken \notin Token /\ "unissued" \notin Token /\ "refused" \notin Token
    /\ ReuseInterval \in Nat \ {0}
    /\ NoName \notin Name
    /\ ChallengeTTL \in Nat
    /\ MaxTime \in Nat

\* None marks an empty field of a request.
ASSUME NoneAssumption ==
    None \notin User /\ None \notin Session /\ None \notin Token
    /\ None \notin Factor /\ None \notin Challenge

VARIABLES
    account, now,                                               \* shared
    sessions, refreshTokens, parentToChild, owner, minted,      \* of RefreshStore
    factors, challenges, enrolled, challenged,                  \* of FactorStore
    req,            \* request -> what it is doing
    access,         \* session id -> expiry and aal of the last access token sent for it
    delivered,      \* refresh tokens sent to a client
    overtaken,      \* history: sessions logged out while a verify was about to issue
    proved          \* history: <<session, factor>> of every challenge that was met

refreshVars == <<sessions, refreshTokens, parentToChild, owner, minted>>
factorVars == <<factors, challenges, enrolled, challenged>>
storeVars == <<account, now, refreshVars, factorVars>>
clientVars == <<access, delivered>>
historyVars == <<overtaken, proved>>
vars == <<storeVars, req, clientVars, historyVars>>

R == INSTANCE RefreshStore WITH Unissued <- "unissued", Refused <- "refused"
F == INSTANCE FactorStore

-----------------------------------------------------------------------------
(***************************************************************************)
(* Requests.                                                               *)
(***************************************************************************)
Idle == [at |-> "idle", user |-> None, session |-> None, token |-> None,
         factor |-> None, challenge |-> None]

InFlight == {r \in Request : req[r].at # "idle"}

\* A request takes at most one id of each kind.  It starts only while there is
\* one for every request in flight: a bound of the model, not of the code.
IdsLeft ==
    /\ Cardinality(Token \ minted) > Cardinality(InFlight)
    /\ Cardinality(Session \ DOMAIN owner) > Cardinality({r \in InFlight : req[r].session = None})

Begin(r, call) ==
    /\ req[r] = Idle
    /\ Cardinality(Token \ minted) > Cardinality(InFlight)
    /\ req' = [req EXCEPT ![r] = call]

At(r, call) == req[r].at = call

Goto(r, call) == req' = [req EXCEPT ![r].at = call]

\* The handler writes an error response; nothing is sent that a client can use.
Fail(r) == req' = [req EXCEPT ![r] = Idle]

\* An access token carries its session and, as subject, the session's user.
Subject(s) == owner[s]

\* requireUser: a signed, unexpired token of an existing user.  The session is
\* not looked up.
requireUser(s) ==
    /\ s \in DOMAIN access
    /\ now < access[s].expiresAt
    /\ R!UserExists(Subject(s))

-----------------------------------------------------------------------------
(***************************************************************************)
(* Signup and the password grant: CreateUser, or FindUserByEmail and       *)
(* UpdateLastSignIn; then IssueSession; then Build.                        *)
(***************************************************************************)
Signup(r, u) ==
    /\ IdsLeft
    /\ R!NewUser(u) /\ F!NewUser(u)
    /\ Begin(r, [Idle EXCEPT !.at = "IssueSession", !.user = u])
    /\ UNCHANGED <<clientVars, historyVars>>

tokenPassword(r, u) ==
    /\ IdsLeft
    /\ R!UserExists(u)
    /\ Begin(r, [Idle EXCEPT !.at = "UpdateLastSignIn", !.user = u])
    /\ UNCHANGED <<storeVars, clientVars, historyVars>>

UpdateLastSignIn(r) ==
    /\ At(r, "UpdateLastSignIn")
    /\ IF R!UserExists(req[r].user) THEN Goto(r, "IssueSession") ELSE Fail(r)
    /\ UNCHANGED <<storeVars, clientVars, historyVars>>

\* Variant with a bug: the handler tries again until the user exists.
IssueSession_RetriedForever(r) ==
    /\ At(r, "IssueSession")
    /\ \/ \E s \in Fresh(Session \ DOMAIN owner), t \in Fresh(Token \ minted) :
              /\ R!IssueSessionWithMethod(req[r].user, "password", s, t)
              /\ UNCHANGED factorVars
              /\ req' = [req EXCEPT ![r].at = "Build", ![r].session = s, ![r].token = t]
       \/ ~R!UserExists(req[r].user) /\ UNCHANGED <<storeVars, req>>
    /\ UNCHANGED <<clientVars, historyVars>>

IssueSession(r) ==
    /\ At(r, "IssueSession")
    /\ \/ \E s \in Fresh(Session \ DOMAIN owner), t \in Fresh(Token \ minted) :
              /\ R!IssueSessionWithMethod(req[r].user, "password", s, t)
              /\ UNCHANGED factorVars
              /\ req' = [req EXCEPT ![r].at = "Build", ![r].session = s, ![r].token = t]
       \/ /\ ~R!UserExists(req[r].user)
          /\ Fail(r)
          /\ UNCHANGED storeVars
    /\ UNCHANGED <<clientVars, historyVars>>

(***************************************************************************)
(* The refresh grant: ConsumeRefreshToken; then Build.                     *)
(***************************************************************************)
tokenRefresh(r, t) ==
    LET answerWith(token) ==
            Begin(r, [Idle EXCEPT !.at = "Build", !.token = token,
                                  !.session = refreshTokens[t].session])
    IN  /\ t \in delivered
        /\ \/ \E child \in Fresh(Token \ minted) :
                  /\ R!ConsumeRefreshToken(t, child)
                  /\ UNCHANGED factorVars
                  /\ answerWith(child)
           \/ /\ R!Reusable(t)
              /\ answerWith(R!LatestChild(t))
              /\ UNCHANGED storeVars
        /\ UNCHANGED <<clientVars, historyVars>>

(***************************************************************************)
(* Tokens.Build reads the session for its aal and signs an access token;   *)
(* the pair is sent to the client.                                         *)
(***************************************************************************)
\* Variant with a bug: no default when the session is gone.
aalBuilt_NoDefault(s) == IF s \in DOMAIN sessions THEN sessions[s].aal ELSE ""

aalBuilt(s) == IF s \in DOMAIN sessions THEN sessions[s].aal ELSE "aal1"

Build(r) ==
    /\ At(r, "Build")
    /\ access' = Put(access, req[r].session, [expiresAt |-> now + JwtTTL, aal |-> aalBuilt(req[r].session)])
    /\ delivered' = delivered \cup {req[r].token}
    /\ req' = [req EXCEPT ![r] = Idle]
    /\ UNCHANGED <<storeVars, historyVars>>

-----------------------------------------------------------------------------
(***************************************************************************)
(* Factors. The three requests in one action check the access token and    *)
(* call the store in the same tick; the code does not look at the expiry   *)
(* again when it makes the call.                                           *)
(***************************************************************************)
EnrollFactor(s, name, f) ==
    /\ requireUser(s)
    /\ F!EnrollFactor(Subject(s), name, f)
    /\ UNCHANGED <<refreshVars, req, clientVars, historyVars>>

\* Variant with a bug: the owner of the factor is not compared.
ownFactor_AnyOwner(s, f) == f \in DOMAIN factors

ownFactor(s, f) == f \in F!FactorsOfUser(Subject(s))

ChallengeFactor(s, f, c) ==
    /\ requireUser(s)
    /\ ownFactor(s, f)
    /\ F!CreateChallenge(f, c)
    /\ UNCHANGED <<refreshVars, req, clientVars, historyVars>>

UnenrollFactor(s, f) ==
    /\ requireUser(s)
    /\ F!DeleteFactor(Subject(s), f)
    /\ UNCHANGED <<refreshVars, req, clientVars, historyVars>>

(***************************************************************************)
(* VerifyFactor: requireUser, GetFactor, ConsumeChallenge, VerifyFactor,   *)
(* UpgradeSessionAAL, IssueRefreshToken, FindUserByID, Build.              *)
(***************************************************************************)
VerifyFactor(r, s, f, c) ==
    /\ requireUser(s)
    /\ Begin(r, [Idle EXCEPT !.at = "GetFactor", !.session = s, !.factor = f, !.challenge = c])
    /\ UNCHANGED <<storeVars, clientVars, historyVars>>

GetFactor(r) ==
    /\ At(r, "GetFactor")
    /\ IF ownFactor(req[r].session, req[r].factor) THEN Goto(r, "ConsumeChallenge") ELSE Fail(r)
    /\ UNCHANGED <<storeVars, clientVars, historyVars>>

ConsumeChallenge(r) ==
    LET f == req[r].factor
        c == req[r].challenge
    IN  /\ At(r, "ConsumeChallenge")
        /\ \/ /\ F!ConsumeChallenge(f, c)
              /\ UNCHANGED refreshVars
              /\ IF F!Expired(c)
                 THEN Fail(r) /\ UNCHANGED proved
                 ELSE Goto(r, "VerifyFactor") /\ proved' = proved \cup {<<req[r].session, f>>}
           \/ /\ ~F!Found(f, c)
              /\ Fail(r)
              /\ UNCHANGED <<storeVars, proved>>
        /\ UNCHANGED <<clientVars, overtaken>>

PromoteFactor(r) ==
    /\ At(r, "VerifyFactor")
    /\ \/ /\ F!VerifyFactor(req[r].factor)
          /\ UNCHANGED refreshVars
          /\ Goto(r, "UpgradeSessionAAL")
       \/ /\ req[r].factor \notin DOMAIN factors
          /\ Fail(r)
          /\ UNCHANGED storeVars
    /\ UNCHANGED <<clientVars, historyVars>>

\* Variant with a bug: whether the session was found is not looked at.
UpgradeSessionAAL_ResultIgnored(r) ==
    LET s == req[r].session IN
    /\ At(r, "UpgradeSessionAAL")
    /\ \/ R!UpgradeSessionAAL(s, "webauthn") /\ UNCHANGED factorVars
       \/ s \notin DOMAIN sessions /\ UNCHANGED storeVars
    /\ Goto(r, "IssueRefreshToken")
    /\ UNCHANGED <<clientVars, historyVars>>

UpgradeSessionAAL(r) ==
    LET s == req[r].session IN
    /\ At(r, "UpgradeSessionAAL")
    /\ \/ /\ R!UpgradeSessionAAL(s, "webauthn")
          /\ UNCHANGED factorVars
          /\ Goto(r, "IssueRefreshToken")
       \/ /\ s \notin DOMAIN sessions
          /\ Fail(r)
          /\ UNCHANGED storeVars
    /\ UNCHANGED <<clientVars, historyVars>>

IssueRefreshToken(r) ==
    LET s == req[r].session IN
    /\ At(r, "IssueRefreshToken")
    /\ \/ \E t \in Fresh(Token \ minted) :
              /\ R!IssueRefreshToken(Subject(s), s, t)
              /\ UNCHANGED factorVars
              /\ req' = [req EXCEPT ![r].at = "FindUserByID", ![r].token = t]
       \/ /\ ~R!UserExists(Subject(s))
          /\ Fail(r)
          /\ UNCHANGED storeVars
    /\ UNCHANGED <<clientVars, historyVars>>

FindUserByID(r) ==
    /\ At(r, "FindUserByID")
    /\ IF R!UserExists(Subject(req[r].session)) THEN Goto(r, "Build") ELSE Fail(r)
    /\ UNCHANGED <<storeVars, clientVars, historyVars>>

-----------------------------------------------------------------------------
(***************************************************************************)
(* Logout takes any signed access token, expired or not.                   *)
(***************************************************************************)
Logout(s) ==
    /\ s \in DOMAIN access
    /\ R!RevokeRefreshTokensBySession(s)
    /\ overtaken' = IF \E r \in Request : At(r, "IssueRefreshToken") /\ req[r].session = s
                    THEN overtaken \cup {s}
                    ELSE overtaken
    /\ UNCHANGED <<factorVars, req, clientVars, proved>>

\* Variant with a bug: the cascade forgets the factors.
AdminDeleteUser_FactorsKept(u) ==
    /\ R!DeleteUser(u)
    /\ UNCHANGED <<factorVars, req, clientVars, historyVars>>

AdminDeleteUser(u) ==
    /\ R!DeleteUser(u) /\ F!DeleteUser(u)
    /\ UNCHANGED <<req, clientVars, historyVars>>

Reset ==
    /\ R!Reset /\ F!Reset
    /\ UNCHANGED <<req, clientVars, historyVars>>

Tick ==
    /\ R!Tick /\ F!Tick
    /\ UNCHANGED <<req, clientVars, historyVars>>

-----------------------------------------------------------------------------
Init ==
    /\ R!Init /\ F!Init
    /\ req = [r \in Request |-> Idle]
    /\ access = EmptyMap
    /\ delivered = {}
    /\ overtaken = {}
    /\ proved = {}

\* The next store call of a request in flight.
Continue(r) ==
    \/ UpdateLastSignIn(r)
    \/ IssueSession(r)
    \/ Build(r)
    \/ GetFactor(r)
    \/ ConsumeChallenge(r)
    \/ PromoteFactor(r)
    \/ UpgradeSessionAAL(r)
    \/ IssueRefreshToken(r)
    \/ FindUserByID(r)

\* A request arrives.
Arrive(r) ==
    \/ \E u \in User : Signup(r, u) \/ tokenPassword(r, u)
    \/ \E t \in delivered : tokenRefresh(r, t)
    \/ \E s \in DOMAIN access, f \in enrolled, c \in DOMAIN challenged : VerifyFactor(r, s, f, c)

SingleCall ==
    \/ \E s \in DOMAIN access :
           \/ \E name \in Name \cup {NoName}, f \in Fresh(Factor \ enrolled) : EnrollFactor(s, name, f)
           \/ \E f \in enrolled, c \in Fresh(Challenge \ DOMAIN challenged) : ChallengeFactor(s, f, c)
           \/ \E f \in enrolled : UnenrollFactor(s, f)
           \/ Logout(s)
    \/ \E u \in User : AdminDeleteUser(u)
    \/ Reset

Next == Tick \/ SingleCall \/ \E r \in Request : Arrive(r) \/ Continue(r)

\* The Go scheduler runs every goroutine, and no handler waits for another one:
\* a request in flight goes on.  Nothing makes a request arrive.
Fairness == \A r \in Request : WF_vars(Continue(r))

Spec == Init /\ [][Next]_vars /\ Fairness

-----------------------------------------------------------------------------
(***************************************************************************)
(* Properties.                                                             *)
(***************************************************************************)
Call == {"idle", "UpdateLastSignIn", "IssueSession", "Build", "GetFactor", "ConsumeChallenge",
         "VerifyFactor", "UpgradeSessionAAL", "IssueRefreshToken", "FindUserByID"}

RequestRecord == [at : Call, user : User \cup {None}, session : Session \cup {None},
                  token : Token \cup {None}, factor : Factor \cup {None},
                  challenge : Challenge \cup {None}]

\* Every variable of the handlers has its type; clients hold only sessions and
\* tokens that were made.
TypeOK ==
    /\ req \in [Request -> RequestRecord]
    /\ access \in [DOMAIN access -> [expiresAt : Int, aal : {"aal1", "aal2"}]]
    /\ DOMAIN access \subseteq DOMAIN owner
    /\ delivered \subseteq minted
    /\ overtaken \subseteq DOMAIN owner
    /\ proved \subseteq (DOMAIN owner) \X enrolled

\* The calls a verify makes once its challenge was accepted.
AfterChallenge == {"VerifyFactor", "UpgradeSessionAAL", "IssueRefreshToken", "FindUserByID"}

\* However verify requests overlap, no two of them pass on one challenge, and
\* none passes on a challenge that can be used again.
ChallengeMetOnce ==
    \A r \in Request :
        req[r].at \in AfterChallenge =>
            /\ req[r].challenge \notin DOMAIN challenges
            /\ \A q \in Request \ {r} :
                   req[q].at \in AfterChallenge => req[q].challenge # req[r].challenge

\* A factor is verified, a session raised to aal2 and an access token signed
\* with aal2 only after a challenge was met with a factor of the session's own
\* user, although three store calls lie in between and the factor, the session
\* or the user may go meanwhile.
AssuranceEarned ==
    /\ \A f \in DOMAIN factors :
           factors[f].status = "verified" =>
               \E s \in DOMAIN owner : <<s, f>> \in proved /\ owner[s] = factors[f].user
    /\ \A s \in DOMAIN sessions : sessions[s].aal = "aal2" => \E f \in enrolled : <<s, f>> \in proved
    /\ \A s \in DOMAIN access : access[s].aal = "aal2" => \E f \in enrolled : <<s, f>> \in proved
    /\ \A s \in DOMAIN owner, f \in DOMAIN factors : <<s, f>> \in proved => factors[f].user = owner[s]

\* After logout no refresh token of the session is accepted, whatever refresh,
\* password or verify requests were under way, unless a verify had raised the
\* session and was about to issue (the one overlap that LoggedOutStaysOut shows).
LogoutFinal ==
    \A t \in DOMAIN refreshTokens :
        R!Consumable(t) =>
            refreshTokens[t].session \in DOMAIN sessions \cup overtaken

\* The handlers call the store only in the ways RefreshStore and FactorStore
\* allow for, so what is shown of those holds below the handlers as well: above
\* all the user and session passed to one call belong together.
StoreDiscipline == R!Spec /\ F!Spec

\* Every request is answered.
Answered == \A r \in Request : req[r] # Idle ~> req[r] = Idle

-----------------------------------------------------------------------------
(***************************************************************************)
(* What comments of the code say and the code does not do.                 *)
(***************************************************************************)

\* VerifyFactor: "return a new pair by rotating the refresh_token within the
\* same session"; a rotated token is revoked, so a session has one live token.
OneLiveToken ==
    \A t, u \in DOMAIN refreshTokens :
        R!Live(t) /\ R!Live(u) /\ refreshTokens[t].session = refreshTokens[u].session => t = u

\* Logout revokes so that no refresh_token of the session can still be used
\* afterwards.
LoggedOutStaysOut ==
    \A t \in DOMAIN refreshTokens : R!Consumable(t) => refreshTokens[t].session \in DOMAIN sessions

=============================================================================
