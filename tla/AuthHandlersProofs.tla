------------------------ MODULE AuthHandlersProofs ------------------------
(***************************************************************************)
(* Proofs about AuthHandlers, for every number of requests.  They lean on  *)
(* the proofs about the two stores: a handler step is shown to be a step   *)
(* of each store, and what is proved of the stores is used from there on.  *)
(***************************************************************************)
EXTENDS AuthHandlers, TLAPS

RP == INSTANCE RefreshStoreProofs WITH Unissued <- "unissued", Refused <- "refused"
FP == INSTANCE FactorStoreProofs

\* The constants are as the theorems about RefreshStore assume ...
LEMMA RefreshAssumptions ==
    /\ RP!NoTokenAssumption /\ RP!ReuseIntervalAssumption
    /\ RP!MaxTimeAssumption /\ RP!PositionAssumption
    BY StoreAssumption DEF RP!NoTokenAssumption, RP!ReuseIntervalAssumption,
                           RP!MaxTimeAssumption, RP!PositionAssumption

\* ... and those about FactorStore.
LEMMA FactorAssumptions ==
    FP!NoNameAssumption /\ FP!ChallengeTTLAssumption /\ FP!ClockAssumption
    BY StoreAssumption DEF FP!NoNameAssumption, FP!ChallengeTTLAssumption, FP!ClockAssumption

-----------------------------------------------------------------------------
(***************************************************************************)
(* RP and R, FP and F are two instances of one module each, so their       *)
(* definitions say the same.                                               *)
(***************************************************************************)

\* The steps of the refresh store.
LEMMA SameRefreshNext == [R!Next]_R!vars <=> [RP!Next]_RP!vars
    BY DEF R!vars, RP!vars, R!Next, RP!Next, R!Tick, RP!Tick, R!Reset, RP!Reset,
           R!NewUser, RP!NewUser, R!DeleteUser, RP!DeleteUser,
           R!IssueSessionWithMethod, RP!IssueSessionWithMethod,
           R!IssueRefreshToken, RP!IssueRefreshToken,
           R!ConsumeRefreshToken, RP!ConsumeRefreshToken,
           R!RevokeRefreshTokensBySession, RP!RevokeRefreshTokensBySession,
           R!UpgradeSessionAAL, RP!UpgradeSessionAAL, R!UserExists, RP!UserExists,
           R!EmptyMap, RP!EmptyMap, R!Fresh, RP!Fresh, R!NewToken, RP!NewToken,
           R!Put, RP!Put, R!Delete, RP!Delete, R!Restrict, RP!Restrict,
           R!EdgesOf, RP!EdgesOf, R!TokensOfSession, RP!TokensOfSession,
           R!TokensOfUser, RP!TokensOfUser, R!SessionsOfUser, RP!SessionsOfUser,
           R!RevokedAt, RP!RevokedAt, R!Rotatable, RP!Rotatable, R!Live, RP!Live

\* Its initial state.
LEMMA SameRefreshInit == R!Init <=> RP!Init
    BY DEF R!Init, RP!Init, R!EmptyMap, RP!EmptyMap

\* The tokens it accepts.
LEMMA SameConsumable ==
    ASSUME NEW t
    PROVE  R!Consumable(t) <=> RP!Consumable(t)
    BY DEF R!Consumable, RP!Consumable, R!Rotatable, RP!Rotatable, R!Reusable, RP!Reusable,
           R!Live, RP!Live, R!Revoked, RP!Revoked, R!UserExists, RP!UserExists,
           R!InReuseInterval, RP!InReuseInterval, R!LatestChild, RP!LatestChild,
           R!Chain, RP!Chain, R!ClosedUnderEdges, RP!ClosedUnderEdges

\* The steps of the factor store.
LEMMA SameFactorNext == [F!Next]_F!vars <=> [FP!Next]_FP!vars
    BY DEF F!vars, FP!vars, F!Next, FP!Next, F!Tick, FP!Tick, F!Reset, FP!Reset,
           F!NewUser, FP!NewUser, F!DeleteUser, FP!DeleteUser, F!EnrollFactor, FP!EnrollFactor,
           F!VerifyFactor, FP!VerifyFactor, F!CreateChallenge, FP!CreateChallenge,
           F!ConsumeChallenge, FP!ConsumeChallenge, F!DeleteFactor, FP!DeleteFactor,
           F!deleteFactorsLocked, FP!deleteFactorsLocked, F!FactorsOfUser, FP!FactorsOfUser,
           F!ChallengesOf, FP!ChallengesOf, F!Found, FP!Found, F!NameTaken, FP!NameTaken,
           F!UserExists, FP!UserExists, F!EmptyMap, FP!EmptyMap, F!Fresh, FP!Fresh,
           F!Put, FP!Put, F!Delete, FP!Delete, F!Restrict, FP!Restrict

\* Its initial state.
LEMMA SameFactorInit == F!Init <=> FP!Init
    BY DEF F!Init, FP!Init, F!EmptyMap, FP!EmptyMap

-----------------------------------------------------------------------------
(***************************************************************************)
(* The steps of the handlers, action by action.                            *)
(***************************************************************************)
ArriveStep(r) ==
    \/ \E u \in User : Signup(r, u)
    \/ \E u \in User : tokenPassword(r, u)
    \/ \E t \in delivered : tokenRefresh(r, t)
    \/ \E s \in DOMAIN access, f \in enrolled, c \in DOMAIN challenged : VerifyFactor(r, s, f, c)

ContinueStep(r) ==
    \/ UpdateLastSignIn(r)
    \/ IssueSession(r)
    \/ Build(r)
    \/ GetFactor(r)
    \/ ConsumeChallenge(r)
    \/ PromoteFactor(r)
    \/ UpgradeSessionAAL(r)
    \/ IssueRefreshToken(r)
    \/ FindUserByID(r)

SingleStep ==
    \/ \E s \in DOMAIN access, name \in Name \cup {NoName}, f \in Fresh(Factor \ enrolled) :
           EnrollFactor(s, name, f)
    \/ \E s \in DOMAIN access, f \in enrolled, c \in Fresh(Challenge \ DOMAIN challenged) :
           ChallengeFactor(s, f, c)
    \/ \E s \in DOMAIN access, f \in enrolled : UnenrollFactor(s, f)
    \/ \E s \in DOMAIN access : Logout(s)
    \/ \E u \in User : AdminDeleteUser(u)
    \/ Reset
    \/ Tick

\* They are all the steps.
LEMMA NextCases ==
    ASSUME Next
    PROVE  SingleStep \/ \E r \in Request : ArriveStep(r) \/ ContinueStep(r)
    <1>1. CASE \E r \in Request : Arrive(r)
        BY <1>1 DEF Arrive, ArriveStep
    <1>2. CASE \E r \in Request : Continue(r)
        BY <1>2 DEF Continue, ContinueStep
    <1>3. CASE SingleCall
        BY <1>3 DEF SingleCall, SingleStep
    <1>4. CASE Tick
        BY <1>4 DEF SingleStep
    <1> QED
        BY <1>1, <1>2, <1>3, <1>4 DEF Next

-----------------------------------------------------------------------------
(***************************************************************************)
(* What the requests in flight carry is known to the stores.               *)
(***************************************************************************)
Verifying == AfterChallenge \cup {"GetFactor", "ConsumeChallenge"}

\* The fields that the next calls of a request use are filled, with ids of the
\* given sessions, tokens and factors.
KnownRequest(q, ss, ts, fs) ==
    /\ q.at \in {"UpdateLastSignIn", "IssueSession"} => q.user \in User
    /\ q.at \in Verifying => q.session \in ss /\ q.factor \in fs
    /\ q.at = "Build" => q.session \in ss
    /\ q.at \in {"Build", "FindUserByID"} => q.token \in ts

RequestsKnown == \A r \in Request : KnownRequest(req[r], DOMAIN owner, minted, enrolled)

HandlerInv == TypeOK /\ RequestsKnown

RefreshInv == RP!GraceInv

FactorInv == FP!TypeOK /\ FP!NoOrphans

Inv == HandlerInv /\ RefreshInv /\ FactorInv

\* The parts of the store invariants used below.
LEMMA StoreFacts ==
    ASSUME RefreshInv, FactorInv
    PROVE  /\ owner \in [DOMAIN owner -> User] /\ DOMAIN owner \subseteq Session
           /\ minted \subseteq Token /\ DOMAIN refreshTokens \subseteq minted
           /\ \A t \in DOMAIN refreshTokens : refreshTokens[t].session \in DOMAIN owner
           /\ DOMAIN sessions \subseteq DOMAIN owner
           /\ \A s \in DOMAIN sessions : sessions[s].aal \in {"aal1", "aal2"}
           /\ enrolled \subseteq Factor /\ DOMAIN factors \subseteq enrolled
           /\ DOMAIN challenged \subseteq Challenge /\ DOMAIN challenges \subseteq DOMAIN challenged
           /\ \A f \in DOMAIN factors : factors[f].user \in User
           /\ \A c \in DOMAIN challenges : challenges[c].factor \in DOMAIN factors
           /\ now \in Nat
    BY DEF RefreshInv, FactorInv, RP!GraceInv, RP!ShapeInv, RP!TypeOK, RP!ReferentialIntegrity,
           RP!SessionRecord, FP!TypeOK, FP!NoOrphans, FP!FactorRecord

\* findLatestChild returns a stored token of the same session.
LEMMA LeafOfSession ==
    ASSUME RefreshInv, NEW t, R!Reusable(t)
    PROVE  /\ R!LatestChild(t) \in DOMAIN refreshTokens
           /\ t \in DOMAIN refreshTokens
    <1>1. t \in DOMAIN refreshTokens
        BY DEF R!Reusable, R!Revoked
    <1>2. R!LatestChild(t) # NoToken
        BY DEF R!Reusable
    <1>3. R!Live(R!LatestChild(t))
        BY <1>2 DEF R!LatestChild
    <1> QED
        BY <1>1, <1>3 DEF R!Live

-----------------------------------------------------------------------------
(***************************************************************************)
(* Each step of the handlers is a step of each store, or leaves it alone.  *)
(***************************************************************************)

\* The refresh store.
LEMMA RefreshStep ==
    ASSUME Inv, [Next]_vars
    PROVE  [R!Next]_R!vars
    <1> DEFINE Kept == UNCHANGED R!vars
    <1>1. CASE UNCHANGED vars
        BY <1>1 DEF vars, storeVars, refreshVars, R!vars
    <1>2. CASE UNCHANGED storeVars
        BY <1>2 DEF storeVars, refreshVars, R!vars
    <1>3. ASSUME NEW r \in Request, ArriveStep(r)
          PROVE  [R!Next]_R!vars
        <2>1. ASSUME NEW u \in User, Signup(r, u) PROVE [R!Next]_R!vars
            BY <2>1 DEF Signup, R!Next
        <2>2. ASSUME NEW u \in User, tokenPassword(r, u) PROVE [R!Next]_R!vars
            BY <1>2, <2>2 DEF tokenPassword
        <2>3. ASSUME NEW t \in delivered, tokenRefresh(r, t) PROVE [R!Next]_R!vars
            <3>1. ASSUME NEW child \in Fresh(Token \ minted), R!ConsumeRefreshToken(t, child)
                  PROVE  [R!Next]_R!vars
                <4>1. t \in DOMAIN refreshTokens
                    BY <3>1 DEF R!ConsumeRefreshToken, R!Rotatable, R!Live
                <4> QED
                    BY <3>1, <4>1 DEF R!Next, R!Fresh, Fresh
            <3> QED
                BY <1>2, <2>3, <3>1 DEF tokenRefresh
        <2>4. ASSUME NEW s \in DOMAIN access, NEW f \in enrolled, NEW c \in DOMAIN challenged,
                     VerifyFactor(r, s, f, c)
              PROVE  [R!Next]_R!vars
            BY <1>2, <2>4 DEF VerifyFactor
        <2> QED
            BY <1>3, <2>1, <2>2, <2>3, <2>4 DEF ArriveStep
    <1>4. ASSUME NEW r \in Request, ContinueStep(r)
          PROVE  [R!Next]_R!vars
        <2>1. CASE UpdateLastSignIn(r)
            BY <1>2, <2>1 DEF UpdateLastSignIn
        <2>2. CASE IssueSession(r)
            <3>1. req[r].user \in User
                BY <2>2 DEF IssueSession, At, Inv, HandlerInv, RequestsKnown, KnownRequest
            <3>2. ASSUME NEW s \in Fresh(Session \ DOMAIN owner), NEW t \in Fresh(Token \ minted),
                         R!IssueSessionWithMethod(req[r].user, "password", s, t)
                  PROVE  [R!Next]_R!vars
                BY <3>1, <3>2, MethodsAssumption DEF R!Next, R!Fresh, Fresh
            <3> QED
                BY <1>2, <2>2, <3>2 DEF IssueSession
        <2>3. CASE Build(r)
            BY <1>2, <2>3 DEF Build
        <2>4. CASE GetFactor(r)
            BY <1>2, <2>4 DEF GetFactor
        <2>5. CASE ConsumeChallenge(r)
            <3>1. CASE UNCHANGED refreshVars /\ F!ConsumeChallenge(req[r].factor, req[r].challenge)
                BY <3>1 DEF F!ConsumeChallenge, refreshVars, R!vars
            <3> QED
                BY <1>2, <2>5, <3>1 DEF ConsumeChallenge
        <2>6. CASE PromoteFactor(r)
            <3>1. CASE UNCHANGED refreshVars /\ F!VerifyFactor(req[r].factor)
                BY <3>1 DEF F!VerifyFactor, refreshVars, R!vars
            <3> QED
                BY <1>2, <2>6, <3>1 DEF PromoteFactor
        <2>7. CASE UpgradeSessionAAL(r)
            <3>1. req[r].session \in DOMAIN owner
                BY <2>7 DEF UpgradeSessionAAL, At, Inv, HandlerInv, RequestsKnown, KnownRequest,
                            Verifying, AfterChallenge
            <3>2. CASE R!UpgradeSessionAAL(req[r].session, "webauthn")
                BY <3>1, <3>2, MethodsAssumption DEF R!Next
            <3> QED
                BY <1>2, <2>7, <3>2 DEF UpgradeSessionAAL
        <2>8. CASE IssueRefreshToken(r)
            <3>1. req[r].session \in DOMAIN owner
                BY <2>8 DEF IssueRefreshToken, At, Inv, HandlerInv, RequestsKnown, KnownRequest,
                            Verifying, AfterChallenge
            <3>2. ASSUME NEW t \in Fresh(Token \ minted),
                         R!IssueRefreshToken(Subject(req[r].session), req[r].session, t)
                  PROVE  [R!Next]_R!vars
                BY <3>1, <3>2 DEF R!Next, R!Fresh, Fresh, Subject
            <3> QED
                BY <1>2, <2>8, <3>2 DEF IssueRefreshToken
        <2>9. CASE FindUserByID(r)
            BY <1>2, <2>9 DEF FindUserByID
        <2> QED
            BY <1>4, <2>1, <2>2, <2>3, <2>4, <2>5, <2>6, <2>7, <2>8, <2>9 DEF ContinueStep
    <1>5. CASE SingleStep
        <2>1. ASSUME NEW s \in DOMAIN access, NEW name \in Name \cup {NoName},
                     NEW f \in Fresh(Factor \ enrolled), EnrollFactor(s, name, f)
              PROVE  [R!Next]_R!vars
            BY <2>1 DEF EnrollFactor, F!EnrollFactor, refreshVars, R!vars
        <2>2. ASSUME NEW s \in DOMAIN access, NEW f \in enrolled,
                     NEW c \in Fresh(Challenge \ DOMAIN challenged), ChallengeFactor(s, f, c)
              PROVE  [R!Next]_R!vars
            BY <2>2 DEF ChallengeFactor, F!CreateChallenge, refreshVars, R!vars
        <2>3. ASSUME NEW s \in DOMAIN access, NEW f \in enrolled, UnenrollFactor(s, f)
              PROVE  [R!Next]_R!vars
            BY <2>3 DEF UnenrollFactor, F!DeleteFactor, refreshVars, R!vars
        <2>4. ASSUME NEW s \in DOMAIN access, Logout(s) PROVE [R!Next]_R!vars
            <3>1. s \in DOMAIN owner
                BY DEF Inv, HandlerInv, TypeOK
            <3> QED
                BY <2>4, <3>1 DEF Logout, R!Next
        <2>5. ASSUME NEW u \in User, AdminDeleteUser(u) PROVE [R!Next]_R!vars
            BY <2>5 DEF AdminDeleteUser, R!Next
        <2>6. CASE Reset
            BY <2>6 DEF Reset, R!Next
        <2>7. CASE Tick
            BY <2>7 DEF Tick, R!Next
        <2> QED
            BY <1>5, <2>1, <2>2, <2>3, <2>4, <2>5, <2>6, <2>7 DEF SingleStep
    <1> QED
        BY <1>1, <1>3, <1>4, <1>5, NextCases

\* The factor store.
LEMMA FactorStep ==
    ASSUME Inv, [Next]_vars
    PROVE  [F!Next]_F!vars
    <1>1. CASE UNCHANGED vars
        BY <1>1 DEF vars, storeVars, factorVars, F!vars
    <1>2. CASE UNCHANGED storeVars
        BY <1>2 DEF storeVars, factorVars, F!vars
    <1>3. CASE UNCHANGED <<account, now, factorVars>>
        BY <1>3 DEF factorVars, F!vars
    <1>4. \A s \in DOMAIN access : Subject(s) \in User
        BY StoreFacts DEF Inv, HandlerInv, TypeOK, Subject
    <1>5. ASSUME NEW r \in Request, ArriveStep(r)
          PROVE  [F!Next]_F!vars
        <2>1. ASSUME NEW u \in User, Signup(r, u) PROVE [F!Next]_F!vars
            BY <2>1 DEF Signup, F!Next
        <2>2. ASSUME NEW u \in User, tokenPassword(r, u) PROVE [F!Next]_F!vars
            BY <1>2, <2>2 DEF tokenPassword
        <2>3. ASSUME NEW t \in delivered, tokenRefresh(r, t) PROVE [F!Next]_F!vars
            BY <1>2, <1>3, <2>3 DEF tokenRefresh, R!ConsumeRefreshToken
        <2>4. ASSUME NEW s \in DOMAIN access, NEW f \in enrolled, NEW c \in DOMAIN challenged,
                     VerifyFactor(r, s, f, c)
              PROVE  [F!Next]_F!vars
            BY <1>2, <2>4 DEF VerifyFactor
        <2> QED
            BY <1>5, <2>1, <2>2, <2>3, <2>4 DEF ArriveStep
    <1>6. ASSUME NEW r \in Request, ContinueStep(r)
          PROVE  [F!Next]_F!vars
        <2>1. CASE UpdateLastSignIn(r)
            BY <1>2, <2>1 DEF UpdateLastSignIn
        <2>2. CASE IssueSession(r)
            BY <1>2, <1>3, <2>2 DEF IssueSession, R!IssueSessionWithMethod
        <2>3. CASE Build(r)
            BY <1>2, <2>3 DEF Build
        <2>4. CASE GetFactor(r)
            BY <1>2, <2>4 DEF GetFactor
        <2>5. CASE ConsumeChallenge(r)
            <3>1. ASSUME F!ConsumeChallenge(req[r].factor, req[r].challenge)
                  PROVE  [F!Next]_F!vars
                <4>1. req[r].challenge \in DOMAIN challenges /\ req[r].factor \in Factor
                    <5>1. req[r].challenge \in DOMAIN challenges
                        BY <3>1 DEF F!ConsumeChallenge, F!Found
                    <5>2. req[r].factor \in enrolled
                        BY <2>5 DEF ConsumeChallenge, At, Inv, HandlerInv, RequestsKnown,
                                    KnownRequest, Verifying
                    <5> QED
                        BY <5>1, <5>2, StoreFacts DEF Inv
                <4> QED
                    BY <3>1, <4>1 DEF F!Next
            <3> QED
                BY <1>2, <2>5, <3>1 DEF ConsumeChallenge
        <2>6. CASE PromoteFactor(r)
            <3>1. ASSUME F!VerifyFactor(req[r].factor)
                  PROVE  [F!Next]_F!vars
                <4>1. req[r].factor \in DOMAIN factors
                    BY <3>1 DEF F!VerifyFactor
                <4> QED
                    BY <3>1, <4>1 DEF F!Next
            <3> QED
                BY <1>2, <2>6, <3>1 DEF PromoteFactor
        <2>7. CASE UpgradeSessionAAL(r)
            BY <1>2, <1>3, <2>7 DEF UpgradeSessionAAL, R!UpgradeSessionAAL
        <2>8. CASE IssueRefreshToken(r)
            BY <1>2, <1>3, <2>8 DEF IssueRefreshToken, R!IssueRefreshToken
        <2>9. CASE FindUserByID(r)
            BY <1>2, <2>9 DEF FindUserByID
        <2> QED
            BY <1>6, <2>1, <2>2, <2>3, <2>4, <2>5, <2>6, <2>7, <2>8, <2>9 DEF ContinueStep
    <1>7. CASE SingleStep
        <2>1. ASSUME NEW s \in DOMAIN access, NEW name \in Name \cup {NoName},
                     NEW f \in Fresh(Factor \ enrolled), EnrollFactor(s, name, f)
              PROVE  [F!Next]_F!vars
            BY <1>4, <2>1 DEF EnrollFactor, F!Next, F!Fresh, Fresh
        <2>2. ASSUME NEW s \in DOMAIN access, NEW f \in enrolled,
                     NEW c \in Fresh(Challenge \ DOMAIN challenged), ChallengeFactor(s, f, c)
              PROVE  [F!Next]_F!vars
            <3>1. f \in DOMAIN factors
                BY <2>2 DEF ChallengeFactor, F!CreateChallenge
            <3> QED
                BY <2>2, <3>1 DEF ChallengeFactor, F!Next, F!Fresh, Fresh
        <2>3. ASSUME NEW s \in DOMAIN access, NEW f \in enrolled, UnenrollFactor(s, f)
              PROVE  [F!Next]_F!vars
            <3>1. f \in DOMAIN factors /\ Subject(s) \in User
                BY <1>4, <2>3 DEF UnenrollFactor, F!DeleteFactor, F!FactorsOfUser
            <3> QED
                BY <2>3, <3>1 DEF UnenrollFactor, F!Next
        <2>4. ASSUME NEW s \in DOMAIN access, Logout(s) PROVE [F!Next]_F!vars
            BY <1>3, <2>4 DEF Logout, R!RevokeRefreshTokensBySession
        <2>5. ASSUME NEW u \in User, AdminDeleteUser(u) PROVE [F!Next]_F!vars
            BY <2>5 DEF AdminDeleteUser, F!Next
        <2>6. CASE Reset
            BY <2>6 DEF Reset, F!Next
        <2>7. CASE Tick
            BY <2>7 DEF Tick, F!Next
        <2> QED
            BY <1>7, <2>1, <2>2, <2>3, <2>4, <2>5, <2>6, <2>7 DEF SingleStep
    <1> QED
        BY <1>1, <1>5, <1>6, <1>7, NextCases

-----------------------------------------------------------------------------
(***************************************************************************)
(* The requests stay known to the stores.                                  *)
(***************************************************************************)

\* What was handed out stays handed out, and sessions keep their user.
Grows ==
    /\ DOMAIN owner \subseteq DOMAIN owner'
    /\ \A s \in DOMAIN owner : owner'[s] = owner[s]
    /\ minted \subseteq minted'
    /\ enrolled \subseteq enrolled'
    /\ DOMAIN challenged \subseteq DOMAIN challenged'

\* No store call takes an id back.
LEMMA StoresGrow ==
    ASSUME Inv, [Next]_vars
    PROVE  Grows
    <1>1. DOMAIN owner \subseteq DOMAIN owner' /\ minted \subseteq minted'
          /\ \A s \in DOMAIN owner : owner'[s] = owner[s]
        <2>1. [R!Next]_R!vars
            BY RefreshStep
        <2>2. ASSUME NEW u, NEW method, NEW s, NEW t, R!IssueSessionWithMethod(u, method, s, t)
              PROVE  DOMAIN owner \subseteq DOMAIN owner' /\ minted \subseteq minted'
                     /\ \A x \in DOMAIN owner : owner'[x] = owner[x]
            BY <2>2 DEF R!IssueSessionWithMethod, R!Put
        <2>3. CASE owner' = owner /\ minted \subseteq minted'
            BY <2>3
        <2> QED
            BY <2>1, <2>2, <2>3 DEF R!Next, R!vars, R!Tick, R!Reset, R!NewUser, R!DeleteUser,
                   R!IssueRefreshToken, R!ConsumeRefreshToken, R!RevokeRefreshTokensBySession,
                   R!UpgradeSessionAAL
    <1>2. enrolled \subseteq enrolled' /\ DOMAIN challenged \subseteq DOMAIN challenged'
        <2>1. [F!Next]_F!vars
            BY FactorStep
        <2>2. ASSUME NEW f, NEW c, F!CreateChallenge(f, c)
              PROVE  enrolled \subseteq enrolled' /\ DOMAIN challenged \subseteq DOMAIN challenged'
            BY <2>2 DEF F!CreateChallenge, F!Put
        <2>3. CASE enrolled \subseteq enrolled' /\ challenged' = challenged
            BY <2>3
        <2> QED
            BY <2>1, <2>2, <2>3 DEF F!Next, F!vars, F!Tick, F!Reset, F!NewUser, F!DeleteUser,
                   F!EnrollFactor, F!VerifyFactor, F!ConsumeChallenge, F!DeleteFactor
    <1> QED
        BY <1>1, <1>2 DEF Grows

\* A request that moves on carries what it needs next; the others are as before.
LEMMA RequestMoves ==
    ASSUME HandlerInv, Grows, NEW r \in Request, NEW v, v \in RequestRecord,
           req' = [req EXCEPT ![r] = v], KnownRequest(v, DOMAIN owner', minted', enrolled')
    PROVE  req' \in [Request -> RequestRecord] /\ RequestsKnown'
    <1>1. req' \in [Request -> RequestRecord]
        BY DEF HandlerInv, TypeOK
    <1>2. ASSUME NEW q \in Request
          PROVE  KnownRequest(req'[q], DOMAIN owner', minted', enrolled')
        <2>1. CASE q = r
            BY <2>1 DEF HandlerInv, TypeOK
        <2>2. CASE q # r
            <3>1. req'[q] = req[q]
                BY <2>2 DEF HandlerInv, TypeOK
            <3>2. KnownRequest(req[q], DOMAIN owner, minted, enrolled)
                BY DEF HandlerInv, RequestsKnown
            <3>3. KnownRequest(req[q], DOMAIN owner', minted', enrolled')
                BY <3>2 DEF KnownRequest, Grows
            <3> QED
                BY <3>1, <3>3
        <2> QED
            BY <2>1, <2>2
    <1> QED
        BY <1>1, <1>2 DEF RequestsKnown

\* So are all of them when no request moves.
LEMMA RequestsStay ==
    ASSUME HandlerInv, Grows, req' = req
    PROVE  req' \in [Request -> RequestRecord] /\ RequestsKnown'
    BY DEF HandlerInv, TypeOK, RequestsKnown, KnownRequest, Grows

\* An error answer ends a request, which then needs nothing.
LEMMA FailedRequest ==
    ASSUME HandlerInv, Grows, NEW r \in Request, Fail(r)
    PROVE  req' \in [Request -> RequestRecord] /\ RequestsKnown'
    <1>1. Idle \in RequestRecord
        BY DEF Idle, RequestRecord, Call
    <1>2. KnownRequest(Idle, DOMAIN owner', minted', enrolled')
        BY DEF Idle, KnownRequest, Verifying, AfterChallenge
    <1> QED
        BY <1>1, <1>2, RequestMoves DEF Fail

\* A request that goes on to the next call of a verify, or to IssueSession, needs
\* what it has.
LEMMA NextCall ==
    ASSUME HandlerInv, Grows, NEW r \in Request, NEW call, Goto(r, call),
           \/ req[r].at \in Verifying /\ call \in Verifying \ {"FindUserByID"}
           \/ req[r].at = "UpdateLastSignIn" /\ call = "IssueSession"
           \/ req[r].at = "FindUserByID" /\ call = "Build"
    PROVE  req' \in [Request -> RequestRecord] /\ RequestsKnown'
    <1> DEFINE v == [req[r] EXCEPT !.at = call]
    <1>1. req[r] \in RequestRecord
        BY DEF HandlerInv, TypeOK
    <1>2. call \in Call
        BY DEF Verifying, AfterChallenge, Call
    <1>3. v \in RequestRecord /\ v.at = call /\ v.user = req[r].user /\ v.session = req[r].session
          /\ v.token = req[r].token /\ v.factor = req[r].factor
        BY <1>1, <1>2 DEF RequestRecord
    <1>4. KnownRequest(req[r], DOMAIN owner, minted, enrolled)
        BY DEF HandlerInv, RequestsKnown
    <1>5. req' = [req EXCEPT ![r] = v]
        BY DEF Goto
    <1> HIDE DEF v
    <1>6. KnownRequest(v, DOMAIN owner', minted', enrolled')
        BY <1>3, <1>4 DEF KnownRequest, Grows, Verifying, AfterChallenge
    <1> QED
        BY <1>3, <1>5, <1>6, RequestMoves

-----------------------------------------------------------------------------
(***************************************************************************)
(* Every step keeps the invariant of the handlers.                         *)
(***************************************************************************)

\* A step that sends nothing and notes nothing has only its request to look at.
LEMMA SilentStep ==
    ASSUME HandlerInv, Grows, UNCHANGED <<clientVars, historyVars>>,
           req' \in [Request -> RequestRecord], RequestsKnown'
    PROVE  HandlerInv'
    BY DEF HandlerInv, TypeOK, Grows, clientVars, historyVars

\* A request arrives with what its first call needs.
LEMMA ArriveKeepsInv ==
    ASSUME Inv, Grows, NEW r \in Request, ArriveStep(r)
    PROVE  HandlerInv'
    <1> USE DEF Inv
    <1>1. ASSUME NEW call \in RequestRecord, Begin(r, call),
                 KnownRequest(call, DOMAIN owner', minted', enrolled'),
                 UNCHANGED <<clientVars, historyVars>>
          PROVE  HandlerInv'
        <2>1. req' = [req EXCEPT ![r] = call]
            BY <1>1 DEF Begin
        <2> QED
            BY <1>1, <2>1, RequestMoves, SilentStep
    <1>2. ASSUME NEW u \in User, Signup(r, u)
          PROVE  HandlerInv'
        <2> DEFINE call == [Idle EXCEPT !.at = "IssueSession", !.user = u]
        <2>1. call \in RequestRecord
            BY DEF Idle, RequestRecord, Call
        <2>2. KnownRequest(call, DOMAIN owner', minted', enrolled')
            BY DEF Idle, KnownRequest, Verifying, AfterChallenge
        <2>3. Begin(r, call) /\ UNCHANGED <<clientVars, historyVars>>
            BY <1>2 DEF Signup
        <2> HIDE DEF call
        <2> QED
            BY <1>1, <2>1, <2>2, <2>3
    <1>3. ASSUME NEW u \in User, tokenPassword(r, u)
          PROVE  HandlerInv'
        <2> DEFINE call == [Idle EXCEPT !.at = "UpdateLastSignIn", !.user = u]
        <2>1. call \in RequestRecord
            BY DEF Idle, RequestRecord, Call
        <2>2. KnownRequest(call, DOMAIN owner', minted', enrolled')
            BY DEF Idle, KnownRequest, Verifying, AfterChallenge
        <2>3. Begin(r, call) /\ UNCHANGED <<clientVars, historyVars>>
            BY <1>3 DEF tokenPassword
        <2> HIDE DEF call
        <2> QED
            BY <1>1, <2>1, <2>2, <2>3
    <1>4. ASSUME NEW t \in delivered, tokenRefresh(r, t)
          PROVE  HandlerInv'
        <2> DEFINE call(token) == [Idle EXCEPT !.at = "Build", !.token = token,
                                               !.session = refreshTokens[t].session]
        <2>1. ASSUME NEW token \in minted', t \in DOMAIN refreshTokens, minted' \subseteq Token,
                     Begin(r, call(token))
              PROVE  HandlerInv'
            <3>1. refreshTokens[t].session \in DOMAIN owner /\ refreshTokens[t].session \in Session
                  /\ token \in Token
                BY <2>1, StoreFacts
            <3>2. call(token) \in RequestRecord
                BY <3>1 DEF Idle, RequestRecord, Call
            <3>3. KnownRequest(call(token), DOMAIN owner', minted', enrolled')
                BY <2>1, <3>1 DEF Idle, KnownRequest, Verifying, AfterChallenge, Grows
            <3>4. UNCHANGED <<clientVars, historyVars>>
                BY <1>4 DEF tokenRefresh
            <3> HIDE DEF call
            <3> QED
                BY <1>1, <2>1, <3>2, <3>3, <3>4
        <2>2. ASSUME NEW child \in Fresh(Token \ minted), R!ConsumeRefreshToken(t, child),
                     Begin(r, call(child))
              PROVE  HandlerInv'
            <3>1. child \in Token /\ minted' = minted \cup {child} /\ t \in DOMAIN refreshTokens
                BY <2>2 DEF Fresh, R!ConsumeRefreshToken, R!Rotatable, R!Live
            <3>2. child \in minted' /\ minted' \subseteq Token
                BY <3>1, StoreFacts
            <3> HIDE DEF call
            <3> QED
                BY <2>1, <2>2, <3>1, <3>2
        <2>3. ASSUME R!Reusable(t), Begin(r, call(R!LatestChild(t))), UNCHANGED storeVars
              PROVE  HandlerInv'
            <3>1. t \in DOMAIN refreshTokens /\ R!LatestChild(t) \in minted'
                  /\ minted' \subseteq Token
                BY <2>3, LeafOfSession, StoreFacts DEF storeVars, refreshVars
            <3> HIDE DEF call
            <3> QED
                BY <2>1, <2>3, <3>1
        <2> QED
            BY <1>4, <2>2, <2>3 DEF tokenRefresh
    <1>5. ASSUME NEW s \in DOMAIN access, NEW f \in enrolled, NEW c \in DOMAIN challenged,
                 VerifyFactor(r, s, f, c)
          PROVE  HandlerInv'
        <2> DEFINE call == [Idle EXCEPT !.at = "GetFactor", !.session = s, !.factor = f,
                                        !.challenge = c]
        <2>1. s \in DOMAIN owner /\ s \in Session /\ f \in Factor /\ c \in Challenge
            BY StoreFacts DEF HandlerInv, TypeOK
        <2>2. call \in RequestRecord
            BY <2>1 DEF Idle, RequestRecord, Call
        <2>3. KnownRequest(call, DOMAIN owner', minted', enrolled')
            BY <2>1 DEF Idle, KnownRequest, Verifying, AfterChallenge, Grows
        <2>4. Begin(r, call) /\ UNCHANGED <<clientVars, historyVars>>
            BY <1>5 DEF VerifyFactor
        <2> HIDE DEF call
        <2> QED
            BY <1>1, <2>2, <2>3, <2>4
    <1> QED
        BY <1>2, <1>3, <1>4, <1>5 DEF ArriveStep

\* So does each later call of a request.
LEMMA ContinueKeepsInv ==
    ASSUME Inv, Grows, NEW r \in Request, ContinueStep(r)
    PROVE  HandlerInv'
    <1> USE DEF Inv
    <1>1. KnownRequest(req[r], DOMAIN owner, minted, enrolled) /\ req[r] \in RequestRecord
        BY DEF HandlerInv, RequestsKnown, TypeOK
    <1>2. ASSUME Fail(r), UNCHANGED <<clientVars, historyVars>>
          PROVE  HandlerInv'
        BY <1>2, FailedRequest, SilentStep
    <1>3. CASE UpdateLastSignIn(r)
        BY <1>2, <1>3, NextCall, SilentStep DEF UpdateLastSignIn, At
    <1>4. CASE IssueSession(r)
        <2>1. ASSUME NEW s \in Fresh(Session \ DOMAIN owner), NEW t \in Fresh(Token \ minted),
                     R!IssueSessionWithMethod(req[r].user, "password", s, t),
                     req' = [req EXCEPT ![r].at = "Build", ![r].session = s, ![r].token = t]
              PROVE  HandlerInv'
            <3> DEFINE v == [req[r] EXCEPT !.at = "Build", !.session = s, !.token = t]
            <3>1. s \in Session /\ t \in Token /\ s \in DOMAIN owner' /\ t \in minted'
                BY <2>1 DEF Fresh, R!IssueSessionWithMethod, R!Put
            <3>2. v \in RequestRecord /\ v.at = "Build" /\ v.session = s /\ v.token = t
                BY <1>1, <3>1 DEF RequestRecord, Call
            <3>3. req' = [req EXCEPT ![r] = v]
                BY <2>1
            <3>4. KnownRequest(v, DOMAIN owner', minted', enrolled')
                BY <3>1, <3>2 DEF KnownRequest, Verifying, AfterChallenge
            <3> HIDE DEF v
            <3> QED
                BY <1>4, <3>2, <3>3, <3>4, RequestMoves, SilentStep DEF IssueSession
        <2> QED
            BY <1>2, <1>4, <2>1 DEF IssueSession
    <1>5. CASE Build(r)
        <2>1. req[r].session \in DOMAIN owner /\ req[r].token \in minted
            BY <1>1, <1>5 DEF Build, At, KnownRequest
        <2>2. req' \in [Request -> RequestRecord] /\ RequestsKnown'
            BY <1>5, FailedRequest DEF Build, Fail
        <2>3. aalBuilt(req[r].session) \in {"aal1", "aal2"} /\ now + JwtTTL \in Int
            BY StoreFacts, JwtTTLAssumption DEF aalBuilt
        <2>4. access' \in [DOMAIN access' -> [expiresAt : Int, aal : {"aal1", "aal2"}]]
              /\ DOMAIN access' \subseteq DOMAIN owner
            BY <1>5, <2>1, <2>3 DEF Build, Put, HandlerInv, TypeOK
        <2>5. delivered' \subseteq minted
            BY <1>5, <2>1 DEF Build, HandlerInv, TypeOK
        <2> QED
            BY <1>5, <2>2, <2>4, <2>5 DEF Build, HandlerInv, TypeOK, Grows, historyVars
    <1>6. CASE GetFactor(r)
        BY <1>2, <1>6, NextCall, SilentStep DEF GetFactor, At, Verifying, AfterChallenge
    <1>7. CASE ConsumeChallenge(r)
        <2>1. CASE Fail(r) /\ UNCHANGED proved
            BY <1>2, <1>7, <2>1 DEF ConsumeChallenge, historyVars
        <2>2. CASE Goto(r, "VerifyFactor") /\ proved' = proved \cup {<<req[r].session, req[r].factor>>}
            <3>1. req[r].session \in DOMAIN owner /\ req[r].factor \in enrolled
                BY <1>1, <1>7 DEF ConsumeChallenge, At, KnownRequest, Verifying
            <3>2. req' \in [Request -> RequestRecord] /\ RequestsKnown'
                BY <1>7, <2>2, NextCall DEF ConsumeChallenge, At, Verifying, AfterChallenge
            <3>3. proved' \subseteq (DOMAIN owner') \X enrolled'
                BY <2>2, <3>1 DEF HandlerInv, TypeOK, Grows
            <3> QED
                BY <1>7, <3>2, <3>3 DEF ConsumeChallenge, HandlerInv, TypeOK, Grows, clientVars
        <2> QED
            BY <1>7, <2>1, <2>2 DEF ConsumeChallenge
    <1>8. CASE PromoteFactor(r)
        BY <1>2, <1>8, NextCall, SilentStep DEF PromoteFactor, At, Verifying, AfterChallenge
    <1>9. CASE UpgradeSessionAAL(r)
        BY <1>2, <1>9, NextCall, SilentStep DEF UpgradeSessionAAL, At, Verifying, AfterChallenge
    <1>10. CASE IssueRefreshToken(r)
        <2>1. ASSUME NEW t \in Fresh(Token \ minted),
                     R!IssueRefreshToken(Subject(req[r].session), req[r].session, t),
                     req' = [req EXCEPT ![r].at = "FindUserByID", ![r].token = t]
              PROVE  HandlerInv'
            <3> DEFINE v == [req[r] EXCEPT !.at = "FindUserByID", !.token = t]
            <3>1. t \in Token /\ t \in minted'
                BY <2>1 DEF Fresh, R!IssueRefreshToken
            <3>2. v \in RequestRecord /\ v.at = "FindUserByID" /\ v.session = req[r].session
                  /\ v.factor = req[r].factor /\ v.token = t
                BY <1>1, <3>1 DEF RequestRecord, Call
            <3>3. req' = [req EXCEPT ![r] = v]
                BY <2>1
            <3>4. req[r].session \in DOMAIN owner /\ req[r].factor \in enrolled
                BY <1>1, <1>10 DEF IssueRefreshToken, At, KnownRequest, Verifying, AfterChallenge
            <3> HIDE DEF v
            <3>5. KnownRequest(v, DOMAIN owner', minted', enrolled')
                BY <3>1, <3>2, <3>4 DEF KnownRequest, Verifying, AfterChallenge, Grows
            <3> QED
                BY <1>10, <3>2, <3>3, <3>5, RequestMoves, SilentStep DEF IssueRefreshToken
        <2> QED
            BY <1>2, <1>10, <2>1 DEF IssueRefreshToken
    <1>11. CASE FindUserByID(r)
        BY <1>2, <1>11, NextCall, SilentStep DEF FindUserByID, At
    <1> QED
        BY <1>3, <1>4, <1>5, <1>6, <1>7, <1>8, <1>9, <1>10, <1>11 DEF ContinueStep

\* And so do the requests that are a single call.
LEMMA SingleKeepsInv ==
    ASSUME Inv, Grows, SingleStep
    PROVE  HandlerInv'
    <1> USE DEF Inv
    <1>1. req' = req
        BY DEF SingleStep, EnrollFactor, ChallengeFactor, UnenrollFactor, Logout, AdminDeleteUser,
               Reset, Tick
    <1>2. req' \in [Request -> RequestRecord] /\ RequestsKnown'
        BY <1>1, RequestsStay
    <1>3. CASE UNCHANGED <<clientVars, historyVars>>
        BY <1>2, <1>3, SilentStep
    <1>4. ASSUME NEW s \in DOMAIN access, Logout(s)
          PROVE  HandlerInv'
        <2>1. overtaken' \subseteq DOMAIN owner'
            BY <1>4 DEF Logout, HandlerInv, TypeOK, Grows
        <2> QED
            BY <1>2, <1>4, <2>1 DEF Logout, HandlerInv, TypeOK, Grows, clientVars
    <1> QED
        BY <1>3, <1>4 DEF SingleStep, EnrollFactor, ChallengeFactor, UnenrollFactor,
                          AdminDeleteUser, Reset, Tick

\* Hence every step does.
LEMMA HandlerStep ==
    ASSUME Inv, [Next]_vars
    PROVE  HandlerInv'
    <1>1. Grows
        BY StoresGrow
    <1>2. CASE UNCHANGED vars
        <2>1. req' \in [Request -> RequestRecord] /\ RequestsKnown'
            BY <1>1, <1>2, RequestsStay DEF vars, Inv
        <2> QED
            BY <1>1, <1>2, <2>1, SilentStep DEF vars, Inv
    <1>3. CASE Next
        BY <1>1, <1>3, NextCases, ArriveKeepsInv, ContinueKeepsInv, SingleKeepsInv
    <1> QED
        BY <1>2, <1>3

-----------------------------------------------------------------------------
(***************************************************************************)
(* The invariant, and what follows from it and from the store proofs.      *)
(***************************************************************************)

\* The stores keep theirs.
LEMMA StoreStep ==
    ASSUME Inv, [Next]_vars
    PROVE  RefreshInv' /\ FactorInv'
    <1>1. [RP!Next]_RP!vars
        BY RefreshStep, SameRefreshNext
    <1>2. [FP!Next]_FP!vars
        BY FactorStep, SameFactorNext
    <1>3. RefreshInv'
        <2>1. RP!ShapeInv'
            BY <1>1, RP!ShapeStep, RefreshAssumptions DEF Inv, RefreshInv, RP!GraceInv
        <2>2. RP!LeafInv'
            BY <1>1, RP!LeafStep, RefreshAssumptions DEF Inv, RefreshInv
        <2> QED
            BY <2>1, <2>2 DEF RefreshInv, RP!GraceInv
    <1>4. FactorInv'
        <2>1. FP!TypeOK'
            BY <1>2, FP!TypeStep, FactorAssumptions DEF Inv, FactorInv
        <2>2. FP!NoOrphans'
            BY <1>2, FP!NoOrphansStep, FactorAssumptions DEF Inv, FactorInv
        <2> QED
            BY <2>1, <2>2 DEF FactorInv
    <1> QED
        BY <1>3, <1>4

\* The invariant holds initially ...
LEMMA InitInv == Init => Inv
    <1> SUFFICES ASSUME Init PROVE Inv
        OBVIOUS
    <1>1. HandlerInv
        <2>1. req = [r \in Request |-> Idle] /\ access = EmptyMap /\ delivered = {}
              /\ overtaken = {} /\ proved = {}
            BY DEF Init
        <2>2. Idle \in RequestRecord /\ KnownRequest(Idle, DOMAIN owner, minted, enrolled)
            BY DEF Idle, RequestRecord, Call, KnownRequest, Verifying, AfterChallenge
        <2>3. DOMAIN access = {} /\ access \in [DOMAIN access -> [expiresAt : Int, aal : {"aal1", "aal2"}]]
            BY <2>1 DEF EmptyMap
        <2> QED
            BY <2>1, <2>2, <2>3 DEF HandlerInv, TypeOK, RequestsKnown
    <1>2. RP!Init /\ FP!Init
        BY SameRefreshInit, SameFactorInit DEF Init
    <1>3. RefreshInv
        <2>1. RP!TypeOK
            BY <1>2 DEF RP!EmptyMap, RP!Init, RP!TypeOK
        <2>2. DOMAIN sessions = {} /\ DOMAIN refreshTokens = {} /\ DOMAIN parentToChild = {}
            BY <1>2 DEF RP!EmptyMap, RP!Init
        <2> QED
            BY <2>1, <2>2 DEF RefreshInv, RP!GraceInv, RP!ShapeInv, RP!LeafInv,
                   RP!ReferentialIntegrity, RP!ChainShape, RP!NoFork, RP!ParentShape
    <1>4. FactorInv
        BY <1>2 DEF FP!EmptyMap, FP!Init, FactorInv, FP!TypeOK, FP!NoOrphans
    <1> QED
        BY <1>1, <1>3, <1>4 DEF Inv

\* ... and in every reachable state.
LEMMA Invariance == Spec => []Inv
    <1>1. Inv /\ [Next]_vars => Inv'
        BY HandlerStep, StoreStep DEF Inv
    <1> QED
        BY <1>1, InitInv, PTL DEF Spec

\* Every variable of the handlers has its type, whatever requests overlap.
THEOREM TypeCorrect == Spec => []TypeOK
    BY Invariance, PTL DEF Inv, HandlerInv

\* The handlers use each store only as the store's specification allows, so all
\* that is proved of the stores holds below any number of concurrent requests.
THEOREM Discipline == Spec => StoreDiscipline
    <1>1. Init => R!Init /\ F!Init
        BY DEF Init
    <1>2. Inv /\ [Next]_vars => [R!Next]_R!vars /\ [F!Next]_F!vars
        BY RefreshStep, FactorStep
    <1> QED
        BY <1>1, <1>2, Invariance, PTL DEF Spec, StoreDiscipline, R!Spec, F!Spec

-----------------------------------------------------------------------------
(***************************************************************************)
(* The way of a verify request.                                            *)
(***************************************************************************)
SameIds(r) ==
    /\ req'[r].session = req[r].session
    /\ req'[r].factor = req[r].factor
    /\ req'[r].challenge = req[r].challenge

\* A request that was at a call of a verify and goes on to another one.
VerifyGoesOn(r) ==
    \/ GetFactor(r) /\ Goto(r, "ConsumeChallenge")
    \/ ConsumeChallenge(r) /\ Goto(r, "VerifyFactor")
    \/ PromoteFactor(r) /\ Goto(r, "UpgradeSessionAAL")
    \/ UpgradeSessionAAL(r) /\ Goto(r, "IssueRefreshToken")
    \/ IssueRefreshToken(r) /\ req'[r].at = "FindUserByID"

\* A request is at a call of a verify only if it was there before the step, has
\* just arrived, or went on with the ids it has.
LEMMA VerifyMoves ==
    ASSUME Inv, [Next]_vars, NEW r \in Request, req'[r].at \in Verifying
    PROVE  \/ req'[r] = req[r]
           \/ req'[r].at = "GetFactor"
           \/ VerifyGoesOn(r) /\ SameIds(r)
    <1> DEFINE Goal == \/ req'[r] = req[r]
                       \/ req'[r].at = "GetFactor"
                       \/ VerifyGoesOn(r) /\ SameIds(r)
    <1> SUFFICES Goal
        OBVIOUS
    <1> HIDE DEF Goal
    <1>1. req \in [Request -> RequestRecord] /\ req[r] \in RequestRecord
        BY DEF Inv, HandlerInv, TypeOK
    <1>2. CASE req' = req
        BY <1>2 DEF Goal
    <1>3. ASSUME NEW q \in Request, NEW v, req' = [req EXCEPT ![q] = v], v.at \notin Verifying
          PROVE  Goal
        BY <1>1, <1>3 DEF Goal
    <1>4. ASSUME NEW q \in Request, Fail(q)
          PROVE  Goal
        BY <1>3, <1>4 DEF Fail, Idle, Verifying, AfterChallenge
    <1>5. ASSUME NEW q \in Request, NEW call, Goto(q, call),
                 r = q => VerifyGoesOn(r) \/ call \notin Verifying
          PROVE  Goal
        <2>1. CASE q = r
            <3>1. req'[r] = [req[r] EXCEPT !.at = call]
                BY <1>1, <1>5, <2>1 DEF Goto
            <3>2. SameIds(r) /\ req'[r].at = call
                BY <1>1, <3>1 DEF SameIds, RequestRecord
            <3> QED
                BY <1>5, <2>1, <3>2 DEF Goal
        <2>2. CASE q # r
            BY <1>1, <1>5, <2>2 DEF Goto, Goal
        <2> QED
            BY <2>1, <2>2
    <1>6. ASSUME NEW q \in Request, ArriveStep(q)
          PROVE  Goal
        <2>1. ASSUME NEW u \in User, Signup(q, u) PROVE Goal
            BY <1>3, <2>1 DEF Signup, Begin, Idle, Verifying, AfterChallenge
        <2>2. ASSUME NEW u \in User, tokenPassword(q, u) PROVE Goal
            BY <1>3, <2>2 DEF tokenPassword, Begin, Idle, Verifying, AfterChallenge
        <2>3. ASSUME NEW t \in delivered, tokenRefresh(q, t) PROVE Goal
            <3>1. ASSUME NEW token, Begin(q, [Idle EXCEPT !.at = "Build", !.token = token,
                                                !.session = refreshTokens[t].session])
                  PROVE  Goal
                BY <1>3, <3>1 DEF Begin, Idle, Verifying, AfterChallenge
            <3> QED
                BY <2>3, <3>1 DEF tokenRefresh
        <2>4. ASSUME NEW s \in DOMAIN access, NEW f \in enrolled, NEW c \in DOMAIN challenged,
                     VerifyFactor(q, s, f, c)
              PROVE  Goal
            <3>1. req' = [req EXCEPT ![q] = [Idle EXCEPT !.at = "GetFactor", !.session = s,
                                                        !.factor = f, !.challenge = c]]
                BY <2>4 DEF VerifyFactor, Begin
            <3> QED
                BY <1>1, <3>1 DEF Goal, Idle
        <2> QED
            BY <1>6, <2>1, <2>2, <2>3, <2>4 DEF ArriveStep
    <1>7. ASSUME NEW q \in Request, ContinueStep(q)
          PROVE  Goal
        <2>1. CASE UpdateLastSignIn(q)
            BY <1>4, <1>5, <2>1 DEF UpdateLastSignIn, Verifying, AfterChallenge
        <2>2. CASE IssueSession(q)
            <3>1. ASSUME NEW s, NEW t,
                         req' = [req EXCEPT ![q].at = "Build", ![q].session = s, ![q].token = t]
                  PROVE  Goal
                <4> DEFINE v == [req[q] EXCEPT !.at = "Build", !.session = s, !.token = t]
                <4>1. v.at = "Build"
                    BY <1>1 DEF RequestRecord
                <4>2. req' = [req EXCEPT ![q] = v]
                    BY <3>1
                <4> HIDE DEF v
                <4> QED
                    BY <1>3, <4>1, <4>2 DEF Verifying, AfterChallenge
            <3> QED
                BY <1>4, <2>2, <3>1 DEF IssueSession
        <2>3. CASE Build(q)
            BY <1>4, <2>3 DEF Build, Fail
        <2>4. CASE GetFactor(q)
            BY <1>4, <1>5, <2>4 DEF GetFactor, VerifyGoesOn
        <2>5. CASE ConsumeChallenge(q)
            BY <1>4, <1>5, <2>5 DEF ConsumeChallenge, VerifyGoesOn
        <2>6. CASE PromoteFactor(q)
            BY <1>4, <1>5, <2>6 DEF PromoteFactor, VerifyGoesOn
        <2>7. CASE UpgradeSessionAAL(q)
            BY <1>4, <1>5, <2>7 DEF UpgradeSessionAAL, VerifyGoesOn
        <2>8. CASE IssueRefreshToken(q)
            <3>1. ASSUME NEW t, req' = [req EXCEPT ![q].at = "FindUserByID", ![q].token = t]
                  PROVE  Goal
                <4>1. CASE q = r
                    <5>1. req'[r] = [req[r] EXCEPT !.at = "FindUserByID", !.token = t]
                        BY <1>1, <3>1, <4>1
                    <5> QED
                        BY <1>1, <2>8, <4>1, <5>1 DEF Goal, VerifyGoesOn, SameIds, RequestRecord
                <4>2. CASE q # r
                    BY <1>1, <3>1, <4>2 DEF Goal
                <4> QED
                    BY <4>1, <4>2
            <3> QED
                BY <1>4, <2>8, <3>1 DEF IssueRefreshToken
        <2>9. CASE FindUserByID(q)
            BY <1>4, <1>5, <2>9 DEF FindUserByID, Verifying, AfterChallenge
        <2> QED
            BY <1>7, <2>1, <2>2, <2>3, <2>4, <2>5, <2>6, <2>7, <2>8, <2>9 DEF ContinueStep
    <1>8. CASE SingleStep
        BY <1>2, <1>8 DEF SingleStep, EnrollFactor, ChallengeFactor, UnenrollFactor, Logout,
                          AdminDeleteUser, Reset, Tick
    <1> QED
        BY <1>2, <1>6, <1>7, <1>8, NextCases DEF vars

-----------------------------------------------------------------------------
(***************************************************************************)
(* A challenge is met once.                                                *)
(***************************************************************************)

\* What ConsumeChallenge does when it accepts.
LEMMA AcceptedChallenge ==
    ASSUME Inv, NEW r \in Request, ConsumeChallenge(r), Goto(r, "VerifyFactor")
    PROVE  /\ req[r].at = "ConsumeChallenge"
           /\ req[r].challenge \in DOMAIN challenges
           /\ challenges[req[r].challenge].factor = req[r].factor
           /\ DOMAIN challenges' = DOMAIN challenges \ {req[r].challenge}
           /\ proved' = proved \cup {<<req[r].session, req[r].factor>>}
           /\ \A q \in Request \ {r} : req'[q] = req[q]
           /\ UNCHANGED <<sessions, owner, factors, enrolled, access, overtaken>>
    <1>1. req \in [Request -> RequestRecord] /\ req[r] \in RequestRecord
        BY DEF Inv, HandlerInv, TypeOK
    <1>2. req'[r].at = "VerifyFactor"
        BY <1>1 DEF Goto, RequestRecord
    <1>3. ~Fail(r)
        BY <1>1, <1>2 DEF Fail, Idle
    <1>4. /\ F!ConsumeChallenge(req[r].factor, req[r].challenge)
          /\ UNCHANGED refreshVars
          /\ proved' = proved \cup {<<req[r].session, req[r].factor>>}
        BY <1>3 DEF ConsumeChallenge
    <1>5. DOMAIN challenges' = DOMAIN challenges \ {req[r].challenge}
        BY <1>4 DEF F!ConsumeChallenge, F!Delete, F!Restrict
    <1>6. \A q \in Request \ {r} : req'[q] = req[q]
        BY <1>1 DEF Goto
    <1> QED
        BY <1>4, <1>5, <1>6 DEF ConsumeChallenge, At, F!ConsumeChallenge, F!Found, refreshVars,
                                clientVars

\* A request that has passed its challenge had passed it before the step, or
\* passes it in this step.
LEMMA PassedOrPasses ==
    ASSUME Inv, [Next]_vars, NEW r \in Request, req'[r].at \in AfterChallenge
    PROVE  /\ SameIds(r)
           /\ \/ req[r].at \in AfterChallenge
              \/ ConsumeChallenge(r) /\ Goto(r, "VerifyFactor")
    <1>1. req'[r].at \in Verifying /\ req'[r].at \notin {"GetFactor", "ConsumeChallenge"}
        BY DEF Verifying, AfterChallenge
    <1>2. CASE req'[r] = req[r]
        BY <1>2 DEF SameIds
    <1>3. CASE VerifyGoesOn(r) /\ SameIds(r)
        <2>1. ~Goto(r, "ConsumeChallenge")
            <3>1. req \in [Request -> RequestRecord] /\ req[r] \in RequestRecord
                BY DEF Inv, HandlerInv, TypeOK
            <3> QED
                BY <1>1, <3>1 DEF Goto, RequestRecord
        <2> QED
            BY <1>3, <2>1 DEF VerifyGoesOn, PromoteFactor, UpgradeSessionAAL, IssueRefreshToken, At,
                              AfterChallenge
    <1> QED
        BY <1>1, <1>2, <1>3, VerifyMoves

\* The challenge of a request that has passed it was once issued.
SpentInv ==
    /\ ChallengeMetOnce
    /\ \A r \in Request : req[r].at \in AfterChallenge => req[r].challenge \in DOMAIN challenged

\* A challenge goes when a request passes it, and never comes back.
LEMMA SpentStep ==
    ASSUME Inv, SpentInv, [Next]_vars
    PROVE  SpentInv'
    <1>1. [FP!Next]_FP!vars /\ FP!TypeOK
        BY FactorStep, SameFactorNext DEF Inv, FactorInv
    <1>2. \A c \in DOMAIN challenged : c \in DOMAIN challenges' => c \in DOMAIN challenges
        BY <1>1, FP!ChallengesShrink, FactorAssumptions
    <1>3. DOMAIN challenged \subseteq DOMAIN challenged'
        BY StoresGrow DEF Grows
    <1>4. DOMAIN challenges \subseteq DOMAIN challenged
        BY StoreFacts DEF Inv
    <1>5. ASSUME NEW r \in Request, req'[r].at \in AfterChallenge
          PROVE  /\ req'[r].challenge = req[r].challenge
                 /\ req[r].challenge \in DOMAIN challenged
                 /\ req[r].challenge \notin DOMAIN challenges'
        <2>1. req'[r].challenge = req[r].challenge
            BY <1>5, PassedOrPasses DEF SameIds
        <2>2. CASE req[r].at \in AfterChallenge
            BY <1>2, <2>1, <2>2 DEF SpentInv, ChallengeMetOnce
        <2>3. CASE ConsumeChallenge(r) /\ Goto(r, "VerifyFactor")
            BY <1>4, <2>1, <2>3, AcceptedChallenge
        <2> QED
            BY <1>5, <2>2, <2>3, PassedOrPasses
    <1>6. ASSUME NEW r \in Request, NEW q \in Request \ {r},
                 ConsumeChallenge(r) /\ Goto(r, "VerifyFactor"), req'[q].at \in AfterChallenge
          PROVE  req[q].challenge # req[r].challenge
        <2>1. req'[q] = req[q] /\ req[r].challenge \in DOMAIN challenges
            BY <1>6, AcceptedChallenge
        <2> QED
            BY <1>6, <2>1 DEF SpentInv, ChallengeMetOnce
    <1>7. ASSUME NEW r \in Request, NEW q \in Request \ {r},
                 req'[r].at \in AfterChallenge, req'[q].at \in AfterChallenge
          PROVE  req'[q].challenge # req'[r].challenge
        <2>1. CASE req[r].at \in AfterChallenge /\ req[q].at \in AfterChallenge
            BY <1>5, <1>7, <2>1 DEF SpentInv, ChallengeMetOnce
        <2>2. CASE ConsumeChallenge(r) /\ Goto(r, "VerifyFactor")
            BY <1>5, <1>6, <1>7, <2>2
        <2>3. CASE ConsumeChallenge(q) /\ Goto(q, "VerifyFactor")
            BY <1>5, <1>6, <1>7, <2>3
        <2> QED
            BY <1>7, <2>1, <2>2, <2>3, PassedOrPasses
    <1> QED
        BY <1>3, <1>5, <1>7 DEF SpentInv, ChallengeMetOnce

\* No two verify requests ever pass on one challenge, however many overlap.
THEOREM MetOnce == Spec => []ChallengeMetOnce
    <1>1. Init => SpentInv
        BY DEF Init, SpentInv, ChallengeMetOnce, AfterChallenge, Idle
    <1>2. Inv /\ SpentInv /\ [Next]_vars => SpentInv'
        BY SpentStep
    <1> QED
        BY <1>1, <1>2, Invariance, PTL DEF Spec, SpentInv

-----------------------------------------------------------------------------
(***************************************************************************)
(* Logout is final, but for the one overlap.                               *)
(***************************************************************************)

\* What the steps note about requests only grows, and only an accepted challenge
\* is noted as met.
LEMMA HistoryStep ==
    ASSUME [Next]_vars
    PROVE  /\ overtaken \subseteq overtaken'
           /\ \/ proved' = proved
              \/ \E r \in Request : ConsumeChallenge(r) /\ Goto(r, "VerifyFactor")
    <1> DEFINE Goal == /\ overtaken \subseteq overtaken'
                       /\ \/ proved' = proved
                          \/ \E r \in Request : ConsumeChallenge(r) /\ Goto(r, "VerifyFactor")
    <1>1. CASE UNCHANGED historyVars
        BY <1>1 DEF historyVars
    <1>2. ASSUME NEW r \in Request, ArriveStep(r) PROVE Goal
        BY <1>1, <1>2 DEF ArriveStep, Signup, tokenPassword, tokenRefresh, VerifyFactor
    <1>3. ASSUME NEW r \in Request, ConsumeChallenge(r) PROVE Goal
        BY <1>3 DEF ConsumeChallenge
    <1>4. ASSUME NEW r \in Request, ContinueStep(r) PROVE Goal
        BY <1>1, <1>3, <1>4 DEF ContinueStep, UpdateLastSignIn, IssueSession, Build, GetFactor,
                                PromoteFactor, UpgradeSessionAAL, IssueRefreshToken, FindUserByID
    <1>5. ASSUME NEW s \in DOMAIN access, Logout(s) PROVE Goal
        BY <1>5 DEF Logout
    <1>6. CASE SingleStep
        BY <1>1, <1>5, <1>6 DEF SingleStep, EnrollFactor, ChallengeFactor, UnenrollFactor,
                                AdminDeleteUser, Reset, Tick
    <1> QED
        BY <1>1, <1>2, <1>4, <1>6, NextCases DEF vars

\* Users go for good, and a session is only made for a user there is.
UsersBorn == \A s \in DOMAIN owner : account[owner[s]] \in {"live", "deleted"}

\* Deleted stays deleted, whichever calls follow.
LEMMA UserStep ==
    ASSUME Inv, UsersBorn, [Next]_vars
    PROVE  /\ UsersBorn'
           /\ \A s \in DOMAIN owner : account[owner[s]] = "deleted" => account'[owner'[s]] = "deleted"
    <1> DEFINE Goal == /\ UsersBorn'
                       /\ \A s \in DOMAIN owner :
                              account[owner[s]] = "deleted" => account'[owner'[s]] = "deleted"
    <1>1. /\ account \in [User -> {"unborn", "live", "deleted"}]
          /\ owner \in [DOMAIN owner -> User]
        BY StoreFacts DEF Inv, RefreshInv, RP!GraceInv, RP!ShapeInv, RP!TypeOK
    <1>2. [R!Next]_R!vars
        BY RefreshStep
    <1>3. CASE UNCHANGED <<account, owner>>
        BY <1>3 DEF UsersBorn
    <1>4. ASSUME NEW u \in User, R!NewUser(u) PROVE Goal
        BY <1>1, <1>4 DEF R!NewUser, UsersBorn
    <1>5. ASSUME NEW u \in User, R!DeleteUser(u) PROVE Goal
        BY <1>1, <1>5 DEF R!DeleteUser, UsersBorn
    <1>6. CASE R!Reset
        BY <1>1, <1>6 DEF R!Reset, R!UserExists, UsersBorn
    <1>7. ASSUME NEW u \in User, NEW method, NEW s, NEW t, R!IssueSessionWithMethod(u, method, s, t)
          PROVE  Goal
        BY <1>1, <1>7 DEF R!IssueSessionWithMethod, R!Put, R!UserExists, UsersBorn
    <1> QED
        BY <1>2, <1>3, <1>4, <1>5, <1>6, <1>7
           DEF R!Next, R!vars, R!Tick, R!IssueRefreshToken, R!ConsumeRefreshToken,
               R!RevokeRefreshTokensBySession, R!UpgradeSessionAAL

\* A session ends by a logout or with its user.
LEMMA SessionEnds ==
    ASSUME Inv, [Next]_vars, NEW s \in DOMAIN sessions, s \notin DOMAIN sessions'
    PROVE  Logout(s) \/ account'[owner[s]] = "deleted"
    <1> DEFINE Goal == Logout(s) \/ account'[owner[s]] = "deleted"
    <1>1. /\ account \in [User -> {"unborn", "live", "deleted"}]
          /\ owner[s] \in User
          /\ sessions[s].user = owner[s] /\ account[owner[s]] = "live"
        BY StoreFacts DEF Inv, RefreshInv, RP!GraceInv, RP!ShapeInv, RP!TypeOK,
                          RP!ReferentialIntegrity, RP!UserExists
    <1>2. [R!Next]_R!vars
        BY RefreshStep
    <1>3. ASSUME NEW u \in User, R!DeleteUser(u) PROVE Goal
        BY <1>1, <1>3 DEF R!DeleteUser, R!Delete, R!Restrict, R!SessionsOfUser
    <1>4. CASE R!Reset
        BY <1>1, <1>4 DEF R!Reset, R!UserExists
    <1>5. ASSUME NEW u, NEW method, NEW x, NEW t, R!IssueSessionWithMethod(u, method, x, t)
          PROVE  FALSE
        BY <1>5 DEF R!IssueSessionWithMethod, R!Put
    <1>6. ASSUME NEW x, NEW method, R!UpgradeSessionAAL(x, method) PROVE FALSE
        <2>1. DOMAIN sessions' = DOMAIN sessions
            BY <1>6 DEF R!UpgradeSessionAAL
        <2> QED
            BY <2>1
    <1>7. CASE UNCHANGED sessions
        BY <1>7
    <1>8. ASSUME NEW x, R!RevokeRefreshTokensBySession(x) PROVE x = s
        BY <1>8 DEF R!RevokeRefreshTokensBySession, R!Delete, R!Restrict
    <1>9. ASSUME NEW x, R!RevokeRefreshTokensBySession(x) PROVE Goal
        <2>1. x = s /\ UNCHANGED <<account, minted>> /\ DOMAIN sessions' # DOMAIN sessions
            BY <1>8, <1>9 DEF R!RevokeRefreshTokensBySession
        <2>2. \E y \in DOMAIN access : Logout(y)
            <3>1. ~ UNCHANGED storeVars /\ ~ UNCHANGED refreshVars /\ ~ UNCHANGED vars
                BY <2>1 DEF storeVars, refreshVars, vars
            <3>2. ASSUME NEW r \in Request, ArriveStep(r) PROVE FALSE
                BY <3>1, <3>2, <2>1 DEF ArriveStep, Signup, tokenPassword, tokenRefresh,
                       VerifyFactor, R!NewUser, R!ConsumeRefreshToken
            <3>3. ASSUME NEW r \in Request, ContinueStep(r) PROVE FALSE
                <4>1. ~ IssueSession(r)
                    BY <3>1, <1>5 DEF IssueSession
                <4>2. ~ UpgradeSessionAAL(r)
                    BY <3>1, <1>6 DEF UpgradeSessionAAL
                <4> QED
                    BY <3>1, <3>3, <2>1, <4>1, <4>2 DEF ContinueStep, UpdateLastSignIn, Build,
                           GetFactor, ConsumeChallenge, PromoteFactor, IssueRefreshToken,
                           FindUserByID, R!IssueRefreshToken
            <3>4. ASSUME NEW u \in User, R!DeleteUser(u) PROVE FALSE
                BY <1>1, <2>1, <3>4 DEF R!DeleteUser, R!UserExists
            <3>5. CASE Reset
                BY <1>1, <2>1, <3>5 DEF Reset, R!Reset, R!UserExists
            <3>6. CASE SingleStep
                BY <3>1, <3>4, <3>5, <3>6, <2>1 DEF SingleStep, EnrollFactor, ChallengeFactor,
                       UnenrollFactor, AdminDeleteUser, Tick, R!Tick
            <3> QED
                BY <3>1, <3>2, <3>3, <3>6, NextCases
        <2>3. PICK y \in DOMAIN access : Logout(y)
            BY <2>2
        <2>4. y = s
            BY <1>8, <2>3 DEF Logout
        <2> QED
            BY <2>3, <2>4
    <1> QED
        BY <1>2, <1>3, <1>4, <1>5, <1>6, <1>7, <1>9
           DEF R!Next, R!vars, R!Tick, R!NewUser, R!IssueRefreshToken, R!ConsumeRefreshToken

\* A verify that is about to issue has a session that is still there, or was
\* noted when it was logged out, or went with its user.
LateIssue ==
    \A r \in Request :
        req[r].at = "IssueRefreshToken" =>
            \/ req[r].session \in DOMAIN sessions \cup overtaken
            \/ account[owner[req[r].session]] = "deleted"

\* Every step keeps that: the logout that takes the session away notes it.
LEMMA LateIssueStep ==
    ASSUME Inv, UsersBorn, LateIssue, [Next]_vars
    PROVE  LateIssue'
    <1> SUFFICES ASSUME NEW r \in Request, req'[r].at = "IssueRefreshToken"
                 PROVE  \/ req'[r].session \in DOMAIN sessions' \cup overtaken'
                        \/ account'[owner'[req'[r].session]] = "deleted"
        BY DEF LateIssue
    <1> DEFINE s == req[r].session
    <1>1. SameIds(r) /\ s = req'[r].session
        BY PassedOrPasses DEF AfterChallenge, SameIds
    <1>2. overtaken \subseteq overtaken'
        BY HistoryStep
    <1>3. CASE req'[r] = req[r]
        <2>1. s \in DOMAIN owner
            BY <1>3 DEF Inv, HandlerInv, RequestsKnown, KnownRequest, Verifying, AfterChallenge
        <2>2. CASE s \in overtaken
            BY <1>1, <1>2, <2>2
        <2>3. CASE account[owner[s]] = "deleted"
            BY <1>1, <2>1, <2>3, UserStep
        <2>4. CASE s \in DOMAIN sessions /\ s \notin DOMAIN sessions'
            <3>1. Logout(s) => s \in overtaken'
                BY <1>3 DEF Logout, At
            <3>2. owner'[s] = owner[s]
                BY <2>1, StoresGrow DEF Grows
            <3> QED
                BY <1>1, <2>4, <3>1, <3>2, SessionEnds
        <2>5. \/ s \in DOMAIN sessions \cup overtaken
              \/ account[owner[s]] = "deleted"
            BY <1>3 DEF LateIssue
        <2> QED
            BY <1>1, <2>2, <2>3, <2>4, <2>5
    <1>4. CASE UpgradeSessionAAL(r) /\ Goto(r, "IssueRefreshToken")
        <2>1. req \in [Request -> RequestRecord] /\ req[r] \in RequestRecord
            BY DEF Inv, HandlerInv, TypeOK
        <2>2. ~ Fail(r)
            BY <2>1 DEF Fail, Idle
        <2>3. R!UpgradeSessionAAL(s, "webauthn")
            BY <1>4, <2>2 DEF UpgradeSessionAAL
        <2>4. s \in DOMAIN sessions /\ DOMAIN sessions' = DOMAIN sessions
            BY <2>3 DEF R!UpgradeSessionAAL
        <2> QED
            BY <1>1, <2>4
    <1>5. CASE VerifyGoesOn(r)
        <2>1. req \in [Request -> RequestRecord] /\ req[r] \in RequestRecord
            BY DEF Inv, HandlerInv, TypeOK
        <2>2. ASSUME NEW call, Goto(r, call) PROVE call = "IssueRefreshToken"
            BY <2>1, <2>2 DEF Goto, RequestRecord
        <2> QED
            BY <1>4, <1>5, <2>2 DEF VerifyGoesOn
    <1> QED
        BY <1>3, <1>5, VerifyMoves DEF Verifying, AfterChallenge

\* A token is new only in three ways.
LEMMA NewTokenStep ==
    ASSUME Inv, [Next]_vars, NEW t \in DOMAIN refreshTokens', t \notin minted
    PROVE  \/ refreshTokens'[t].session \in DOMAIN sessions'
           \/ \E p \in DOMAIN refreshTokens :
                  /\ R!Consumable(p)
                  /\ refreshTokens'[t].session = refreshTokens[p].session
                  /\ UNCHANGED sessions
           \/ \E r \in Request :
                  /\ req[r].at = "IssueRefreshToken"
                  /\ R!UserExists(owner[req[r].session])
                  /\ refreshTokens'[t].session = req[r].session
                  /\ UNCHANGED sessions
    <1> DEFINE Goal ==
           \/ refreshTokens'[t].session \in DOMAIN sessions'
           \/ \E p \in DOMAIN refreshTokens :
                  /\ R!Consumable(p)
                  /\ refreshTokens'[t].session = refreshTokens[p].session
                  /\ UNCHANGED sessions
           \/ \E r \in Request :
                  /\ req[r].at = "IssueRefreshToken"
                  /\ R!UserExists(owner[req[r].session])
                  /\ refreshTokens'[t].session = req[r].session
                  /\ UNCHANGED sessions
    <1>1. t \notin DOMAIN refreshTokens
        BY StoreFacts DEF Inv
    <1>2. DOMAIN refreshTokens' # DOMAIN refreshTokens
        BY <1>1
    <1>3. ~ UNCHANGED refreshTokens
        BY <1>2
    <1>4. ASSUME NEW u, NEW method, NEW s, NEW x, R!IssueSessionWithMethod(u, method, s, x)
          PROVE  Goal
        <2>1. s \in DOMAIN sessions' /\ x = t
            BY <1>1, <1>4 DEF R!IssueSessionWithMethod, R!Put
        <2>2. refreshTokens'[t].session = s
            BY <1>4, <2>1 DEF R!IssueSessionWithMethod, R!Put, R!NewToken
        <2> QED
            BY <2>1, <2>2
    <1>5. ASSUME NEW p, NEW child, R!ConsumeRefreshToken(p, child)
          PROVE  Goal
        <2>1. p \in DOMAIN refreshTokens /\ R!Consumable(p) /\ UNCHANGED sessions
            BY <1>5 DEF R!ConsumeRefreshToken, R!Rotatable, R!Live, R!Consumable
        <2>2. child = t
            BY <1>1, <1>5 DEF R!ConsumeRefreshToken, R!Put
        <2>3. refreshTokens'[t].session = refreshTokens[p].session
            BY <1>5, <2>2 DEF R!ConsumeRefreshToken, R!Put, R!NewToken
        <2> QED
            BY <2>1, <2>3
    <1>6. ASSUME NEW r \in Request, IssueRefreshToken(r)
          PROVE  Goal
        <2>1. PICK x : R!IssueRefreshToken(Subject(req[r].session), req[r].session, x)
            BY <1>3, <1>6 DEF IssueRefreshToken, storeVars, refreshVars
        <2>2. x = t
            BY <1>1, <2>1 DEF R!IssueRefreshToken, R!Put
        <2>3. refreshTokens'[t].session = req[r].session
            BY <2>1, <2>2 DEF R!IssueRefreshToken, R!Put, R!NewToken
        <2> QED
            BY <1>6, <2>1, <2>3 DEF IssueRefreshToken, At, R!IssueRefreshToken, Subject
    <1>7. ASSUME NEW s, R!RevokeRefreshTokensBySession(s) PROVE FALSE
        BY <1>2, <1>7 DEF R!RevokeRefreshTokensBySession
    <1>8. ASSUME NEW u, R!DeleteUser(u) PROVE FALSE
        BY <1>1, <1>8 DEF R!DeleteUser, R!Delete, R!Restrict
    <1>9. CASE R!Reset
        BY <1>9 DEF R!Reset, R!EmptyMap
    <1>10. ASSUME NEW r \in Request, ArriveStep(r) PROVE Goal
        BY <1>3, <1>5, <1>10 DEF ArriveStep, Signup, tokenPassword, tokenRefresh, VerifyFactor,
               R!NewUser, storeVars, refreshVars
    <1>11. ASSUME NEW r \in Request, ContinueStep(r) PROVE Goal
        BY <1>3, <1>4, <1>6, <1>11 DEF ContinueStep, UpdateLastSignIn, IssueSession, Build,
               GetFactor, ConsumeChallenge, PromoteFactor, UpgradeSessionAAL, FindUserByID,
               R!UpgradeSessionAAL, storeVars, refreshVars
    <1>12. CASE SingleStep
        BY <1>3, <1>7, <1>8, <1>9, <1>12 DEF SingleStep, EnrollFactor, ChallengeFactor,
               UnenrollFactor, Logout, AdminDeleteUser, Reset, Tick, R!Tick, refreshVars
    <1>13. CASE UNCHANGED vars
        BY <1>3, <1>13 DEF vars, storeVars, refreshVars
    <1> QED
        BY <1>10, <1>11, <1>12, <1>13, NextCases

\* A step leaves no acceptable token of a logged out session that was not noted.
LEMMA LogoutStep ==
    ASSUME Inv, Inv', UsersBorn, LateIssue, LogoutFinal, [Next]_vars
    PROVE  LogoutFinal'
    <1> SUFFICES ASSUME NEW t \in DOMAIN refreshTokens', R!Consumable(t)'
                 PROVE  refreshTokens'[t].session \in DOMAIN sessions' \cup overtaken'
        BY DEF LogoutFinal
    <1>1. overtaken \subseteq overtaken'
        BY HistoryStep
    <1>2. CASE t \in minted
        <2>1. [RP!Next]_RP!vars /\ RP!GraceInv /\ RP!GraceInv' /\ RP!ShapeInv
            BY RefreshStep, SameRefreshNext DEF Inv, RefreshInv, RP!GraceInv
        <2>2. RP!Consumable(t)'
            BY SameConsumable, PTL
        <2>3. RP!Consumable(t)
            BY <1>2, <2>1, <2>2, RP!RefusedStep, RefreshAssumptions
        <2>4. t \in DOMAIN refreshTokens
            BY <1>2, <2>1, RP!TokenStep, RefreshAssumptions
        <2>5. refreshTokens'[t].session = refreshTokens[t].session
            BY <2>1, <2>4, RP!SessionKept, RefreshAssumptions
        <2>6. refreshTokens[t].session \in DOMAIN sessions \cup overtaken
            BY <2>3, <2>4, SameConsumable DEF LogoutFinal
        <2>7. refreshTokens[t].session \in DOMAIN sessions =>
                  refreshTokens[t].session \in DOMAIN sessions'
            BY <2>1, <2>2, <2>5, RP!SilencedStep, RefreshAssumptions
        <2> QED
            BY <1>1, <2>5, <2>6, <2>7
    <1>3. CASE t \notin minted
        <2>1. ASSUME NEW p \in DOMAIN refreshTokens, R!Consumable(p), UNCHANGED sessions,
                     refreshTokens'[t].session = refreshTokens[p].session
              PROVE  refreshTokens'[t].session \in DOMAIN sessions' \cup overtaken'
            BY <1>1, <2>1 DEF LogoutFinal
        <2>2. ASSUME NEW r \in Request, req[r].at = "IssueRefreshToken", UNCHANGED sessions,
                     R!UserExists(owner[req[r].session]),
                     refreshTokens'[t].session = req[r].session
              PROVE  refreshTokens'[t].session \in DOMAIN sessions' \cup overtaken'
            BY <1>1, <2>2 DEF LateIssue, R!UserExists
        <2> QED
            BY <1>3, <2>1, <2>2, NewTokenStep
    <1> QED
        BY <1>2, <1>3

\* After a logout no refresh token of the session is accepted, unless a verify
\* was about to issue one when the session was logged out.
THEOREM LogoutIsFinal == Spec => []LogoutFinal
    <1> DEFINE I == UsersBorn /\ LateIssue /\ LogoutFinal
    <1>1. Init => I
        <2> SUFFICES ASSUME Init PROVE I
            OBVIOUS
        <2>1. DOMAIN owner = {} /\ DOMAIN refreshTokens = {}
            BY DEF Init, R!Init, R!EmptyMap
        <2>2. \A r \in Request : req[r].at = "idle"
            BY DEF Init, Idle
        <2> QED
            BY <2>1, <2>2 DEF UsersBorn, LateIssue, LogoutFinal
    <1>2. Inv /\ Inv' /\ I /\ [Next]_vars => I'
        BY UserStep, LateIssueStep, LogoutStep
    <1>3. I => LogoutFinal
        OBVIOUS
    <1> HIDE DEF I
    <1> QED
        BY <1>1, <1>2, <1>3, Invariance, PTL DEF Spec

-----------------------------------------------------------------------------
(***************************************************************************)
(* Assurance is earned.                                                    *)
(***************************************************************************)

\* A factor keeps its user, and is verified only by a request that promotes it.
LEMMA FactorKept ==
    ASSUME Inv, [Next]_vars, NEW f \in DOMAIN factors'
    PROVE  /\ f \in enrolled => f \in DOMAIN factors /\ factors'[f].user = factors[f].user
           /\ factors'[f].status = "verified" =>
                  /\ f \in DOMAIN factors
                  /\ \/ factors[f].status = "verified"
                     \/ \E r \in Request : req[r].at = "VerifyFactor" /\ req[r].factor = f
    <1> DEFINE Kept == f \in DOMAIN factors /\ factors'[f] = factors[f]
               Goal ==
                   /\ f \in enrolled => f \in DOMAIN factors /\ factors'[f].user = factors[f].user
                   /\ factors'[f].status = "verified" =>
                          /\ f \in DOMAIN factors
                          /\ \/ factors[f].status = "verified"
                             \/ \E r \in Request : req[r].at = "VerifyFactor" /\ req[r].factor = f
    <1>1. Kept => Goal
        OBVIOUS
    <1>2. CASE UNCHANGED factors
        BY <1>1, <1>2
    <1>3. CASE UNCHANGED factorVars \/ UNCHANGED storeVars
        BY <1>2, <1>3 DEF factorVars, storeVars
    <1>4. ASSUME NEW u, NEW name, NEW g, F!EnrollFactor(u, name, g) PROVE Goal
        BY <1>1, <1>4 DEF F!EnrollFactor, F!Put
    <1>5. ASSUME NEW fs, F!deleteFactorsLocked(fs) PROVE Goal
        BY <1>1, <1>5 DEF F!deleteFactorsLocked, F!Delete, F!Restrict
    <1>6. CASE F!Reset
        BY <1>6 DEF F!Reset, F!EmptyMap
    <1>7. ASSUME NEW r \in Request, PromoteFactor(r) PROVE Goal
        <2>1. CASE F!VerifyFactor(req[r].factor)
            <3>1. factors' = [factors EXCEPT ![req[r].factor].status = "verified"]
                BY <2>1 DEF F!VerifyFactor
            <3>2. f \in DOMAIN factors
                BY <3>1
            <3>3. factors[f] \in FP!FactorRecord
                BY <3>2 DEF Inv, FactorInv, FP!TypeOK
            <3>4. CASE f = req[r].factor
                <4>1. factors'[f] = [factors[f] EXCEPT !.status = "verified"]
                    BY <3>1, <3>2, <3>4
                <4> QED
                    BY <1>7, <3>2, <3>3, <3>4, <4>1 DEF FP!FactorRecord, PromoteFactor, At
            <3>5. CASE f # req[r].factor
                BY <1>1, <3>1, <3>2, <3>5
            <3> QED
                BY <3>4, <3>5
        <2> QED
            BY <1>3, <1>7, <2>1 DEF PromoteFactor
    <1>8. ASSUME NEW r \in Request, ArriveStep(r) PROVE Goal
        BY <1>2, <1>3, <1>8 DEF ArriveStep, Signup, tokenPassword, tokenRefresh, VerifyFactor,
               F!NewUser
    <1>9. ASSUME NEW r \in Request, ContinueStep(r) PROVE Goal
        BY <1>2, <1>3, <1>7, <1>9 DEF ContinueStep, UpdateLastSignIn, IssueSession, Build,
               GetFactor, ConsumeChallenge, UpgradeSessionAAL, IssueRefreshToken, FindUserByID,
               F!ConsumeChallenge
    <1>10. CASE SingleStep
        BY <1>2, <1>3, <1>4, <1>5, <1>6, <1>10 DEF SingleStep, EnrollFactor, ChallengeFactor,
               UnenrollFactor, Logout, AdminDeleteUser, Reset, Tick, F!CreateChallenge,
               F!DeleteFactor, F!DeleteUser, F!Tick
    <1>11. CASE UNCHANGED vars
        BY <1>3, <1>11 DEF vars
    <1> QED
        BY <1>8, <1>9, <1>10, <1>11, NextCases

\* A session has aal2 only by a request that upgrades it.
LEMMA SessionRaised ==
    ASSUME Inv, [Next]_vars, NEW s \in DOMAIN sessions', sessions'[s].aal = "aal2"
    PROVE  \/ s \in DOMAIN sessions /\ sessions[s].aal = "aal2"
           \/ \E r \in Request : req[r].at = "UpgradeSessionAAL" /\ req[r].session = s
    <1> DEFINE Goal ==
            \/ s \in DOMAIN sessions /\ sessions[s].aal = "aal2"
            \/ \E r \in Request : req[r].at = "UpgradeSessionAAL" /\ req[r].session = s
    <1>1. CASE UNCHANGED sessions
        BY <1>1
    <1>2. CASE UNCHANGED refreshVars \/ UNCHANGED storeVars
        BY <1>1, <1>2 DEF refreshVars, storeVars
    <1>3. ASSUME NEW u, NEW method, NEW x, NEW t, R!IssueSessionWithMethod(u, method, x, t)
          PROVE  Goal
        BY <1>3 DEF R!IssueSessionWithMethod, R!Put
    <1>4. ASSUME NEW x, R!RevokeRefreshTokensBySession(x) PROVE Goal
        BY <1>4 DEF R!RevokeRefreshTokensBySession, R!Delete, R!Restrict
    <1>5. ASSUME NEW u, R!DeleteUser(u) PROVE Goal
        BY <1>5 DEF R!DeleteUser, R!Delete, R!Restrict
    <1>6. CASE R!Reset
        BY <1>6 DEF R!Reset, R!EmptyMap
    <1>7. ASSUME NEW r \in Request, UpgradeSessionAAL(r) PROVE Goal
        <2>1. CASE R!UpgradeSessionAAL(req[r].session, "webauthn")
            <3>1. s \in DOMAIN sessions /\ (s # req[r].session => sessions'[s] = sessions[s])
                BY <2>1 DEF R!UpgradeSessionAAL
            <3> QED
                BY <1>7, <3>1 DEF UpgradeSessionAAL, At
        <2> QED
            BY <1>2, <1>7, <2>1 DEF UpgradeSessionAAL
    <1>8. ASSUME NEW r \in Request, ArriveStep(r) PROVE Goal
        BY <1>1, <1>2, <1>8 DEF ArriveStep, Signup, tokenPassword, tokenRefresh, VerifyFactor,
               R!NewUser, R!ConsumeRefreshToken
    <1>9. ASSUME NEW r \in Request, ContinueStep(r) PROVE Goal
        BY <1>1, <1>2, <1>3, <1>7, <1>9 DEF ContinueStep, UpdateLastSignIn, IssueSession, Build,
               GetFactor, ConsumeChallenge, PromoteFactor, IssueRefreshToken, FindUserByID,
               R!IssueRefreshToken
    <1>10. CASE SingleStep
        BY <1>1, <1>2, <1>4, <1>5, <1>6, <1>10 DEF SingleStep, EnrollFactor, ChallengeFactor,
               UnenrollFactor, Logout, AdminDeleteUser, Reset, Tick, R!Tick
    <1>11. CASE UNCHANGED vars
        BY <1>2, <1>11 DEF vars
    <1> QED
        BY <1>8, <1>9, <1>10, <1>11, NextCases

\* An access token has the aal of its session, or is as it was.
LEMMA AccessRaised ==
    ASSUME Inv, [Next]_vars, NEW s \in DOMAIN access', access'[s].aal = "aal2"
    PROVE  \/ s \in DOMAIN access /\ access[s].aal = "aal2"
           \/ s \in DOMAIN sessions /\ sessions[s].aal = "aal2"
    <1> DEFINE Goal == \/ s \in DOMAIN access /\ access[s].aal = "aal2"
                       \/ s \in DOMAIN sessions /\ sessions[s].aal = "aal2"
    <1>1. CASE UNCHANGED access
        BY <1>1
    <1>2. CASE UNCHANGED clientVars
        BY <1>1, <1>2 DEF clientVars
    <1>3. ASSUME NEW r \in Request, Build(r) PROVE Goal
        <2>1. s = req[r].session => access'[s].aal = aalBuilt(s)
            BY <1>3 DEF Build, Put
        <2>2. s # req[r].session => s \in DOMAIN access /\ access'[s] = access[s]
            BY <1>3 DEF Build, Put
        <2> QED
            BY <2>1, <2>2 DEF aalBuilt
    <1>4. ASSUME NEW r \in Request, ArriveStep(r) PROVE Goal
        BY <1>2, <1>4 DEF ArriveStep, Signup, tokenPassword, tokenRefresh, VerifyFactor
    <1>5. ASSUME NEW r \in Request, ContinueStep(r) PROVE Goal
        BY <1>2, <1>3, <1>5 DEF ContinueStep, UpdateLastSignIn, IssueSession, GetFactor,
               ConsumeChallenge, PromoteFactor, UpgradeSessionAAL, IssueRefreshToken, FindUserByID
    <1>6. CASE SingleStep
        BY <1>2, <1>6 DEF SingleStep, EnrollFactor, ChallengeFactor, UnenrollFactor, Logout,
               AdminDeleteUser, Reset, Tick
    <1>7. CASE UNCHANGED vars
        BY <1>2, <1>7 DEF vars
    <1> QED
        BY <1>4, <1>5, <1>6, <1>7, NextCases

\* What a verify request has shown of its factor: that it is of the user of its
\* session, then that a challenge was met with it.
RequestsEarn ==
    \A r \in Request :
        /\ req[r].at = "ConsumeChallenge" /\ req[r].factor \in DOMAIN factors =>
               factors[req[r].factor].user = owner[req[r].session]
        /\ req[r].at \in AfterChallenge => <<req[r].session, req[r].factor>> \in proved

\* What was met stays met, with a factor of the session's own user.
ProvedOwn ==
    \A s \in DOMAIN owner, f \in DOMAIN factors : <<s, f>> \in proved => factors[f].user = owner[s]

\* Every step keeps that, and a request that passes its challenge is noted.
LEMMA ProvedStep ==
    ASSUME Inv, ProvedOwn, RequestsEarn, [Next]_vars
    PROVE  /\ ProvedOwn'
           /\ proved \subseteq proved'
           /\ \A r \in Request : req'[r].at \in AfterChallenge =>
                  <<req'[r].session, req'[r].factor>> \in proved'
    <1>1. Grows
        BY StoresGrow
    <1>2. proved \subseteq (DOMAIN owner) \X enrolled
        BY DEF Inv, HandlerInv, TypeOK
    <1>3. ASSUME NEW s, NEW f \in DOMAIN factors', <<s, f>> \in proved
          PROVE  factors'[f].user = owner'[s]
        <2>1. s \in DOMAIN owner /\ f \in enrolled
            BY <1>2, <1>3
        <2>2. f \in DOMAIN factors /\ factors'[f].user = factors[f].user
            BY <2>1, FactorKept
        <2> QED
            BY <1>1, <1>3, <2>1, <2>2 DEF ProvedOwn, Grows
    <1>4. ASSUME NEW r \in Request, ConsumeChallenge(r), Goto(r, "VerifyFactor")
          PROVE  /\ proved' = proved \cup {<<req[r].session, req[r].factor>>}
                 /\ req[r].factor \in DOMAIN factors' =>
                        factors'[req[r].factor].user = owner'[req[r].session]
        BY <1>4, AcceptedChallenge DEF RequestsEarn
    <1>5. proved \subseteq proved'
        BY <1>4, HistoryStep
    <1>6. ProvedOwn'
        <2> SUFFICES ASSUME NEW s \in DOMAIN owner', NEW f \in DOMAIN factors', <<s, f>> \in proved'
                     PROVE  factors'[f].user = owner'[s]
            BY DEF ProvedOwn
        <2>1. CASE proved' = proved
            BY <1>3, <2>1
        <2>2. ASSUME NEW r \in Request, ConsumeChallenge(r), Goto(r, "VerifyFactor")
              PROVE  factors'[f].user = owner'[s]
            <3>1. <<s, f>> \in proved \/ (s = req[r].session /\ f = req[r].factor)
                BY <1>4, <2>2
            <3> QED
                BY <1>3, <1>4, <2>2, <3>1
        <2> QED
            BY <2>1, <2>2, HistoryStep
    <1>7. ASSUME NEW r \in Request, req'[r].at \in AfterChallenge
          PROVE  <<req'[r].session, req'[r].factor>> \in proved'
        <2>1. <<req[r].session, req[r].factor>> \in proved'
            BY <1>4, <1>5, <1>7, PassedOrPasses DEF RequestsEarn
        <2> QED
            BY <1>7, <2>1, PassedOrPasses DEF SameIds
    <1> QED
        BY <1>5, <1>6, <1>7

\* So no request carries a factor of another user past the check of GetFactor.
LEMMA RequestsEarnStep ==
    ASSUME Inv, ProvedOwn, RequestsEarn, [Next]_vars
    PROVE  RequestsEarn'
    <1> SUFFICES ASSUME NEW r \in Request, req'[r].at = "ConsumeChallenge",
                        req'[r].factor \in DOMAIN factors'
                 PROVE  factors'[req'[r].factor].user = owner'[req'[r].session]
        BY ProvedStep DEF RequestsEarn
    <1> DEFINE s == req[r].session
               f == req[r].factor
    <1>1. SameIds(r) /\ (req'[r] = req[r] \/ (GetFactor(r) /\ Goto(r, "ConsumeChallenge")))
        <2>1. CASE req'[r] = req[r]
            BY <2>1 DEF SameIds
        <2>2. CASE VerifyGoesOn(r) /\ SameIds(r)
            <3>1. req \in [Request -> RequestRecord] /\ req[r] \in RequestRecord
                BY DEF Inv, HandlerInv, TypeOK
            <3>2. ASSUME NEW call, Goto(r, call) PROVE call = "ConsumeChallenge"
                BY <3>1, <3>2 DEF Goto, RequestRecord
            <3> QED
                BY <2>2, <3>2 DEF VerifyGoesOn
        <2> QED
            BY <2>1, <2>2, VerifyMoves DEF Verifying
    <1>2. s = req'[r].session /\ f = req'[r].factor
        BY <1>1 DEF SameIds
    <1>3. req[r].at \in {"GetFactor", "ConsumeChallenge"}
        BY <1>1 DEF GetFactor, At
    <1>4. s \in DOMAIN owner /\ f \in enrolled
        BY <1>3 DEF Inv, HandlerInv, RequestsKnown, KnownRequest, Verifying
    <1>5. f \in DOMAIN factors /\ factors'[f].user = factors[f].user
        BY <1>2, <1>4, FactorKept
    <1>6. owner'[s] = owner[s]
        BY <1>4, StoresGrow DEF Grows
    <1>7. factors[f].user = owner[s]
        <2>1. CASE req'[r] = req[r]
            BY <1>5, <2>1 DEF RequestsEarn
        <2>2. CASE GetFactor(r) /\ Goto(r, "ConsumeChallenge")
            <3>1. req \in [Request -> RequestRecord]
                BY DEF Inv, HandlerInv, TypeOK
            <3>2. ~ Fail(r)
                BY <3>1 DEF Fail, Idle
            <3>3. ownFactor(s, f)
                BY <2>2, <3>2 DEF GetFactor
            <3> QED
                BY <3>3 DEF ownFactor, F!FactorsOfUser, Subject
        <2> QED
            BY <1>1, <2>1, <2>2
    <1> QED
        BY <1>2, <1>5, <1>6, <1>7

\* Every verified factor, aal2 session and aal2 token stays earned.
LEMMA AssuranceStep ==
    ASSUME Inv, AssuranceEarned, RequestsEarn, [Next]_vars
    PROVE  AssuranceEarned'
    <1>1. ProvedOwn
        BY DEF AssuranceEarned, ProvedOwn
    <1>2. Grows
        BY StoresGrow
    <1>3. ProvedOwn' /\ proved \subseteq proved'
        BY <1>1, ProvedStep
    <1>4. proved \subseteq (DOMAIN owner) \X enrolled
        BY DEF Inv, HandlerInv, TypeOK
    <1>5. ASSUME NEW f \in DOMAIN factors', factors'[f].status = "verified"
          PROVE  \E s \in DOMAIN owner' : <<s, f>> \in proved' /\ owner'[s] = factors'[f].user
        <2>1. f \in DOMAIN factors
            BY <1>5, FactorKept
        <2>2. f \in enrolled
            BY <2>1, StoreFacts DEF Inv
        <2>3. PICK s : <<s, f>> \in proved
            <3>1. CASE factors[f].status = "verified"
                BY <2>1, <3>1 DEF AssuranceEarned
            <3>2. ASSUME NEW r \in Request, req[r].at = "VerifyFactor", req[r].factor = f
                  PROVE  <<req[r].session, f>> \in proved
                BY <3>2 DEF RequestsEarn, AfterChallenge
            <3> QED
                BY <1>5, <3>1, <3>2, FactorKept
        <2>4. s \in DOMAIN owner'
            BY <1>2, <1>4, <2>3 DEF Grows
        <2> QED
            BY <1>3, <2>3, <2>4 DEF ProvedOwn
    <1>6. ASSUME NEW s, s \in DOMAIN sessions /\ sessions[s].aal = "aal2"
          PROVE  \E f \in enrolled' : <<s, f>> \in proved'
        BY <1>2, <1>3, <1>6 DEF AssuranceEarned, Grows
    <1>7. ASSUME NEW s \in DOMAIN sessions', sessions'[s].aal = "aal2"
          PROVE  \E f \in enrolled' : <<s, f>> \in proved'
        <2>1. ASSUME NEW r \in Request, req[r].at = "UpgradeSessionAAL", req[r].session = s
              PROVE  \E f \in enrolled' : <<s, f>> \in proved'
            <3>1. <<s, req[r].factor>> \in proved
                BY <2>1 DEF RequestsEarn, AfterChallenge
            <3> QED
                BY <1>2, <1>3, <1>4, <3>1 DEF Grows
        <2> QED
            BY <1>6, <1>7, <2>1, SessionRaised
    <1>8. ASSUME NEW s \in DOMAIN access', access'[s].aal = "aal2"
          PROVE  \E f \in enrolled' : <<s, f>> \in proved'
        <2>1. CASE s \in DOMAIN access /\ access[s].aal = "aal2"
            BY <1>2, <1>3, <2>1 DEF AssuranceEarned, Grows
        <2> QED
            BY <1>6, <1>8, <2>1, AccessRaised
    <1> QED
        BY <1>3, <1>5, <1>7, <1>8 DEF AssuranceEarned, ProvedOwn

\* Verified factors, aal2 sessions and aal2 access tokens are there only after
\* a challenge was met with a factor of the session's own user.
THEOREM AssuranceIsEarned == Spec => []AssuranceEarned
    <1> DEFINE I == RequestsEarn /\ AssuranceEarned
    <1>1. Init => I
        <2> SUFFICES ASSUME Init PROVE I
            OBVIOUS
        <2>1. /\ DOMAIN owner = {} /\ DOMAIN sessions = {} /\ DOMAIN factors = {}
              /\ DOMAIN access = {}
            BY DEF Init, R!Init, R!EmptyMap, F!Init, F!EmptyMap, EmptyMap
        <2>2. \A r \in Request : req[r].at = "idle"
            BY DEF Init, Idle
        <2> QED
            BY <2>1, <2>2 DEF RequestsEarn, AssuranceEarned, AfterChallenge
    <1>2. Inv /\ I /\ [Next]_vars => I'
        <2>1. AssuranceEarned => ProvedOwn
            BY DEF AssuranceEarned, ProvedOwn
        <2> QED
            BY <2>1, RequestsEarnStep, AssuranceStep
    <1>3. I => AssuranceEarned
        OBVIOUS
    <1> HIDE DEF I
    <1> QED
        BY <1>1, <1>2, <1>3, Invariance, PTL DEF Spec

-----------------------------------------------------------------------------
(***************************************************************************)
(* What the stores promise, promised by the handlers: the theorems about   *)
(* the stores, carried up by Discipline.                                   *)
(***************************************************************************)

\* The handlers behave as RefreshStore does ...
LEMMA BehavesAsRefreshStore == Spec => RP!Spec
    <1>1. Init => RP!Init
        BY SameRefreshInit DEF Init
    <1>2. Inv /\ [Next]_vars => [RP!Next]_RP!vars
        BY RefreshStep, SameRefreshNext
    <1> QED
        BY <1>1, <1>2, Invariance, PTL DEF Spec, RP!Spec

\* ... and as FactorStore does.
LEMMA BehavesAsFactorStore == Spec => FP!Spec
    <1>1. Init => FP!Init
        BY SameFactorInit DEF Init
    <1>2. Inv /\ [Next]_vars => [FP!Next]_FP!vars
        BY FactorStep, SameFactorNext
    <1> QED
        BY <1>1, <1>2, Invariance, PTL DEF Spec, FP!Spec

\* However sign-ups, logins, refreshes, verifies, logouts and deletions overlap: no
\* session or token outlives its user, no token is rotated twice, a retry within
\* the reuse interval is answered with a live token, a refusal is final, every
\* stored session can be refreshed, and clients are forwarded as TokenForwarding
\* says.  The calls of several handlers between ConsumeRefreshToken and the answer
\* do not break what the store promises.
THEOREM TokensKeepTheirPromises ==
    Spec => /\ []RP!ReferentialIntegrity
            /\ []RP!NoFork
            /\ []RP!GraceAnswered
            /\ RP!RefusedForever
            /\ []RP!SessionRefreshable
            /\ RP!ForwardsToNewest
    <1>1. RP!Spec => []RP!ReferentialIntegrity
        BY RefreshAssumptions, RP!Integrity
    <1>2. RP!Spec => []RP!NoFork
        BY RefreshAssumptions, RP!RotatedOnce
    <1>3. RP!Spec => []RP!GraceAnswered
        BY RefreshAssumptions, RP!RetryAnswered
    <1>4. RP!Spec => RP!RefusedForever
        BY RefreshAssumptions, RP!RefusalIsFinal
    <1>5. RP!Spec => []RP!SessionRefreshable
        BY RefreshAssumptions, RP!NoStrandedSession
    <1>6. RP!Spec => RP!ForwardsToNewest
        BY RefreshAssumptions, RP!StoreForwards
    <1> QED
        BY <1>1, <1>2, <1>3, <1>4, <1>5, <1>6, BehavesAsRefreshStore, PTL

\* However enrolments, challenges, verifies and unenrolments overlap: factors and
\* challenges go with their user and factor, a user's factors have different names,
\* and a challenge that would be refused once is refused for ever.
THEOREM FactorsKeepTheirPromises ==
    Spec => []FP!NoOrphans /\ []FP!NamesDistinct /\ FP!SpentForever
    <1>1. FP!Spec => []FP!NoOrphans
        BY FactorAssumptions, FP!CascadesComplete
    <1>2. FP!Spec => []FP!NamesDistinct
        BY FactorAssumptions, FP!NamesAreKeys
    <1>3. FP!Spec => FP!SpentForever
        BY FactorAssumptions, FP!ChallengeSpentOnce
    <1> QED
        BY <1>1, <1>2, <1>3, BehavesAsFactorStore, PTL

-----------------------------------------------------------------------------
(***************************************************************************)
(* What liveness rests on: the calls of a request run out.                 *)
(***************************************************************************)

\* How many store calls there are at most from the one named to the answer.
CallsFrom == [idle |-> 0, Build |-> 1,
              IssueSession |-> 2, UpdateLastSignIn |-> 3,
              FindUserByID |-> 2, IssueRefreshToken |-> 3, UpgradeSessionAAL |-> 4,
              VerifyFactor |-> 5, ConsumeChallenge |-> 6, GetFactor |-> 7]

\* A call of r brings the answer of r nearer and touches no other request.
Advances(r) ==
    /\ CallsFrom[req'[r].at] < CallsFrom[req[r].at]
    /\ \A q \in Request \ {r} : req'[q] = req[q]

\* Nothing else touches a request in flight.
RequestsAdvance ==
    \A r \in Request :
        /\ Continue(r) => Advances(r)
        /\ ~Continue(r) => req'[r] = req[r] \/ req[r] = Idle

\* Every call of a handler, with each answer it may get, leads forward.
LEMMA CallAdvances ==
    ASSUME TypeOK, NEW r \in Request, Continue(r)
    PROVE  Advances(r)
    <1>0. req \in [Request -> RequestRecord] /\ req[r] \in RequestRecord
        BY DEF TypeOK
    <1>1. ASSUME NEW v, req' = [req EXCEPT ![r] = v], CallsFrom[v.at] < CallsFrom[req[r].at]
          PROVE  Advances(r)
        BY <1>0, <1>1 DEF Advances
    <1>2. ASSUME NEW call, Goto(r, call), CallsFrom[call] < CallsFrom[req[r].at]
          PROVE  Advances(r)
        <2> DEFINE v == [req[r] EXCEPT !.at = call]
        <2>1. v.at = call /\ req' = [req EXCEPT ![r] = v]
            BY <1>0, <1>2 DEF Goto, RequestRecord
        <2> HIDE DEF v
        <2> QED
            BY <1>1, <1>2, <2>1
    <1>3. ASSUME req' = [req EXCEPT ![r] = Idle], req[r].at \in Call \ {"idle"}
          PROVE  Advances(r)
        <2>1. CallsFrom[Idle.at] < CallsFrom[req[r].at]
            BY <1>3 DEF CallsFrom, Idle, Call
        <2> QED
            BY <1>1, <1>3, <2>1
    <1>4. CASE UpdateLastSignIn(r)
        BY <1>2, <1>3, <1>4 DEF UpdateLastSignIn, At, Fail, CallsFrom, Call
    <1>5. CASE IssueSession(r)
        <2>1. ASSUME NEW s, NEW t,
                     req' = [req EXCEPT ![r].at = "Build", ![r].session = s, ![r].token = t]
              PROVE  Advances(r)
            <3> DEFINE v == [req[r] EXCEPT !.at = "Build", !.session = s, !.token = t]
            <3>1. v.at = "Build" /\ req' = [req EXCEPT ![r] = v]
                BY <1>0, <2>1 DEF RequestRecord
            <3>2. req[r].at = "IssueSession"
                BY <1>5 DEF IssueSession, At
            <3>3. CallsFrom["Build"] < CallsFrom["IssueSession"]
                BY DEF CallsFrom
            <3> HIDE DEF v
            <3> QED
                BY <1>1, <3>1, <3>2, <3>3
        <2>2. req[r].at \in Call \ {"idle"}
            BY <1>5 DEF IssueSession, At, Call
        <2> QED
            BY <1>3, <1>5, <2>1, <2>2 DEF IssueSession, Fail
    <1>6. CASE Build(r)
        BY <1>3, <1>6 DEF Build, At, Call
    <1>7. CASE GetFactor(r)
        BY <1>2, <1>3, <1>7 DEF GetFactor, At, Fail, CallsFrom, Call
    <1>8. CASE ConsumeChallenge(r)
        BY <1>2, <1>3, <1>8 DEF ConsumeChallenge, At, Fail, CallsFrom, Call
    <1>9. CASE PromoteFactor(r)
        BY <1>2, <1>3, <1>9 DEF PromoteFactor, At, Fail, CallsFrom, Call
    <1>10. CASE UpgradeSessionAAL(r)
        BY <1>2, <1>3, <1>10 DEF UpgradeSessionAAL, At, Fail, CallsFrom, Call
    <1>11. CASE IssueRefreshToken(r)
        <2>1. ASSUME NEW t, req' = [req EXCEPT ![r].at = "FindUserByID", ![r].token = t]
              PROVE  Advances(r)
            <3> DEFINE v == [req[r] EXCEPT !.at = "FindUserByID", !.token = t]
            <3>1. v.at = "FindUserByID" /\ req' = [req EXCEPT ![r] = v]
                BY <1>0, <2>1 DEF RequestRecord
            <3>2. req[r].at = "IssueRefreshToken"
                BY <1>11 DEF IssueRefreshToken, At
            <3>3. CallsFrom["FindUserByID"] < CallsFrom["IssueRefreshToken"]
                BY DEF CallsFrom
            <3> HIDE DEF v
            <3> QED
                BY <1>1, <3>1, <3>2, <3>3
        <2>2. req[r].at \in Call \ {"idle"}
            BY <1>11 DEF IssueRefreshToken, At, Call
        <2> QED
            BY <1>3, <1>11, <2>1, <2>2 DEF IssueRefreshToken, Fail
    <1>12. CASE FindUserByID(r)
        BY <1>2, <1>3, <1>12 DEF FindUserByID, At, Fail, CallsFrom, Call
    <1> QED
        BY <1>4, <1>5, <1>6, <1>7, <1>8, <1>9, <1>10, <1>11, <1>12 DEF Continue

\* A request arrives in an idle place.
LEMMA ArrivesIdle ==
    ASSUME NEW r \in Request, Arrive(r), TypeOK
    PROVE  req[r] = Idle /\ \A q \in Request \ {r} : req'[q] = req[q]
    <1>1. req \in [Request -> RequestRecord]
        BY DEF TypeOK
    <1>2. \E v : req[r] = Idle /\ req' = [req EXCEPT ![r] = v]
        BY DEF Arrive, Signup, tokenPassword, tokenRefresh, VerifyFactor, Begin
    <1> QED
        BY <1>1, <1>2

\* However requests overlap, fail or find what they work on deleted, none is set
\* back or tried again: each call takes the request that makes it at least one of at
\* most seven calls nearer to its answer, and nothing else touches it.  With the
\* fairness of Spec this is why every request is answered.
THEOREM CallsRunOut == Spec => [][RequestsAdvance]_vars
    <1>1. ASSUME TypeOK, Next PROVE RequestsAdvance
        <2> SUFFICES ASSUME NEW r \in Request
                     PROVE  /\ Continue(r) => Advances(r)
                            /\ ~Continue(r) => req'[r] = req[r] \/ req[r] = Idle
            BY DEF RequestsAdvance
        <2>1. Continue(r) => Advances(r)
            BY <1>1, CallAdvances
        <2>2. ASSUME ~Continue(r) PROVE req'[r] = req[r] \/ req[r] = Idle
            <3>1. CASE Tick \/ SingleCall
                <4>1. req' = req
                    BY <3>1 DEF Tick, SingleCall, EnrollFactor, ChallengeFactor, UnenrollFactor,
                                Logout, AdminDeleteUser, Reset
                <4> QED
                    BY <4>1
            <3>2. ASSUME NEW q \in Request, Arrive(q) PROVE req'[r] = req[r] \/ req[r] = Idle
                BY <1>1, <3>2, ArrivesIdle
            <3>3. ASSUME NEW q \in Request, Continue(q) PROVE req'[r] = req[r]
                <4>1. q # r
                    BY <2>2, <3>3
                <4>2. Advances(q)
                    BY <1>1, <3>3, CallAdvances
                <4> QED
                    BY <4>1, <4>2 DEF Advances
            <3> QED
                BY <1>1, <3>1, <3>2, <3>3 DEF Next
        <2> QED
            BY <2>1, <2>2
    <1>2. TypeOK /\ [Next]_vars => [RequestsAdvance]_vars
        BY <1>1
    <1> QED
        BY <1>2, TypeCorrect, PTL DEF Spec

=============================================================================
