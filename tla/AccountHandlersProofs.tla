----------------------- MODULE AccountHandlersProofs -----------------------
(***************************************************************************)
(* Proofs about AccountHandlers, for every number of requests, users,      *)
(* identities, codes and sessions.  As in PasskeyHandlersProofs the steps  *)
(* are sorted into kinds, here by what they do to the requests, the codes  *)
(* and the sessions; what they do to the accounts comes from the proofs    *)
(* about AccountStore.                                                     *)
(***************************************************************************)
EXTENDS AccountHandlers, TLAPS

AP == INSTANCE AccountStoreProofs

\* The constants are as the theorems about AccountStore assume.
LEMMA AccountAssumptions ==
    /\ AP!NoUserAssumption /\ AP!MailboxAssumption /\ AP!NoAddressAssumption
    /\ AP!ProviderAssumption /\ AP!AuthCodeTTLAssumption /\ AP!ClockAssumption
    BY StoreAssumption
       DEF AP!NoUserAssumption, AP!MailboxAssumption, AP!NoAddressAssumption, AP!Address,
           AP!ProviderAssumption, AP!AuthCodeTTLAssumption, AP!ClockAssumption

\* AP and A are two instances of one module, so their operators are the same ...
LEMMA SameOperators ==
    /\ A!Address = AP!Address /\ A!Typed = AP!Typed
    /\ \A a : /\ A!ToLower(a) = AP!ToLower(a)
              /\ A!Registered(a) <=> AP!Registered(a)
              /\ A!FindUserByEmail(a) = AP!FindUserByEmail(a)
    BY DEF A!Address, AP!Address, A!Typed, AP!Typed, A!ToLower, AP!ToLower,
           A!Registered, AP!Registered, A!FindUserByEmail, AP!FindUserByEmail

\* ... and so are their steps ...
LEMMA SameAccountNext == [A!Next]_A!vars <=> [AP!Next]_AP!vars
    BY DEF A!vars, AP!vars, A!Next, AP!Next, A!Tick, AP!Tick, A!CreateUser, AP!CreateUser,
           A!newUserLocked, AP!newUserLocked, A!NewUserRecord, AP!NewUserRecord,
           A!WithIdentity, AP!WithIdentity, A!recomputeProviders, AP!recomputeProviders,
           A!ReuseOAuthUser, AP!ReuseOAuthUser, A!HintedOAuthUser, AP!HintedOAuthUser,
           A!SyntheticOAuthUser, AP!SyntheticOAuthUser, A!AddIdentity, AP!AddIdentity,
           A!RemoveIdentity, AP!RemoveIdentity, A!PositionOf, AP!PositionOf,
           A!SetUserMetadata, AP!SetUserMetadata, A!UpdateLastSignIn, AP!UpdateLastSignIn,
           A!CreateAuthCode, AP!CreateAuthCode, A!ConsumeAuthCode, AP!ConsumeAuthCode,
           A!DeleteUser, AP!DeleteUser, A!Reset, AP!Reset, A!Typed, AP!Typed,
           A!ToLower, AP!ToLower, A!Registered, AP!Registered,
           A!FindUserByEmail, AP!FindUserByEmail, A!UserExists, AP!UserExists,
           A!hasProvider, AP!hasProvider, A!EmptyMap, AP!EmptyMap, A!Fresh, AP!Fresh,
           A!Put, AP!Put, A!Delete, AP!Delete, A!Restrict, AP!Restrict,
           A!RemoveAt, AP!RemoveAt

\* ... and their initial states.
LEMMA SameAccountInit == A!Init <=> AP!Init
    BY DEF A!Init, AP!Init, A!EmptyMap, AP!EmptyMap

-----------------------------------------------------------------------------
(***************************************************************************)
(* The invariant.                                                          *)
(***************************************************************************)
StoreInv == AP!Inv /\ AP!LowerIndex

\* u was handed out, and holds the address as long as it is stored.
Settled(u, a) ==
    /\ u \in created /\ a \in A!Address
    /\ u \in DOMAIN users => users[u].email = a

\* A code that was accepted is gone.
Accepted(c, u) ==
    c \in DOMAIN coded /\ c \notin DOMAIN authCodes /\ coded[c] = u

Stamped(u) == u \in DOMAIN users => users[u].signedIn

\* What a request in flight carries: a user under its address, and the code that
\* the user was found by.
Informed(q) ==
    /\ q.at # "idle" => Settled(q.user, q.address)
    /\ q.at = "SetUserMetadata" => q.metadata \in Metadata
    /\ q.code # None =>
           /\ q.at \in {"UpdateLastSignIn", "IssueSession"}
           /\ Accepted(q.code, q.user)
           /\ q.at = "IssueSession" => Stamped(q.user)

RequestsInformed == \A r \in Request : Informed(req[r])

\* The histories agree with what the store keeps.
HistoryAgrees ==
    /\ \A c \in DOMAIN authCodes : authCodes[c].user = coded[c]
    /\ \A c \in DOMAIN coded : Settled(coded[c], addressOf[c])
    /\ \A s \in DOMAIN owner : Settled(owner[s], signedInBy[s])

\* An accepted code stands behind one request or one session.
SpentOnce ==
    /\ \A r, q \in Request : req[r].code # None /\ req[q].code = req[r].code => q = r
    /\ \A s \in DOMAIN exchanged :
           /\ exchanged[s] \notin DOMAIN authCodes
           /\ \A r \in Request : req[r].code # exchanged[s]

HandlerInv == TypeOK /\ RequestsInformed /\ HistoryAgrees /\ SpentOnce /\ CodeExchangedOnce

Inv == StoreInv /\ HandlerInv

-----------------------------------------------------------------------------
(***************************************************************************)
(* The handlers as clients of the two stores.                              *)
(***************************************************************************)
\* What the types say of a request in flight.
LEMMA RequestFacts ==
    ASSUME Inv, NEW r \in Request, req[r].at # "idle"
    PROVE  /\ req[r] \in RequestRecord
           /\ req[r].user \in created /\ created \subseteq User
           /\ req[r].address \in A!Address
           /\ req[r].at = "SetUserMetadata" => req[r].metadata \in Metadata
           /\ req[r].at = "AddIdentity" => req[r].seeds # <<>>
    BY DEF Inv, HandlerInv, TypeOK, RequestsInformed, Informed, Settled, StoreInv, AP!Inv,
           AP!TypeOK, At

\* A seed that is added names a provider.
LEMMA SeededProvider ==
    ASSUME Inv, NEW r \in Request, At(r, "AddIdentity"), Head(req[r].seeds) # NoProvider
    PROVE  Head(req[r].seeds) \in Provider
    <1>1. req[r].seeds \in Seq(Provider \cup {NoProvider}) /\ req[r].seeds # <<>>
        BY RequestFacts DEF At, RequestRecord
    <1> QED
        BY <1>1

\* Every step is a step of AccountStore or leaves it alone.
LEMMA AccountStep ==
    ASSUME Inv, [Next]_vars
    PROVE  [A!Next]_A!vars
    <1> DEFINE Kept == UNCHANGED A!vars
    <1>1. UNCHANGED <<accountVars, now>> => Kept
        BY DEF accountVars, A!vars
    <1>2. \A S : A!Fresh(S) = Fresh(S)
        BY DEF A!Fresh, Fresh
    <1>3. ASSUME NEW r \in Request, Arrive(r) PROVE [A!Next]_A!vars
        <2>1. ASSUME NEW a \in A!Typed, NEW u \in Fresh(User \ created),
                     NEW id \in Fresh(IdentityId \ linked), A!CreateUser(a, u, id)
              PROVE  A!Next
            BY <1>2, <2>1 DEF A!Next
        <2>2. ASSUME NEW a \in A!Typed, NEW data, Signup(r, a, data) PROVE A!Next
            BY <2>1, <2>2 DEF Signup
        <2>3. ASSUME NEW a \in A!Typed, NEW seeds, SeedUser(r, a, seeds) PROVE A!Next
            BY <2>1, <2>3 DEF SeedUser
        <2>4. ASSUME NEW a, tokenPassword(r, a) PROVE Kept
            BY <1>1, <2>4 DEF tokenPassword, storeVars
        <2>5. ASSUME NEW p \in Provider, NEW hint \in A!Typed \cup {NoAddress}, Authorize(r, p, hint)
              PROVE  A!Next
            <3>1. ASSUME NEW id \in Fresh(IdentityId \ linked), A!ReuseOAuthUser(p, hint, id)
                  PROVE  A!Next
                <4>1. hint \in A!Typed
                    BY <3>1 DEF A!ReuseOAuthUser
                <4> QED
                    BY <1>2, <3>1, <4>1 DEF A!Next
            <3>2. ASSUME NEW u \in Fresh(User \ created), NEW id \in Fresh(IdentityId \ linked),
                         A!HintedOAuthUser(p, hint, u, id)
                  PROVE  A!Next
                <4>1. hint \in A!Typed
                    BY <3>2 DEF A!HintedOAuthUser
                <4> QED
                    BY <1>2, <3>2, <4>1 DEF A!Next
            <3>3. ASSUME NEW u \in Fresh(User \ created), NEW id \in Fresh(IdentityId \ linked),
                         NEW box \in Fresh(Synthetic \ synthesized), A!SyntheticOAuthUser(p, box, u, id)
                  PROVE  A!Next
                BY <1>2, <3>3 DEF A!Next
            <3> QED
                BY <2>5, <3>1, <3>2, <3>3 DEF Authorize
        <2>6. ASSUME NEW c \in DOMAIN coded, tokenPKCE(r, c) PROVE A!Next
            <3>1. c \in Code
                BY DEF Inv, StoreInv, AP!Inv, AP!TypeOK
            <3> QED
                BY <2>6, <3>1 DEF tokenPKCE, A!Next
        <2> QED
            BY <1>3, <2>2, <2>3, <2>4, <2>5, <2>6 DEF Arrive
    <1>4. ASSUME NEW r \in Request, Continue(r) PROVE [A!Next]_A!vars
        <2> DEFINE u == req[r].user
        <2>1. req[r].at # "idle" => u \in User
            BY RequestFacts
        <2>2. CASE SetUserMetadata(r)
            <3>1. u \in User /\ req[r].metadata \in Metadata
                BY <2>1, <2>2, RequestFacts DEF SetUserMetadata, At
            <3>2. CASE A!SetUserMetadata(u, req[r].metadata)
                BY <3>1, <3>2 DEF A!Next
            <3> QED
                BY <1>1, <2>2, <3>2 DEF SetUserMetadata
        <2>3. CASE AddIdentity(r)
            <3> DEFINE p == Head(req[r].seeds)
            <3>1. ASSUME Addable(u, p), NEW id \in Fresh(IdentityId \ linked), A!AddIdentity(u, p, id)
                  PROVE  A!Next
                <4>1. u \in User /\ p \in Provider
                    BY <2>1, <2>3, <3>1, SeededProvider DEF AddIdentity, At, Addable
                <4> QED
                    BY <1>2, <3>1, <4>1 DEF A!Next
            <3> QED
                BY <1>1, <2>3, <3>1 DEF AddIdentity
        <2>4. CASE CreateAuthCode(r)
            <3>1. u \in User
                BY <2>1, <2>4 DEF CreateAuthCode, At
            <3>2. ASSUME NEW c \in Fresh(Code \ DOMAIN coded), A!CreateAuthCode(u, c)
                  PROVE  A!Next
                BY <1>2, <3>1, <3>2 DEF A!Next
            <3> QED
                BY <1>1, <2>4, <3>2 DEF CreateAuthCode
        <2>5. CASE UpdateLastSignIn(r)
            <3>1. u \in User
                BY <2>1, <2>5 DEF UpdateLastSignIn, At
            <3>2. CASE A!UpdateLastSignIn(u)
                BY <3>1, <3>2 DEF A!Next
            <3> QED
                BY <1>1, <2>5, <3>2 DEF UpdateLastSignIn
        <2>6. CASE IssueSession(r)
            <3>1. ASSUME NEW method, NEW s, NEW t, R!IssueSessionWithMethod(u, method, s, t),
                         UNCHANGED accountVars
                  PROVE  Kept
                BY <1>1, <3>1 DEF R!IssueSessionWithMethod
            <3> QED
                BY <1>1, <2>6, <3>1 DEF IssueSession, storeVars
        <2> QED
            BY <1>4, <2>2, <2>3, <2>4, <2>5, <2>6 DEF Continue
    <1>5. CASE SingleCall
        <2>1. ASSUME NEW u \in User, AdminDeleteUser(u) PROVE A!Next
            BY <2>1 DEF AdminDeleteUser, A!Next
        <2>2. ASSUME NEW u \in User, NEW id \in linked, UnlinkIdentity(u, id) PROVE A!Next
            BY <2>2 DEF UnlinkIdentity, A!Next
        <2>3. CASE Reset
            BY <2>3 DEF Reset, A!Next
        <2> QED
            BY <1>5, <2>1, <2>2, <2>3 DEF SingleCall
    <1>6. CASE Tick
        BY <1>6 DEF Tick, A!Next
    <1>7. CASE UNCHANGED vars
        BY <1>1, <1>7 DEF vars, storeVars
    <1> QED
        BY <1>3, <1>4, <1>5, <1>6, <1>7 DEF Next

\* So the store keeps its own invariant, and a user its address.
LEMMA StoreStep ==
    ASSUME Inv, [Next]_vars
    PROVE  StoreInv' /\ AP!Stays
    <1>1. [AP!Next]_AP!vars
        BY AccountStep, SameAccountNext
    <1> QED
        BY <1>1, AccountAssumptions, AP!InvStep, AP!LowerIndexStep, AP!StaysStep DEF Inv, StoreInv

\* The users of RefreshStore change when the map of users gains or loses an id.
LEMMA SameUsers ==
    ASSUME DOMAIN users' = DOMAIN users, created' = created
    PROVE  Account' = Account
    BY DEF Account

\* A call that edits a user, or none, leaves RefreshStore alone.
LEMMA EditLeaves ==
    ASSUME Inv, UNCHANGED refreshVars, UNCHANGED now, UNCHANGED created,
           \/ UNCHANGED users
           \/ \E u \in DOMAIN users : \E r : users' = [users EXCEPT ![u] = r]
    PROVE  UNCHANGED R!vars
    <1>1. DOMAIN users' = DOMAIN users
        OBVIOUS
    <1> QED
        BY <1>1, SameUsers DEF R!vars, refreshVars

\* A new user of AccountStore is a new one of RefreshStore.
LEMMA NewUserIsNew ==
    ASSUME Inv, NEW a, NEW p, NEW id, NEW password, NEW u \in User,
           A!newUserLocked(a, p, id, password, u),
           UNCHANGED refreshVars, UNCHANGED now
    PROVE  R!Next
    <1>1. /\ u \notin created /\ created' = created \cup {u}
          /\ DOMAIN users' = DOMAIN users \cup {u}
        BY DEF A!newUserLocked, A!Put
    <1>2. DOMAIN users \subseteq created
        BY DEF Inv, StoreInv, AP!Inv, AP!TypeOK
    <1>3. Account[u] = "unborn" /\ Account' = [Account EXCEPT ![u] = "live"]
        BY <1>1, <1>2 DEF Account
    <1>4. R!NewUser(u)
        BY <1>3 DEF R!NewUser, refreshVars
    <1> QED
        BY <1>4 DEF R!Next

\* Every step is one of RefreshStore or leaves it alone.
LEMMA RefreshStep ==
    ASSUME Inv, [Next]_vars
    PROVE  [R!Next]_R!vars
    <1> DEFINE Kept == UNCHANGED R!vars
    <1>1. UNCHANGED storeVars => Kept
        BY EditLeaves DEF storeVars, accountVars
    <1>2. ASSUME NEW r \in Request, Arrive(r) PROVE [R!Next]_R!vars
        <2>1. ASSUME NEW a, NEW u \in Fresh(User \ created), NEW id, A!CreateUser(a, u, id),
                     UNCHANGED refreshVars
              PROVE  R!Next
            <3>1. u \in User
                BY DEF Fresh
            <3> QED
                BY <2>1, <3>1, NewUserIsNew DEF A!CreateUser
        <2>2. ASSUME NEW a, NEW data, Signup(r, a, data) PROVE R!Next
            BY <2>1, <2>2 DEF Signup
        <2>3. ASSUME NEW a, NEW seeds, SeedUser(r, a, seeds) PROVE R!Next
            BY <2>1, <2>3 DEF SeedUser
        <2>4. ASSUME NEW a, tokenPassword(r, a) PROVE Kept
            BY <1>1, <2>4 DEF tokenPassword
        <2>5. ASSUME NEW p \in Provider, NEW hint, Authorize(r, p, hint) PROVE [R!Next]_R!vars
            <3>1. ASSUME NEW id, A!ReuseOAuthUser(p, hint, id)
                  PROVE  Kept
                <4>1. DOMAIN users' = DOMAIN users /\ UNCHANGED <<created, now>>
                    BY <3>1 DEF A!ReuseOAuthUser
                <4> QED
                    BY <2>5, <4>1, SameUsers DEF Authorize, R!vars, refreshVars
            <3>2. ASSUME NEW u \in Fresh(User \ created), NEW id, NEW box,
                         A!HintedOAuthUser(p, hint, u, id) \/ A!SyntheticOAuthUser(p, box, u, id)
                  PROVE  R!Next
                <4>1. u \in User
                    BY DEF Fresh
                <4> QED
                    BY <2>5, <3>2, <4>1, NewUserIsNew
                       DEF Authorize, A!HintedOAuthUser, A!SyntheticOAuthUser
            <3> QED
                BY <2>5, <3>1, <3>2 DEF Authorize
        <2>6. ASSUME NEW c, tokenPKCE(r, c) PROVE Kept
            BY <2>6, EditLeaves DEF tokenPKCE, A!ConsumeAuthCode
        <2> QED
            BY <1>2, <2>2, <2>3, <2>4, <2>5, <2>6 DEF Arrive
    <1>3. ASSUME NEW r \in Request, Continue(r) PROVE [R!Next]_R!vars
        <2> DEFINE u == req[r].user
        <2>1. ASSUME DOMAIN users' = DOMAIN users, UNCHANGED <<created, now, refreshVars>> PROVE Kept
            BY <2>1, SameUsers DEF R!vars, refreshVars
        <2>2. CASE SetUserMetadata(r)
            BY <2>1, <2>2 DEF SetUserMetadata, A!SetUserMetadata, accountVars
        <2>3. CASE AddIdentity(r)
            BY <2>1, <2>3 DEF AddIdentity, A!AddIdentity, accountVars
        <2>4. CASE CreateAuthCode(r)
            BY <2>1, <2>4 DEF CreateAuthCode, A!CreateAuthCode, accountVars
        <2>5. CASE UpdateLastSignIn(r)
            BY <2>1, <2>5 DEF UpdateLastSignIn, A!UpdateLastSignIn, accountVars
        <2>6. CASE IssueSession(r)
            <3>1. u \in User
                BY <2>6, RequestFacts DEF IssueSession, At
            <3>2. ASSUME NEW s \in Fresh(Session \ DOMAIN owner), NEW t \in Fresh(Token \ minted),
                         NEW method \in {"oauth", "password"}, R!IssueSessionWithMethod(u, method, s, t)
                  PROVE  R!Next
                <4>1. s \in R!Fresh(Session \ DOMAIN owner) /\ t \in R!Fresh(Token \ minted)
                      /\ method \in Method
                    BY MethodsAssumption DEF R!Fresh, Fresh
                <4> QED
                    BY <3>1, <3>2, <4>1 DEF R!Next
            <3> QED
                BY <1>1, <2>6, <3>2 DEF IssueSession
        <2> QED
            BY <1>3, <2>2, <2>3, <2>4, <2>5, <2>6 DEF Continue
    <1>4. CASE SingleCall
        <2>1. ASSUME NEW u \in User, AdminDeleteUser(u) PROVE R!Next
            BY <2>1 DEF AdminDeleteUser, R!Next
        <2>2. ASSUME NEW u \in User, NEW id, UnlinkIdentity(u, id) PROVE Kept
            <3>1. DOMAIN users' = DOMAIN users /\ UNCHANGED <<created, now, refreshVars>>
                BY <2>2 DEF UnlinkIdentity, A!RemoveIdentity
            <3> QED
                BY <3>1, SameUsers DEF R!vars, refreshVars
        <2>3. CASE Reset
            BY <2>3 DEF Reset, R!Next
        <2> QED
            BY <1>4, <2>1, <2>2, <2>3 DEF SingleCall
    <1>5. CASE Tick
        BY <1>5, SameUsers DEF Tick, A!Tick, R!Tick, R!Next, refreshVars
    <1>6. CASE UNCHANGED vars
        BY <1>1, <1>6 DEF vars
    <1> QED
        BY <1>2, <1>3, <1>4, <1>5, <1>6 DEF Next

-----------------------------------------------------------------------------
(***************************************************************************)
(* The kinds of steps.                                                     *)
(***************************************************************************)
\* A part of a map is left.
PartOf(map, whole) ==
    DOMAIN map \subseteq DOMAIN whole /\ \A k \in DOMAIN map : map[k] = whole[k]

\* Users and codes may go; the requests do not notice yet.
Elsewhere ==
    /\ PartOf(authCodes', authCodes)
    /\ UNCHANGED <<coded, owner, req, historyVars>>

\* A request arrives, goes on or is answered, with no code but its own.
Proceeds(r) ==
    /\ \E v \in RequestRecord :
           /\ v.code \in {None, req[r].code}
           /\ v.at = "AddIdentity" <=> v.seeds # <<>>
           /\ Informed(v)'
           /\ req' = [req EXCEPT ![r] = v]
    /\ UNCHANGED <<authCodes, coded, owner, historyVars>>

\* A pkce grant arrives, and its code is accepted.
Accepts(r, c) ==
    /\ c \in DOMAIN authCodes
    /\ authCodes' = Delete(authCodes, {c})
    /\ \E v \in RequestRecord :
           /\ v.at = "UpdateLastSignIn" /\ v.seeds = <<>>
           /\ v.user = coded[c] /\ v.address = addressOf[c] /\ v.code = c
           /\ req' = [req EXCEPT ![r] = v]
    /\ UNCHANGED <<coded, owner, historyVars>>

\* An authorization ends in a new code.
Mints(r, c) ==
    /\ req[r].at = "CreateAuthCode"
    /\ c \in Code \ DOMAIN coded
    /\ authCodes' = Put(authCodes, c, [user |-> req[r].user, expiresAt |-> now + AuthCodeTTL])
    /\ coded' = Put(coded, c, req[r].user)
    /\ addressOf' = Put(addressOf, c, req[r].address)
    /\ req' = [req EXCEPT ![r] = Idle]
    /\ UNCHANGED <<owner, signedInBy, exchanged>>

\* A login ends in a new session.
SignsIn(r, s) ==
    /\ req[r].at = "IssueSession"
    /\ s \notin DOMAIN owner
    /\ owner' = Put(owner, s, req[r].user)
    /\ signedInBy' = Put(signedInBy, s, req[r].address)
    /\ exchanged' = IF req[r].code # None THEN Put(exchanged, s, req[r].code) ELSE exchanged
    /\ req' = [req EXCEPT ![r] = Idle]
    /\ UNCHANGED <<authCodes, coded, addressOf>>

RequestStep(r) ==
    \/ Proceeds(r)
    \/ \E c \in Code : Accepts(r, c) \/ Mints(r, c)
    \/ \E s \in Session : SignsIn(r, s)

\* A request that is answered leaves nothing behind.
LEMMA IdleInformed ==
    /\ Idle \in RequestRecord /\ Idle.at = "idle" /\ Idle.code = None /\ Idle.seeds = <<>>
    /\ Informed(Idle)
    BY DEF Idle, RequestRecord, Informed

\* So being answered is a way to proceed.
LEMMA AnswerProceeds ==
    ASSUME NEW r \in Request, req' = [req EXCEPT ![r] = Idle],
           UNCHANGED <<authCodes, coded, owner, historyVars>>
    PROVE  Proceeds(r)
    <1>1. PICK v \in RequestRecord : v = Idle
        BY IdleInformed
    <1>2. v.code = None /\ v.at # "AddIdentity" /\ v.seeds = <<>> /\ Informed(v)'
        BY <1>1, IdleInformed DEF Idle, Informed
    <1> QED
        BY <1>1, <1>2 DEF Proceeds

\* A request that goes on keeps its user, its address and its code.
LEMMA GoingOnProceeds ==
    ASSUME Inv, AP!Stays, NEW r \in Request, req[r].at # "idle",
           NEW v \in RequestRecord, req' = [req EXCEPT ![r] = v],
           v.user = req[r].user, v.address = req[r].address, v.code = req[r].code,
           v.at = "AddIdentity" <=> v.seeds # <<>>,
           v.at # "SetUserMetadata",
           v.code # None => v.at = "IssueSession",
           v.code # None => \A u \in DOMAIN users' : u = v.user => users'[u].signedIn,
           UNCHANGED <<authCodes, coded, owner, historyVars>>
    PROVE  Proceeds(r)
    <1>1. Informed(req[r])
        BY DEF Inv, HandlerInv, RequestsInformed
    <1>2. Informed(v)'
        BY <1>1 DEF Informed, Settled, Accepted, Stamped, AP!Stays, AP!Follows
    <1> QED
        BY <1>2 DEF Proceeds

\* A request that arrives with a user it found or made proceeds.
LEMMA ArrivalProceeds ==
    ASSUME Inv, NEW r \in Request, NEW v \in RequestRecord, req' = [req EXCEPT ![r] = v],
           v.code = None, v.at = "AddIdentity" <=> v.seeds # <<>>,
           Settled(v.user, v.address)',
           v.at = "SetUserMetadata" => v.metadata \in Metadata,
           UNCHANGED <<authCodes, coded, owner, historyVars>>
    PROVE  Proceeds(r)
    <1>1. Informed(v)'
        BY DEF Informed
    <1> QED
        BY <1>1 DEF Proceeds

\* A new user holds its address.
LEMMA NewHolder ==
    ASSUME Inv, NEW a \in A!Address, NEW p \in Provider, NEW id \in Fresh(IdentityId \ linked),
           NEW password \in BOOLEAN, NEW u \in Fresh(User \ created),
           A!newUserLocked(a, p, id, password, u)
    PROVE  Settled(u, a)' /\ users'[u].email = a /\ u \in User
    <1> DEFINE account == A!NewUserRecord(a, p, id, password)
    <1>1. account.email = a
        BY DEF A!NewUserRecord, A!WithIdentity, A!recomputeProviders
    <1>2. users' = A!Put(users, u, account) /\ created' = created \cup {u}
        BY DEF A!newUserLocked
    <1> HIDE DEF account
    <1>3. users'[u].email = a /\ u \in User
        BY <1>1, <1>2 DEF A!Put, Fresh
    <1> QED
        BY <1>2, <1>3 DEF Settled

\* What clients send is an address, lowered or not.
LEMMA TypedAddress ==
    ASSUME Inv, NEW a \in A!Typed
    PROVE  a \in A!Address /\ A!ToLower(a) \in A!Address
    BY AccountAssumptions, SameOperators, AP!TypedAddresses, AP!Lowered DEF Inv, StoreInv

\* Sign-up and seeding.
LEMMA SignupKinds ==
    ASSUME Inv, NEW r \in Request, NEW a \in A!Typed,
           \/ \E data \in Metadata \cup {NoMetadata} : Signup(r, a, data)
           \/ \E seeds \in SeedLists : SeedUser(r, a, seeds)
    PROVE  Elsewhere \/ Proceeds(r)
    <1>1. ASSUME NEW u \in Fresh(User \ created), NEW id \in Fresh(IdentityId \ linked),
                 A!CreateUser(a, u, id), UNCHANGED <<refreshVars, historyVars>>
          PROVE  /\ Settled(u, A!ToLower(a))' /\ u \in User /\ A!ToLower(a) \in A!Address
                 /\ UNCHANGED <<authCodes, coded, owner, historyVars>>
        <2>1. A!newUserLocked(A!ToLower(a), "email", id, TRUE, u)
            BY <1>1 DEF A!CreateUser
        <2>2. "email" \in Provider
            BY StoreAssumption
        <2>3. Settled(u, A!ToLower(a))' /\ u \in User /\ A!ToLower(a) \in A!Address
            BY <2>1, <2>2, NewHolder, TypedAddress
        <2> QED
            BY <1>1, <2>3 DEF A!CreateUser, refreshVars
    <1>2. ASSUME NEW data \in Metadata \cup {NoMetadata}, Signup(r, a, data)
          PROVE  Proceeds(r)
        <2>1. PICK u \in Fresh(User \ created), id \in Fresh(IdentityId \ linked) :
                  /\ A!CreateUser(a, u, id)
                  /\ Begin(r, [Idle EXCEPT !.at = IF data = NoMetadata THEN "IssueSession"
                                                  ELSE "SetUserMetadata",
                                           !.user = u, !.address = A!ToLower(a), !.metadata = data])
            BY <1>2 DEF Signup
        <2>2. /\ Settled(u, A!ToLower(a))' /\ u \in User /\ A!ToLower(a) \in A!Address
              /\ UNCHANGED <<authCodes, coded, owner, historyVars>>
            BY <1>1, <1>2, <2>1 DEF Signup
        <2> DEFINE call == IF data = NoMetadata THEN "IssueSession" ELSE "SetUserMetadata"
                   v == [Idle EXCEPT !.at = call,
                                     !.user = u, !.address = A!ToLower(a), !.metadata = data]
        <2>4. req' = [req EXCEPT ![r] = v]
            BY <2>1 DEF Begin
        <2>6. call \in LoggingIn /\ call # "AddIdentity" /\ (call = "SetUserMetadata" => data \in Metadata)
            BY DEF LoggingIn
        <2> HIDE DEF call
        <2>3. /\ v \in RequestRecord /\ v.code = None /\ v.seeds = <<>> /\ v.at = call
              /\ v.user = u /\ v.address = A!ToLower(a) /\ v.metadata = data
            <3>1. u \in User /\ A!ToLower(a) \in A!Address
                BY <2>2
            <3> QED
                BY <2>6, <3>1, IdleInformed DEF RequestRecord
        <2>5. Settled(v.user, v.address)'
            BY <2>2, <2>3
        <2> HIDE DEF v
        <2> QED
            BY <2>2, <2>3, <2>4, <2>5, <2>6, ArrivalProceeds
    <1>3. ASSUME NEW seeds \in SeedLists, SeedUser(r, a, seeds)
          PROVE  Elsewhere \/ Proceeds(r)
        <2>1. PICK u \in Fresh(User \ created), id \in Fresh(IdentityId \ linked) :
                  /\ A!CreateUser(a, u, id)
                  /\ IF seeds = <<>>
                     THEN UNCHANGED req
                     ELSE Begin(r, [Idle EXCEPT !.at = "AddIdentity", !.user = u,
                                                !.address = A!ToLower(a), !.seeds = seeds])
            BY <1>3 DEF SeedUser
        <2>2. /\ Settled(u, A!ToLower(a))' /\ u \in User /\ A!ToLower(a) \in A!Address
              /\ UNCHANGED <<authCodes, coded, owner, historyVars>>
            BY <1>1, <1>3, <2>1 DEF SeedUser
        <2>3. CASE seeds = <<>>
            BY <2>1, <2>2, <2>3 DEF Elsewhere, PartOf
        <2>4. CASE seeds # <<>>
            <3> DEFINE v == [Idle EXCEPT !.at = "AddIdentity", !.user = u,
                                         !.address = A!ToLower(a), !.seeds = seeds]
            <3>1. seeds \in Seq(Provider \cup {NoProvider})
                <4>1. PICK n \in 0..MaxSeeds : seeds \in [1..n -> Provider \cup {NoProvider}]
                    BY DEF SeedLists
                <4>2. n \in Nat
                    BY SeedAssumption
                <4> QED
                    BY <4>1, <4>2
            <3>2. /\ v \in RequestRecord /\ v.code = None /\ v.seeds = seeds /\ v.at = "AddIdentity"
                  /\ v.user = u /\ v.address = A!ToLower(a)
                BY <2>2, <3>1 DEF Idle, RequestRecord, LoggingIn
            <3>3. req' = [req EXCEPT ![r] = v]
                BY <2>1, <2>4 DEF Begin
            <3>4. Settled(v.user, v.address)'
                BY <2>2, <3>2
            <3> HIDE DEF v
            <3> QED
                BY <2>2, <2>4, <3>2, <3>3, <3>4, ArrivalProceeds
        <2> QED
            BY <2>3, <2>4
    <1> QED
        BY <1>2, <1>3

\* The holder of a registered address stays its holder in this call.
LEMMA HolderSettled ==
    ASSUME Inv, AP!Stays, NEW a \in A!Address, NEW u, u = A!FindUserByEmail(a), A!Registered(a)
    PROVE  Settled(u, A!ToLower(a))' /\ u \in User /\ A!ToLower(a) \in A!Address
    <1>0. AP!Inv /\ AP!LowerIndex
        BY DEF Inv, StoreInv
    <1>1. AP!FindUserByEmail(a) \in DOMAIN users /\ users[AP!FindUserByEmail(a)].email = AP!ToLower(a)
        BY <1>0, SameOperators, AccountAssumptions, AP!HolderFound
    <1>2. A!ToLower(a) \in A!Address
        BY SameOperators, AccountAssumptions, AP!Lowered
    <1>3. u \in DOMAIN users /\ users[u].email = A!ToLower(a) /\ u \in created /\ u \in User
        BY <1>0, <1>1, SameOperators DEF AP!Inv, AP!TypeOK
    <1> DEFINE lowered == A!ToLower(a)
    <1> HIDE DEF lowered
    <1>4. users[u].email = lowered /\ lowered \in A!Address
        BY <1>2, <1>3 DEF lowered
    <1>5. Settled(u, lowered)'
        BY <1>3, <1>4 DEF Settled, AP!Stays, AP!Follows
    <1> QED
        BY <1>2, <1>3, <1>5 DEF lowered

\* OAuth sign-in.
LEMMA AuthorizeKinds ==
    ASSUME Inv, AP!Stays, NEW r \in Request, NEW p \in Provider, NEW hint \in A!Typed \cup {NoAddress},
           Authorize(r, p, hint)
    PROVE  Proceeds(r)
    <1>1. ASSUME NEW u \in User, NEW a \in A!Address, Settled(u, a)',
                 Begin(r, [Idle EXCEPT !.at = "CreateAuthCode", !.user = u, !.address = a]),
                 UNCHANGED <<authCodes, coded>>
          PROVE  Proceeds(r)
        <2> DEFINE v == [Idle EXCEPT !.at = "CreateAuthCode", !.user = u, !.address = a]
        <2>1. /\ v \in RequestRecord /\ v.code = None /\ v.seeds = <<>> /\ v.at = "CreateAuthCode"
              /\ v.user = u /\ v.address = a
            BY IdleInformed DEF RequestRecord
        <2>2. req' = [req EXCEPT ![r] = v]
            BY <1>1 DEF Begin
        <2>3. Settled(v.user, v.address)'
            BY <1>1, <2>1
        <2>4. UNCHANGED <<authCodes, coded, owner, historyVars>>
            BY <1>1 DEF Authorize, refreshVars
        <2> HIDE DEF v
        <2> QED
            BY <2>1, <2>2, <2>3, <2>4, ArrivalProceeds
    <1>2. ASSUME NEW id \in Fresh(IdentityId \ linked), A!ReuseOAuthUser(p, hint, id),
                 Begin(r, [Idle EXCEPT !.at = "CreateAuthCode", !.user = A!FindUserByEmail(hint),
                                       !.address = A!ToLower(hint)])
          PROVE  Proceeds(r)
        <2>1. /\ hint \in A!Typed /\ A!Registered(hint) /\ UNCHANGED <<authCodes, coded>>
            BY <1>2 DEF A!ReuseOAuthUser
        <2>2. hint \in A!Address
            BY <2>1, TypedAddress
        <2>3. PICK u, a : u = A!FindUserByEmail(hint) /\ a = A!ToLower(hint)
            OBVIOUS
        <2>4. Settled(u, A!ToLower(hint))' /\ u \in User /\ a \in A!Address
            BY <2>1, <2>2, <2>3, HolderSettled
        <2>5. Settled(u, a)'
            BY <2>3, <2>4
        <2> QED
            BY <1>1, <1>2, <2>1, <2>3, <2>4, <2>5
    <1>3. ASSUME NEW u \in Fresh(User \ created), NEW id \in Fresh(IdentityId \ linked),
                 NEW a \in A!Address, A!newUserLocked(a, p, id, FALSE, u),
                 Begin(r, [Idle EXCEPT !.at = "CreateAuthCode", !.user = u,
                                       !.address = users'[u].email]),
                 UNCHANGED <<authCodes, coded>>
          PROVE  Proceeds(r)
        <2>1. Settled(u, a)' /\ users'[u].email = a /\ u \in User
            BY <1>3, NewHolder
        <2> QED
            BY <1>1, <1>3, <2>1
    <1>4. ASSUME NEW u \in Fresh(User \ created), NEW id \in Fresh(IdentityId \ linked),
                 A!HintedOAuthUser(p, hint, u, id),
                 Begin(r, [Idle EXCEPT !.at = "CreateAuthCode", !.user = u,
                                       !.address = users'[u].email])
          PROVE  Proceeds(r)
        <2>1. /\ hint \in A!Typed /\ A!newUserLocked(A!ToLower(hint), p, id, FALSE, u)
              /\ UNCHANGED <<authCodes, coded>>
            BY <1>4 DEF A!HintedOAuthUser
        <2>2. A!ToLower(hint) \in A!Address
            BY <2>1, TypedAddress
        <2> QED
            BY <1>3, <1>4, <2>1, <2>2
    <1>5. ASSUME NEW u \in Fresh(User \ created), NEW id \in Fresh(IdentityId \ linked),
                 NEW box \in Fresh(Synthetic \ synthesized), A!SyntheticOAuthUser(p, box, u, id),
                 Begin(r, [Idle EXCEPT !.at = "CreateAuthCode", !.user = u,
                                       !.address = users'[u].email])
          PROVE  Proceeds(r)
        <2> DEFINE a == [mailbox |-> box, upper |-> p \in MixedCase]
        <2>1. A!newUserLocked(a, p, id, FALSE, u) /\ UNCHANGED <<authCodes, coded>>
            BY <1>5 DEF A!SyntheticOAuthUser
        <2>2. box \in Synthetic
            BY DEF Fresh
        <2>3. a \in A!Address
            BY <2>2 DEF A!Address
        <2> HIDE DEF a
        <2> QED
            BY <1>3, <1>5, <2>1, <2>3
    <1> QED
        BY <1>2, <1>4, <1>5 DEF Authorize

\* The two grants.
LEMMA GrantKinds ==
    ASSUME Inv, AP!Stays, NEW r \in Request,
           \/ \E a \in A!Typed : tokenPassword(r, a)
           \/ \E c \in DOMAIN coded : tokenPKCE(r, c)
    PROVE  Elsewhere \/ RequestStep(r)
    <1>1. ASSUME NEW a \in A!Typed, tokenPassword(r, a)
          PROVE  Proceeds(r)
        <2>1. PICK u, b : u = A!FindUserByEmail(a) /\ b = A!ToLower(a)
            OBVIOUS
        <2>2. u # NoUser /\ A!Registered(a)
            BY <1>1, <2>1 DEF tokenPassword, A!FindUserByEmail
        <2>3. Settled(u, A!ToLower(a))' /\ u \in User /\ b \in A!Address
            BY <2>1, <2>2, TypedAddress, HolderSettled
        <2> DEFINE v == [Idle EXCEPT !.at = "UpdateLastSignIn", !.user = u, !.address = b]
        <2>4. /\ v \in RequestRecord /\ v.code = None /\ v.seeds = <<>> /\ v.at = "UpdateLastSignIn"
              /\ v.user = u /\ v.address = b
            BY <2>3, IdleInformed DEF RequestRecord, LoggingIn
        <2>5. req' = [req EXCEPT ![r] = v] /\ UNCHANGED <<authCodes, coded, owner, historyVars>>
            BY <1>1, <2>1 DEF tokenPassword, Begin, storeVars, accountVars, refreshVars
        <2>6. Settled(v.user, v.address)'
            BY <2>1, <2>3, <2>4
        <2> HIDE DEF v
        <2> QED
            BY <2>4, <2>5, <2>6, ArrivalProceeds
    <1>2. ASSUME NEW c \in DOMAIN coded, tokenPKCE(r, c)
          PROVE  Elsewhere \/ RequestStep(r)
        <2>0. AP!TypeOK
            BY DEF Inv, StoreInv, AP!Inv
        <2>1. /\ c \in DOMAIN authCodes /\ authCodes' = Delete(authCodes, {c}) /\ c \in Code
              /\ UNCHANGED <<coded, owner, historyVars>>
            BY <1>2, <2>0 DEF tokenPKCE, A!ConsumeAuthCode, A!Delete, A!Restrict, Delete, Restrict,
                              refreshVars, AP!TypeOK
        <2>2. CASE UNCHANGED req
            BY <2>1, <2>2 DEF Elsewhere, PartOf, Delete, Restrict
        <2>3. CASE Begin(r, [Idle EXCEPT !.at = "UpdateLastSignIn", !.user = authCodes[c].user,
                                         !.address = addressOf[c], !.code = c])
            <3>1. PICK u, a : u = coded[c] /\ a = addressOf[c]
                OBVIOUS
            <3>2. authCodes[c].user = u /\ u \in User /\ a \in A!Address
                BY <2>0, <2>1, <3>1
                   DEF AP!TypeOK, Inv, HandlerInv, TypeOK, HistoryAgrees
            <3> DEFINE v == [Idle EXCEPT !.at = "UpdateLastSignIn", !.user = u,
                                         !.address = a, !.code = c]
            <3>3. /\ v \in RequestRecord /\ v.seeds = <<>> /\ v.at = "UpdateLastSignIn"
                  /\ v.user = u /\ v.address = a /\ v.code = c
                BY <2>1, <3>2, IdleInformed DEF RequestRecord, LoggingIn
            <3>4. req' = [req EXCEPT ![r] = v]
                BY <2>3, <3>1, <3>2 DEF Begin
            <3> HIDE DEF v
            <3> QED
                BY <2>1, <3>1, <3>3, <3>4 DEF Accepts, RequestStep
        <2> QED
            BY <1>2, <2>2, <2>3 DEF tokenPKCE
    <1> QED
        BY <1>1, <1>2 DEF RequestStep

\* The next call is all that changes.
LEMMA GotoEffect ==
    ASSUME NEW r \in Request, req[r] \in RequestRecord, Goto(r, "IssueSession")
    PROVE  \E v \in RequestRecord :
               /\ req' = [req EXCEPT ![r] = v]
               /\ v.at = "IssueSession" /\ v.user = req[r].user /\ v.address = req[r].address
               /\ v.code = req[r].code /\ v.seeds = req[r].seeds
    <1> DEFINE w == [req[r] EXCEPT !.at = "IssueSession"]
    <1>1. /\ w \in RequestRecord /\ w.at = "IssueSession" /\ w.user = req[r].user
          /\ w.address = req[r].address /\ w.code = req[r].code /\ w.seeds = req[r].seeds
        BY DEF RequestRecord, LoggingIn
    <1>2. req' = [req EXCEPT ![r] = w]
        BY DEF Goto
    <1> HIDE DEF w
    <1> QED
        BY <1>1, <1>2

\* The calls of a login before its last one.
LEMMA LoginKinds ==
    ASSUME Inv, AP!Stays, NEW r \in Request, SetUserMetadata(r) \/ UpdateLastSignIn(r)
    PROVE  Proceeds(r)
    <1> DEFINE u == req[r].user
    <1>1. /\ req[r].at \in {"SetUserMetadata", "UpdateLastSignIn"}
          /\ UNCHANGED <<authCodes, coded, owner, historyVars>>
        BY DEF SetUserMetadata, UpdateLastSignIn, At, A!SetUserMetadata, A!UpdateLastSignIn,
               accountVars, refreshVars
    <1>2. /\ req[r] \in RequestRecord /\ Informed(req[r]) /\ req[r].seeds = <<>>
          /\ u \in DOMAIN users' => u \in DOMAIN users
        <2>1. req[r] \in RequestRecord /\ u \in created
            BY <1>1, RequestFacts
        <2>2. Informed(req[r]) /\ req[r].seeds = <<>>
            BY <1>1 DEF Inv, HandlerInv, RequestsInformed, TypeOK, At
        <2> QED
            BY <2>1, <2>2 DEF AP!Stays
    <1>3. ASSUME Goto(r, "IssueSession"),
                 req[r].code # None => (u \in DOMAIN users' => users'[u].signedIn)
          PROVE  Proceeds(r)
        <2>1. PICK v \in RequestRecord :
                  /\ req' = [req EXCEPT ![r] = v]
                  /\ v.at = "IssueSession" /\ v.user = req[r].user /\ v.address = req[r].address
                  /\ v.code = req[r].code /\ v.seeds = req[r].seeds
            BY <1>2, <1>3, GotoEffect
        <2>2. v.code # None => \A w \in DOMAIN users' : w = v.user => users'[w].signedIn
            BY <1>3, <2>1
        <2>3. v.at = "AddIdentity" <=> v.seeds # <<>>
            BY <1>2, <2>1
        <2>4. req[r].at # "idle" /\ v.at # "SetUserMetadata"
            BY <1>1, <2>1
        <2> QED
            BY <1>1, <2>1, <2>2, <2>3, <2>4, GoingOnProceeds
    <1>4. CASE SetUserMetadata(r)
        <2>1. req[r].code = None
            BY <1>2, <1>4 DEF SetUserMetadata, At, Informed
        <2> QED
            BY <1>3, <1>4, <2>1 DEF SetUserMetadata
    <1>5. CASE UpdateLastSignIn(r)
        <2>1. CASE A!UpdateLastSignIn(u) /\ Goto(r, "IssueSession")
            <3>1. u \in DOMAIN users /\ users' = [users EXCEPT ![u].signedIn = TRUE]
                BY <2>1 DEF A!UpdateLastSignIn, A!UserExists
            <3>2. users[u] \in AP!UserRecord
                BY <3>1 DEF Inv, StoreInv, AP!Inv, AP!TypeOK
            <3>3. users'[u].signedIn
                BY <3>1, <3>2 DEF AP!UserRecord
            <3> QED
                BY <1>3, <2>1, <3>3
        <2>2. CASE Fail(r)
            BY <1>1, <2>2, AnswerProceeds DEF Fail
        <2> QED
            BY <1>5, <2>1, <2>2 DEF UpdateLastSignIn
    <1> QED
        BY <1>4, <1>5

\* A seed in flight: it loses the identity that was added, or all of them.
LEMMA SeedKinds ==
    ASSUME Inv, AP!Stays, NEW r \in Request, AddIdentity(r)
    PROVE  Proceeds(r)
    <1>1. /\ req[r].at = "AddIdentity" /\ UNCHANGED <<authCodes, coded, owner, historyVars>>
        BY DEF AddIdentity, At, A!AddIdentity, accountVars, refreshVars
    <1>2. req[r] \in RequestRecord /\ req[r].seeds # <<>> /\ Informed(req[r])
        BY <1>1, RequestFacts DEF Inv, HandlerInv, RequestsInformed
    <1>3. CASE req' = [req EXCEPT ![r] = Idle]
        BY <1>1, <1>3, AnswerProceeds
    <1>4. CASE /\ Tail(req[r].seeds) # <<>>
               /\ req' = [req EXCEPT ![r] = [req[r] EXCEPT !.seeds = Tail(req[r].seeds)]]
        <2> DEFINE rest == Tail(req[r].seeds)
                   w == [req[r] EXCEPT !.seeds = rest]
        <2>1. rest \in Seq(Provider \cup {NoProvider})
            BY <1>2 DEF RequestRecord
        <2>2. req' = [req EXCEPT ![r] = w] /\ rest # <<>>
            BY <1>4
        <2> HIDE DEF rest
        <2>3. /\ w \in RequestRecord /\ w.at = req[r].at /\ w.user = req[r].user
              /\ w.address = req[r].address /\ w.code = req[r].code /\ w.seeds = rest
            BY <1>2, <2>1 DEF RequestRecord
        <2> HIDE DEF w
        <2>4. PICK v \in RequestRecord : v = w
            BY <2>3
        <2>5. req[r].code = None
            BY <1>1, <1>2 DEF Informed
        <2> QED
            BY <1>1, <2>2, <2>3, <2>4, <2>5, GoingOnProceeds
    <1>5. req' = [req EXCEPT ![r] = Idle]
          \/ /\ Tail(req[r].seeds) # <<>>
             /\ req' = [req EXCEPT ![r] = [req[r] EXCEPT !.seeds = Tail(req[r].seeds)]]
        <2>1. CASE /\ Tail(req[r].seeds) # <<>>
                   /\ req' = [req EXCEPT ![r].seeds = Tail(@)]
            BY <2>1
        <2>2. CASE Fail(r)
            BY <2>2 DEF Fail
        <2> QED
            BY <2>1, <2>2 DEF AddIdentity
    <1> QED
        BY <1>3, <1>4, <1>5

\* The last call of an authorization.
LEMMA CodeKinds ==
    ASSUME Inv, NEW r \in Request, CreateAuthCode(r)
    PROVE  RequestStep(r)
    <1>1. /\ req[r].at = "CreateAuthCode" /\ req' = [req EXCEPT ![r] = Idle]
          /\ UNCHANGED <<owner, signedInBy, exchanged>>
        BY DEF CreateAuthCode, At, refreshVars
    <1>2. ASSUME NEW c \in Fresh(Code \ DOMAIN coded), A!CreateAuthCode(req[r].user, c),
                 addressOf' = Put(addressOf, c, req[r].address)
          PROVE  RequestStep(r)
        <2>1. c \in Code \ DOMAIN coded
            BY DEF Fresh
        <2>2. Mints(r, c)
            BY <1>1, <1>2, <2>1 DEF A!CreateAuthCode, A!Put, Put, Mints
        <2> QED
            BY <2>1, <2>2 DEF RequestStep
    <1>3. CASE UNCHANGED <<accountVars, now, addressOf>>
        BY <1>1, <1>3, AnswerProceeds DEF accountVars, historyVars, RequestStep
    <1> QED
        BY <1>2, <1>3 DEF CreateAuthCode

\* The last call of a login.
LEMMA SessionKinds ==
    ASSUME Inv, NEW r \in Request, IssueSession(r)
    PROVE  RequestStep(r)
    <1>1. req[r].at = "IssueSession" /\ req' = [req EXCEPT ![r] = Idle] /\ UNCHANGED addressOf
        BY DEF IssueSession, At
    <1>2. ASSUME NEW s \in Fresh(Session \ DOMAIN owner), NEW t, NEW method,
                 R!IssueSessionWithMethod(req[r].user, method, s, t), UNCHANGED accountVars,
                 signedInBy' = Put(signedInBy, s, req[r].address),
                 exchanged' = IF req[r].code # None THEN Put(exchanged, s, req[r].code) ELSE exchanged
          PROVE  RequestStep(r)
        <2>1. s \in Session \ DOMAIN owner
            BY DEF Fresh
        <2>2. SignsIn(r, s)
            BY <1>1, <1>2, <2>1 DEF R!IssueSessionWithMethod, R!Put, Put, accountVars, SignsIn
        <2> QED
            BY <2>1, <2>2 DEF RequestStep
    <1>3. CASE UNCHANGED <<storeVars, signedInBy, exchanged>>
        BY <1>1, <1>3, AnswerProceeds DEF storeVars, accountVars, refreshVars, historyVars, RequestStep
    <1> QED
        BY <1>2, <1>3 DEF IssueSession

\* Single-call handlers and the clock.
LEMMA SingleKinds ==
    ASSUME SingleCall \/ Tick
    PROVE  Elsewhere
    <1>1. CASE Tick
        BY <1>1 DEF Tick, A!Tick, refreshVars, Elsewhere, PartOf
    <1>2. CASE Reset
        BY <1>2 DEF Reset, R!Reset, A!Reset, A!EmptyMap, Elsewhere, PartOf
    <1>3. ASSUME NEW u \in User, AdminDeleteUser(u) PROVE Elsewhere
        BY <1>3 DEF AdminDeleteUser, R!DeleteUser, A!DeleteUser, Elsewhere, PartOf
    <1>4. ASSUME NEW u \in User, NEW id \in linked, UnlinkIdentity(u, id) PROVE Elsewhere
        BY <1>4 DEF UnlinkIdentity, A!RemoveIdentity, refreshVars, Elsewhere, PartOf
    <1> QED
        BY <1>1, <1>2, <1>3, <1>4 DEF SingleCall

\* These are all the steps.
LEMMA StepKinds ==
    ASSUME Inv, AP!Stays, [Next]_vars
    PROVE  Elsewhere \/ \E r \in Request : RequestStep(r)
    <1>1. CASE UNCHANGED vars
        BY <1>1 DEF vars, storeVars, accountVars, refreshVars, Elsewhere, PartOf
    <1>2. ASSUME NEW r \in Request, Arrive(r) PROVE Elsewhere \/ RequestStep(r)
        <2>1. ASSUME NEW a \in A!Typed,
                     \/ \E data \in Metadata \cup {NoMetadata} : Signup(r, a, data)
                     \/ \E seeds \in SeedLists : SeedUser(r, a, seeds)
              PROVE  Elsewhere \/ RequestStep(r)
            BY <2>1, SignupKinds DEF RequestStep
        <2>2. ASSUME NEW p \in Provider, NEW hint \in A!Typed \cup {NoAddress}, Authorize(r, p, hint)
              PROVE  RequestStep(r)
            BY <2>2, AuthorizeKinds DEF RequestStep
        <2>3. ASSUME \/ \E a \in A!Typed : tokenPassword(r, a)
                     \/ \E c \in DOMAIN coded : tokenPKCE(r, c)
              PROVE  Elsewhere \/ RequestStep(r)
            BY <2>3, GrantKinds
        <2> QED
            BY <1>2, <2>1, <2>2, <2>3 DEF Arrive
    <1>3. ASSUME NEW r \in Request, Continue(r) PROVE RequestStep(r)
        BY <1>3, LoginKinds, SeedKinds, CodeKinds, SessionKinds DEF Continue, RequestStep
    <1> QED
        BY <1>1, <1>2, <1>3, SingleKinds DEF Next

-----------------------------------------------------------------------------
(***************************************************************************)
(* Each kind of step preserves the invariant of the handlers.              *)
(***************************************************************************)
\* What the types say of the histories.
LEMMA Shapes ==
    ASSUME Inv
    PROVE  /\ DOMAIN req = Request
           /\ DOMAIN authCodes \subseteq DOMAIN coded /\ DOMAIN coded \subseteq Code
           /\ DOMAIN addressOf = DOMAIN coded
           /\ DOMAIN signedInBy = DOMAIN owner
           /\ DOMAIN exchanged \subseteq DOMAIN owner
           /\ \A s \in DOMAIN exchanged : exchanged[s] \in DOMAIN coded /\ exchanged[s] # None
           /\ \A c \in DOMAIN coded : addressOf[c] \in A!Address
           /\ \A s \in DOMAIN owner : owner[s] \in created /\ signedInBy[s] \in A!Address
    <1>1. DOMAIN coded \subseteq Code /\ \A s \in DOMAIN exchanged : exchanged[s] \in DOMAIN coded
        BY DEF Inv, StoreInv, HandlerInv, TypeOK, AP!Inv, AP!TypeOK
    <1> QED
        BY <1>1, NoneAssumption
           DEF Inv, StoreInv, HandlerInv, TypeOK, AP!Inv, AP!TypeOK, HistoryAgrees, Settled

\* ... when users or codes go, or are none of the requests' business.
LEMMA ElsewhereKeeps ==
    ASSUME Inv, AP!Stays, Elsewhere
    PROVE  HandlerInv'
    <1> USE Shapes DEF Elsewhere, PartOf, historyVars
    <1>1. TypeOK'
        BY DEF Inv, HandlerInv, TypeOK, At
    <1>2. RequestsInformed'
        BY DEF Inv, HandlerInv, RequestsInformed, Informed, Settled, Accepted, Stamped,
               AP!Stays, AP!Follows
    <1>3. HistoryAgrees'
        BY DEF Inv, HandlerInv, HistoryAgrees, Settled, AP!Stays, AP!Follows
    <1>4. SpentOnce'
        BY DEF Inv, HandlerInv, SpentOnce
    <1>5. CodeExchangedOnce'
        BY DEF Inv, HandlerInv, CodeExchangedOnce, A!UserExists, AP!Stays, AP!Follows
    <1> QED
        BY <1>1, <1>2, <1>3, <1>4, <1>5 DEF HandlerInv

\* What a step leaves of the other requests.
LEMMA OthersInformed ==
    ASSUME Inv, AP!Stays, NEW r \in Request, \A q \in Request \ {r} : req'[q] = req[q],
           \A c \in DOMAIN coded : c \in DOMAIN coded' /\ coded'[c] = coded[c],
           \A c \in DOMAIN coded : c \in DOMAIN authCodes' => c \in DOMAIN authCodes
    PROVE  \A q \in Request \ {r} : Informed(req[q])'
    BY DEF Inv, HandlerInv, RequestsInformed, Informed, Settled, Accepted, Stamped,
           AP!Stays, AP!Follows

\* ... when a request arrives, goes on or is answered.
LEMMA ProceedingKeeps ==
    ASSUME Inv, AP!Stays, NEW r \in Request, Proceeds(r)
    PROVE  HandlerInv'
    <1> USE Shapes
    <1>1. PICK v \in RequestRecord :
              /\ v.code \in {None, req[r].code}
              /\ v.at = "AddIdentity" <=> v.seeds # <<>>
              /\ Informed(v)'
              /\ req' = [req EXCEPT ![r] = v]
        BY DEF Proceeds
    <1>2. /\ req'[r] = v /\ \A q \in Request \ {r} : req'[q] = req[q]
          /\ UNCHANGED <<authCodes, coded, owner, addressOf, signedInBy, exchanged>>
        BY <1>1 DEF Proceeds, historyVars
    <1>3. TypeOK'
        <2>1. req' \in [Request -> RequestRecord]
            BY <1>1 DEF Inv, HandlerInv, TypeOK
        <2>2. \A q \in Request : req'[q].at = "AddIdentity" <=> req'[q].seeds # <<>>
            BY <1>1, <1>2 DEF Inv, HandlerInv, TypeOK, At
        <2> QED
            BY <1>2, <2>1, <2>2 DEF Inv, HandlerInv, TypeOK, At
    <1>4. RequestsInformed'
        <2>1. \A q \in Request \ {r} : Informed(req[q])'
            BY <1>2, OthersInformed
        <2>2. Informed(req[r])'
            BY <1>1, <1>2 DEF Informed, Settled, Accepted, Stamped
        <2> QED
            BY <2>1, <2>2 DEF RequestsInformed
    <1>5. HistoryAgrees'
        BY <1>2 DEF Inv, HandlerInv, HistoryAgrees, Settled, AP!Stays, AP!Follows
    <1>6. SpentOnce'
        BY <1>1, <1>2 DEF Inv, HandlerInv, SpentOnce
    <1>7. CodeExchangedOnce'
        BY <1>2 DEF Inv, HandlerInv, CodeExchangedOnce, A!UserExists, AP!Stays, AP!Follows
    <1> QED
        BY <1>3, <1>4, <1>5, <1>6, <1>7 DEF HandlerInv

\* ... when a code is accepted: it was stored, so it stands behind nothing yet,
\* and it is not stored from here on.
LEMMA AcceptanceKeeps ==
    ASSUME Inv, AP!Stays, NEW r \in Request, NEW c \in Code, Accepts(r, c)
    PROVE  HandlerInv'
    <1> USE Shapes
    <1>1. PICK v \in RequestRecord :
              /\ v.at = "UpdateLastSignIn" /\ v.seeds = <<>>
              /\ v.user = coded[c] /\ v.address = addressOf[c] /\ v.code = c
              /\ req' = [req EXCEPT ![r] = v]
        BY DEF Accepts
    <1>2. /\ req'[r] = v /\ \A q \in Request \ {r} : req'[q] = req[q]
          /\ c \in DOMAIN authCodes /\ DOMAIN authCodes' = DOMAIN authCodes \ {c}
          /\ \A d \in DOMAIN authCodes' : authCodes'[d] = authCodes[d]
          /\ UNCHANGED <<coded, owner, addressOf, signedInBy, exchanged>>
        BY <1>1 DEF Accepts, Delete, Restrict, historyVars
    <1>3. TypeOK'
        <2>1. req' \in [Request -> RequestRecord]
            BY <1>1 DEF Inv, HandlerInv, TypeOK
        <2>2. \A q \in Request : req'[q].at = "AddIdentity" <=> req'[q].seeds # <<>>
            BY <1>1, <1>2 DEF Inv, HandlerInv, TypeOK, At
        <2> QED
            BY <1>2, <2>1, <2>2 DEF Inv, HandlerInv, TypeOK, At
    <1>4. RequestsInformed'
        <2>1. \A q \in Request \ {r} : Informed(req[q])'
            BY <1>2, OthersInformed
        <2>2. Informed(req[r])'
            BY <1>1, <1>2 DEF Inv, HandlerInv, HistoryAgrees, Informed, Settled, Accepted, Stamped,
                              AP!Stays, AP!Follows
        <2> QED
            BY <2>1, <2>2 DEF RequestsInformed
    <1>5. HistoryAgrees'
        BY <1>2 DEF Inv, HandlerInv, HistoryAgrees, Settled, AP!Stays, AP!Follows
    <1>6. SpentOnce'
        <2>1. /\ \A q \in Request : req[q].code # c
              /\ \A s \in DOMAIN exchanged : exchanged[s] # c
            <3>1. c # None
                BY NoneAssumption
            <3> QED
                BY <1>2, <3>1 DEF Inv, HandlerInv, RequestsInformed, Informed, Accepted, SpentOnce
        <2> QED
            BY <1>1, <1>2, <2>1 DEF Inv, HandlerInv, SpentOnce
    <1>7. CodeExchangedOnce'
        BY <1>2 DEF Inv, HandlerInv, CodeExchangedOnce, A!UserExists, AP!Stays, AP!Follows
    <1> QED
        BY <1>3, <1>4, <1>5, <1>6, <1>7 DEF HandlerInv

\* Answering a request leaves the types of the others.
LEMMA AnswerTypes ==
    ASSUME Inv, NEW r \in Request, req' = [req EXCEPT ![r] = Idle]
    PROVE  /\ req' \in [Request -> RequestRecord]
           /\ \A q \in Request : req'[q].at = "AddIdentity" <=> req'[q].seeds # <<>>
           /\ req'[r].at = "idle" /\ req'[r].code = None
           /\ \A q \in Request \ {r} : req'[q] = req[q]
    BY IdleInformed DEF Inv, HandlerInv, TypeOK, At

\* ... when a code is made: it is new, so nothing refers to it.
LEMMA MintingKeeps ==
    ASSUME Inv, AP!Stays, NEW r \in Request, NEW c \in Code, Mints(r, c)
    PROVE  HandlerInv'
    <1> USE Shapes
    <1>1. /\ req' \in [Request -> RequestRecord]
          /\ \A q \in Request : req'[q].at = "AddIdentity" <=> req'[q].seeds # <<>>
          /\ req'[r].at = "idle" /\ req'[r].code = None
          /\ \A q \in Request \ {r} : req'[q] = req[q]
        BY AnswerTypes DEF Mints
    <1>2. Settled(req[r].user, req[r].address)
        BY DEF Mints, Inv, HandlerInv, RequestsInformed, Informed
    <1>3. /\ c \notin DOMAIN coded
          /\ DOMAIN coded' = DOMAIN coded \cup {c} /\ coded'[c] = req[r].user
          /\ \A d \in DOMAIN coded : coded'[d] = coded[d] /\ addressOf'[d] = addressOf[d]
          /\ addressOf'[c] = req[r].address
          /\ DOMAIN authCodes' = DOMAIN authCodes \cup {c} /\ authCodes'[c].user = req[r].user
          /\ \A d \in DOMAIN authCodes : authCodes'[d] = authCodes[d]
          /\ UNCHANGED <<owner, signedInBy, exchanged>>
        BY DEF Mints, Put
    <1>4. TypeOK'
        <2>1. addressOf' \in [DOMAIN coded' -> A!Address]
            BY <1>2, <1>3 DEF Mints, Put, Settled
        <2>2. exchanged' \in [DOMAIN exchanged' -> DOMAIN coded']
            BY <1>3 DEF Inv, HandlerInv, TypeOK
        <2>3. signedInBy' \in [DOMAIN owner' -> A!Address] /\ DOMAIN exchanged' \subseteq DOMAIN owner'
            BY <1>3 DEF Inv, HandlerInv, TypeOK
        <2> QED
            BY <1>1, <2>1, <2>2, <2>3 DEF TypeOK, At
    <1>5. RequestsInformed'
        <2>1. \A q \in Request \ {r} : Informed(req[q])'
            BY <1>1, <1>3, OthersInformed
        <2>2. Informed(req[r])'
            BY <1>1 DEF Informed
        <2> QED
            BY <2>1, <2>2 DEF RequestsInformed
    <1>6. HistoryAgrees'
        <2>1. \A d \in DOMAIN coded' : Settled(coded[d], addressOf[d])'
            BY <1>2, <1>3 DEF Inv, HandlerInv, HistoryAgrees, Settled, AP!Stays, AP!Follows
        <2>2. \A s \in DOMAIN owner' : Settled(owner[s], signedInBy[s])'
            BY <1>3 DEF Inv, HandlerInv, HistoryAgrees, Settled, AP!Stays, AP!Follows
        <2>3. \A d \in DOMAIN authCodes' : authCodes'[d].user = coded'[d]
            BY <1>3 DEF Inv, HandlerInv, HistoryAgrees
        <2> QED
            BY <2>1, <2>2, <2>3 DEF HistoryAgrees
    <1>7. SpentOnce'
        <2>1. \A p, q \in Request : req'[p].code # None /\ req'[q].code = req'[p].code => q = p
            BY <1>1 DEF Inv, HandlerInv, SpentOnce
        <2>2. \A z \in DOMAIN exchanged :
                  exchanged[z] \notin DOMAIN authCodes' /\ \A q \in Request : req'[q].code # exchanged[z]
            BY <1>1, <1>3 DEF Inv, HandlerInv, SpentOnce
        <2> QED
            BY <1>3, <2>1, <2>2 DEF SpentOnce
    <1>8. CodeExchangedOnce'
        BY <1>3 DEF Inv, HandlerInv, CodeExchangedOnce, A!UserExists, AP!Stays, AP!Follows
    <1> QED
        BY <1>4, <1>5, <1>6, <1>7, <1>8 DEF HandlerInv

\* ... when a session is issued: the code behind it stood behind the request,
\* and so behind no other session.
LEMMA SignInKeeps ==
    ASSUME Inv, AP!Stays, NEW r \in Request, NEW s \in Session, SignsIn(r, s)
    PROVE  HandlerInv'
    <1> DEFINE c == req[r].code
    <1> USE Shapes
    <1>1. /\ req' \in [Request -> RequestRecord]
          /\ \A q \in Request : req'[q].at = "AddIdentity" <=> req'[q].seeds # <<>>
          /\ req'[r].at = "idle" /\ req'[r].code = None
          /\ \A q \in Request \ {r} : req'[q] = req[q]
        BY AnswerTypes DEF SignsIn
    <1>2. Settled(req[r].user, req[r].address) /\ Informed(req[r]) /\ req[r].at = "IssueSession"
        BY DEF SignsIn, Inv, HandlerInv, RequestsInformed, Informed
    <1>3. /\ s \notin DOMAIN owner
          /\ DOMAIN owner' = DOMAIN owner \cup {s} /\ owner'[s] = req[r].user
          /\ \A z \in DOMAIN owner : owner'[z] = owner[z] /\ signedInBy'[z] = signedInBy[z]
          /\ signedInBy'[s] = req[r].address
          /\ UNCHANGED <<authCodes, coded, addressOf>>
        BY DEF SignsIn, Put
    <1>4. /\ c = None => exchanged' = exchanged
          /\ c # None => /\ DOMAIN exchanged' = DOMAIN exchanged \cup {s} /\ exchanged'[s] = c
                         /\ \A z \in DOMAIN exchanged : exchanged'[z] = exchanged[z]
        BY <1>3 DEF SignsIn, Put
    <1>5. c # None => /\ c \in DOMAIN coded /\ c \notin DOMAIN authCodes /\ coded[c] = req[r].user
                      /\ Stamped(req[r].user)
        BY <1>2 DEF Informed, Accepted
    <1>6. TypeOK'
        <2>1. signedInBy' \in [DOMAIN owner' -> A!Address]
            BY <1>2, <1>3 DEF SignsIn, Put, Settled
        <2>2. exchanged' \in [DOMAIN exchanged' -> DOMAIN coded'] /\ DOMAIN exchanged' \subseteq DOMAIN owner'
            BY <1>3, <1>4, <1>5 DEF SignsIn, Put, Inv, HandlerInv, TypeOK
        <2>3. addressOf' \in [DOMAIN coded' -> A!Address]
            BY <1>3 DEF Inv, HandlerInv, TypeOK
        <2> QED
            BY <1>1, <2>1, <2>2, <2>3 DEF TypeOK, At
    <1>7. RequestsInformed'
        <2>1. \A q \in Request \ {r} : Informed(req[q])'
            BY <1>1, <1>3, OthersInformed
        <2>2. Informed(req[r])'
            BY <1>1 DEF Informed
        <2> QED
            BY <2>1, <2>2 DEF RequestsInformed
    <1>8. HistoryAgrees'
        <2>1. \A z \in DOMAIN owner' : Settled(owner[z], signedInBy[z])'
            BY <1>2, <1>3 DEF Inv, HandlerInv, HistoryAgrees, Settled, AP!Stays, AP!Follows
        <2>2. \A d \in DOMAIN coded' : Settled(coded[d], addressOf[d])'
            BY <1>3 DEF Inv, HandlerInv, HistoryAgrees, Settled, AP!Stays, AP!Follows
        <2>3. \A d \in DOMAIN authCodes' : authCodes'[d].user = coded'[d]
            BY <1>3 DEF Inv, HandlerInv, HistoryAgrees
        <2> QED
            BY <2>1, <2>2, <2>3 DEF HistoryAgrees
    <1>9. SpentOnce'
        <2>1. \A p, q \in Request : req'[p].code # None /\ req'[q].code = req'[p].code => q = p
            BY <1>1 DEF Inv, HandlerInv, SpentOnce
        <2>2. c # None => \A q \in Request \ {r} : req[q].code # c
            BY DEF Inv, HandlerInv, SpentOnce
        <2>3. \A z \in DOMAIN exchanged' :
                  \/ c # None /\ exchanged'[z] = c
                  \/ z \in DOMAIN exchanged /\ exchanged'[z] = exchanged[z]
            BY <1>4
        <2>4. \A z \in DOMAIN exchanged' :
                  /\ exchanged'[z] \notin DOMAIN authCodes'
                  /\ \A q \in Request : req'[q].code # exchanged'[z]
            <3>2. \A z \in DOMAIN exchanged : exchanged[z] \notin DOMAIN authCodes
                BY DEF Inv, HandlerInv, SpentOnce
            <3>3. \A z \in DOMAIN exchanged, q \in Request : req[q].code # exchanged[z]
                BY DEF Inv, HandlerInv, SpentOnce
            <3> QED
                BY <1>1, <1>3, <1>5, <2>2, <2>3, <3>2, <3>3
        <2> QED
            BY <2>1, <2>4 DEF SpentOnce
    <1>10. CodeExchangedOnce'
        <2>1. \A z \in DOMAIN exchanged : exchanged[z] # c
            BY DEF Inv, HandlerInv, SpentOnce
        <2>2. \A y, z \in DOMAIN exchanged' : exchanged'[y] = exchanged'[z] => y = z
            BY <1>4, <2>1 DEF Inv, HandlerInv, CodeExchangedOnce
        <2>3. \A z \in DOMAIN exchanged :
                  /\ owner'[z] = coded'[exchanged[z]]
                  /\ owner'[z] \in DOMAIN users' => users'[owner'[z]].signedIn
            BY <1>3 DEF Inv, HandlerInv, CodeExchangedOnce, A!UserExists, AP!Stays, AP!Follows
        <2>4. c # None => /\ owner'[s] = coded'[c]
                          /\ owner'[s] \in DOMAIN users' => users'[owner'[s]].signedIn
            BY <1>2, <1>3, <1>5 DEF Settled, Stamped, AP!Stays, AP!Follows
        <2>5. \A z \in DOMAIN exchanged' :
                  \/ c # None /\ z = s /\ exchanged'[z] = c
                  \/ z \in DOMAIN exchanged /\ exchanged'[z] = exchanged[z]
            BY <1>3, <1>4
        <2> QED
            BY <2>2, <2>3, <2>4, <2>5 DEF CodeExchangedOnce, A!UserExists
    <1> QED
        BY <1>6, <1>7, <1>8, <1>9, <1>10 DEF HandlerInv

-----------------------------------------------------------------------------
\* Every step keeps the invariant ...
LEMMA InvStep ==
    ASSUME Inv, [Next]_vars
    PROVE  Inv'
    <1>1. StoreInv' /\ AP!Stays
        BY StoreStep
    <1>2. CASE Elsewhere
        BY <1>1, <1>2, ElsewhereKeeps DEF Inv
    <1>3. ASSUME NEW r \in Request, RequestStep(r) PROVE Inv'
        BY <1>1, <1>3, ProceedingKeeps, AcceptanceKeeps, MintingKeeps, SignInKeeps
           DEF RequestStep, Inv
    <1> QED
        BY <1>1, <1>2, <1>3, StepKinds

\* ... which holds at the start ...
LEMMA InvInit ==
    ASSUME Init
    PROVE  Inv
    <1>1. AP!Init
        BY SameAccountInit DEF Init
    <1>2. StoreInv
        BY <1>1, AccountAssumptions, AP!InvInit DEF StoreInv, AP!LowerIndex, AP!Init, AP!EmptyMap
    <1>3. /\ DOMAIN coded = {} /\ DOMAIN authCodes = {} /\ DOMAIN owner = {} /\ DOMAIN exchanged = {}
          /\ addressOf \in [{} -> A!Address] /\ signedInBy \in [{} -> A!Address]
          /\ exchanged \in [{} -> {}]
          /\ \A r \in Request : req[r] = Idle
        BY <1>1 DEF Init, EmptyMap, AP!Init, AP!EmptyMap
    <1>4. TypeOK
        BY <1>3, IdleInformed DEF Init, TypeOK, At
    <1>5. RequestsInformed /\ HistoryAgrees /\ SpentOnce /\ CodeExchangedOnce
        BY <1>3, IdleInformed
           DEF RequestsInformed, HistoryAgrees, SpentOnce, CodeExchangedOnce
    <1> QED
        BY <1>2, <1>4, <1>5 DEF Inv, HandlerInv

\* ... and always.
LEMMA Invariance == Spec => []Inv
    <1>1. Init => Inv
        BY InvInit
    <1>2. Inv /\ [Next]_vars => Inv'
        BY InvStep
    <1> QED
        BY <1>1, <1>2, PTL DEF Spec

-----------------------------------------------------------------------------
\* Every variable of these handlers keeps its type, whatever arrives, fails or
\* is deleted in between, and the histories follow the ids that were handed out.
THEOREM TypeCorrect == Spec => []TypeOK
    <1>1. Inv => TypeOK
        BY DEF Inv, HandlerInv
    <1> QED
        BY <1>1, Invariance, PTL

\* However many pkce grants send a code and however they overlap, it makes one
\* session at most, of the user that authorize found or made, whose sign-in was
\* stamped first: ConsumeAuthCode removes the code in the call that finds it.
THEOREM ExchangedOnce == Spec => []CodeExchangedOnce
    <1>1. Inv => CodeExchangedOnce
        BY DEF Inv, HandlerInv
    <1> QED
        BY <1>1, Invariance, PTL

\* Sign-up, seeding, the grants, authorize and unlinking use both stores as
\* those expect to be used, so the theorems about AccountStore and RefreshStore
\* hold of them here.
THEOREM Disciplined == Spec => StoreDiscipline
    <1>1. Init => A!Init /\ R!Init
        <2>1. ASSUME Init PROVE A!Init /\ R!Init
            <3>1. A!Init /\ DOMAIN users = {} /\ created = {} /\ now = 0
                BY <2>1 DEF Init, A!Init, A!EmptyMap
            <3>2. Account = [u \in User |-> "unborn"]
                BY <3>1 DEF Account
            <3> QED
                BY <2>1, <3>1, <3>2 DEF Init, R!Init, EmptyMap, R!EmptyMap
        <2> QED
            BY <2>1
    <1>2. Inv /\ [Next]_vars => [A!Next]_A!vars /\ [R!Next]_R!vars
        BY AccountStep, RefreshStep
    <1> QED
        BY <1>1, <1>2, Invariance, PTL DEF Spec, A!Spec, R!Spec, StoreDiscipline

-----------------------------------------------------------------------------
(***************************************************************************)
(* The address of a login.  A user keeps it (AP!Stays), and with           *)
(* lower-case provider keys the index finds the user by it.                *)
(***************************************************************************)
\* Index and users stay inverse below these handlers.
LEMMA IndexInvariance ==
    ASSUME MixedCase = {}
    PROVE  Spec => [](Inv /\ AP!IndexInv)
    <1>1. ASSUME Init PROVE AP!IndexInv
        BY <1>1, SameAccountInit DEF Init, AP!Init, AP!EmptyMap, AP!IndexInv
    <1>2. ASSUME Inv, AP!IndexInv, [Next]_vars PROVE AP!IndexInv'
        <2>1. [AP!Next]_AP!vars /\ AP!Inv
            BY <1>2, AccountStep, SameAccountNext DEF Inv, StoreInv
        <2> QED
            BY <1>2, <2>1, AccountAssumptions, AP!IndexStep
    <1>3. Init => AP!IndexInv
        BY <1>1
    <1>4. Inv /\ AP!IndexInv /\ [Next]_vars => AP!IndexInv'
        BY <1>2
    <1> QED
        BY <1>3, <1>4, Invariance, PTL DEF Spec

\* So whoever settled under an address is found by it.
LEMMA SettledFound ==
    ASSUME Inv, AP!IndexInv, NEW u, NEW a, Settled(u, a), u \in DOMAIN users
    PROVE  A!FindUserByEmail(a) = u
    <1>1. a \in AP!Address /\ users[u].email = a
        BY SameOperators DEF Settled
    <1>2. a \in DOMAIN emailIndex /\ emailIndex[a] = u /\ a.upper = FALSE
        BY <1>1 DEF AP!IndexInv
    <1>3. AP!ToLower(a) = a
        BY <1>1, <1>2, AccountAssumptions, AP!Lowered
    <1>4. A!ToLower(a) = a
        BY <1>3, SameOperators
    <1> QED
        BY <1>2, <1>4 DEF A!FindUserByEmail, A!Registered

\* With lower-case provider keys, whoever signed in by an address, at sign-up,
\* with a password or by a hint and a code, holds it as long as it is stored: a
\* login that an AdminDeleteUser and a sign-up overtake never falls to the new
\* holder of its address.
THEOREM SignedInAsHolder ==
    ASSUME MixedCase = {}
    PROVE  Spec => []SignedInHolder
    <1>1. ASSUME Inv, AP!IndexInv PROVE SignedInHolder
        <2>1. /\ \A s \in DOMAIN owner : Settled(owner[s], signedInBy[s])
              /\ \A c \in DOMAIN coded : Settled(coded[c], addressOf[c])
            BY <1>1 DEF Inv, HandlerInv, HistoryAgrees
        <2> QED
            BY <1>1, <2>1, SettledFound DEF SignedInHolder, A!UserExists
    <1>2. Inv /\ AP!IndexInv => SignedInHolder
        BY <1>1
    <1> QED
        BY <1>2, IndexInvariance, PTL

-----------------------------------------------------------------------------
(***************************************************************************)
(* What AccountStore promises, promised by the handlers.                   *)
(***************************************************************************)

\* The handlers behave as AccountStore does.
LEMMA BehavesAsAccountStore == Spec => AP!Spec
    <1>1. Init => AP!Init
        BY SameAccountInit DEF Init
    <1>2. Inv /\ [Next]_vars => [AP!Next]_AP!vars
        BY AccountStep, SameAccountNext
    <1> QED
        BY <1>1, <1>2, Invariance, PTL DEF Spec, AP!Spec

\* However sign-ups, seeds, OAuth sign-ins and unlinks overlap, app_metadata and the
\* identities of every user agree, also between the calls of a seed, and a code that
\* cannot be exchanged never can be again.
THEOREM AccountsInOrder == Spec => []AP!IdentitiesAgree /\ AP!SpentForever
    <1>1. AP!Spec => []AP!IdentitiesAgree
        BY AccountAssumptions, AP!IdentitiesInOrder
    <1>2. AP!Spec => AP!SpentForever
        BY AccountAssumptions, AP!CodeSpentOnce
    <1> QED
        BY <1>1, <1>2, BehavesAsAccountStore, PTL

\* With lower-case provider keys these handlers implement AddressBook: an address has
\* one holder at a time, whom the password grant finds by it, and it changes hands
\* only by the holder's removal.
THEOREM SignInKeepsAddressBook ==
    ASSUME MixedCase = {}
    PROVE  Spec => []AP!EmailIndexAgrees /\ AP!KeepsAddressBook
    <1>1. AP!Spec => []AP!EmailIndexAgrees
        BY AccountAssumptions, AP!EmailIndex
    <1>2. AP!Spec => AP!KeepsAddressBook
        BY AccountAssumptions, AP!ImplementsAddressBook
    <1> QED
        BY <1>1, <1>2, BehavesAsAccountStore, PTL

-----------------------------------------------------------------------------
(***************************************************************************)
(* What RefreshStore promises.                                             *)
(***************************************************************************)
RP == INSTANCE RefreshStoreProofs WITH account <- Account,
          Unissued <- "unissued", Refused <- "refused"

\* The constants are as the theorems about RefreshStore assume.
LEMMA RefreshAssumptions ==
    /\ RP!NoTokenAssumption /\ RP!ReuseIntervalAssumption
    /\ RP!MaxTimeAssumption /\ RP!PositionAssumption
    BY StoreAssumption DEF RP!NoTokenAssumption, RP!ReuseIntervalAssumption,
                           RP!MaxTimeAssumption, RP!PositionAssumption

\* R and RP are two instances of one module, so their steps are the same ...
LEMMA SameRefreshNext == [R!Next]_R!vars <=> [RP!Next]_RP!vars
    BY DEF R!vars, RP!vars, R!Next, RP!Next, R!Tick, RP!Tick, R!Reset, RP!Reset,
           R!NewUser, RP!NewUser, R!DeleteUser, RP!DeleteUser,
           R!IssueSessionWithMethod, RP!IssueSessionWithMethod,
           R!IssueRefreshToken, RP!IssueRefreshToken,
           R!ConsumeRefreshToken, RP!ConsumeRefreshToken,
           R!RevokeRefreshTokensBySession, RP!RevokeRefreshTokensBySession,
           R!UpgradeSessionAAL, RP!UpgradeSessionAAL, R!UserExists, RP!UserExists,
           R!EmptyMap, RP!EmptyMap, R!Fresh, RP!Fresh, R!NewToken, RP!NewToken,
           R!Put, RP!Put, R!Delete, RP!Delete, R!Restrict, RP!Restrict,
           R!EdgesOf, RP!EdgesOf, R!TokensOfSession, RP!TokensOfSession,
           R!TokensOfUser, RP!TokensOfUser, R!SessionsOfUser, RP!SessionsOfUser,
           R!RevokedAt, RP!RevokedAt, R!Rotatable, RP!Rotatable, R!Live, RP!Live

\* ... and their initial states ...
LEMMA SameRefreshInit == R!Init <=> RP!Init
    BY DEF R!Init, RP!Init, R!EmptyMap, RP!EmptyMap

\* ... and so the handlers behave as RefreshStore does.
LEMMA BehavesAsRefreshStore == Spec => RP!Spec
    <1> QED
        BY SameRefreshInit, SameRefreshNext, Disciplined, PTL DEF StoreDiscipline, R!Spec, RP!Spec

\* However OAuth sign-ins, grants and account deletions overlap, a login that the
\* deletion of its user overtakes leaves no session or token behind, and every
\* session it makes can be refreshed.
THEOREM SessionsKept == Spec => []RP!ReferentialIntegrity /\ []RP!SessionRefreshable
    <1>1. RP!Spec => []RP!ReferentialIntegrity
        BY RefreshAssumptions, RP!Integrity
    <1>2. RP!Spec => []RP!SessionRefreshable
        BY RefreshAssumptions, RP!NoStrandedSession
    <1> QED
        BY <1>1, <1>2, BehavesAsRefreshStore, PTL

-----------------------------------------------------------------------------
(***************************************************************************)
(* What liveness rests on: the calls of a request run out.                 *)
(***************************************************************************)
CallsFrom == [idle |-> 0, IssueSession |-> 1, UpdateLastSignIn |-> 2, SetUserMetadata |-> 2,
              CreateAuthCode |-> 1]

\* How many store calls there are at most to the answer: one for each identity
\* that is left of a seed.
Remaining(q) == IF q.at = "AddIdentity" THEN Len(q.seeds) ELSE CallsFrom[q.at]

\* A call of r brings the answer of r nearer and touches no other request.
Advances(r) ==
    /\ Remaining(req'[r]) < Remaining(req[r])
    /\ \A q \in Request \ {r} : req'[q] = req[q]

\* Nothing else touches a request in flight.
RequestsAdvance ==
    \A r \in Request :
        /\ Continue(r) => Advances(r)
        /\ ~Continue(r) => req'[r] = req[r] \/ req[r] = Idle

\* Every call of a handler, with each answer it may get, leads forward.
LEMMA CallAdvances ==
    ASSUME TypeOK, NEW r \in Request, Continue(r)
    PROVE  Advances(r)
    <1>0. req \in [Request -> RequestRecord] /\ req[r] \in RequestRecord
        BY DEF TypeOK
    <1>1. ASSUME NEW v, req' = [req EXCEPT ![r] = v], Remaining(v) < Remaining(req[r])
          PROVE  Advances(r)
        BY <1>0, <1>1 DEF Advances
    <1>2. Remaining(Idle) = 0
        BY DEF Remaining, Idle, CallsFrom
    <1>3. ASSUME req[r].at \in {"SetUserMetadata", "UpdateLastSignIn"}, Goto(r, "IssueSession")
          PROVE  Advances(r)
        <2> DEFINE v == [req[r] EXCEPT !.at = "IssueSession"]
        <2>1. v.at = "IssueSession" /\ req' = [req EXCEPT ![r] = v]
            BY <1>0, <1>3 DEF Goto, RequestRecord
        <2> HIDE DEF v
        <2>2. Remaining(v) = 1
            BY <2>1 DEF Remaining, CallsFrom
        <2>3. Remaining(req[r]) = 2
            BY <1>3 DEF Remaining, CallsFrom
        <2>4. Remaining(v) < Remaining(req[r])
            BY <2>2, <2>3
        <2> QED
            BY <1>1, <2>1, <2>4
    <1>4. ASSUME req[r].at \in LoggingIn \cup {"CreateAuthCode"}, req' = [req EXCEPT ![r] = Idle]
          PROVE  Advances(r)
        <2>1. Remaining(req[r]) \in {1, 2}
            BY <1>4 DEF Remaining, CallsFrom, LoggingIn
        <2>2. Remaining(Idle) < Remaining(req[r])
            BY <1>2, <2>1
        <2> QED
            BY <1>1, <1>4, <2>2
    <1>5. CASE SetUserMetadata(r)
        BY <1>3, <1>5 DEF SetUserMetadata, At
    <1>6. CASE AddIdentity(r)
        <2>1. /\ req[r].at = "AddIdentity" /\ req[r].seeds # <<>>
              /\ req[r].seeds \in Seq(Provider \cup {NoProvider})
            BY <1>0, <1>6 DEF AddIdentity, At, RequestRecord, TypeOK
        <2>2. /\ Len(req[r].seeds) \in Nat \ {0}
              /\ Len(Tail(req[r].seeds)) = Len(req[r].seeds) - 1
            BY <2>1
        <2>3. Remaining(req[r]) = Len(req[r].seeds)
            BY <2>1 DEF Remaining
        <2>4. CASE req' = [req EXCEPT ![r] = Idle]
            <3>1. Remaining(Idle) < Remaining(req[r])
                BY <1>2, <2>2, <2>3
            <3> QED
                BY <1>1, <2>4, <3>1
        <2>5. CASE req' = [req EXCEPT ![r].seeds = Tail(@)]
            <3> DEFINE v == [req[r] EXCEPT !.seeds = Tail(req[r].seeds)]
            <3>1. v.at = "AddIdentity" /\ v.seeds = Tail(req[r].seeds) /\ req' = [req EXCEPT ![r] = v]
                BY <1>0, <2>1, <2>5 DEF RequestRecord
            <3> HIDE DEF v
            <3>2. Remaining(v) = Len(Tail(req[r].seeds))
                BY <3>1 DEF Remaining
            <3>3. Remaining(v) < Remaining(req[r])
                BY <2>2, <2>3, <3>2
            <3> QED
                BY <1>1, <3>1, <3>3
        <2> QED
            BY <1>6, <2>4, <2>5 DEF AddIdentity, Fail
    <1>7. CASE CreateAuthCode(r)
        BY <1>4, <1>7 DEF CreateAuthCode, At
    <1>8. CASE UpdateLastSignIn(r)
        BY <1>3, <1>4, <1>8 DEF UpdateLastSignIn, At, Fail, LoggingIn
    <1>9. CASE IssueSession(r)
        BY <1>4, <1>9 DEF IssueSession, At, LoggingIn
    <1> QED
        BY <1>5, <1>6, <1>7, <1>8, <1>9 DEF Continue

\* A request arrives in an idle place.
LEMMA ArrivesIdle ==
    ASSUME TypeOK, NEW r \in Request, Arrive(r)
    PROVE  /\ req[r] = Idle \/ req' = req
           /\ \A q \in Request \ {r} : req'[q] = req[q]
    <1>1. req \in [Request -> RequestRecord]
        BY DEF TypeOK
    <1>2. ASSUME NEW call, Begin(r, call)
          PROVE  req[r] = Idle /\ \A q \in Request \ {r} : req'[q] = req[q]
        BY <1>1, <1>2 DEF Begin
    <1>3. (\E call : Begin(r, call)) \/ req' = req
        BY DEF Arrive, Signup, SeedUser, tokenPassword, Authorize, tokenPKCE
    <1> QED
        BY <1>2, <1>3

\* However requests overlap, fail or find their user deleted, none is set back or
\* tried again: each call takes the request that makes it nearer to its answer, a
\* seed by one of its identities, and nothing else touches it.  With the fairness of
\* Spec this is why every request is answered.
THEOREM CallsRunOut == Spec => [][RequestsAdvance]_vars
    <1>1. ASSUME TypeOK, Next PROVE RequestsAdvance
        <2> SUFFICES ASSUME NEW r \in Request
                     PROVE  /\ Continue(r) => Advances(r)
                            /\ ~Continue(r) => req'[r] = req[r] \/ req[r] = Idle
            BY DEF RequestsAdvance
        <2>1. Continue(r) => Advances(r)
            BY <1>1, CallAdvances
        <2>2. ASSUME ~Continue(r) PROVE req'[r] = req[r] \/ req[r] = Idle
            <3>1. CASE Tick \/ SingleCall
                <4>1. req' = req
                    BY <3>1 DEF Tick, SingleCall, AdminDeleteUser, UnlinkIdentity, Reset
                <4> QED
                    BY <4>1
            <3>2. ASSUME NEW q \in Request, Arrive(q) PROVE req'[r] = req[r] \/ req[r] = Idle
                BY <1>1, <3>2, ArrivesIdle
            <3>3. ASSUME NEW q \in Request, Continue(q) PROVE req'[r] = req[r]
                <4>1. q # r
                    BY <2>2, <3>3
                <4>2. Advances(q)
                    BY <1>1, <3>3, CallAdvances
                <4> QED
                    BY <4>1, <4>2 DEF Advances
            <3> QED
                BY <1>1, <3>1, <3>2, <3>3 DEF Next
        <2> QED
            BY <2>1, <2>2
    <1>2. TypeOK /\ [Next]_vars => [RequestsAdvance]_vars
        BY <1>1
    <1> QED
        BY <1>2, TypeCorrect, PTL DEF Spec

=============================================================================
