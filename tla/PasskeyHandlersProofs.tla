----------------------- MODULE PasskeyHandlersProofs -----------------------
(***************************************************************************)
(* Proofs about PasskeyHandlers, for every number of requests, users,      *)
(* passkeys and challenges.  The steps are sorted into kinds by what they  *)
(* do to the variables of the ceremonies, and each part of the invariant   *)
(* is shown to survive each kind; the rest comes from the proofs about     *)
(* PasskeyStore.                                                           *)
(***************************************************************************)
EXTENDS PasskeyHandlers, TLAPS

PP == INSTANCE PasskeyStoreProofs

\* The constants are as the theorems about PasskeyStore assume.
LEMMA PasskeyAssumptions ==
    PP!NoUserAssumption /\ PP!ChallengeTTLAssumption /\ PP!ClockAssumption
    BY StoreAssumption DEF PP!NoUserAssumption, PP!ChallengeTTLAssumption, PP!ClockAssumption

\* PP and P are two instances of one module, so their steps are the same ...
LEMMA SamePasskeyNext == [P!Next]_P!vars <=> [PP!Next]_PP!vars
    BY DEF P!vars, PP!vars, P!Next, PP!Next, P!Tick, PP!Tick, P!Reset, PP!Reset,
           P!NewUser, PP!NewUser, P!DeleteUser, PP!DeleteUser,
           P!CreatePasskeyChallenge, PP!CreatePasskeyChallenge,
           P!ConsumePasskeyChallenge, PP!ConsumePasskeyChallenge,
           P!AddPasskey, PP!AddPasskey, P!MarkPasskeyUsed, PP!MarkPasskeyUsed,
           P!DeletePasskey, PP!DeletePasskey, P!deletePasskeysLocked, PP!deletePasskeysLocked,
           P!PasskeysOfUser, PP!PasskeysOfUser, P!ChallengesOfUser, PP!ChallengesOfUser,
           P!Found, PP!Found, P!UserExists, PP!UserExists, P!Purpose, PP!Purpose,
           P!EmptyMap, PP!EmptyMap, P!Fresh, PP!Fresh, P!Put, PP!Put,
           P!Delete, PP!Delete, P!Restrict, PP!Restrict

\* ... and their initial states.
LEMMA SamePasskeyInit == P!Init <=> PP!Init
    BY DEF P!Init, PP!Init, P!EmptyMap, PP!EmptyMap

-----------------------------------------------------------------------------
(***************************************************************************)
(* The invariant.                                                          *)
(***************************************************************************)
StoreInv == PP!TypeOK /\ PP!NoOrphans

\* A login that has looked its passkey up.
Holding == {"FindUserByID", "MarkPasskeyUsed", "IssueSession"}

\* The calls of a request whose challenge was accepted.
Passing == {"AddPasskey", "FindPasskeyByCredentialID"} \cup Holding

\* What a request in flight carries was handed out by the store.
KnownRequest(q) ==
    /\ q.at # "idle" => q.challenge \in DOMAIN challenged /\ q.credential \in Credential
    /\ q.at \in Registering => q.user \in User
    /\ q.at \in Holding => q.passkey \in registered /\ q.user = registeredWith[q.passkey].user
    /\ q.at \notin Holding => q.passkey = None

RequestsKnown == \A r \in Request : KnownRequest(req[r])

\* The histories agree with what the store keeps of passkeys and challenges.
HistoryAgrees ==
    /\ \A pk \in DOMAIN passkeys : passkeys[pk].user = registeredWith[pk].user
    /\ \A c \in DOMAIN passkeyChallenges :
           /\ passkeyChallenges[c].user = requester[c]
           /\ passkeyChallenges[c].purpose = challenged[c]
    /\ \A c \in DOMAIN challenged : requester[c] = NoUser <=> challenged[c] = "authentication"

\* A challenge that was accepted is gone, and stands behind one request, one
\* passkey or one session.
SpentChallenge(c) == c \notin DOMAIN passkeyChallenges

SpentOnce ==
    /\ \A r \in Request : req[r].at \in Passing =>
           /\ SpentChallenge(req[r].challenge)
           /\ \A q \in Request \ {r} :
                  req[q].at \in Passing => req[q].challenge # req[r].challenge
           /\ \A pk \in registered : registeredWith[pk].challenge # req[r].challenge
           /\ \A s \in DOMAIN signedInWith : signedInWith[s].challenge # req[r].challenge
    /\ \A pk \in registered : SpentChallenge(registeredWith[pk].challenge)
    /\ \A s \in DOMAIN signedInWith : SpentChallenge(signedInWith[s].challenge)

\* The challenge behind a request that goes on is one of its kind and user.
OwnChallenge ==
    \A r \in Request :
        /\ req[r].at = "AddPasskey" => requester[req[r].challenge] = req[r].user
        /\ req[r].at \in Passing \ {"AddPasskey"} => requester[req[r].challenge] = NoUser

HandlerInv == TypeOK /\ RequestsKnown /\ HistoryAgrees /\ SpentOnce /\ OwnChallenge

Inv == StoreInv /\ HandlerInv /\ CeremonyBound /\ UsedExactly

-----------------------------------------------------------------------------
(***************************************************************************)
(* The kinds of steps.                                                     *)
(***************************************************************************)
ceremonyVars == <<passkeys, passkeyChallenges, challenged, registered, owner>>

\* A part of a map is left.
PartOf(map, whole) ==
    DOMAIN map \subseteq DOMAIN whole /\ \A k \in DOMAIN map : map[k] = whole[k]

\* Passkeys and challenges may go; the requests do not notice yet.
Elsewhere ==
    /\ PartOf(passkeys', passkeys) /\ PartOf(passkeyChallenges', passkeyChallenges)
    /\ UNCHANGED <<challenged, registered, owner, req, historyVars>>

\* A challenge is made, for a user or for a login.
Asks(u, purpose, c) ==
    /\ c \in Challenge \ DOMAIN challenged
    /\ passkeyChallenges' =
           Put(passkeyChallenges, c, [user |-> u, purpose |-> purpose, expiresAt |-> now + ChallengeTTL])
    /\ challenged' = Put(challenged, c, purpose)
    /\ requester' = Put(requester, c, u)
    /\ UNCHANGED <<passkeys, registered, owner, req, registeredWith, signedInWith>>

AsksOne ==
    \/ \E c \in Challenge : Asks(NoUser, "authentication", c)
    \/ \E u \in User, c \in Challenge : Asks(u, "registration", c)

\* A request arrives.
Arrives(r) ==
    /\ req[r].at = "idle"
    /\ \E v \in RequestRecord :
           /\ v.at \in {"ConsumeRegistration", "ConsumeAuthentication"}
           /\ KnownRequest(v)
           /\ req' = [req EXCEPT ![r] = v]
    /\ UNCHANGED <<ceremonyVars, historyVars>>

\* It is answered with an error; a challenge it named may be gone.
Fails(r) ==
    /\ req[r].at = "IssueSession" => ~P!UserExists(req[r].user)
    /\ req' = [req EXCEPT ![r] = Idle]
    /\ PartOf(passkeyChallenges', passkeyChallenges)
    /\ UNCHANGED <<passkeys, challenged, registered, owner, historyVars>>

\* Its challenge is accepted.
Accepts(r) ==
    /\ req[r].challenge \in DOMAIN passkeyChallenges
    /\ \/ /\ req[r].at = "ConsumeRegistration" /\ Goto(r, "AddPasskey")
          /\ passkeyChallenges[req[r].challenge].user = req[r].user
       \/ /\ req[r].at = "ConsumeAuthentication" /\ Goto(r, "FindPasskeyByCredentialID")
          /\ passkeyChallenges[req[r].challenge].purpose = "authentication"
    /\ passkeyChallenges' = Delete(passkeyChallenges, {req[r].challenge})
    /\ UNCHANGED <<passkeys, challenged, registered, owner, historyVars>>

\* It looks its passkey up.
Finds(r) ==
    /\ req[r].at = "FindPasskeyByCredentialID"
    /\ \E pk \in DOMAIN passkeys :
           req' = [req EXCEPT ![r].at = "FindUserByID", ![r].passkey = pk,
                              ![r].user = passkeys[pk].user]
    /\ UNCHANGED <<ceremonyVars, historyVars>>

GoesOn(r) ==
    /\ req[r].at = "FindUserByID" /\ Goto(r, "MarkPasskeyUsed")
    /\ UNCHANGED <<ceremonyVars, historyVars>>

\* It marks its passkey, if that is still there.
Marks(r) ==
    /\ req[r].at = "MarkPasskeyUsed" /\ Goto(r, "IssueSession")
    /\ passkeys' = IF req[r].passkey \in DOMAIN passkeys
                   THEN [passkeys EXCEPT ![req[r].passkey].used = TRUE]
                   ELSE passkeys
    /\ UNCHANGED <<passkeyChallenges, challenged, registered, owner, historyVars>>

\* A registration ends in a new passkey.
Registers(r, pk) ==
    /\ req[r].at = "AddPasskey"
    /\ pk \in Passkey \ registered
    /\ passkeys' = Put(passkeys, pk, [user |-> req[r].user, credential |-> req[r].credential, used |-> FALSE])
    /\ registered' = registered \cup {pk}
    /\ registeredWith' = Put(registeredWith, pk, [user |-> req[r].user, challenge |-> req[r].challenge])
    /\ req' = [req EXCEPT ![r] = Idle]
    /\ UNCHANGED <<passkeyChallenges, challenged, owner, requester, signedInWith>>

\* A login ends in a new session.
SignsIn(r, s) ==
    /\ req[r].at = "IssueSession"
    /\ s \in Session \ DOMAIN owner
    /\ owner' = Put(owner, s, req[r].user)
    /\ signedInWith' = Put(signedInWith, s, [passkey |-> req[r].passkey, challenge |-> req[r].challenge])
    /\ req' = [req EXCEPT ![r] = Idle]
    /\ UNCHANGED <<passkeys, passkeyChallenges, challenged, registered, requester, registeredWith>>

RequestStep(r) ==
    \/ Arrives(r)
    \/ Fails(r)
    \/ Accepts(r)
    \/ Finds(r)
    \/ GoesOn(r)
    \/ Marks(r)
    \/ \E pk \in Passkey : Registers(r, pk)
    \/ \E s \in Session : SignsIn(r, s)

\* Single-call handlers and the clock.
LEMMA SingleKinds ==
    ASSUME Inv, SingleCall \/ Tick
    PROVE  Elsewhere \/ AsksOne
    <1> USE DEF PartOf
    <1>1. CASE Tick
        BY <1>1 DEF Tick, R!Tick, P!Tick, Elsewhere
    <1>2. CASE Reset
        BY <1>2 DEF Reset, R!Reset, P!Reset, P!EmptyMap, Elsewhere
    <1>3. ASSUME NEW u \in User, SeedUser(u) PROVE Elsewhere
        BY <1>3 DEF SeedUser, R!NewUser, P!NewUser, Elsewhere
    <1>4. ASSUME NEW u \in User, AdminDeleteUser(u) PROVE Elsewhere
        BY <1>4 DEF AdminDeleteUser, R!DeleteUser, P!DeleteUser, P!deletePasskeysLocked,
                    P!Delete, P!Restrict, Elsewhere
    <1>5. ASSUME NEW u \in User, NEW pk \in registered, PasskeyDelete(u, pk) PROVE Elsewhere
        BY <1>5 DEF PasskeyDelete, P!DeletePasskey, P!deletePasskeysLocked, P!Delete, P!Restrict,
                    refreshVars, Elsewhere
    <1>6. ASSUME NEW c \in Fresh(Challenge \ DOMAIN challenged), PasskeyAuthenticationOptions(c)
          PROVE  AsksOne
        <2>1. c \in Challenge \ DOMAIN challenged
            BY DEF Fresh
        <2> QED
            BY <1>6, <2>1 DEF PasskeyAuthenticationOptions, P!CreatePasskeyChallenge, P!Put, Put,
                              refreshVars, Asks, AsksOne
    <1>7. ASSUME NEW c \in Fresh(Challenge \ DOMAIN challenged), NEW u \in User,
                 PasskeyRegistrationOptions(u, c)
          PROVE  AsksOne
        <2>1. c \in Challenge \ DOMAIN challenged
            BY DEF Fresh
        <2> QED
            BY <1>7, <2>1 DEF PasskeyRegistrationOptions, P!CreatePasskeyChallenge, P!Put, Put,
                              refreshVars, Asks, AsksOne
    <1> QED
        BY <1>1, <1>2, <1>3, <1>4, <1>5, <1>6, <1>7 DEF SingleCall

\* The calls of a request in flight.
LEMMA ContinueKinds ==
    ASSUME Inv, NEW r \in Request, Continue(r)
    PROVE  RequestStep(r)
    <1> USE DEF At
    <1>1. KnownRequest(req[r]) /\ req[r] \in RequestRecord
        BY DEF Inv, HandlerInv, TypeOK, RequestsKnown
    <1>2. ASSUME Fail(r), UNCHANGED <<storeVars, historyVars>>, req[r].at # "IssueSession"
          PROVE  RequestStep(r)
        BY <1>2 DEF Fail, storeVars, refreshVars, passkeyVars, Fails, RequestStep, PartOf
    <1>3. CASE ConsumeRegistration(r)
        <2> DEFINE c == req[r].challenge
        <2>1. CASE /\ P!ConsumePasskeyChallenge(c, "registration")
                   /\ UNCHANGED refreshVars
                   /\ IF P!Expired(c) \/ passkeyChallenges[c].user # req[r].user
                      THEN Fail(r) ELSE Goto(r, "AddPasskey")
            <3>1. /\ c \in DOMAIN passkeyChallenges
                  /\ passkeyChallenges' = Delete(passkeyChallenges, {c})
                  /\ UNCHANGED <<passkeys, challenged, registered, owner, historyVars>>
                BY <1>3, <2>1 DEF ConsumeRegistration, P!ConsumePasskeyChallenge, P!Found,
                       P!Delete, P!Restrict, Delete, Restrict, refreshVars
            <3>2. PartOf(passkeyChallenges', passkeyChallenges)
                BY <3>1 DEF PartOf, Delete, Restrict
            <3>3. CASE Fail(r)
                BY <1>3, <3>1, <3>2, <3>3 DEF ConsumeRegistration, Fail, Fails, RequestStep
            <3>4. CASE Goto(r, "AddPasskey") /\ passkeyChallenges[c].user = req[r].user
                BY <1>3, <3>1, <3>4 DEF ConsumeRegistration, Accepts, RequestStep
            <3> QED
                BY <2>1, <3>3, <3>4
        <2> QED
            BY <1>2, <1>3, <2>1 DEF ConsumeRegistration
    <1>4. CASE AddPasskey(r)
        <2>1. ASSUME NEW pk \in Fresh(Passkey \ registered),
                     P!AddPasskey(req[r].user, req[r].credential, pk),
                     UNCHANGED refreshVars,
                     registeredWith' = Put(registeredWith, pk,
                                           [user |-> req[r].user, challenge |-> req[r].challenge])
              PROVE  RequestStep(r)
            <3>1. pk \in Passkey \ registered
                BY DEF Fresh
            <3>2. Registers(r, pk)
                BY <1>4, <2>1, <3>1 DEF AddPasskey, P!AddPasskey, P!Put, Put, refreshVars, Registers
            <3> QED
                BY <3>1, <3>2 DEF RequestStep
        <2>2. CASE UNCHANGED <<storeVars, registeredWith>>
            BY <1>2, <1>4, <2>2 DEF AddPasskey, Fail, historyVars
        <2> QED
            BY <1>4, <2>1, <2>2 DEF AddPasskey
    <1>5. CASE ConsumeAuthentication(r)
        <2> DEFINE c == req[r].challenge
        <2>1. CASE /\ P!ConsumePasskeyChallenge(c, "authentication")
                   /\ UNCHANGED refreshVars
                   /\ IF P!Expired(c) THEN Fail(r) ELSE Goto(r, "FindPasskeyByCredentialID")
            <3>1. /\ c \in DOMAIN passkeyChallenges
                  /\ passkeyChallenges[c].purpose = "authentication"
                  /\ passkeyChallenges' = Delete(passkeyChallenges, {c})
                  /\ UNCHANGED <<passkeys, challenged, registered, owner, historyVars>>
                BY <1>5, <2>1 DEF ConsumeAuthentication, P!ConsumePasskeyChallenge, P!Found,
                       P!Delete, P!Restrict, Delete, Restrict, refreshVars
            <3>2. PartOf(passkeyChallenges', passkeyChallenges)
                BY <3>1 DEF PartOf, Delete, Restrict
            <3>3. CASE Fail(r)
                BY <1>5, <3>1, <3>2, <3>3 DEF ConsumeAuthentication, Fail, Fails, RequestStep
            <3>4. CASE Goto(r, "FindPasskeyByCredentialID")
                BY <1>5, <3>1, <3>4 DEF ConsumeAuthentication, Accepts, RequestStep
            <3> QED
                BY <2>1, <3>3, <3>4
        <2> QED
            BY <1>2, <1>5, <2>1 DEF ConsumeAuthentication
    <1>6. CASE FindPasskeyByCredentialID(r)
        <2> DEFINE pk == passkeyByCred[req[r].credential]
        <2>1. CASE /\ pk \in DOMAIN passkeys
                   /\ req' = [req EXCEPT ![r].at = "FindUserByID", ![r].passkey = pk,
                                         ![r].user = passkeys[pk].user]
            BY <1>6, <2>1 DEF FindPasskeyByCredentialID, storeVars, refreshVars, passkeyVars,
                              ceremonyVars, Finds, RequestStep
        <2> QED
            BY <1>2, <1>6, <2>1 DEF FindPasskeyByCredentialID
    <1>7. CASE FindUserByID(r)
        <2>1. CASE Goto(r, "MarkPasskeyUsed")
            BY <1>7, <2>1 DEF FindUserByID, storeVars, refreshVars, passkeyVars, ceremonyVars,
                              GoesOn, RequestStep
        <2> QED
            BY <1>2, <1>7, <2>1 DEF FindUserByID
    <1>8. CASE MarkPasskeyUsed(r)
        BY <1>8 DEF MarkPasskeyUsed, P!MarkPasskeyUsed, storeVars, refreshVars, passkeyVars,
                    Marks, RequestStep
    <1>9. CASE IssueSession(r)
        <2>1. ASSUME NEW s \in Fresh(Session \ DOMAIN owner), NEW t \in Fresh(Token \ minted),
                     R!IssueSessionWithMethod(req[r].user, "webauthn", s, t),
                     UNCHANGED passkeyVars,
                     signedInWith' = Put(signedInWith, s,
                                         [passkey |-> req[r].passkey, challenge |-> req[r].challenge])
              PROVE  RequestStep(r)
            <3>1. s \in Session \ DOMAIN owner
                BY DEF Fresh
            <3>2. SignsIn(r, s)
                BY <1>9, <2>1, <3>1 DEF IssueSession, R!IssueSessionWithMethod, R!Put, Put,
                                        passkeyVars, SignsIn
            <3> QED
                BY <3>1, <3>2 DEF RequestStep
        <2>2. CASE ~R!UserExists(req[r].user) /\ UNCHANGED <<storeVars, signedInWith>>
            BY <1>9, <2>2 DEF IssueSession, R!UserExists, P!UserExists, storeVars, refreshVars,
                              passkeyVars, historyVars, Fails, RequestStep, PartOf
        <2> QED
            BY <1>9, <2>1, <2>2 DEF IssueSession
    <1> QED
        BY <1>3, <1>4, <1>5, <1>6, <1>7, <1>8, <1>9 DEF Continue

\* The arrival of one.
LEMMA ArriveKinds ==
    ASSUME Inv, NEW r \in Request, Arrive(r)
    PROVE  RequestStep(r)
    <1>1. PICK c \in DOMAIN challenged, cred \in Credential :
              \/ PasskeyAuthenticationVerify(r, c, cred)
              \/ \E u \in User : PasskeyRegistrationVerify(r, u, c, cred)
        BY DEF Arrive
    <1>2. c \in Challenge
        BY DEF Inv, StoreInv, PP!TypeOK
    <1>3. CASE PasskeyAuthenticationVerify(r, c, cred)
        <2> DEFINE v == [Idle EXCEPT !.at = "ConsumeAuthentication", !.challenge = c,
                                     !.credential = cred]
        <2>1. v \in RequestRecord /\ v.at = "ConsumeAuthentication" /\ KnownRequest(v)
            BY <1>2 DEF RequestRecord, Registering, SigningIn, KnownRequest, Holding, Idle
        <2>2. req' = [req EXCEPT ![r] = v] /\ UNCHANGED <<storeVars, historyVars>>
            BY <1>3 DEF PasskeyAuthenticationVerify, Begin
        <2>3. req[r].at = "idle"
            BY <1>3 DEF PasskeyAuthenticationVerify, Begin, Idle
        <2> HIDE DEF v
        <2> QED
            BY <2>1, <2>2, <2>3 DEF Arrives, RequestStep, storeVars, refreshVars, passkeyVars,
                                    ceremonyVars
    <1>4. ASSUME NEW u \in User, PasskeyRegistrationVerify(r, u, c, cred)
          PROVE  RequestStep(r)
        <2> DEFINE v == [Idle EXCEPT !.at = "ConsumeRegistration", !.user = u, !.challenge = c,
                                     !.credential = cred]
        <2>1. v \in RequestRecord /\ v.at = "ConsumeRegistration" /\ KnownRequest(v)
            BY <1>2 DEF RequestRecord, Registering, SigningIn, KnownRequest, Holding, Idle
        <2>2. req' = [req EXCEPT ![r] = v] /\ UNCHANGED <<storeVars, historyVars>>
            BY <1>4 DEF PasskeyRegistrationVerify, Begin
        <2>3. req[r].at = "idle"
            BY <1>4 DEF PasskeyRegistrationVerify, Begin, Idle
        <2> HIDE DEF v
        <2> QED
            BY <2>1, <2>2, <2>3 DEF Arrives, RequestStep, storeVars, refreshVars, passkeyVars,
                                    ceremonyVars
    <1> QED
        BY <1>1, <1>3, <1>4

\* These are all the steps.
LEMMA StepKinds ==
    ASSUME Inv, [Next]_vars
    PROVE  Elsewhere \/ AsksOne \/ \E r \in Request : RequestStep(r)
    <1>1. CASE UNCHANGED vars
        BY <1>1 DEF vars, storeVars, refreshVars, passkeyVars, Elsewhere, PartOf
    <1> QED
        BY <1>1, SingleKinds, ContinueKinds, ArriveKinds DEF Next

-----------------------------------------------------------------------------
(***************************************************************************)
(* Each kind of step preserves the invariant of the ceremonies.            *)
(***************************************************************************)
CeremonyInv == HandlerInv /\ CeremonyBound /\ UsedExactly

\* What the types say of the maps of the store and of one request.
LEMMA Shapes ==
    ASSUME Inv
    PROVE  /\ DOMAIN passkeys \subseteq registered /\ registered \subseteq Passkey
           /\ DOMAIN passkeyChallenges \subseteq DOMAIN challenged
           /\ DOMAIN challenged \subseteq Challenge
           /\ DOMAIN requester = DOMAIN challenged
           /\ DOMAIN registeredWith = registered
           /\ DOMAIN req = Request
           /\ DOMAIN signedInWith \subseteq DOMAIN owner
    BY DEF Inv, StoreInv, HandlerInv, TypeOK, PP!TypeOK

\* ... when parts of the store go.
LEMMA ElsewhereKeeps ==
    ASSUME Inv, Elsewhere
    PROVE  CeremonyInv'
    <1> USE DEF Elsewhere, PartOf, historyVars
    <1>1. TypeOK'
        BY DEF Inv, HandlerInv, TypeOK, RequestRecord
    <1>2. RequestsKnown'
        BY DEF Inv, HandlerInv, RequestsKnown, KnownRequest
    <1>3. HistoryAgrees'
        BY DEF Inv, HandlerInv, HistoryAgrees
    <1>4. SpentOnce'
        BY DEF Inv, HandlerInv, SpentOnce, SpentChallenge
    <1>5. OwnChallenge'
        BY DEF Inv, HandlerInv, OwnChallenge
    <1>6. CeremonyBound'
        BY DEF Inv, CeremonyBound
    <1>7. UsedExactly'
        BY DEF Inv, UsedExactly, At
    <1> QED
        BY <1>1, <1>2, <1>3, <1>4, <1>5, <1>6, <1>7 DEF CeremonyInv, HandlerInv

\* ... when a challenge is made: it is new, so nothing refers to it.
LEMMA AskKeeps ==
    ASSUME Inv, NEW u \in User \cup {NoUser}, NEW purpose \in P!Purpose, NEW c, Asks(u, purpose, c),
           u = NoUser <=> purpose = "authentication"
    PROVE  CeremonyInv'
    <1> USE Shapes
    <1>0. /\ \A d \in DOMAIN challenged : requester'[d] = requester[d] /\ challenged'[d] = challenged[d]
          /\ DOMAIN requester' = DOMAIN challenged \cup {c}
          /\ DOMAIN challenged' = DOMAIN challenged \cup {c}
          /\ requester'[c] = u /\ challenged'[c] = purpose
          /\ c \notin DOMAIN challenged
          /\ UNCHANGED <<passkeys, registered, owner, req, registeredWith, signedInWith>>
        BY DEF Asks, Put
    <1>1. TypeOK'
        <2>1. requester' \in [DOMAIN challenged' -> User \cup {NoUser}]
            BY DEF Asks, Put, Inv, HandlerInv, TypeOK
        <2>2. registeredWith' \in [registered' -> [user : User, challenge : DOMAIN challenged']]
            BY <1>0 DEF Inv, HandlerInv, TypeOK
        <2>3. signedInWith' \in [DOMAIN signedInWith' ->
                                    [passkey : registered', challenge : DOMAIN challenged']]
            BY <1>0 DEF Inv, HandlerInv, TypeOK
        <2>4. req' \in [Request -> RequestRecord]
            BY <1>0 DEF Inv, HandlerInv, TypeOK
        <2> QED
            BY <1>0, <2>1, <2>2, <2>3, <2>4 DEF Inv, HandlerInv, TypeOK
    <1>2. RequestsKnown'
        BY <1>0 DEF Inv, HandlerInv, RequestsKnown, KnownRequest
    <1>3. HistoryAgrees'
        <2>1. \A d \in DOMAIN passkeyChallenges' :
                  /\ passkeyChallenges'[d].user = requester'[d]
                  /\ passkeyChallenges'[d].purpose = challenged'[d]
            BY <1>0 DEF Asks, Put, Inv, HandlerInv, HistoryAgrees
        <2> QED
            BY <1>0, <2>1 DEF Inv, HandlerInv, HistoryAgrees
    <1>4. SpentOnce'
        <2>1. DOMAIN passkeyChallenges' = DOMAIN passkeyChallenges \cup {c}
            BY DEF Asks, Put
        <2>2. \A r \in Request : req[r].at \in Passing => req[r].challenge # c
            BY <1>0 DEF Inv, HandlerInv, RequestsKnown, KnownRequest, Passing, Holding
        <2>3. /\ \A pk \in registered : registeredWith[pk].challenge # c
              /\ \A s \in DOMAIN signedInWith : signedInWith[s].challenge # c
            BY <1>0 DEF Inv, HandlerInv, TypeOK
        <2> QED
            BY <1>0, <2>1, <2>2, <2>3 DEF Inv, HandlerInv, SpentOnce, SpentChallenge
    <1>5. OwnChallenge'
        BY <1>0 DEF Inv, HandlerInv, OwnChallenge, RequestsKnown, KnownRequest, Passing, Holding
    <1>6. CeremonyBound'
        BY <1>0 DEF Inv, HandlerInv, TypeOK, CeremonyBound
    <1>7. UsedExactly'
        BY <1>0 DEF Inv, UsedExactly, At
    <1> QED
        BY <1>1, <1>2, <1>3, <1>4, <1>5, <1>6, <1>7 DEF CeremonyInv, HandlerInv

\* ... when a request arrives.
LEMMA ArrivalKeeps ==
    ASSUME Inv, NEW r \in Request, Arrives(r)
    PROVE  CeremonyInv'
    <1> USE Shapes
    <1>1. PICK v \in RequestRecord :
              /\ v.at \in {"ConsumeRegistration", "ConsumeAuthentication"}
              /\ KnownRequest(v)
              /\ req' = [req EXCEPT ![r] = v]
        BY DEF Arrives
    <1>2. UNCHANGED <<ceremonyVars, historyVars>>
        BY DEF Arrives
    <1>3. /\ req'[r] = v /\ \A q \in Request \ {r} : req'[q] = req[q]
          /\ v.at \notin Passing /\ v.passkey = None
        BY <1>1 DEF Passing, Holding, KnownRequest
    <1> USE <1>2, <1>3 DEF ceremonyVars, historyVars
    <1>4. TypeOK'
        BY <1>1 DEF Inv, HandlerInv, TypeOK
    <1>5. RequestsKnown'
        BY <1>1 DEF Inv, HandlerInv, RequestsKnown, KnownRequest
    <1>6. HistoryAgrees'
        BY DEF Inv, HandlerInv, HistoryAgrees
    <1>7. SpentOnce'
        BY DEF Inv, HandlerInv, SpentOnce, SpentChallenge
    <1>8. OwnChallenge'
        BY DEF Inv, HandlerInv, OwnChallenge, Passing
    <1>9. CeremonyBound'
        BY DEF Inv, CeremonyBound
    <1>10. UsedExactly'
        <2>1. req[r].at # "IssueSession" /\ req'[r].at # "IssueSession"
            BY <1>1 DEF Arrives
        <2> QED
            BY <2>1 DEF Inv, UsedExactly, At
    <1> QED
        BY <1>4, <1>5, <1>6, <1>7, <1>8, <1>9, <1>10 DEF CeremonyInv, HandlerInv

\* ... when a request fails.  A login that fails once its passkey is marked has
\* lost its user, so the passkey is no longer stored.
LEMMA FailureKeeps ==
    ASSUME Inv, NEW r \in Request, Fails(r)
    PROVE  CeremonyInv'
    <1> USE Shapes
    <1>1. /\ req'[r] = Idle /\ \A q \in Request \ {r} : req'[q] = req[q]
          /\ Idle.at = "idle" /\ Idle.passkey = None
          /\ Idle.at \notin Passing
          /\ PartOf(passkeyChallenges', passkeyChallenges)
          /\ UNCHANGED <<passkeys, challenged, registered, owner, historyVars>>
        BY DEF Fails, Idle, Passing, Holding
    <1> USE <1>1 DEF historyVars, PartOf
    <1>2. TypeOK'
        <2>1. req' \in [Request -> RequestRecord]
            BY DEF Fails, Inv, HandlerInv, TypeOK, RequestRecord, Idle
        <2> QED
            BY <2>1 DEF Inv, HandlerInv, TypeOK
    <1>3. RequestsKnown'
        <2>1. KnownRequest(req[r])'
            BY DEF KnownRequest, Registering, Holding
        <2>2. \A q \in Request \ {r} : KnownRequest(req[q])'
            BY DEF Inv, HandlerInv, RequestsKnown, KnownRequest
        <2> QED
            BY <2>1, <2>2 DEF RequestsKnown, KnownRequest
    <1>4. HistoryAgrees'
        BY DEF Inv, HandlerInv, HistoryAgrees
    <1>5. SpentOnce'
        BY DEF Inv, HandlerInv, SpentOnce, SpentChallenge
    <1>6. OwnChallenge'
        BY DEF Inv, HandlerInv, OwnChallenge, Passing
    <1>7. CeremonyBound'
        BY DEF Inv, CeremonyBound
    <1>8. UsedExactly'
        <2>1. ~(req[r].at = "IssueSession" /\ req[r].passkey \in DOMAIN passkeys)
            <3> SUFFICES ASSUME req[r].at = "IssueSession", req[r].passkey \in DOMAIN passkeys
                         PROVE  FALSE
                OBVIOUS
            <3>1. passkeys[req[r].passkey].user = req[r].user
                BY DEF Inv, HandlerInv, RequestsKnown, KnownRequest, HistoryAgrees, Holding
            <3> QED
                BY <3>1 DEF Fails, Inv, StoreInv, PP!NoOrphans, PP!UserExists, P!UserExists
        <2> QED
            BY <2>1 DEF Inv, UsedExactly, At
    <1> QED
        BY <1>2, <1>3, <1>4, <1>5, <1>6, <1>7, <1>8 DEF CeremonyInv, HandlerInv

\* The next call is all that changes.
LEMMA GotoEffect ==
    ASSUME req \in [Request -> RequestRecord], NEW r \in Request,
           NEW call \in {"idle"} \cup Registering \cup SigningIn, Goto(r, call)
    PROVE  /\ req' \in [Request -> RequestRecord]
           /\ req'[r].at = call
           /\ req'[r].user = req[r].user /\ req'[r].credential = req[r].credential
           /\ req'[r].challenge = req[r].challenge /\ req'[r].passkey = req[r].passkey
           /\ \A q \in Request \ {r} : req'[q] = req[q]
    BY DEF Goto, RequestRecord

\* ... when a challenge is accepted: it was stored, so it stands behind nothing
\* yet, and it is not stored from here on.
LEMMA AcceptanceKeeps ==
    ASSUME Inv, NEW r \in Request, Accepts(r)
    PROVE  CeremonyInv'
    <1> DEFINE c == req[r].challenge
    <1> USE Shapes
    <1>1. /\ req[r].at \in {"ConsumeRegistration", "ConsumeAuthentication"}
          /\ req'[r].at \in {"AddPasskey", "FindPasskeyByCredentialID"}
          /\ \A q \in Request \ {r} : req'[q] = req[q]
          /\ req' \in [Request -> RequestRecord]
          /\ req'[r].user = req[r].user /\ req'[r].credential = req[r].credential
          /\ req'[r].challenge = req[r].challenge /\ req'[r].passkey = req[r].passkey
          /\ UNCHANGED <<passkeys, challenged, registered, owner, historyVars>>
        BY GotoEffect DEF Accepts, Registering, SigningIn, Inv, HandlerInv, TypeOK
    <1>2. /\ c \in DOMAIN passkeyChallenges
          /\ DOMAIN passkeyChallenges' = DOMAIN passkeyChallenges \ {c}
          /\ PartOf(passkeyChallenges', passkeyChallenges)
        BY DEF Accepts, Delete, Restrict, PartOf
    <1> USE <1>1, <1>2 DEF historyVars, PartOf
    <1>3. TypeOK'
        BY DEF Inv, HandlerInv, TypeOK
    <1>4. RequestsKnown'
        <2>1. KnownRequest(req[r])'
            BY GotoEffect DEF Accepts, Inv, HandlerInv, TypeOK, RequestsKnown, KnownRequest,
                   Registering, SigningIn, Holding
        <2>2. \A q \in Request \ {r} : KnownRequest(req[q])'
            BY DEF Inv, HandlerInv, RequestsKnown, KnownRequest
        <2> QED
            BY <2>1, <2>2 DEF RequestsKnown, KnownRequest
    <1>5. HistoryAgrees'
        BY DEF Inv, HandlerInv, HistoryAgrees
    <1>6. SpentOnce'
        <2>1. /\ \A q \in Request : req[q].at \in Passing => req[q].challenge # c
              /\ \A pk \in registered : registeredWith[pk].challenge # c
              /\ \A s \in DOMAIN signedInWith : signedInWith[s].challenge # c
            BY DEF Inv, HandlerInv, SpentOnce, SpentChallenge
        <2> QED
            BY <2>1 DEF Inv, HandlerInv, SpentOnce, SpentChallenge
    <1>7. OwnChallenge'
        <2>1. /\ req'[r].at = "AddPasskey" => requester[c] = req[r].user
              /\ req'[r].at # "AddPasskey" => requester[c] = NoUser
            BY GotoEffect DEF Accepts, Registering, SigningIn, Inv, HandlerInv, TypeOK, HistoryAgrees
        <2> QED
            BY <2>1 DEF Inv, HandlerInv, OwnChallenge, Passing, Holding
    <1>8. CeremonyBound'
        BY DEF Inv, CeremonyBound
    <1>9. UsedExactly'
        BY DEF Inv, UsedExactly, At
    <1> QED
        BY <1>3, <1>4, <1>5, <1>6, <1>7, <1>8, <1>9 DEF CeremonyInv, HandlerInv

\* The next call of a login that found its passkey.
LEMMA FoundCall ==
    ASSUME NEW v \in RequestRecord, NEW pk \in Passkey, NEW u \in User
    PROVE  [v EXCEPT !.at = "FindUserByID", !.passkey = pk, !.user = u] \in RequestRecord
    BY DEF RequestRecord, SigningIn

\* ... when a login finds its passkey, which stands in the store and so names
\* the user it was registered by.
LEMMA FindingKeeps ==
    ASSUME Inv, NEW r \in Request, Finds(r)
    PROVE  CeremonyInv'
    <1> USE Shapes
    <1>1. PICK pk \in DOMAIN passkeys :
              req' = [req EXCEPT ![r].at = "FindUserByID", ![r].passkey = pk,
                                 ![r].user = passkeys[pk].user]
        BY DEF Finds
    <1>2. /\ req[r].at = "FindPasskeyByCredentialID"
          /\ req'[r].at = "FindUserByID" /\ req'[r].passkey = pk
          /\ req'[r].user = passkeys[pk].user
          /\ \A q \in Request \ {r} : req'[q] = req[q]
          /\ UNCHANGED <<req[r].credential, req[r].challenge>>
          /\ UNCHANGED <<ceremonyVars, historyVars>>
        BY <1>1 DEF Finds, Inv, HandlerInv, TypeOK, RequestRecord
    <1> USE <1>2 DEF ceremonyVars, historyVars
    <1>3. TypeOK'
        <2>1. pk \in Passkey /\ passkeys[pk].user \in User
            BY DEF Inv, StoreInv, PP!TypeOK, PP!PasskeyRecord
        <2>2. req' \in [Request -> RequestRecord]
            <3>0. req[r] \in RequestRecord
                BY DEF Inv, HandlerInv, TypeOK
            <3>1. [req[r] EXCEPT !.at = "FindUserByID", !.passkey = pk, !.user = passkeys[pk].user]
                  \in RequestRecord
                BY FoundCall, <2>1, <3>0
            <3>2. req'[r] = [req[r] EXCEPT !.at = "FindUserByID", !.passkey = pk,
                                           !.user = passkeys[pk].user]
                BY <1>1 DEF Inv, HandlerInv, TypeOK
            <3>3. DOMAIN req' = Request /\ req' = [q \in Request |-> req'[q]]
                BY <1>1 DEF Inv, HandlerInv, TypeOK
            <3> QED
                BY <3>1, <3>2, <3>3 DEF Inv, HandlerInv, TypeOK
        <2> QED
            BY <2>2 DEF Inv, HandlerInv, TypeOK
    <1>4. RequestsKnown'
        <2>1. KnownRequest(req[r])'
            BY DEF Inv, HandlerInv, RequestsKnown, KnownRequest, HistoryAgrees, Registering, Holding
        <2>2. \A q \in Request \ {r} : KnownRequest(req[q])'
            BY DEF Inv, HandlerInv, RequestsKnown, KnownRequest
        <2> QED
            BY <2>1, <2>2 DEF RequestsKnown, KnownRequest
    <1>5. HistoryAgrees'
        BY DEF Inv, HandlerInv, HistoryAgrees
    <1>6. SpentOnce'
        BY DEF Inv, HandlerInv, SpentOnce, SpentChallenge, Passing, Holding
    <1>7. OwnChallenge'
        BY DEF Inv, HandlerInv, OwnChallenge, Passing, Holding
    <1>8. CeremonyBound'
        BY DEF Inv, CeremonyBound
    <1>9. UsedExactly'
        BY DEF Inv, UsedExactly, At
    <1> QED
        BY <1>3, <1>4, <1>5, <1>6, <1>7, <1>8, <1>9 DEF CeremonyInv, HandlerInv

\* ... when it has found the user.
LEMMA GoingOnKeeps ==
    ASSUME Inv, NEW r \in Request, GoesOn(r)
    PROVE  CeremonyInv'
    <1> USE Shapes
    <1>1. /\ req[r].at = "FindUserByID" /\ req'[r].at = "MarkPasskeyUsed"
          /\ req' \in [Request -> RequestRecord]
          /\ \A q \in Request \ {r} : req'[q] = req[q]
          /\ req'[r].user = req[r].user /\ req'[r].credential = req[r].credential
          /\ req'[r].challenge = req[r].challenge /\ req'[r].passkey = req[r].passkey
          /\ UNCHANGED <<ceremonyVars, historyVars>>
        BY GotoEffect DEF GoesOn, SigningIn, Inv, HandlerInv, TypeOK
    <1> USE <1>1 DEF ceremonyVars, historyVars
    <1>2. TypeOK'
        BY DEF Inv, HandlerInv, TypeOK
    <1>3. RequestsKnown'
        <2>1. KnownRequest(req[r])'
            BY DEF Inv, HandlerInv, RequestsKnown, KnownRequest, Registering, Holding
        <2>2. \A q \in Request \ {r} : KnownRequest(req[q])'
            BY DEF Inv, HandlerInv, RequestsKnown, KnownRequest
        <2> QED
            BY <2>1, <2>2 DEF RequestsKnown, KnownRequest
    <1>4. HistoryAgrees'
        BY DEF Inv, HandlerInv, HistoryAgrees
    <1>5. SpentOnce'
        BY DEF Inv, HandlerInv, SpentOnce, SpentChallenge, Passing, Holding
    <1>6. OwnChallenge'
        BY DEF Inv, HandlerInv, OwnChallenge, Passing, Holding
    <1>7. CeremonyBound'
        BY DEF Inv, CeremonyBound
    <1>8. UsedExactly'
        BY DEF Inv, UsedExactly, At
    <1> QED
        BY <1>2, <1>3, <1>4, <1>5, <1>6, <1>7, <1>8 DEF CeremonyInv, HandlerInv

\* ... when it marks the passkey: the mark and the call that issues the session
\* come together.
LEMMA MarkingKeeps ==
    ASSUME Inv, NEW r \in Request, Marks(r)
    PROVE  CeremonyInv'
    <1> USE Shapes
    <1>1. /\ req[r].at = "MarkPasskeyUsed" /\ req'[r].at = "IssueSession"
          /\ req' \in [Request -> RequestRecord]
          /\ \A q \in Request \ {r} : req'[q] = req[q]
          /\ req'[r].user = req[r].user /\ req'[r].credential = req[r].credential
          /\ req'[r].challenge = req[r].challenge /\ req'[r].passkey = req[r].passkey
          /\ UNCHANGED <<passkeyChallenges, challenged, registered, owner, historyVars>>
        BY GotoEffect DEF Marks, SigningIn, Inv, HandlerInv, TypeOK
    <1>2. /\ DOMAIN passkeys' = DOMAIN passkeys
          /\ \A pk \in DOMAIN passkeys :
                 /\ passkeys'[pk].user = passkeys[pk].user
                 /\ pk # req[r].passkey => passkeys'[pk].used = passkeys[pk].used
                 /\ pk = req[r].passkey => passkeys'[pk].used = TRUE
        BY DEF Marks, Inv, StoreInv, PP!TypeOK, PP!PasskeyRecord
    <1> USE <1>1, <1>2 DEF historyVars
    <1>3. TypeOK'
        BY DEF Inv, HandlerInv, TypeOK
    <1>4. RequestsKnown'
        <2>1. KnownRequest(req[r])'
            BY DEF Inv, HandlerInv, RequestsKnown, KnownRequest, Registering, Holding
        <2>2. \A q \in Request \ {r} : KnownRequest(req[q])'
            BY DEF Inv, HandlerInv, RequestsKnown, KnownRequest
        <2> QED
            BY <2>1, <2>2 DEF RequestsKnown, KnownRequest
    <1>5. HistoryAgrees'
        BY DEF Inv, HandlerInv, HistoryAgrees
    <1>6. SpentOnce'
        BY DEF Inv, HandlerInv, SpentOnce, SpentChallenge, Passing, Holding
    <1>7. OwnChallenge'
        BY DEF Inv, HandlerInv, OwnChallenge, Passing, Holding
    <1>8. CeremonyBound'
        BY DEF Inv, CeremonyBound
    <1>9. UsedExactly'
        <2> SUFFICES ASSUME NEW pk \in DOMAIN passkeys
                     PROVE  passkeys'[pk].used <=>
                                \/ \E s \in DOMAIN signedInWith : signedInWith[s].passkey = pk
                                \/ \E q \in Request : req'[q].at = "IssueSession" /\ req'[q].passkey = pk
            BY DEF UsedExactly, At
        <2>1. CASE pk = req[r].passkey
            BY <2>1
        <2>2. CASE pk # req[r].passkey
            BY <2>2 DEF Inv, UsedExactly, At
        <2> QED
            BY <2>1, <2>2
    <1> QED
        BY <1>3, <1>4, <1>5, <1>6, <1>7, <1>8, <1>9 DEF CeremonyInv, HandlerInv

\* ... when a registration adds its passkey, which takes the challenge over.
LEMMA RegistrationKeeps ==
    ASSUME Inv, NEW r \in Request, NEW pk, Registers(r, pk)
    PROVE  CeremonyInv'
    <1> USE Shapes
    <1>1. /\ req[r].at = "AddPasskey"
          /\ req'[r] = Idle /\ Idle.at = "idle" /\ Idle.passkey = None
          /\ \A q \in Request \ {r} : req'[q] = req[q]
          /\ pk \notin registered
          /\ registered' = registered \cup {pk}
          /\ DOMAIN registeredWith' = registered \cup {pk}
          /\ registeredWith'[pk].user = req[r].user
          /\ registeredWith'[pk].challenge = req[r].challenge
          /\ \A k \in registered : registeredWith'[k] = registeredWith[k]
          /\ DOMAIN passkeys' = DOMAIN passkeys \cup {pk}
          /\ passkeys'[pk].user = req[r].user /\ passkeys'[pk].used = FALSE
          /\ \A k \in DOMAIN passkeys : passkeys'[k] = passkeys[k]
          /\ UNCHANGED <<passkeyChallenges, challenged, owner, requester, signedInWith>>
        BY DEF Registers, Put, Idle
    <1>2. /\ req[r].challenge \in DOMAIN challenged /\ req[r].user \in User
          /\ requester[req[r].challenge] = req[r].user
          /\ SpentChallenge(req[r].challenge)
          /\ \A q \in Request \ {r} : req[q].at \in Passing => req[q].challenge # req[r].challenge
          /\ \A k \in registered : registeredWith[k].challenge # req[r].challenge
          /\ \A s \in DOMAIN signedInWith : signedInWith[s].challenge # req[r].challenge
        BY <1>1 DEF Inv, HandlerInv, RequestsKnown, KnownRequest, SpentOnce, OwnChallenge, Passing,
               Registering
    <1> USE <1>1, <1>2
    <1>3. TypeOK'
        <2>1. req' \in [Request -> RequestRecord]
            BY DEF Registers, Inv, HandlerInv, TypeOK, RequestRecord, Idle
        <2>2. registeredWith' \in [registered' -> [user : User, challenge : DOMAIN challenged']]
            BY DEF Registers, Put, Inv, HandlerInv, TypeOK
        <2>3. signedInWith' \in [DOMAIN signedInWith' ->
                                    [passkey : registered', challenge : DOMAIN challenged']]
            BY DEF Inv, HandlerInv, TypeOK
        <2> QED
            BY <2>1, <2>2, <2>3 DEF Inv, HandlerInv, TypeOK
    <1>4. RequestsKnown'
        <2>1. KnownRequest(req[r])'
            BY DEF KnownRequest, Registering, Holding
        <2>2. \A q \in Request \ {r} : KnownRequest(req[q])'
            BY DEF Inv, HandlerInv, RequestsKnown, KnownRequest
        <2> QED
            BY <2>1, <2>2 DEF RequestsKnown, KnownRequest
    <1>5. HistoryAgrees'
        BY DEF Inv, HandlerInv, HistoryAgrees
    <1>6. SpentOnce'
        BY DEF Inv, HandlerInv, SpentOnce, SpentChallenge, Passing, Holding
    <1>7. OwnChallenge'
        BY DEF Inv, HandlerInv, OwnChallenge, Passing, Holding
    <1>8. CeremonyBound'
        <2>1. \A s \in DOMAIN signedInWith : signedInWith[s].passkey \in registered
            BY DEF Inv, HandlerInv, TypeOK
        <2> QED
            BY <2>1 DEF Inv, CeremonyBound
    <1>9. UsedExactly'
        <2>1. /\ \A s \in DOMAIN signedInWith : signedInWith[s].passkey \in registered
              /\ \A q \in Request : req[q].at = "IssueSession" => req[q].passkey \in registered
            BY DEF Inv, HandlerInv, TypeOK, RequestsKnown, KnownRequest, Holding
        <2> QED
            BY <2>1 DEF Inv, UsedExactly, At
    <1> QED
        BY <1>3, <1>4, <1>5, <1>6, <1>7, <1>8, <1>9 DEF CeremonyInv, HandlerInv

\* ... and when a login gets its session.
LEMMA SignInKeeps ==
    ASSUME Inv, NEW r \in Request, NEW s, SignsIn(r, s)
    PROVE  CeremonyInv'
    <1> USE Shapes
    <1>1. /\ req[r].at = "IssueSession"
          /\ req'[r] = Idle /\ Idle.at = "idle" /\ Idle.passkey = None
          /\ \A q \in Request \ {r} : req'[q] = req[q]
          /\ s \notin DOMAIN owner /\ s \notin DOMAIN signedInWith
          /\ DOMAIN owner' = DOMAIN owner \cup {s} /\ owner'[s] = req[r].user
          /\ \A z \in DOMAIN owner : owner'[z] = owner[z]
          /\ DOMAIN signedInWith' = DOMAIN signedInWith \cup {s}
          /\ signedInWith'[s].passkey = req[r].passkey
          /\ signedInWith'[s].challenge = req[r].challenge
          /\ \A z \in DOMAIN signedInWith : signedInWith'[z] = signedInWith[z]
          /\ UNCHANGED <<passkeys, passkeyChallenges, challenged, registered, requester, registeredWith>>
        BY DEF SignsIn, Put, Idle
    <1>2. /\ req[r].challenge \in DOMAIN challenged /\ req[r].passkey \in registered
          /\ req[r].user = registeredWith[req[r].passkey].user
          /\ requester[req[r].challenge] = NoUser
          /\ SpentChallenge(req[r].challenge)
          /\ \A q \in Request \ {r} : req[q].at \in Passing => req[q].challenge # req[r].challenge
          /\ \A k \in registered : registeredWith[k].challenge # req[r].challenge
          /\ \A z \in DOMAIN signedInWith : signedInWith[z].challenge # req[r].challenge
        BY <1>1 DEF Inv, HandlerInv, RequestsKnown, KnownRequest, SpentOnce, OwnChallenge, Passing,
               Holding
    <1> USE <1>1, <1>2
    <1>3. TypeOK'
        <2>1. req' \in [Request -> RequestRecord]
            BY DEF SignsIn, Inv, HandlerInv, TypeOK, RequestRecord, Idle
        <2>2. signedInWith' \in [DOMAIN signedInWith' ->
                                    [passkey : registered', challenge : DOMAIN challenged']]
            BY DEF SignsIn, Put, Inv, HandlerInv, TypeOK
        <2> QED
            BY <2>1, <2>2 DEF Inv, HandlerInv, TypeOK
    <1>4. RequestsKnown'
        <2>1. KnownRequest(req[r])'
            BY DEF KnownRequest, Registering, Holding
        <2>2. \A q \in Request \ {r} : KnownRequest(req[q])'
            BY DEF Inv, HandlerInv, RequestsKnown, KnownRequest
        <2> QED
            BY <2>1, <2>2 DEF RequestsKnown, KnownRequest
    <1>5. HistoryAgrees'
        BY DEF Inv, HandlerInv, HistoryAgrees
    <1>6. SpentOnce'
        BY DEF Inv, HandlerInv, SpentOnce, SpentChallenge, Passing, Holding
    <1>7. OwnChallenge'
        BY DEF Inv, HandlerInv, OwnChallenge, Passing, Holding
    <1>8. CeremonyBound'
        BY DEF Inv, CeremonyBound
    <1>9. UsedExactly'
        BY DEF Inv, UsedExactly, At
    <1> QED
        BY <1>3, <1>4, <1>5, <1>6, <1>7, <1>8, <1>9 DEF CeremonyInv, HandlerInv

\* Every step keeps the invariant of the ceremonies.
LEMMA CeremonyStep ==
    ASSUME Inv, [Next]_vars
    PROVE  CeremonyInv'
    <1>1. CASE AsksOne
        <2>1. ASSUME NEW c \in Challenge, Asks(NoUser, "authentication", c) PROVE CeremonyInv'
            BY <2>1, AskKeeps DEF P!Purpose
        <2>2. ASSUME NEW u \in User, NEW c \in Challenge, Asks(u, "registration", c)
              PROVE  CeremonyInv'
            <3>1. u # NoUser
                BY StoreAssumption
            <3> QED
                BY <2>2, <3>1, AskKeeps DEF P!Purpose
        <2> QED
            BY <1>1, <2>1, <2>2 DEF AsksOne
    <1>2. ASSUME NEW r \in Request, RequestStep(r) PROVE CeremonyInv'
        BY <1>2, ArrivalKeeps, FailureKeeps, AcceptanceKeeps, FindingKeeps, GoingOnKeeps,
           MarkingKeeps, RegistrationKeeps, SignInKeeps DEF RequestStep
    <1> QED
        BY <1>1, <1>2, StepKinds, ElsewhereKeeps

-----------------------------------------------------------------------------
(***************************************************************************)
(* The handlers as clients of the two stores.                              *)
(***************************************************************************)
\* Every step is a step of PasskeyStore or leaves it alone.
LEMMA PasskeyStep ==
    ASSUME Inv, [Next]_vars
    PROVE  [P!Next]_P!vars
    <1> DEFINE Kept == UNCHANGED P!vars
    <1> USE DEF At
    <1>1. UNCHANGED storeVars => Kept
        BY DEF storeVars, passkeyVars, P!vars
    <1>2. ASSUME NEW r \in Request, Arrive(r) PROVE [P!Next]_P!vars
        BY <1>1, <1>2 DEF Arrive, PasskeyAuthenticationVerify, PasskeyRegistrationVerify
    <1>3. ASSUME NEW r \in Request, Continue(r) PROVE [P!Next]_P!vars
        <2>1. KnownRequest(req[r]) /\ req[r] \in RequestRecord
            BY DEF Inv, HandlerInv, TypeOK, RequestsKnown
        <2>2. CASE ConsumeRegistration(r)
            BY <1>1, <2>2 DEF ConsumeRegistration, P!ConsumePasskeyChallenge, P!Found, P!Next, P!Purpose
        <2>3. CASE AddPasskey(r)
            <3>1. req[r].user \in User /\ req[r].credential \in Credential
                BY <2>1, <2>3 DEF AddPasskey, KnownRequest, Registering
            <3>2. ASSUME NEW pk \in Fresh(Passkey \ registered),
                         P!AddPasskey(req[r].user, req[r].credential, pk)
                  PROVE  [P!Next]_P!vars
                BY <3>1, <3>2 DEF P!Next, P!Fresh, Fresh
            <3> QED
                BY <1>1, <2>3, <3>2 DEF AddPasskey
        <2>4. CASE ConsumeAuthentication(r)
            BY <1>1, <2>4 DEF ConsumeAuthentication, P!ConsumePasskeyChallenge, P!Found, P!Next,
                   P!Purpose
        <2>5. CASE FindPasskeyByCredentialID(r)
            BY <1>1, <2>5 DEF FindPasskeyByCredentialID
        <2>6. CASE FindUserByID(r)
            BY <1>1, <2>6 DEF FindUserByID
        <2>7. CASE MarkPasskeyUsed(r)
            BY <1>1, <2>7 DEF MarkPasskeyUsed, P!MarkPasskeyUsed, P!Next
        <2>8. CASE IssueSession(r)
            <3>1. ASSUME NEW s, NEW t, R!IssueSessionWithMethod(req[r].user, "webauthn", s, t),
                         UNCHANGED passkeyVars
                  PROVE  Kept
                BY <3>1 DEF R!IssueSessionWithMethod, passkeyVars, P!vars
            <3> QED
                BY <1>1, <2>8, <3>1 DEF IssueSession
        <2> QED
            BY <1>3, <2>2, <2>3, <2>4, <2>5, <2>6, <2>7, <2>8 DEF Continue
    <1>4. CASE SingleCall
        <2>1. ASSUME NEW u \in User, SeedUser(u) \/ AdminDeleteUser(u) PROVE [P!Next]_P!vars
            BY <2>1 DEF SeedUser, AdminDeleteUser, P!Next
        <2>2. ASSUME NEW c \in Fresh(Challenge \ DOMAIN challenged), PasskeyAuthenticationOptions(c)
              PROVE  [P!Next]_P!vars
            BY <2>2 DEF PasskeyAuthenticationOptions, P!Next, P!Fresh, Fresh
        <2>3. ASSUME NEW c \in Fresh(Challenge \ DOMAIN challenged), NEW u \in User,
                     PasskeyRegistrationOptions(u, c)
              PROVE  [P!Next]_P!vars
            BY <2>3 DEF PasskeyRegistrationOptions, P!Next, P!Fresh, Fresh
        <2>4. ASSUME NEW u \in User, NEW pk \in registered, PasskeyDelete(u, pk)
              PROVE  [P!Next]_P!vars
            BY <2>4 DEF PasskeyDelete, P!DeletePasskey, P!PasskeysOfUser, P!Next
        <2>5. CASE Reset
            BY <2>5 DEF Reset, P!Next
        <2> QED
            BY <1>4, <2>1, <2>2, <2>3, <2>4, <2>5 DEF SingleCall
    <1>5. CASE Tick
        BY <1>5 DEF Tick, P!Next
    <1>6. CASE UNCHANGED vars
        BY <1>1, <1>6 DEF vars
    <1> QED
        BY <1>2, <1>3, <1>4, <1>5, <1>6 DEF Next

\* ... and of RefreshStore.
LEMMA RefreshStep ==
    ASSUME Inv, [Next]_vars
    PROVE  [R!Next]_R!vars
    <1> DEFINE Kept == UNCHANGED R!vars
    <1> USE DEF At
    <1>1. UNCHANGED storeVars => Kept
        BY DEF storeVars, refreshVars, R!vars
    <1>2. ASSUME NEW r \in Request, Arrive(r) PROVE [R!Next]_R!vars
        BY <1>1, <1>2 DEF Arrive, PasskeyAuthenticationVerify, PasskeyRegistrationVerify
    <1>3. ASSUME NEW r \in Request, Continue(r) PROVE [R!Next]_R!vars
        <2>1. KnownRequest(req[r]) /\ req[r] \in RequestRecord
            BY DEF Inv, HandlerInv, TypeOK, RequestsKnown
        <2>2. CASE ConsumeRegistration(r)
            BY <1>1, <2>2 DEF ConsumeRegistration, P!ConsumePasskeyChallenge, refreshVars, R!vars
        <2>3. CASE AddPasskey(r)
            BY <1>1, <2>3 DEF AddPasskey, P!AddPasskey, refreshVars, R!vars
        <2>4. CASE ConsumeAuthentication(r)
            BY <1>1, <2>4 DEF ConsumeAuthentication, P!ConsumePasskeyChallenge, refreshVars, R!vars
        <2>5. CASE FindPasskeyByCredentialID(r)
            BY <1>1, <2>5 DEF FindPasskeyByCredentialID
        <2>6. CASE FindUserByID(r)
            BY <1>1, <2>6 DEF FindUserByID
        <2>7. CASE MarkPasskeyUsed(r)
            BY <1>1, <2>7 DEF MarkPasskeyUsed, P!MarkPasskeyUsed, refreshVars, R!vars
        <2>8. CASE IssueSession(r)
            <3>1. req[r].user \in User
                <4>1. req[r].passkey \in registered /\ req[r].user = registeredWith[req[r].passkey].user
                    BY <2>1, <2>8 DEF IssueSession, KnownRequest, Holding
                <4> QED
                    BY <4>1 DEF Inv, HandlerInv, TypeOK
            <3>2. ASSUME NEW s \in Fresh(Session \ DOMAIN owner), NEW t \in Fresh(Token \ minted),
                         R!IssueSessionWithMethod(req[r].user, "webauthn", s, t)
                  PROVE  [R!Next]_R!vars
                BY <3>1, <3>2, MethodsAssumption DEF R!Next, R!Fresh, Fresh
            <3> QED
                BY <1>1, <2>8, <3>2 DEF IssueSession
        <2> QED
            BY <1>3, <2>2, <2>3, <2>4, <2>5, <2>6, <2>7, <2>8 DEF Continue
    <1>4. CASE SingleCall
        <2>1. ASSUME NEW u \in User, SeedUser(u) \/ AdminDeleteUser(u) PROVE [R!Next]_R!vars
            BY <2>1 DEF SeedUser, AdminDeleteUser, R!Next
        <2>2. ASSUME NEW c, PasskeyAuthenticationOptions(c) PROVE Kept
            BY <2>2 DEF PasskeyAuthenticationOptions, P!CreatePasskeyChallenge, refreshVars, R!vars
        <2>3. ASSUME NEW c, NEW u \in User, PasskeyRegistrationOptions(u, c) PROVE Kept
            BY <2>3 DEF PasskeyRegistrationOptions, P!CreatePasskeyChallenge, refreshVars, R!vars
        <2>4. ASSUME NEW u \in User, NEW pk \in registered, PasskeyDelete(u, pk) PROVE Kept
            BY <2>4 DEF PasskeyDelete, P!DeletePasskey, refreshVars, R!vars
        <2>5. CASE Reset
            BY <2>5 DEF Reset, R!Next
        <2> QED
            BY <1>4, <2>1, <2>2, <2>3, <2>4, <2>5 DEF SingleCall
    <1>5. CASE Tick
        BY <1>5 DEF Tick, R!Next
    <1>6. CASE UNCHANGED vars
        BY <1>1, <1>6 DEF vars
    <1> QED
        BY <1>2, <1>3, <1>4, <1>5, <1>6 DEF Next

\* So the passkey store keeps its own invariant.
LEMMA StoreStep ==
    ASSUME Inv, [Next]_vars
    PROVE  StoreInv'
    BY PasskeyStep, SamePasskeyNext, PasskeyAssumptions, PP!TypeStep, PP!NoOrphansStep DEF Inv, StoreInv

\* The invariant holds at the start.
LEMMA InitInv ==
    ASSUME Init
    PROVE  Inv
    <1> USE DEF Init, EmptyMap
    <1>1. StoreInv
        BY DEF P!Init, P!EmptyMap, StoreInv, PP!TypeOK, PP!NoOrphans
    <1>2. HandlerInv
        BY DEF P!Init, R!Init, P!EmptyMap, R!EmptyMap, Idle, Passing, Holding, Registering, HandlerInv,
               TypeOK, RequestRecord, RequestsKnown, KnownRequest, HistoryAgrees, SpentOnce, OwnChallenge
    <1>3. CeremonyBound /\ UsedExactly
        BY DEF P!Init, P!EmptyMap, CeremonyBound, UsedExactly
    <1> QED
        BY <1>1, <1>2, <1>3 DEF Inv

\* ... and always.
LEMMA Invariance == Spec => []Inv
    <1>1. Inv /\ [Next]_vars => Inv'
        BY StoreStep, CeremonyStep DEF Inv, CeremonyInv
    <1> QED
        BY <1>1, InitInv, PTL DEF Spec

-----------------------------------------------------------------------------
\* Every variable of the ceremonies keeps its type, whatever arrives, fails or
\* is deleted in between (PasskeyRegistrationVerify, PasskeyAuthenticationVerify).
THEOREM TypeCorrect == Spec => []TypeOK
    <1>1. Inv => TypeOK
        BY DEF Inv, HandlerInv
    <1> QED
        BY <1>1, Invariance, PTL

\* A challenge stands behind at most one passkey and at most one session, and
\* behind those of the user who asked for it only: ConsumePasskeyChallenge
\* removes it in the call that finds it.
THEOREM CeremoniesBound == Spec => []CeremonyBound
    <1>1. Inv => CeremonyBound
        BY DEF Inv
    <1> QED
        BY <1>1, Invariance, PTL

\* A stored passkey is marked used exactly when it has logged somebody in, or
\* is about to: the login that marks it and then fails has lost its user, and
\* the cascade of DeleteUser took the passkey.
THEOREM MarkExact == Spec => []UsedExactly
    <1>1. Inv => UsedExactly
        BY DEF Inv
    <1> QED
        BY <1>1, Invariance, PTL

\* The handlers of passkeys.go use both stores as those expect to be used, so
\* the theorems about PasskeyStore and RefreshStore hold of them here.
THEOREM Disciplined == Spec => StoreDiscipline
    <1>1. Init => P!Init /\ R!Init
        BY DEF Init
    <1>2. Inv /\ [Next]_vars => [P!Next]_P!vars /\ [R!Next]_R!vars
        BY PasskeyStep, RefreshStep
    <1> QED
        BY <1>1, <1>2, Invariance, PTL DEF Spec, P!Spec, R!Spec, StoreDiscipline

-----------------------------------------------------------------------------
\* Nobody looks up a passkey that is not stored, and nobody signs in with one
\* that was not looked up.
LEMMA DeletionStep ==
    ASSUME Inv, [Next]_vars, NEW pk \in registered \ DOMAIN passkeys, ~Resolved(pk)
    PROVE  ~Resolved(pk)' /\ SessionsBy(pk)' = SessionsBy(pk)
    <1> USE DEF Resolved, SessionsBy
    <1>1. req \in [Request -> RequestRecord] /\ pk # None
        BY Shapes, NoneAssumption DEF Inv, HandlerInv, TypeOK
    <1>2. CASE Elsewhere
        BY <1>2 DEF Elsewhere, historyVars
    <1>3. CASE AsksOne
        BY <1>3 DEF AsksOne, Asks
    <1>4. ASSUME NEW r \in Request, RequestStep(r)
          PROVE  ~Resolved(pk)' /\ SessionsBy(pk)' = SessionsBy(pk)
        <2>1. CASE Arrives(r)
            <3>1. UNCHANGED signedInWith /\ \A q \in Request : req'[q].passkey \in {None, req[q].passkey}
                BY <1>1, <2>1 DEF Arrives, historyVars, KnownRequest, Holding
            <3> QED
                BY <1>1, <3>1
        <2>2. CASE Fails(r)
            BY <1>1, <2>2 DEF Fails, Idle, historyVars
        <2>3. CASE Accepts(r)
            BY <1>1, <2>3, GotoEffect DEF Accepts, Registering, SigningIn, historyVars
        <2>4. CASE Finds(r)
            <3>1. UNCHANGED signedInWith /\ req'[r].passkey \in DOMAIN passkeys
                BY <1>1, <2>4 DEF Finds, historyVars, RequestRecord
            <3>2. \A q \in Request \ {r} : req'[q] = req[q]
                BY <1>1, <2>4 DEF Finds
            <3> QED
                BY <3>1, <3>2
        <2>5. CASE GoesOn(r)
            BY <1>1, <2>5, GotoEffect DEF GoesOn, SigningIn, historyVars
        <2>6. CASE Marks(r)
            BY <1>1, <2>6, GotoEffect DEF Marks, SigningIn, historyVars
        <2>7. ASSUME NEW k, Registers(r, k)
              PROVE  ~Resolved(pk)' /\ SessionsBy(pk)' = SessionsBy(pk)
            BY <1>1, <2>7 DEF Registers, Idle
        <2>8. ASSUME NEW s, SignsIn(r, s)
              PROVE  ~Resolved(pk)' /\ SessionsBy(pk)' = SessionsBy(pk)
            <3>1. /\ \A q \in Request : req'[q].passkey \in {None, req[q].passkey}
                  /\ s \notin DOMAIN signedInWith
                BY <1>1, <2>8, Shapes DEF SignsIn, Idle
            <3>2. /\ DOMAIN signedInWith' = DOMAIN signedInWith \cup {s}
                  /\ signedInWith'[s].passkey # pk
                  /\ \A z \in DOMAIN signedInWith : signedInWith'[z] = signedInWith[z]
                BY <2>8, <3>1 DEF SignsIn, Put
            <3> QED
                BY <1>1, <3>1, <3>2
        <2> QED
            BY <1>4, <2>1, <2>2, <2>3, <2>4, <2>5, <2>6, <2>7, <2>8 DEF RequestStep
    <1> QED
        BY <1>2, <1>3, <1>4, StepKinds

\* A deleted passkey, by its user's DELETE or by a cascade, logs nobody in but
\* for the logins that had looked it up before (PasskeyDelete, AdminDeleteUser).
THEOREM DeletionIsFinal == Spec => DeletionFinal
    <1>1. Inv /\ [Next]_vars =>
              [\A pk \in registered \ DOMAIN passkeys :
                  ~Resolved(pk) => ~Resolved(pk)' /\ SessionsBy(pk)' = SessionsBy(pk)]_vars
        BY DeletionStep
    <1> QED
        BY <1>1, Invariance, PTL DEF Spec, DeletionFinal

-----------------------------------------------------------------------------
(***************************************************************************)
(* What PasskeyStore promises, promised by the ceremonies.                 *)
(***************************************************************************)

\* The ceremonies behave as PasskeyStore does.
LEMMA BehavesAsPasskeyStore == Spec => PP!Spec
    <1>1. Init => PP!Init
        BY SamePasskeyInit DEF Init
    <1>2. Inv /\ [Next]_vars => [PP!Next]_PP!vars
        BY PasskeyStep, SamePasskeyNext
    <1> QED
        BY <1>1, <1>2, Invariance, PTL DEF Spec, PP!Spec

\* However registrations, logins and deletions overlap, the credential index and the
\* passkeys are inverse to each other, none outlives its user, and a challenge that
\* would be refused once is refused for ever.
THEOREM PasskeysInOrder == Spec => []PP!IndexAgrees /\ []PP!NoOrphans /\ PP!SpentForever
    <1>1. PP!Spec => []PP!IndexAgrees
        BY PasskeyAssumptions, PP!IndexCorrect
    <1>2. PP!Spec => []PP!NoOrphans
        BY PasskeyAssumptions, PP!CascadesComplete
    <1>3. PP!Spec => PP!SpentForever
        BY PasskeyAssumptions, PP!ChallengeSpentOnce
    <1> QED
        BY <1>1, <1>2, <1>3, BehavesAsPasskeyStore, PTL

-----------------------------------------------------------------------------
(***************************************************************************)
(* What RefreshStore promises.                                             *)
(***************************************************************************)
RP == INSTANCE RefreshStoreProofs WITH
          Unissued <- "unissued", Refused <- "refused"

\* The constants are as the theorems about RefreshStore assume.
LEMMA RefreshAssumptions ==
    /\ RP!NoTokenAssumption /\ RP!ReuseIntervalAssumption
    /\ RP!MaxTimeAssumption /\ RP!PositionAssumption
    BY StoreAssumption DEF RP!NoTokenAssumption, RP!ReuseIntervalAssumption,
                           RP!MaxTimeAssumption, RP!PositionAssumption

\* R and RP are two instances of one module, so their steps are the same ...
LEMMA SameRefreshNext == [R!Next]_R!vars <=> [RP!Next]_RP!vars
    BY DEF R!vars, RP!vars, R!Next, RP!Next, R!Tick, RP!Tick, R!Reset, RP!Reset,
           R!NewUser, RP!NewUser, R!DeleteUser, RP!DeleteUser,
           R!IssueSessionWithMethod, RP!IssueSessionWithMethod,
           R!IssueRefreshToken, RP!IssueRefreshToken,
           R!ConsumeRefreshToken, RP!ConsumeRefreshToken,
           R!RevokeRefreshTokensBySession, RP!RevokeRefreshTokensBySession,
           R!UpgradeSessionAAL, RP!UpgradeSessionAAL, R!UserExists, RP!UserExists,
           R!EmptyMap, RP!EmptyMap, R!Fresh, RP!Fresh, R!NewToken, RP!NewToken,
           R!Put, RP!Put, R!Delete, RP!Delete, R!Restrict, RP!Restrict,
           R!EdgesOf, RP!EdgesOf, R!TokensOfSession, RP!TokensOfSession,
           R!TokensOfUser, RP!TokensOfUser, R!SessionsOfUser, RP!SessionsOfUser,
           R!RevokedAt, RP!RevokedAt, R!Rotatable, RP!Rotatable, R!Live, RP!Live

\* ... and their initial states ...
LEMMA SameRefreshInit == R!Init <=> RP!Init
    BY DEF R!Init, RP!Init, R!EmptyMap, RP!EmptyMap

\* ... and so the handlers behave as RefreshStore does.
LEMMA BehavesAsRefreshStore == Spec => RP!Spec
    <1> QED
        BY SameRefreshInit, SameRefreshNext, Disciplined, PTL DEF StoreDiscipline, R!Spec, RP!Spec

\* However ceremonies and account deletions overlap, a login that the
\* deletion of its user overtakes leaves no session or token behind, and every
\* session it makes can be refreshed.
THEOREM SessionsKept == Spec => []RP!ReferentialIntegrity /\ []RP!SessionRefreshable
    <1>1. RP!Spec => []RP!ReferentialIntegrity
        BY RefreshAssumptions, RP!Integrity
    <1>2. RP!Spec => []RP!SessionRefreshable
        BY RefreshAssumptions, RP!NoStrandedSession
    <1> QED
        BY <1>1, <1>2, BehavesAsRefreshStore, PTL

-----------------------------------------------------------------------------
(***************************************************************************)
(* The calls of a ceremony run out.                                        *)
(***************************************************************************)

\* How many store calls there are at most from the one named to the answer.
CallsFrom == [idle |-> 0, AddPasskey |-> 1, ConsumeRegistration |-> 2,
              IssueSession |-> 1, MarkPasskeyUsed |-> 2, FindUserByID |-> 3,
              FindPasskeyByCredentialID |-> 4, ConsumeAuthentication |-> 5]

\* A call of r brings the answer of r nearer and touches no other request.
Advances(r) ==
    /\ CallsFrom[req'[r].at] < CallsFrom[req[r].at]
    /\ \A q \in Request \ {r} : req'[q] = req[q]

\* Nothing else touches a request in flight.
RequestsAdvance ==
    \A r \in Request :
        /\ Continue(r) => Advances(r)
        /\ ~Continue(r) => req'[r] = req[r] \/ req[r] = Idle

\* Every call of a ceremony, with each answer it may get, leads forward.
LEMMA CallAdvances ==
    ASSUME TypeOK, NEW r \in Request, Continue(r)
    PROVE  Advances(r)
    <1>0. req \in [Request -> RequestRecord] /\ req[r] \in RequestRecord
        BY DEF TypeOK
    <1>1. ASSUME NEW v, req' = [req EXCEPT ![r] = v], CallsFrom[v.at] < CallsFrom[req[r].at]
          PROVE  Advances(r)
        BY <1>0, <1>1 DEF Advances
    <1>2. ASSUME NEW call, Goto(r, call), CallsFrom[call] < CallsFrom[req[r].at]
          PROVE  Advances(r)
        <2> DEFINE v == [req[r] EXCEPT !.at = call]
        <2>1. v.at = call /\ req' = [req EXCEPT ![r] = v]
            BY <1>0, <1>2 DEF Goto, RequestRecord
        <2> HIDE DEF v
        <2> QED
            BY <1>1, <1>2, <2>1
    <1>3. ASSUME req' = [req EXCEPT ![r] = Idle], req[r].at \in Registering \cup SigningIn
          PROVE  Advances(r)
        <2>1. CallsFrom[Idle.at] < CallsFrom[req[r].at]
            BY <1>3 DEF CallsFrom, Idle, Registering, SigningIn
        <2> QED
            BY <1>1, <1>3, <2>1
    <1>4. CASE ConsumeRegistration(r)
        BY <1>2, <1>3, <1>4 DEF ConsumeRegistration, At, Fail, CallsFrom, Registering
    <1>5. CASE AddPasskey(r)
        BY <1>3, <1>5 DEF AddPasskey, At, Registering
    <1>6. CASE ConsumeAuthentication(r)
        BY <1>2, <1>3, <1>6 DEF ConsumeAuthentication, At, Fail, CallsFrom, SigningIn
    <1>7. CASE FindPasskeyByCredentialID(r)
        <2>1. ASSUME NEW pk, NEW u,
                     req' = [req EXCEPT ![r].at = "FindUserByID", ![r].passkey = pk, ![r].user = u]
              PROVE  Advances(r)
            <3> DEFINE v == [req[r] EXCEPT !.at = "FindUserByID", !.passkey = pk, !.user = u]
            <3>1. v.at = "FindUserByID" /\ req' = [req EXCEPT ![r] = v]
                BY <1>0, <2>1 DEF RequestRecord
            <3>2. req[r].at = "FindPasskeyByCredentialID"
                BY <1>7 DEF FindPasskeyByCredentialID, At
            <3>3. CallsFrom["FindUserByID"] < CallsFrom["FindPasskeyByCredentialID"]
                BY DEF CallsFrom
            <3> HIDE DEF v
            <3> QED
                BY <1>1, <3>1, <3>2, <3>3
        <2> QED
            BY <1>3, <1>7, <2>1 DEF FindPasskeyByCredentialID, At, Fail, SigningIn
    <1>8. CASE FindUserByID(r)
        BY <1>2, <1>3, <1>8 DEF FindUserByID, At, Fail, CallsFrom, SigningIn
    <1>9. CASE MarkPasskeyUsed(r)
        BY <1>2, <1>9 DEF MarkPasskeyUsed, At, CallsFrom
    <1>10. CASE IssueSession(r)
        BY <1>3, <1>10 DEF IssueSession, At, SigningIn
    <1> QED
        BY <1>4, <1>5, <1>6, <1>7, <1>8, <1>9, <1>10 DEF Continue

\* A request arrives in an idle place.
LEMMA ArrivesIdle ==
    ASSUME TypeOK, NEW r \in Request, Arrive(r)
    PROVE  req[r] = Idle /\ \A q \in Request \ {r} : req'[q] = req[q]
    <1>1. req \in [Request -> RequestRecord]
        BY DEF TypeOK
    <1>2. \E v : req[r] = Idle /\ req' = [req EXCEPT ![r] = v]
        BY DEF Arrive, PasskeyAuthenticationVerify, PasskeyRegistrationVerify, Begin
    <1> QED
        BY <1>1, <1>2

\* However ceremonies overlap, fail or find their passkey or user deleted, none is
\* set back or tried again: each call takes the request that makes it at least one
\* of at most five calls nearer to its answer, and nothing else touches it.
THEOREM CallsRunOut == Spec => [][RequestsAdvance]_vars
    <1>1. ASSUME TypeOK, Next PROVE RequestsAdvance
        <2> SUFFICES ASSUME NEW r \in Request
                     PROVE  /\ Continue(r) => Advances(r)
                            /\ ~Continue(r) => req'[r] = req[r] \/ req[r] = Idle
            BY DEF RequestsAdvance
        <2>1. Continue(r) => Advances(r)
            BY <1>1, CallAdvances
        <2>2. ASSUME ~Continue(r) PROVE req'[r] = req[r] \/ req[r] = Idle
            <3>1. CASE Tick \/ SingleCall
                <4>1. req' = req
                    BY <3>1 DEF Tick, SingleCall, SeedUser, AdminDeleteUser, PasskeyDelete, Reset,
                                PasskeyAuthenticationOptions, PasskeyRegistrationOptions
                <4> QED
                    BY <4>1
            <3>2. ASSUME NEW q \in Request, Arrive(q) PROVE req'[r] = req[r] \/ req[r] = Idle
                BY <1>1, <3>2, ArrivesIdle
            <3>3. ASSUME NEW q \in Request, Continue(q) PROVE req'[r] = req[r]
                <4>1. q # r
                    BY <2>2, <3>3
                <4>2. Advances(q)
                    BY <1>1, <3>3, CallAdvances
                <4> QED
                    BY <4>1, <4>2 DEF Advances
            <3> QED
                BY <1>1, <3>1, <3>2, <3>3 DEF Next
        <2> QED
            BY <2>1, <2>2
    <1>2. TypeOK /\ [Next]_vars => [RequestsAdvance]_vars
        BY <1>1
    <1> QED
        BY <1>2, TypeCorrect, PTL DEF Spec

=============================================================================
