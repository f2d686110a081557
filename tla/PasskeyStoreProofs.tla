------------------------- MODULE PasskeyStoreProofs -------------------------
(***************************************************************************)
(* Proofs about PasskeyStore, for every set of users, passkeys, credentials*)
(* and challenges and every lifetime of a challenge.                       *)
(***************************************************************************)
EXTENDS PasskeyStore, TLAPS

\* The steps of the store with their arguments typed; Fresh is only a choice of
\* an unused id.
LEMMA NextCases ==
    ASSUME Next
    PROVE  \/ Tick
           \/ Reset
           \/ \E u \in User : NewUser(u)
           \/ \E u \in User : DeleteUser(u)
           \/ \E u \in User \cup {NoUser}, purpose \in Purpose, c \in Challenge :
                  CreatePasskeyChallenge(u, purpose, c)
           \/ \E c \in DOMAIN passkeyChallenges, purpose \in Purpose :
                  ConsumePasskeyChallenge(c, purpose)
           \/ \E u \in User, cred \in Credential, pk \in Passkey : AddPasskey(u, cred, pk)
           \/ \E pk \in DOMAIN passkeys : MarkPasskeyUsed(pk)
           \/ \E u \in User, pk \in DOMAIN passkeys : DeletePasskey(u, pk)
    <1>1. Fresh(Passkey \ registered) \subseteq Passkey
        BY DEF Fresh
    <1>2. Fresh(Challenge \ DOMAIN challenged) \subseteq Challenge
        BY DEF Fresh
    <1> QED
        BY <1>1, <1>2 DEF Next, Purpose

-----------------------------------------------------------------------------
\* deletePasskeyLocked, for a set of passkeys, removes them and their index
\* entries and touches no other entry of either map.
LEMMA CascadeEffect ==
    ASSUME NEW pks, deletePasskeysLocked(pks)
    PROVE  /\ DOMAIN passkeys' = DOMAIN passkeys \ pks
           /\ \A pk \in DOMAIN passkeys' : passkeys'[pk] = passkeys[pk]
           /\ DOMAIN passkeyByCred' \subseteq DOMAIN passkeyByCred
           /\ \A cred \in DOMAIN passkeyByCred :
                  cred \in DOMAIN passkeyByCred' <=> \A pk \in pks : passkeys[pk].credential # cred
           /\ \A cred \in DOMAIN passkeyByCred' : passkeyByCred'[cred] = passkeyByCred[cred]
    BY DEF deletePasskeysLocked, Delete, Restrict

\* The removal keeps both maps well typed.
LEMMA CascadeType ==
    ASSUME TypeOK, NEW pks, deletePasskeysLocked(pks)
    PROVE  /\ passkeys' \in [DOMAIN passkeys' -> PasskeyRecord]
           /\ passkeyByCred' \in [DOMAIN passkeyByCred' -> Passkey]
    BY DEF Delete, Restrict, deletePasskeysLocked, TypeOK

\* Every step keeps the types.
LEMMA TypeStep ==
    ASSUME TypeOK, [Next]_vars
    PROVE  TypeOK'
    <1> USE DEF TypeOK
    <1>1. CASE Tick
        BY <1>1 DEF Tick
    <1>2. CASE Reset
        <2>1. account' \in [User -> {"unborn", "live", "deleted"}]
            BY <1>2 DEF Reset
        <2> QED
            BY <1>2, <2>1 DEF EmptyMap, Reset
    <1>3. ASSUME NEW u \in User, NewUser(u) PROVE TypeOK'
        BY <1>3 DEF NewUser
    <1>4. ASSUME NEW u \in User, DeleteUser(u) PROVE TypeOK'
        <2>1. /\ passkeyChallenges' \in [DOMAIN passkeyChallenges' -> ChallengeRecord]
              /\ DOMAIN passkeyChallenges' \subseteq DOMAIN passkeyChallenges
            BY <1>4 DEF Delete, Restrict, DeleteUser
        <2>2. account' \in [User -> {"unborn", "live", "deleted"}]
            BY <1>4 DEF DeleteUser
        <2>3. deletePasskeysLocked(PasskeysOfUser(u))
            BY <1>4 DEF DeleteUser
        <2> QED
            BY <1>4, <2>1, <2>2, <2>3, CascadeEffect, CascadeType DEF DeleteUser
    <1>5. ASSUME NEW u \in User \cup {NoUser}, NEW purpose \in Purpose, NEW c \in Challenge,
                 CreatePasskeyChallenge(u, purpose, c)
          PROVE  TypeOK'
        <2>1. [user |-> u, purpose |-> purpose, expiresAt |-> now + ChallengeTTL]
                  \in ChallengeRecord
            BY ChallengeTTLAssumption DEF ChallengeRecord
        <2>2. passkeyChallenges' \in [DOMAIN passkeyChallenges' -> ChallengeRecord]
              /\ DOMAIN passkeyChallenges' = DOMAIN passkeyChallenges \cup {c}
            BY <1>5, <2>1 DEF Put, CreatePasskeyChallenge
        <2>3. challenged' \in [DOMAIN challenged' -> Purpose]
              /\ DOMAIN challenged' = DOMAIN challenged \cup {c}
            BY <1>5 DEF Put, CreatePasskeyChallenge
        <2> QED
            BY <1>5, <2>2, <2>3 DEF CreatePasskeyChallenge
    <1>6. ASSUME NEW c \in DOMAIN passkeyChallenges, NEW purpose \in Purpose,
                 ConsumePasskeyChallenge(c, purpose)
          PROVE  TypeOK'
        BY <1>6 DEF Delete, Restrict, ConsumePasskeyChallenge
    <1>7. ASSUME NEW u \in User, NEW cred \in Credential, NEW pk \in Passkey,
                 AddPasskey(u, cred, pk)
          PROVE  TypeOK'
        <2>1. [user |-> u, credential |-> cred, used |-> FALSE] \in PasskeyRecord
            BY DEF PasskeyRecord
        <2>2. passkeys' \in [DOMAIN passkeys' -> PasskeyRecord]
              /\ DOMAIN passkeys' = DOMAIN passkeys \cup {pk}
            BY <1>7, <2>1 DEF Put, AddPasskey
        <2>3. passkeyByCred' \in [DOMAIN passkeyByCred' -> Passkey]
              /\ DOMAIN passkeyByCred' = DOMAIN passkeyByCred \cup {cred}
            BY <1>7 DEF Put, AddPasskey
        <2> QED
            BY <1>7, <2>2, <2>3 DEF AddPasskey
    <1>8. ASSUME NEW pk \in DOMAIN passkeys, MarkPasskeyUsed(pk) PROVE TypeOK'
        <2>1. passkeys' \in [DOMAIN passkeys -> PasskeyRecord]
            BY <1>8 DEF MarkPasskeyUsed, PasskeyRecord
        <2> QED
            BY <1>8, <2>1 DEF MarkPasskeyUsed
    <1>9. ASSUME NEW u \in User, NEW pk \in DOMAIN passkeys, DeletePasskey(u, pk) PROVE TypeOK'
        BY <1>9, CascadeEffect, CascadeType DEF DeletePasskey
    <1>10. CASE UNCHANGED vars
        BY <1>10 DEF vars
    <1> QED
        BY <1>1, <1>2, <1>3, <1>4, <1>5, <1>6, <1>7, <1>8, <1>9, <1>10, NextCases

\* Every variable keeps its type, and the maps only ever hold ids that were
\* handed out.
THEOREM TypeCorrect == Spec => []TypeOK
    <1>1. Init => TypeOK
        BY DEF EmptyMap, Init, TypeOK
    <1> QED
        BY <1>1, TypeStep, PTL DEF Spec

-----------------------------------------------------------------------------
\* Removing passkeys together with their index entries keeps the rest of the
\* two maps in agreement.
LEMMA CascadeKeepsAgreement ==
    ASSUME IndexAgrees, NEW pks \in SUBSET DOMAIN passkeys, deletePasskeysLocked(pks)
    PROVE  IndexAgrees'
    <1>1. ASSUME NEW pk \in DOMAIN passkeys'
          PROVE  /\ passkeys'[pk].credential \in DOMAIN passkeyByCred'
                 /\ passkeyByCred'[passkeys'[pk].credential] = pk
        <2> DEFINE cred == passkeys[pk].credential
        <2>1. pk \in DOMAIN passkeys \ pks /\ passkeys'[pk].credential = cred
            BY CascadeEffect
        <2>2. cred \in DOMAIN passkeyByCred /\ passkeyByCred[cred] = pk
            BY <2>1 DEF IndexAgrees
        <2>3. \A q \in pks : passkeys[q].credential # cred
            BY <2>1, <2>2 DEF IndexAgrees
        <2>4. cred \in DOMAIN passkeyByCred'
            BY <2>2, <2>3, CascadeEffect
        <2> QED
            BY <2>1, <2>2, <2>4, CascadeEffect
    <1>2. ASSUME NEW cred \in DOMAIN passkeyByCred'
          PROVE  /\ passkeyByCred'[cred] \in DOMAIN passkeys'
                 /\ passkeys'[passkeyByCred'[cred]].credential = cred
        <2> DEFINE pk == passkeyByCred[cred]
        <2>1. /\ cred \in DOMAIN passkeyByCred
              /\ \A q \in pks : passkeys[q].credential # cred
              /\ passkeyByCred'[cred] = pk
            BY CascadeEffect
        <2>2. pk \in DOMAIN passkeys /\ passkeys[pk].credential = cred
            BY <2>1 DEF IndexAgrees
        <2>3. pk \notin pks
            BY <2>1, <2>2
        <2>4. pk \in DOMAIN passkeys'
            BY <2>2, <2>3, CascadeEffect
        <2> QED
            BY <2>1, <2>2, <2>4, CascadeEffect
    <1> QED
        BY <1>1, <1>2 DEF IndexAgrees

\* Every step keeps index and records in agreement.
LEMMA IndexStep ==
    ASSUME TypeOK, IndexAgrees, [Next]_vars
    PROVE  IndexAgrees'
    <1>1. CASE UNCHANGED <<passkeys, passkeyByCred>>
        BY <1>1 DEF IndexAgrees
    <1>2. CASE Reset
        BY <1>2 DEF EmptyMap, Reset, IndexAgrees
    <1>3. ASSUME NEW u \in User, DeleteUser(u) PROVE IndexAgrees'
        BY <1>3, CascadeKeepsAgreement DEF DeleteUser, PasskeysOfUser
    <1>4. ASSUME NEW u \in User, NEW pk \in DOMAIN passkeys, DeletePasskey(u, pk)
          PROVE  IndexAgrees'
        BY <1>4, CascadeKeepsAgreement DEF DeletePasskey
    <1>5. ASSUME NEW u \in User, NEW cred \in Credential, NEW pk \in Passkey,
                 AddPasskey(u, cred, pk)
          PROVE  IndexAgrees'
        <2>1. pk \notin DOMAIN passkeys /\ cred \notin DOMAIN passkeyByCred
            BY <1>5 DEF AddPasskey, TypeOK
        <2>2. /\ DOMAIN passkeys' = DOMAIN passkeys \cup {pk}
              /\ DOMAIN passkeyByCred' = DOMAIN passkeyByCred \cup {cred}
            BY <1>5 DEF Put, AddPasskey
        <2>3. /\ passkeys'[pk].credential = cred
              /\ \A q \in DOMAIN passkeys : passkeys'[q] = passkeys[q]
            BY <1>5, <2>1, <2>2 DEF AddPasskey, Put
        <2>4. /\ passkeyByCred'[cred] = pk
              /\ \A k \in DOMAIN passkeyByCred : passkeyByCred'[k] = passkeyByCred[k]
            BY <1>5, <2>1, <2>2 DEF AddPasskey, Put
        <2> QED
            BY <2>1, <2>2, <2>3, <2>4 DEF IndexAgrees
    <1>6. ASSUME NEW pk \in DOMAIN passkeys, MarkPasskeyUsed(pk) PROVE IndexAgrees'
        <2>1. /\ DOMAIN passkeys' = DOMAIN passkeys
              /\ \A q \in DOMAIN passkeys : passkeys'[q].credential = passkeys[q].credential
              /\ passkeyByCred' = passkeyByCred
            BY <1>6 DEF MarkPasskeyUsed, TypeOK, PasskeyRecord
        <2> QED
            BY <2>1 DEF IndexAgrees
    <1>7. \/ UNCHANGED <<passkeys, passkeyByCred>>
          \/ Reset
          \/ \E u \in User : DeleteUser(u)
          \/ \E u \in User, cred \in Credential, pk \in Passkey : AddPasskey(u, cred, pk)
          \/ \E pk \in DOMAIN passkeys : MarkPasskeyUsed(pk)
          \/ \E u \in User, pk \in DOMAIN passkeys : DeletePasskey(u, pk)
        BY NextCases DEF Tick, NewUser, CreatePasskeyChallenge, ConsumePasskeyChallenge, vars
    <1> QED
        BY <1>1, <1>2, <1>3, <1>4, <1>5, <1>6, <1>7

\* passkeyByCred and passkeys stay two views of one relation, through deletions,
\* cascades and credentials registered anew.
THEOREM IndexCorrect == Spec => []IndexAgrees
    <1>1. Init => IndexAgrees
        BY DEF EmptyMap, Init, IndexAgrees
    <1> QED
        BY <1>1, TypeCorrect, IndexStep, PTL DEF Spec

-----------------------------------------------------------------------------
\* A step that keeps every passkey's user and every challenge as they are, or
\* drops them, and keeps the users they name, keeps NoOrphans.
LEMMA ShrinkKeepsNoOrphans ==
    ASSUME NoOrphans,
           \A pk \in DOMAIN passkeys' :
               /\ pk \in DOMAIN passkeys
               /\ passkeys'[pk].user = passkeys[pk].user
               /\ account'[passkeys[pk].user] = account[passkeys[pk].user],
           \A c \in DOMAIN passkeyChallenges' :
               /\ c \in DOMAIN passkeyChallenges
               /\ passkeyChallenges'[c] = passkeyChallenges[c]
               /\ passkeyChallenges[c].user # NoUser =>
                      account'[passkeyChallenges[c].user] = account[passkeyChallenges[c].user]
    PROVE  NoOrphans'
    BY DEF NoOrphans, UserExists

\* Every step keeps passkeys and registration challenges with their user.
LEMMA NoOrphansStep ==
    ASSUME TypeOK, NoOrphans, [Next]_vars
    PROVE  NoOrphans'
    <1>1. CASE Tick
        BY <1>1 DEF Tick, NoOrphans, UserExists
    <1>2. CASE Reset
        BY <1>2 DEF EmptyMap, Reset, NoOrphans
    <1>3. ASSUME NEW u \in User, NewUser(u) PROVE NoOrphans'
        <2>1. \A v \in User : UserExists(v) => account'[v] = account[v]
            BY <1>3 DEF NewUser, UserExists, TypeOK
        <2>2. \A pk \in DOMAIN passkeys : passkeys[pk].user \in User
            BY DEF TypeOK, PasskeyRecord
        <2>3. \A c \in DOMAIN passkeyChallenges :
                  passkeyChallenges[c].user # NoUser => passkeyChallenges[c].user \in User
            BY DEF TypeOK, ChallengeRecord
        <2> QED
            BY <1>3, <2>1, <2>2, <2>3 DEF NewUser, NoOrphans, UserExists
    <1>4. ASSUME NEW u \in User, DeleteUser(u) PROVE NoOrphans'
        <2>1. \A v \in User : v # u => account'[v] = account[v]
            BY <1>4 DEF DeleteUser, TypeOK
        <2>2. ASSUME NEW pk \in DOMAIN passkeys'
              PROVE  /\ pk \in DOMAIN passkeys
                     /\ passkeys'[pk].user = passkeys[pk].user
                     /\ account'[passkeys[pk].user] = account[passkeys[pk].user]
            <3>1. pk \in DOMAIN passkeys \ PasskeysOfUser(u) /\ passkeys'[pk] = passkeys[pk]
                BY <1>4, CascadeEffect DEF DeleteUser
            <3>2. passkeys[pk].user # u /\ passkeys[pk].user \in User
                BY <3>1 DEF PasskeysOfUser, TypeOK, PasskeyRecord
            <3> QED
                BY <2>1, <3>1, <3>2
        <2>3. ASSUME NEW c \in DOMAIN passkeyChallenges'
              PROVE  /\ c \in DOMAIN passkeyChallenges
                     /\ passkeyChallenges'[c] = passkeyChallenges[c]
                     /\ passkeyChallenges[c].user # NoUser =>
                            account'[passkeyChallenges[c].user] = account[passkeyChallenges[c].user]
            <3>1. /\ c \in DOMAIN passkeyChallenges \ ChallengesOfUser(u)
                  /\ passkeyChallenges'[c] = passkeyChallenges[c]
                BY <1>4 DEF DeleteUser, Delete, Restrict
            <3>2. /\ passkeyChallenges[c].user # u
                  /\ passkeyChallenges[c].user # NoUser => passkeyChallenges[c].user \in User
                BY <3>1 DEF ChallengesOfUser, TypeOK, ChallengeRecord
            <3> QED
                BY <2>1, <3>1, <3>2
        <2> QED
            BY <2>2, <2>3, ShrinkKeepsNoOrphans
    <1>5. ASSUME NEW u \in User \cup {NoUser}, NEW purpose \in Purpose, NEW c \in Challenge,
                 CreatePasskeyChallenge(u, purpose, c)
          PROVE  NoOrphans'
        <2>1. \A d \in DOMAIN passkeyChallenges' :
                  passkeyChallenges'[d].user = IF d = c THEN u ELSE passkeyChallenges[d].user
            BY <1>5 DEF CreatePasskeyChallenge, Put
        <2>2. DOMAIN passkeyChallenges' = DOMAIN passkeyChallenges \cup {c}
            BY <1>5 DEF Put, CreatePasskeyChallenge
        <2> QED
            BY <1>5, <2>1, <2>2 DEF CreatePasskeyChallenge, NoOrphans, UserExists
    <1>6. ASSUME NEW c \in DOMAIN passkeyChallenges, NEW purpose \in Purpose,
                 ConsumePasskeyChallenge(c, purpose)
          PROVE  NoOrphans'
        <2>1. /\ DOMAIN passkeyChallenges' \subseteq DOMAIN passkeyChallenges
              /\ \A d \in DOMAIN passkeyChallenges' : passkeyChallenges'[d] = passkeyChallenges[d]
            BY <1>6 DEF ConsumePasskeyChallenge, Delete, Restrict
        <2> QED
            BY <1>6, <2>1, ShrinkKeepsNoOrphans DEF ConsumePasskeyChallenge
    <1>7. ASSUME NEW u \in User, NEW cred \in Credential, NEW pk \in Passkey,
                 AddPasskey(u, cred, pk)
          PROVE  NoOrphans'
        <2>1. DOMAIN passkeys' = DOMAIN passkeys \cup {pk}
            BY <1>7 DEF Put, AddPasskey
        <2>2. \A q \in DOMAIN passkeys' : passkeys'[q].user = IF q = pk THEN u ELSE passkeys[q].user
            BY <1>7 DEF AddPasskey, Put
        <2> QED
            BY <1>7, <2>1, <2>2 DEF AddPasskey, NoOrphans, UserExists
    <1>8. ASSUME NEW pk \in DOMAIN passkeys, MarkPasskeyUsed(pk) PROVE NoOrphans'
        <2>1. /\ DOMAIN passkeys' = DOMAIN passkeys
              /\ \A q \in DOMAIN passkeys : passkeys'[q].user = passkeys[q].user
            BY <1>8 DEF MarkPasskeyUsed, TypeOK, PasskeyRecord
        <2> QED
            BY <1>8, <2>1, ShrinkKeepsNoOrphans DEF MarkPasskeyUsed
    <1>9. ASSUME NEW u \in User, NEW pk \in DOMAIN passkeys, DeletePasskey(u, pk) PROVE NoOrphans'
        BY <1>9, CascadeEffect, ShrinkKeepsNoOrphans DEF DeletePasskey
    <1>10. CASE UNCHANGED vars
        BY <1>10 DEF vars, NoOrphans, UserExists
    <1> QED
        BY <1>1, <1>2, <1>3, <1>4, <1>5, <1>6, <1>7, <1>8, <1>9, <1>10, NextCases

\* DeleteUser's cascade leaves no passkey and no registration challenge of the
\* user behind, in the middle of whatever ceremony it comes.
THEOREM CascadesComplete == Spec => []NoOrphans
    <1>1. Init => NoOrphans
        BY DEF EmptyMap, Init, NoOrphans
    <1> QED
        BY <1>1, TypeCorrect, NoOrphansStep, PTL DEF Spec

-----------------------------------------------------------------------------
\* No step brings back a challenge that is gone or changes one that is there.
LEMMA ChallengesShrink ==
    ASSUME TypeOK, [Next]_vars, NEW c \in DOMAIN challenged, c \in DOMAIN passkeyChallenges'
    PROVE  c \in DOMAIN passkeyChallenges /\ passkeyChallenges'[c] = passkeyChallenges[c]
    <1>1. CASE UNCHANGED passkeyChallenges
        BY <1>1
    <1>2. CASE Reset
        BY <1>2 DEF EmptyMap, Reset
    <1>3. ASSUME NEW u \in User, DeleteUser(u)
          PROVE  c \in DOMAIN passkeyChallenges /\ passkeyChallenges'[c] = passkeyChallenges[c]
        BY <1>3 DEF DeleteUser, Delete, Restrict
    <1>4. ASSUME NEW u \in User \cup {NoUser}, NEW purpose \in Purpose, NEW d \in Challenge,
                 CreatePasskeyChallenge(u, purpose, d)
          PROVE  c \in DOMAIN passkeyChallenges /\ passkeyChallenges'[c] = passkeyChallenges[c]
        <2>1. c # d
            BY <1>4 DEF CreatePasskeyChallenge
        <2>2. c \in DOMAIN passkeyChallenges
            BY <1>4, <2>1 DEF CreatePasskeyChallenge, Put
        <2> QED
            BY <1>4, <2>1, <2>2 DEF CreatePasskeyChallenge, Put
    <1>5. ASSUME NEW d \in DOMAIN passkeyChallenges, NEW purpose \in Purpose,
                 ConsumePasskeyChallenge(d, purpose)
          PROVE  c \in DOMAIN passkeyChallenges /\ passkeyChallenges'[c] = passkeyChallenges[c]
        BY <1>5 DEF ConsumePasskeyChallenge, Delete, Restrict
    <1>6. \/ UNCHANGED passkeyChallenges
          \/ Reset
          \/ \E u \in User : DeleteUser(u)
          \/ \E u \in User \cup {NoUser}, purpose \in Purpose, d \in Challenge :
                 CreatePasskeyChallenge(u, purpose, d)
          \/ \E d \in DOMAIN passkeyChallenges, purpose \in Purpose :
                 ConsumePasskeyChallenge(d, purpose)
        BY NextCases DEF Tick, NewUser, AddPasskey, MarkPasskeyUsed, DeletePasskey, vars
    <1> QED
        BY <1>1, <1>2, <1>3, <1>4, <1>5, <1>6

\* The clock never goes back.
LEMMA ClockStep ==
    ASSUME TypeOK, [Next]_vars
    PROVE  now' \in Nat /\ now' >= now
    <1> USE DEF TypeOK
    <1>1. CASE Tick
        BY <1>1 DEF Tick
    <1>2. CASE now' = now
        BY <1>2
    <1>3. Tick \/ now' = now
        BY NextCases DEF Reset, NewUser, DeleteUser, CreatePasskeyChallenge, ConsumePasskeyChallenge,
                         AddPasskey, MarkPasskeyUsed, DeletePasskey, vars
    <1> QED
        BY <1>1, <1>2, <1>3

\* A challenge that ConsumePasskeyChallenge would not accept for a purpose is
\* not accepted for it after the step either.
LEMMA SpentStep ==
    ASSUME TypeOK, [Next]_vars, NEW c \in DOMAIN challenged, NEW purpose \in Purpose,
           Answer(c, purpose) # "consumed"
    PROVE  Answer(c, purpose)' # "consumed"
    <1> SUFFICES ASSUME Found(c, purpose)', ~Expired(c)'
                 PROVE  FALSE
        BY DEF Answer
    <1>1. c \in DOMAIN passkeyChallenges /\ passkeyChallenges'[c] = passkeyChallenges[c]
        BY ChallengesShrink DEF Found
    <1>2. Found(c, purpose)
        BY <1>1 DEF Found
    <1>3. passkeyChallenges[c].expiresAt \in Int
        BY <1>1 DEF TypeOK, ChallengeRecord
    <1>4. ~Expired(c)
        BY <1>1, <1>3, ClockStep DEF Expired, TypeOK
    <1> QED
        BY <1>2, <1>4 DEF Answer

\* A ceremony challenge serves one call and one purpose: once it would be
\* refused it is refused for ever.
THEOREM ChallengeSpentOnce == Spec => SpentForever
    <1>1. TypeOK /\ [Next]_vars =>
              [\A c \in DOMAIN challenged, purpose \in Purpose :
                  Answer(c, purpose) # "consumed" => Answer(c, purpose)' # "consumed"]_vars
        BY SpentStep
    <1> QED
        BY <1>1, TypeCorrect, PTL DEF Spec, SpentForever

=============================================================================
