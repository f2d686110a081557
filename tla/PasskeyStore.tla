---------------------------- MODULE PasskeyStore ----------------------------
(***************************************************************************)
(* Passwordless passkeys and their ceremony challenges in the auth store   *)
(* (src/internal/auth/store/passkey.go, and the cascade of user.go).  One  *)
(* method of store.Store is one action, as in RefreshStore.                *)
(***************************************************************************)
EXTENDS Integers, GoMap

CONSTANTS
    User,           \* user ids
    Passkey,        \* passkey ids (uuids)
    Credential,     \* credential ids, chosen by the client's authenticator
    Challenge,      \* challenge ids (uuids)
    NoUser,         \* the empty UserID of a discoverable challenge
    ChallengeTTL,   \* challengeTTL, in ticks
    MaxTime         \* bound on the clock

ASSUME NoUserAssumption == NoUser \notin User

ASSUME ChallengeTTLAssumption == ChallengeTTL \in Nat

ASSUME ClockAssumption == MaxTime \in Nat

VARIABLES
    account,            \* users: "live" iff the users map holds the id
    passkeys,           \* passkeys map
    passkeyByCred,      \* credential id -> passkey id
    passkeyChallenges,  \* passkeyChallenges map
    now,                \* the store's clock, in ticks
    registered,         \* history: passkey ids ever handed out
    challenged          \* history: challenge id -> purpose, for every challenge ever made

vars == <<account, passkeys, passkeyByCred, passkeyChallenges, now, registered, challenged>>

Purpose == {"registration", "authentication"}

\* LastUsedAt is abstracted to whether it is set.
PasskeyRecord == [user : User, credential : Credential, used : BOOLEAN]

ChallengeRecord == [user : User \cup {NoUser}, purpose : Purpose, expiresAt : Int]

-----------------------------------------------------------------------------
UserExists(u) == account[u] = "live"

\* What ConsumePasskeyChallenge returns.  A wrong purpose is "not found", and
\* does not consume the challenge.
Found(c, purpose) ==
    c \in DOMAIN passkeyChallenges /\ passkeyChallenges[c].purpose = purpose

Expired(c) == now > passkeyChallenges[c].expiresAt

Answer(c, purpose) ==
    IF ~Found(c, purpose) THEN "not found" ELSE IF Expired(c) THEN "expired" ELSE "consumed"

PasskeysOfUser(u) == {pk \in DOMAIN passkeys : passkeys[pk].user = u}

\* Variant with a bug: the challenges of the user are left to expire.
ChallengesOfUser_None(u) == {}

ChallengesOfUser(u) == {c \in DOMAIN passkeyChallenges : passkeyChallenges[c].user = u}

-----------------------------------------------------------------------------
Init ==
    /\ account = [u \in User |-> "unborn"]
    /\ passkeys = EmptyMap
    /\ passkeyByCred = EmptyMap
    /\ passkeyChallenges = EmptyMap
    /\ now = 0
    /\ registered = {}
    /\ challenged = EmptyMap

Tick ==
    /\ now < MaxTime
    /\ now' = now + 1
    /\ UNCHANGED <<account, passkeys, passkeyByCred, passkeyChallenges, registered, challenged>>

NewUser(u) ==
    /\ account[u] = "unborn"
    /\ account' = [account EXCEPT ![u] = "live"]
    /\ UNCHANGED <<passkeys, passkeyByCred, passkeyChallenges, now, registered, challenged>>

\* A discoverable challenge has no user to look up.
CreatePasskeyChallenge(u, purpose, c) ==
    /\ u # NoUser => UserExists(u)
    /\ c \notin DOMAIN challenged
    /\ passkeyChallenges' =
           Put(passkeyChallenges, c,
               [user |-> u, purpose |-> purpose, expiresAt |-> now + ChallengeTTL])
    /\ challenged' = Put(challenged, c, purpose)
    /\ UNCHANGED <<account, passkeys, passkeyByCred, now, registered>>

\* Variant with a bug: an expired challenge is renewed for another try.
ConsumePasskeyChallenge_ExpiredRenewed(c, purpose) ==
    /\ Found(c, purpose)
    /\ passkeyChallenges' = IF Expired(c)
                            THEN [passkeyChallenges EXCEPT ![c].expiresAt = now + ChallengeTTL]
                            ELSE Delete(passkeyChallenges, {c})
    /\ UNCHANGED <<account, passkeys, passkeyByCred, now, registered, challenged>>

\* An expired challenge is removed as well; only the answer differs.
ConsumePasskeyChallenge(c, purpose) ==
    /\ Found(c, purpose)
    /\ passkeyChallenges' = Delete(passkeyChallenges, {c})
    /\ UNCHANGED <<account, passkeys, passkeyByCred, now, registered, challenged>>

\* Variant with a bug: user and credential are swapped.
AddPasskey_SwappedIds(u, cred, pk) ==
    /\ UserExists(u)
    /\ cred \notin DOMAIN passkeyByCred
    /\ pk \notin registered
    /\ passkeys' = Put(passkeys, pk, [user |-> cred, credential |-> u, used |-> FALSE])
    /\ passkeyByCred' = Put(passkeyByCred, cred, pk)
    /\ registered' = registered \cup {pk}
    /\ UNCHANGED <<account, passkeyChallenges, now, challenged>>

\* A credential is registered once in the whole store, whoever its user is.
AddPasskey(u, cred, pk) ==
    /\ UserExists(u)
    /\ cred \notin DOMAIN passkeyByCred
    /\ pk \notin registered
    /\ passkeys' = Put(passkeys, pk, [user |-> u, credential |-> cred, used |-> FALSE])
    /\ passkeyByCred' = Put(passkeyByCred, cred, pk)
    /\ registered' = registered \cup {pk}
    /\ UNCHANGED <<account, passkeyChallenges, now, challenged>>

MarkPasskeyUsed(pk) ==
    /\ pk \in DOMAIN passkeys
    /\ passkeys' = [passkeys EXCEPT ![pk].used = TRUE]
    /\ UNCHANGED <<account, passkeyByCred, passkeyChallenges, now, registered, challenged>>

\* Variant with a bug: the credential stays in the index.
deletePasskeysLocked_IndexKept(pks) ==
    /\ passkeys' = Delete(passkeys, pks)
    /\ UNCHANGED passkeyByCred

\* deletePasskeyLocked for each passkey of a set: the passkey and its index entry.
deletePasskeysLocked(pks) ==
    /\ passkeys' = Delete(passkeys, pks)
    /\ passkeyByCred' = Delete(passkeyByCred, {passkeys[pk].credential : pk \in pks})

DeletePasskey(u, pk) ==
    /\ pk \in PasskeysOfUser(u)
    /\ deletePasskeysLocked({pk})
    /\ UNCHANGED <<account, passkeyChallenges, now, registered, challenged>>

DeleteUser(u) ==
    /\ UserExists(u)
    /\ account' = [account EXCEPT ![u] = "deleted"]
    /\ deletePasskeysLocked(PasskeysOfUser(u))
    /\ passkeyChallenges' = Delete(passkeyChallenges, ChallengesOfUser(u))
    /\ UNCHANGED <<now, registered, challenged>>

Reset ==
    /\ account' = [u \in User |-> IF UserExists(u) THEN "deleted" ELSE account[u]]
    /\ passkeys' = EmptyMap
    /\ passkeyByCred' = EmptyMap
    /\ passkeyChallenges' = EmptyMap
    /\ UNCHANGED <<now, registered, challenged>>

\* The handlers make registration challenges for the caller and discoverable
\* ones for authentication.
Next ==
    \/ Tick
    \/ Reset
    \/ \E u \in User : NewUser(u) \/ DeleteUser(u)
    \/ \E c \in Fresh(Challenge \ DOMAIN challenged) :
           \/ CreatePasskeyChallenge(NoUser, "authentication", c)
           \/ \E u \in User : CreatePasskeyChallenge(u, "registration", c)
    \/ \E c \in DOMAIN passkeyChallenges, purpose \in Purpose : ConsumePasskeyChallenge(c, purpose)
    \/ \E u \in User, cred \in Credential, pk \in Fresh(Passkey \ registered) :
           AddPasskey(u, cred, pk)
    \/ \E pk \in DOMAIN passkeys : MarkPasskeyUsed(pk)
    \/ \E u \in User, pk \in DOMAIN passkeys : DeletePasskey(u, pk)

Spec == Init /\ [][Next]_vars

-----------------------------------------------------------------------------
(***************************************************************************)
(* Properties.                                                             *)
(***************************************************************************)

\* Every variable has its type, and the maps hold only ids handed out before.
TypeOK ==
    /\ account \in [User -> {"unborn", "live", "deleted"}]
    /\ registered \subseteq Passkey
    /\ passkeys \in [DOMAIN passkeys -> PasskeyRecord] /\ DOMAIN passkeys \subseteq registered
    /\ passkeyByCred \in [DOMAIN passkeyByCred -> Passkey]
    /\ DOMAIN passkeyByCred \subseteq Credential
    /\ challenged \in [DOMAIN challenged -> Purpose] /\ DOMAIN challenged \subseteq Challenge
    /\ passkeyChallenges \in [DOMAIN passkeyChallenges -> ChallengeRecord]
    /\ DOMAIN passkeyChallenges \subseteq DOMAIN challenged
    /\ now \in Nat

\* passkeyByCred and passkeys are two views of one relation: each stored passkey
\* is found by its credential, and the index leads to no other one.  A login is
\* resolved through the index, so an entry too many or too few logs in as
\* nobody, or keeps a deleted credential from being registered again.
IndexAgrees ==
    /\ \A pk \in DOMAIN passkeys :
           /\ passkeys[pk].credential \in DOMAIN passkeyByCred
           /\ passkeyByCred[passkeys[pk].credential] = pk
    /\ \A cred \in DOMAIN passkeyByCred :
           /\ passkeyByCred[cred] \in DOMAIN passkeys
           /\ passkeys[passkeyByCred[cred]].credential = cred

\* A passkey's user, and the user a registration challenge is bound to, are
\* stored, whatever was deleted in the middle of a ceremony.
NoOrphans ==
    /\ \A pk \in DOMAIN passkeys : UserExists(passkeys[pk].user)
    /\ \A c \in DOMAIN passkeyChallenges :
           passkeyChallenges[c].user # NoUser => UserExists(passkeyChallenges[c].user)

\* A challenge serves one ceremony and one call: once ConsumePasskeyChallenge
\* would not accept it for a purpose it never accepts it for that purpose again.
SpentForever ==
    [][\A c \in DOMAIN challenged, purpose \in Purpose :
          Answer(c, purpose) # "consumed" => Answer(c, purpose)' # "consumed"]_vars

=============================================================================
