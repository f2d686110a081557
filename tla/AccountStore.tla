---------------------------- MODULE AccountStore ----------------------------
(***************************************************************************)
(* Users, the e-mail index, identities and authorization codes of the auth *)
(* store (src/internal/auth/store/user.go, identity.go and oauth.go).  One *)
(* method of store.Store is one action, as in RefreshStore.                *)
(*                                                                         *)
(* An e-mail address is a mailbox and whether it is written with an upper  *)
(* case letter: strings.ToLower clears the latter.  Surrounding blanks are *)
(* left out, since every caller trims.                                     *)
(***************************************************************************)
EXTENDS Integers, SequencesExt, GoMap

CONSTANTS
    User,           \* user ids (uuids)
    NoUser,         \* what a lookup returns that finds nobody
    Mailbox,        \* addresses clients come up with, up to letter case
    Synthetic,      \* addresses made for OAuth users without one: they hold a uuid
    NoAddress,      \* an empty login_hint
    Provider,       \* provider keys; "email" is the one of password accounts
    MixedCase,      \* the provider keys with an upper case letter
    IdentityId,     \* identity row ids (uuids)
    Code,           \* authorization codes (uuids)
    Metadata, NoMetadata,   \* user_metadata, and the empty one
    AuthCodeTTL,    \* authCodeTTL, in ticks
    MaxTime         \* bound on the clock

ASSUME NoUserAssumption == NoUser \notin User

ASSUME MailboxAssumption == Mailbox \cap Synthetic = {}

Address == [mailbox : Mailbox \cup Synthetic, upper : BOOLEAN]

ASSUME NoAddressAssumption == NoAddress \notin Address

ASSUME ProviderAssumption == "email" \in Provider /\ MixedCase \subseteq Provider

ASSUME AuthCodeTTLAssumption == AuthCodeTTL \in Nat

ASSUME ClockAssumption == MaxTime \in Nat

VARIABLES
    users,          \* users map
    emailIndex,     \* e-mail address -> user id
    authCodes,      \* authCodes map
    now,            \* the store's clock, in ticks
    created,        \* history: user ids ever handed out
    synthesized,    \* history: synthetic addresses ever handed out
    linked,         \* history: identity ids ever handed out
    coded           \* history: code -> user, for every code ever made

vars == <<users, emailIndex, authCodes, now, created, synthesized, linked, coded>>

Identity == [id : IdentityId, provider : Provider]

\* LastSignInAt and PasswordHash are abstracted to whether they are set;
\* provider and providers are the two keys of AppMetadata.
UserRecord == [email : Address, identities : Seq(Identity),
               provider : Provider, providers : Seq(Provider),
               password : BOOLEAN, signedIn : BOOLEAN, metadata : Metadata \cup {NoMetadata}]

CodeRecord == [user : User, expiresAt : Int]

-----------------------------------------------------------------------------
\* Variant with a bug: the address is compared as it was typed.
ToLower_AsTyped(a) == a

ToLower(a) == [a EXCEPT !.upper = FALSE]

\* Variant with a bug: the address is looked up before it is lowered.
Registered_AsTyped(a) == a \in DOMAIN emailIndex

Registered(a) == ToLower(a) \in DOMAIN emailIndex

FindUserByEmail(a) ==
    IF Registered(a) /\ emailIndex[ToLower(a)] \in DOMAIN users
    THEN emailIndex[ToLower(a)]
    ELSE NoUser

UserExists(u) == u \in DOMAIN users

hasProvider(user, p) == \E i \in DOMAIN user.identities : user.identities[i].provider = p

\* provider is left as it is when no identity remains (which the callers rule out).
recomputeProviders(user) ==
    LET providers == [i \in DOMAIN user.identities |-> user.identities[i].provider]
    IN  [user EXCEPT !.providers = providers,
                     !.provider = IF providers # <<>> THEN providers[1] ELSE @]

WithIdentity(user, p, id) ==
    recomputeProviders([user EXCEPT !.identities = Append(@, [id |-> id, provider |-> p])])

NewUserRecord(a, p, id, password) ==
    WithIdentity([email |-> a, identities |-> <<>>, provider |-> p, providers |-> <<>>,
                  password |-> password, signedIn |-> FALSE, metadata |-> NoMetadata], p, id)

\* With the first identity, which both callers append.
newUserLocked(a, p, id, password, u) ==
    /\ u \notin created
    /\ id \notin linked
    /\ users' = Put(users, u, NewUserRecord(a, p, id, password))
    /\ emailIndex' = Put(emailIndex, a, u)
    /\ created' = created \cup {u}
    /\ linked' = linked \cup {id}

Expired(c) == now > authCodes[c].expiresAt

Exchangeable(c) == c \in DOMAIN authCodes /\ ~Expired(c)

-----------------------------------------------------------------------------
Init ==
    /\ users = EmptyMap
    /\ emailIndex = EmptyMap
    /\ authCodes = EmptyMap
    /\ now = 0
    /\ created = {}
    /\ synthesized = {}
    /\ linked = {}
    /\ coded = EmptyMap

Tick ==
    /\ now < MaxTime
    /\ now' = now + 1
    /\ UNCHANGED <<users, emailIndex, authCodes, created, synthesized, linked, coded>>

CreateUser(a, u, id) ==
    /\ ~Registered(a)
    /\ newUserLocked(ToLower(a), "email", id, TRUE, u)
    /\ UNCHANGED <<authCodes, now, synthesized, coded>>

\* The three ways of CreateOAuthUser: the user of the hint signs in, with one
\* identity more if the provider is new to it ...
ReuseOAuthUser(p, a, id) ==
    LET u == FindUserByEmail(a) IN
    /\ a # NoAddress /\ Registered(a)
    /\ IF hasProvider(users[u], p)
       THEN UNCHANGED <<users, linked>>
       ELSE /\ id \notin linked
            /\ users' = [users EXCEPT ![u] = WithIdentity(@, p, id)]
            /\ linked' = linked \cup {id}
    /\ UNCHANGED <<emailIndex, authCodes, now, created, synthesized, coded>>

\* ... the hint is nobody's yet ...
HintedOAuthUser(p, a, u, id) ==
    /\ a # NoAddress /\ ~Registered(a)
    /\ newUserLocked(ToLower(a), p, id, FALSE, u)
    /\ UNCHANGED <<authCodes, now, synthesized, coded>>

\* ... or there is no hint, and an address is made of the provider and a uuid.
SyntheticOAuthUser(p, box, u, id) ==
    /\ box \notin synthesized
    /\ newUserLocked([mailbox |-> box, upper |-> p \in MixedCase], p, id, FALSE, u)
    /\ synthesized' = synthesized \cup {box}
    /\ UNCHANGED <<authCodes, now, coded>>

AddIdentity(u, p, id) ==
    /\ UserExists(u)
    /\ ~hasProvider(users[u], p)
    /\ id \notin linked
    /\ users' = [users EXCEPT ![u] = WithIdentity(@, p, id)]
    /\ linked' = linked \cup {id}
    /\ UNCHANGED <<emailIndex, authCodes, now, created, synthesized, coded>>

PositionOf(u, id) ==
    {i \in DOMAIN users[u].identities : users[u].identities[i].id = id}

\* Variant with a bug: app_metadata is not recomputed.
RemoveIdentity_Stale(u, id) ==
    /\ UserExists(u)
    /\ Len(users[u].identities) # 1
    /\ \E i \in PositionOf(u, id) :
           users' = [users EXCEPT ![u].identities = RemoveAt(@, i)]
    /\ UNCHANGED <<emailIndex, authCodes, now, created, synthesized, linked, coded>>

\* The only identity is never removed (ErrLastIdentity).
RemoveIdentity(u, id) ==
    /\ UserExists(u)
    /\ Len(users[u].identities) # 1
    /\ \E i \in PositionOf(u, id) :
           users' = [users EXCEPT ![u] =
                        recomputeProviders([users[u] EXCEPT !.identities = RemoveAt(@, i)])]
    /\ UNCHANGED <<emailIndex, authCodes, now, created, synthesized, linked, coded>>

SetUserMetadata(u, data) ==
    /\ UserExists(u)
    /\ users' = [users EXCEPT ![u].metadata = data]
    /\ UNCHANGED <<emailIndex, authCodes, now, created, synthesized, linked, coded>>

UpdateLastSignIn(u) ==
    /\ UserExists(u)
    /\ users' = [users EXCEPT ![u].signedIn = TRUE]
    /\ UNCHANGED <<emailIndex, authCodes, now, created, synthesized, linked, coded>>

\* Variant with a bug: the record names the code in place of the user.
CreateAuthCode_SwappedIds(u, c) ==
    /\ UserExists(u)
    /\ c \notin DOMAIN coded
    /\ authCodes' = Put(authCodes, c, [user |-> c, expiresAt |-> now + AuthCodeTTL])
    /\ coded' = Put(coded, c, u)
    /\ UNCHANGED <<users, emailIndex, now, created, synthesized, linked>>

CreateAuthCode(u, c) ==
    /\ UserExists(u)
    /\ c \notin DOMAIN coded
    /\ authCodes' = Put(authCodes, c, [user |-> u, expiresAt |-> now + AuthCodeTTL])
    /\ coded' = Put(coded, c, u)
    /\ UNCHANGED <<users, emailIndex, now, created, synthesized, linked>>

\* Variant with a bug: an expired code is renewed for another try.
ConsumeAuthCode_ExpiredRenewed(c) ==
    /\ c \in DOMAIN authCodes
    /\ authCodes' = IF Expired(c)
                    THEN [authCodes EXCEPT ![c].expiresAt = now + AuthCodeTTL]
                    ELSE Delete(authCodes, {c})
    /\ UNCHANGED <<users, emailIndex, now, created, synthesized, linked, coded>>

\* An expired code is removed as well; only the answer differs (Exchangeable).
ConsumeAuthCode(c) ==
    /\ c \in DOMAIN authCodes
    /\ authCodes' = Delete(authCodes, {c})
    /\ UNCHANGED <<users, emailIndex, now, created, synthesized, linked, coded>>

\* Variant with a bug: the address stays taken.
DeleteUser_IndexKept(u) ==
    /\ UserExists(u)
    /\ users' = Delete(users, {u})
    /\ UNCHANGED <<emailIndex, authCodes, now, created, synthesized, linked, coded>>

\* The codes of the user stay.
DeleteUser(u) ==
    /\ UserExists(u)
    /\ users' = Delete(users, {u})
    /\ emailIndex' = Delete(emailIndex, {ToLower(users[u].email)})
    /\ UNCHANGED <<authCodes, now, created, synthesized, linked, coded>>

Reset ==
    /\ users' = EmptyMap
    /\ emailIndex' = EmptyMap
    /\ authCodes' = EmptyMap
    /\ UNCHANGED <<now, created, synthesized, linked, coded>>

\* The addresses a client can send: its own, and those that were synthesized.
Typed == [mailbox : Mailbox \cup synthesized, upper : BOOLEAN]

Next ==
    \/ Tick
    \/ \E u \in Fresh(User \ created), id \in Fresh(IdentityId \ linked) :
           \/ \E a \in Typed : CreateUser(a, u, id)
           \/ \E p \in Provider : \E a \in Typed : HintedOAuthUser(p, a, u, id)
           \/ \E p \in Provider : \E box \in Fresh(Synthetic \ synthesized) :
                  SyntheticOAuthUser(p, box, u, id)
    \/ \E p \in Provider, id \in Fresh(IdentityId \ linked) :
           \/ \E a \in Typed : ReuseOAuthUser(p, a, id)
           \/ \E u \in User : AddIdentity(u, p, id)
    \/ \E u \in User :
           \/ \E id \in linked : RemoveIdentity(u, id)
           \/ \E data \in Metadata : SetUserMetadata(u, data)
           \/ UpdateLastSignIn(u)
           \/ \E c \in Fresh(Code \ DOMAIN coded) : CreateAuthCode(u, c)
           \/ DeleteUser(u)
    \/ \E c \in Code : ConsumeAuthCode(c)
    \/ Reset

Spec == Init /\ [][Next]_vars

-----------------------------------------------------------------------------
(***************************************************************************)
(* Properties.                                                             *)
(***************************************************************************)
\* Every variable has its type, and the histories hold the ids in the maps.
TypeOK ==
    /\ users \in [DOMAIN users -> UserRecord] /\ DOMAIN users \subseteq created
    /\ emailIndex \in [DOMAIN emailIndex -> created] /\ DOMAIN emailIndex \subseteq Address
    /\ authCodes \in [DOMAIN authCodes -> CodeRecord] /\ DOMAIN authCodes \subseteq DOMAIN coded
    /\ now \in 0..MaxTime
    /\ created \subseteq User
    /\ synthesized \subseteq Synthetic
    /\ linked \subseteq IdentityId
    /\ coded \in [DOMAIN coded -> created] /\ DOMAIN coded \subseteq Code

\* newUserLocked: "email must be a normalized, unique address".  So every stored
\* user is found by its own address, however it is typed.
FindableByEmail == \A u \in DOMAIN users : FindUserByEmail(users[u].email) = u

\* The e-mail index and the users agree, through sign-ups, OAuth sign-ins by
\* hint or with a synthetic address, deletions and resets.  This takes
\* lower-case provider keys (FindableByEmail fails without them).
EmailIndexAgrees ==
    /\ FindableByEmail
    /\ \A a \in DOMAIN emailIndex :
           emailIndex[a] \in DOMAIN users /\ users[emailIndex[a]].email = a

\* However identities are linked and unlinked, by whichever call, a user keeps
\* at least one, has none twice for a provider, and app_metadata says which.
IdentitiesAgree ==
    \A u \in DOMAIN users :
        LET ids == users[u].identities IN
        /\ Len(ids) > 0
        /\ \A i, j \in DOMAIN ids : ids[i].provider = ids[j].provider => i = j
        /\ users[u].providers = [i \in DOMAIN ids |-> ids[i].provider]
        /\ users[u].provider = ids[1].provider

\* A code that cannot be exchanged (any more) never can be again, although an
\* expired one, and one whose user is gone, may stay in the map.
SpentForever ==
    [][\A c \in DOMAIN coded : ~Exchangeable(c) => ~Exchangeable(c)']_vars

\* Signing in by e-mail address is what AddressBook says, for lower-case
\* provider keys: the holder of an address is who FindUserByEmail finds.
Holder == [m \in Mailbox \cup Synthetic |-> FindUserByEmail([mailbox |-> m, upper |-> FALSE])]

Book == INSTANCE AddressBook WITH
            Mailbox <- Mailbox \cup Synthetic, holder <- Holder, known <- created

KeepsAddressBook == Book!Spec

=============================================================================
