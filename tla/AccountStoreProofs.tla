------------------------- MODULE AccountStoreProofs -------------------------
(***************************************************************************)
(* Theorems about AccountStore.                                            *)
(***************************************************************************)
EXTENDS AccountStore, TLAPS, SequenceTheorems

-----------------------------------------------------------------------------
(***************************************************************************)
(* A user record whose identities and app_metadata are in order.           *)
(***************************************************************************)
ProvidersOf(ids) == [i \in DOMAIN ids |-> ids[i].provider]

Distinct(ids) == \A i, j \in DOMAIN ids : ids[i].provider = ids[j].provider => i = j

Orderly(user) ==
    /\ user \in UserRecord
    /\ Len(user.identities) > 0
    /\ Distinct(user.identities)
    /\ user.providers = ProvidersOf(user.identities)
    /\ user.provider = user.identities[1].provider

\* A later record of the same user: the address stays, and so does a sign-in.
Follows(later, user) ==
    /\ later.email = user.email
    /\ user.signedIn => later.signedIn

\* recomputeProviders sets the two keys of app_metadata from the identities.
LEMMA RecomputeOrderly ==
    ASSUME NEW user \in UserRecord, Len(user.identities) > 0, Distinct(user.identities)
    PROVE  /\ Orderly(recomputeProviders(user))
           /\ Follows(recomputeProviders(user), user)
<1> DEFINE ids == user.identities
           ps == ProvidersOf(ids)
<1>1. ids \in Seq(Identity) /\ Len(ids) \in Nat /\ DOMAIN ids = 1..Len(ids)
    BY DEF UserRecord
<1>2. ps \in Seq(Provider) /\ ps[1] \in Provider /\ ps[1] = ids[1].provider /\ ps # <<>>
    <2>1. \A i \in DOMAIN ids : ids[i].provider \in Provider
        <3> SUFFICES ASSUME NEW i \in DOMAIN ids PROVE ids[i].provider \in Provider
            OBVIOUS
        <3>1. ids[i] \in Identity
            BY <1>1
        <3> QED
            BY <3>1 DEF Identity
    <2>2. ps \in [1..Len(ids) -> Provider]
        BY <1>1, <2>1 DEF ProvidersOf
    <2>3. ps \in Seq(Provider) /\ DOMAIN ps = 1..Len(ids)
        BY <1>1, <2>2
    <2>4. 1 \in 1..Len(ids)
        BY <1>1
    <2> QED
        BY <1>1, <2>2, <2>3, <2>4 DEF ProvidersOf
<1>3. recomputeProviders(user) = [user EXCEPT !.providers = ps, !.provider = ps[1]]
    BY <1>2 DEF recomputeProviders, ProvidersOf
<1> HIDE DEF ps
<1>4. /\ recomputeProviders(user) \in UserRecord
      /\ recomputeProviders(user).identities = ids
      /\ recomputeProviders(user).providers = ps
      /\ recomputeProviders(user).provider = ps[1]
      /\ recomputeProviders(user).email = user.email
    BY <1>2, <1>3 DEF UserRecord
<1>5. recomputeProviders(user).signedIn = user.signedIn
    BY <1>2, <1>3 DEF UserRecord
<1> QED
    BY <1>2, <1>4, <1>5 DEF Orderly, Follows, ps

\* An identity of a provider that is new to the user may be added, also as the
\* first one.
LEMMA WithIdentityOrderly ==
    ASSUME NEW user \in UserRecord, Distinct(user.identities),
           NEW p \in Provider, NEW id \in IdentityId, ~hasProvider(user, p)
    PROVE  /\ Orderly(WithIdentity(user, p, id))
           /\ Follows(WithIdentity(user, p, id), user)
<1> DEFINE ids == user.identities
           more == Append(ids, [id |-> id, provider |-> p])
           user2 == [user EXCEPT !.identities = more]
<1>1. ids \in Seq(Identity) /\ Len(ids) \in Nat /\ [id |-> id, provider |-> p] \in Identity
    BY DEF UserRecord, Identity
<1>2. /\ more \in Seq(Identity) /\ Len(more) = Len(ids) + 1
      /\ \A i \in DOMAIN more : i \in DOMAIN ids \/ i = Len(ids) + 1
      /\ \A i \in DOMAIN ids : more[i] = ids[i]
      /\ more[Len(ids) + 1].provider = p
    BY <1>1
<1>3. Distinct(more)
    <2>1. \A i \in DOMAIN ids : ids[i].provider # p
        BY DEF hasProvider
    <2> HIDE DEF more
    <2> QED
        BY <1>2, <2>1 DEF Distinct
<1> HIDE DEF more
<1>4. /\ user2 \in UserRecord /\ user2.identities = more
      /\ user2.email = user.email /\ user2.signedIn = user.signedIn
    BY <1>2 DEF UserRecord
<1>5. Len(user2.identities) > 0
    BY <1>1, <1>2, <1>4
<1>6. WithIdentity(user, p, id) = recomputeProviders(user2)
    BY DEF WithIdentity, more
<1> HIDE DEF user2
<1> QED
    BY <1>3, <1>4, <1>5, <1>6, RecomputeOrderly DEF Follows

\* A new user has one identity and the given address.
LEMMA NewRecordOrderly ==
    ASSUME NEW a \in Address, NEW p \in Provider, NEW id \in IdentityId, NEW password \in BOOLEAN
    PROVE  Orderly(NewUserRecord(a, p, id, password)) /\ NewUserRecord(a, p, id, password).email = a
<1> DEFINE user == [email |-> a, identities |-> <<>>, provider |-> p, providers |-> <<>>,
                    password |-> password, signedIn |-> FALSE, metadata |-> NoMetadata]
<1>1. user \in UserRecord
    BY DEF UserRecord
<1>2. Distinct(user.identities) /\ ~hasProvider(user, p) /\ user.email = a
    BY DEF Distinct, hasProvider
<1>3. NewUserRecord(a, p, id, password) = WithIdentity(user, p, id)
    BY DEF NewUserRecord
<1> HIDE DEF user
<1> QED
    BY <1>1, <1>2, <1>3, WithIdentityOrderly DEF Follows

\* What is left when one element of a sequence is removed.
LEMMA RemoveAtParts ==
    ASSUME NEW S, NEW s \in Seq(S), NEW i \in DOMAIN s
    PROVE  /\ RemoveAt(s, i) \in Seq(S)
           /\ Len(RemoveAt(s, i)) = Len(s) - 1
           /\ \A j \in 1..(Len(s) - 1) :
                  RemoveAt(s, i)[j] = IF j < i THEN s[j] ELSE s[j + 1]
<1> DEFINE before == SubSeq(s, 1, i - 1)
           after == SubSeq(s, i + 1, Len(s))
<1>1. Len(s) \in Nat /\ i \in 1..Len(s)
    OBVIOUS
<1>2. /\ before \in Seq(S) /\ Len(before) = i - 1
      /\ \A j \in 1..(i - 1) : before[j] = s[j]
    BY <1>1
<1>3. /\ after \in Seq(S) /\ Len(after) = Len(s) - i
      /\ \A j \in 1..(Len(s) - i) : after[j] = s[i + j]
    BY <1>1
<1>4. RemoveAt(s, i) = before \o after
    BY DEF RemoveAt
<1> HIDE DEF before, after
<1>5. /\ before \o after \in Seq(S)
      /\ Len(before \o after) = Len(s) - 1
      /\ \A j \in 1..(Len(s) - 1) :
             (before \o after)[j] = IF j < i THEN before[j] ELSE after[j - (i - 1)]
    <2>1. /\ before \o after \in Seq(S)
          /\ Len(before \o after) = Len(before) + Len(after)
          /\ \A j \in 1..(Len(before) + Len(after)) :
                 (before \o after)[j] = IF j <= Len(before) THEN before[j]
                                        ELSE after[j - Len(before)]
        BY <1>2, <1>3, ConcatProperties
    <2>2. Len(before) + Len(after) = Len(s) - 1
        BY <1>1, <1>2, <1>3
    <2>3. ASSUME NEW j \in 1..(Len(s) - 1) PROVE (j <= Len(before)) = (j < i)
        BY <1>1, <1>2
    <2> QED
        BY <1>2, <2>1, <2>2, <2>3
<1>6. ASSUME NEW j \in 1..(Len(s) - 1)
      PROVE  (before \o after)[j] = IF j < i THEN s[j] ELSE s[j + 1]
    <2>1. CASE j < i
        BY <2>1, <1>1, <1>2, <1>5
    <2>2. CASE ~(j < i)
        <3>1. j - (i - 1) \in 1..(Len(s) - i) /\ i + (j - (i - 1)) = j + 1
            BY <2>2, <1>1
        <3> QED
            BY <2>2, <3>1, <1>3, <1>5
    <2> QED
        BY <2>1, <2>2
<1> QED
    BY <1>4, <1>5, <1>6

\* Any identity but the last one may be removed.
LEMMA RemovedOrderly ==
    ASSUME NEW user, Orderly(user), Len(user.identities) # 1, NEW i \in DOMAIN user.identities
    PROVE  LET user2 == recomputeProviders([user EXCEPT !.identities = RemoveAt(@, i)])
           IN  Orderly(user2) /\ Follows(user2, user)
<1> DEFINE ids == user.identities
           rest == RemoveAt(ids, i)
           user2 == [user EXCEPT !.identities = rest]
<1>1. ids \in Seq(Identity) /\ Len(ids) \in Nat /\ Len(ids) > 1 /\ DOMAIN ids = 1..Len(ids)
      /\ user \in UserRecord /\ Distinct(ids)
    <2>1. user \in UserRecord /\ Len(ids) > 0 /\ Distinct(ids) /\ Len(ids) # 1
        BY DEF Orderly
    <2>2. ids \in Seq(Identity)
        BY <2>1 DEF UserRecord
    <2> HIDE DEF ids
    <2>3. Len(ids) \in Nat /\ DOMAIN ids = 1..Len(ids)
        BY <2>2
    <2> QED
        BY <2>1, <2>2, <2>3
<1>2. /\ rest \in Seq(Identity) /\ Len(rest) = Len(ids) - 1
      /\ \A j \in 1..(Len(ids) - 1) : rest[j] = IF j < i THEN ids[j] ELSE ids[j + 1]
    BY <1>1, RemoveAtParts
<1> HIDE DEF rest
<1>3. Distinct(rest)
    <2>1. SUFFICES ASSUME NEW j \in DOMAIN rest, NEW k \in DOMAIN rest,
                          rest[j].provider = rest[k].provider
                   PROVE  j = k
        BY DEF Distinct
    <2>2. j \in 1..(Len(ids) - 1) /\ k \in 1..(Len(ids) - 1)
        BY <1>1, <1>2
    <2> DEFINE at(n) == IF n < i THEN n ELSE n + 1
    <2>0. i \in Int /\ j \in Int /\ k \in Int /\ Len(ids) \in Int
        BY <1>1, <2>2
    <2>3. at(j) \in DOMAIN ids /\ at(k) \in DOMAIN ids /\ rest[j] = ids[at(j)] /\ rest[k] = ids[at(k)]
        <3>1. at(j) \in 1..Len(ids) /\ at(k) \in 1..Len(ids)
            BY <1>1, <2>0, <2>2
        <3>2. rest[j] = ids[at(j)] /\ rest[k] = ids[at(k)]
            BY <1>2, <2>2
        <3> QED
            BY <1>1, <3>1, <3>2
    <2>4. at(j) = at(k)
        BY <2>1, <2>3, <1>1 DEF Distinct
    <2> QED
        BY <2>0, <2>4
<1>4. /\ user2 \in UserRecord /\ user2.identities = rest
      /\ user2.email = user.email /\ user2.signedIn = user.signedIn
    BY <1>1, <1>2 DEF UserRecord
<1>5. Len(user2.identities) > 0
    BY <1>1, <1>2, <1>4
<1>6. [user EXCEPT !.identities = RemoveAt(@, i)] = user2
    BY DEF rest
<1> HIDE DEF user2
<1> QED
    BY <1>3, <1>4, <1>5, <1>6, RecomputeOrderly DEF Follows

-----------------------------------------------------------------------------
(***************************************************************************)
(* The invariant behind type correctness and IdentitiesAgree.              *)
(***************************************************************************)
Accounts ==
    /\ users \in [DOMAIN users -> UserRecord]
    /\ \A u \in DOMAIN users : Orderly(users[u])

Inv == TypeOK /\ Accounts

\* What a step that edits the record of a user leaves: the users, their
\* addresses and their sign-ins.
Edited ==
    /\ Accounts'
    /\ DOMAIN users' = DOMAIN users
    /\ \A v \in DOMAIN users : Follows(users'[v], users[v])

\* Storing an orderly record with the user's own address is such a step, also
\* when there is no such user.
LEMMA EditKeeps ==
    ASSUME Accounts, NEW u, NEW r, u \in DOMAIN users => Orderly(r) /\ Follows(r, users[u]),
           users' = [users EXCEPT ![u] = r]
    PROVE  Edited
<1>1. DOMAIN users' = DOMAIN users
    OBVIOUS
<1>2. ASSUME NEW v \in DOMAIN users
      PROVE  Orderly(users'[v]) /\ Follows(users'[v], users[v])
    <2>1. CASE v = u
        BY <2>1
    <2>2. CASE v # u
        BY <2>2 DEF Accounts, Follows
    <2> QED
        BY <2>1, <2>2
<1>3. \A v \in DOMAIN users' : users'[v] \in UserRecord
    BY <1>1, <1>2 DEF Orderly
<1>4. users' = [v \in DOMAIN users' |-> users'[v]]
    BY DEF Accounts
<1> QED
    BY <1>1, <1>2, <1>3, <1>4 DEF Edited, Accounts

\* No step that leaves the map alone disturbs the accounts.
LEMMA SameAccounts ==
    ASSUME Accounts, UNCHANGED users
    PROVE  Edited
    BY DEF Accounts, Edited, Follows

\* A field that Orderly does not look at may be set.
LEMMA OtherFields ==
    ASSUME NEW user, Orderly(user)
    PROVE  /\ Orderly([user EXCEPT !.signedIn = TRUE])
           /\ Follows([user EXCEPT !.signedIn = TRUE], user)
           /\ \A data \in Metadata :
                  /\ Orderly([user EXCEPT !.metadata = data])
                  /\ Follows([user EXCEPT !.metadata = data], user)
    BY DEF Orderly, UserRecord, Follows

\* Linking: the provider is new to the user, whoever that is.
LEMMA LinkStep ==
    ASSUME Inv, NEW u, NEW p \in Provider, NEW id \in IdentityId,
           ~hasProvider(users[u], p),
           users' = [users EXCEPT ![u] = WithIdentity(@, p, id)]
    PROVE  Edited
<1> DEFINE r == WithIdentity(users[u], p, id)
<1>1. u \in DOMAIN users => Orderly(r) /\ Follows(r, users[u])
    BY WithIdentityOrderly DEF Inv, Accounts, Orderly
<1>2. users' = [users EXCEPT ![u] = r]
    OBVIOUS
<1> HIDE DEF r
<1> QED
    BY <1>1, <1>2, EditKeeps DEF Inv

\* Unlinking.
LEMMA UnlinkStep ==
    ASSUME Inv, NEW u, NEW id, RemoveIdentity(u, id)
    PROVE  Edited
<1>1. PICK i \in PositionOf(u, id) :
          users' = [users EXCEPT ![u] =
                       recomputeProviders([users[u] EXCEPT !.identities = RemoveAt(@, i)])]
    BY DEF RemoveIdentity
<1>2. i \in DOMAIN users[u].identities /\ u \in DOMAIN users /\ Len(users[u].identities) # 1
    BY DEF RemoveIdentity, UserExists, PositionOf
<1> DEFINE r == recomputeProviders([users[u] EXCEPT !.identities = RemoveAt(@, i)])
<1>3. Orderly(r) /\ Follows(r, users[u])
    BY <1>2, RemovedOrderly DEF Inv, Accounts
<1>4. users' = [users EXCEPT ![u] = r]
    BY <1>1
<1> HIDE DEF r
<1> QED
    BY <1>3, <1>4, EditKeeps DEF Inv

\* What a new user leaves: one more account, with an entry of the index.
LEMMA NewUserStep ==
    ASSUME Inv, NEW a \in Address, NEW p \in Provider, NEW id \in IdentityId,
           NEW password \in BOOLEAN, NEW u \in User, newUserLocked(a, p, id, password, u)
    PROVE  /\ Accounts'
           /\ DOMAIN users' = DOMAIN users \cup {u}
           /\ u \notin DOMAIN users
           /\ users'[u].email = a
           /\ \A v \in DOMAIN users : v # u /\ users'[v] = users[v]
           /\ emailIndex' = Put(emailIndex, a, u)
           /\ created' = created \cup {u} /\ created' \subseteq User
           /\ linked' \subseteq IdentityId
<1>1. /\ users' = Put(users, u, NewUserRecord(a, p, id, password))
      /\ u \notin created /\ created' = created \cup {u}
      /\ linked' = linked \cup {id} /\ emailIndex' = Put(emailIndex, a, u)
    BY DEF newUserLocked
<1> DEFINE r == NewUserRecord(a, p, id, password)
<1>2. Orderly(r) /\ r.email = a
    BY NewRecordOrderly
<1>3. users' = Put(users, u, r)
    BY <1>1
<1> HIDE DEF r
<1>4. u \notin DOMAIN users /\ created \subseteq User /\ linked \subseteq IdentityId
    BY <1>1 DEF Inv, TypeOK
<1>5. DOMAIN users' = DOMAIN users \cup {u} /\ users'[u] = r
      /\ \A v \in DOMAIN users : v # u /\ users'[v] = users[v]
    BY <1>3, <1>4 DEF Put
<1>6. r \in UserRecord
    BY <1>2 DEF Orderly
<1>7. users' \in [DOMAIN users' -> UserRecord]
    BY <1>3, <1>6 DEF Put, Inv, Accounts
<1>8. \A v \in DOMAIN users' : Orderly(users'[v])
    BY <1>2, <1>5 DEF Inv, Accounts
<1> QED
    BY <1>1, <1>2, <1>4, <1>5, <1>7, <1>8 DEF Accounts

\* A call that edits a user keeps the types.
LEMMA EditInv ==
    ASSUME Inv, Edited, linked' \subseteq IdentityId,
           UNCHANGED <<emailIndex, authCodes, now, created, synthesized, coded>>
    PROVE  Inv'
    BY DEF Inv, TypeOK, Edited, Accounts

\* So does one that makes a user.
LEMMA NewUserInv ==
    ASSUME Inv, NEW a \in Address, NEW p \in Provider, NEW id \in IdentityId,
           NEW password \in BOOLEAN, NEW u \in User, newUserLocked(a, p, id, password, u),
           UNCHANGED <<authCodes, now, coded>>, synthesized' \subseteq Synthetic
    PROVE  Inv'
<1>1. /\ Accounts' /\ DOMAIN users' \subseteq created'
      /\ emailIndex' = Put(emailIndex, a, u)
      /\ created \subseteq created' /\ created' \subseteq User /\ u \in created'
      /\ linked' \subseteq IdentityId
    <2>1. /\ Accounts' /\ DOMAIN users' = DOMAIN users \cup {u}
          /\ emailIndex' = Put(emailIndex, a, u)
          /\ created' = created \cup {u} /\ created' \subseteq User
          /\ linked' \subseteq IdentityId
        BY NewUserStep
    <2>2. DOMAIN users \subseteq created
        BY DEF Inv, TypeOK
    <2> QED
        BY <2>1, <2>2
<1>2. emailIndex' \in [DOMAIN emailIndex' -> created'] /\ DOMAIN emailIndex' \subseteq Address
    BY <1>1 DEF Inv, TypeOK, Put
<1>3. coded' \in [DOMAIN coded' -> created']
    BY <1>1 DEF Inv, TypeOK
<1> QED
    BY <1>1, <1>2, <1>3 DEF Inv, TypeOK, Accounts

\* Lowering the case of an address.
LEMMA Lowered ==
    ASSUME NEW a \in Address
    PROVE  /\ ToLower(a) \in Address
           /\ ToLower(a).upper = FALSE /\ ToLower(a).mailbox = a.mailbox
           /\ a.upper = FALSE => ToLower(a) = a
    BY DEF Address, ToLower

\* Clients send addresses; a synthetic one is an address as well.
LEMMA TypedAddresses ==
    ASSUME Inv
    PROVE  /\ Typed \subseteq Address
           /\ \A box \in Synthetic, b \in BOOLEAN : [mailbox |-> box, upper |-> b] \in Address
    BY DEF Inv, TypeOK, Typed, Address

\* The steps that make a user, with what the caller checked.
Creates(a, p, id, password, u) ==
    /\ newUserLocked(a, p, id, password, u)
    /\ UNCHANGED <<authCodes, now, coded>>

NewAddress(a, p) ==
    \/ /\ a \notin DOMAIN emailIndex /\ a.upper = FALSE
       /\ a.mailbox \in Mailbox \cup synthesized
       /\ UNCHANGED synthesized
    \/ /\ a.mailbox \in Synthetic \ synthesized /\ a.upper = (p \in MixedCase)
       /\ synthesized' = synthesized \cup {a.mailbox}

AddsUser ==
    \E a \in Address, p \in Provider, id \in IdentityId, password \in BOOLEAN, u \in User :
        Creates(a, p, id, password, u) /\ NewAddress(a, p)

\* The steps that edit a user.
EditsUser ==
    /\ Edited /\ linked' \subseteq IdentityId
    /\ UNCHANGED <<emailIndex, authCodes, now, created, synthesized, coded>>

\* The steps that concern the clock and the codes.
ElsewhereOnly ==
    /\ UNCHANGED <<users, emailIndex, created, synthesized, linked>>
    /\ \/ Tick
       \/ \E c \in Code : ConsumeAuthCode(c)
       \/ \E u \in User, c \in Code : CreateAuthCode(u, c)

\* Every step of the store is a step of one of five kinds.
LEMMA StepKinds ==
    ASSUME Inv, Next
    PROVE  \/ EditsUser
           \/ AddsUser
           \/ \E u \in User : DeleteUser(u)
           \/ Reset
           \/ ElsewhereOnly
<1>0. linked \subseteq IdentityId
    BY DEF Inv, TypeOK
<1>1. CASE Tick
    BY <1>1 DEF Tick, ElsewhereOnly
<1>2. ASSUME NEW u \in Fresh(User \ created), NEW id \in Fresh(IdentityId \ linked), NEW a \in Typed,
             \/ CreateUser(a, u, id)
             \/ \E p \in Provider : HintedOAuthUser(p, a, u, id)
      PROVE  AddsUser
    <2>0. u \in User /\ id \in IdentityId
        BY DEF Fresh
    <2>1. /\ ToLower(a) \in Address /\ ToLower(a).upper = FALSE
          /\ ToLower(a).mailbox \in Mailbox \cup synthesized
        BY Lowered, TypedAddresses DEF Typed
    <2>2. CASE CreateUser(a, u, id)
        <3>1. /\ Creates(ToLower(a), "email", id, TRUE, u) /\ ToLower(a) \notin DOMAIN emailIndex
              /\ UNCHANGED synthesized
            BY <2>2 DEF CreateUser, Creates, Registered
        <3> QED
            BY <2>0, <2>1, <3>1, ProviderAssumption DEF AddsUser, NewAddress
    <2>3. ASSUME NEW p \in Provider, HintedOAuthUser(p, a, u, id)
          PROVE  AddsUser
        <3>1. /\ Creates(ToLower(a), p, id, FALSE, u) /\ ToLower(a) \notin DOMAIN emailIndex
              /\ UNCHANGED synthesized
            BY <2>3 DEF HintedOAuthUser, Creates, Registered
        <3> QED
            BY <2>0, <2>1, <3>1 DEF AddsUser, NewAddress
    <2> QED
        BY <1>2, <2>2, <2>3
<1>3. ASSUME NEW u \in Fresh(User \ created), NEW id \in Fresh(IdentityId \ linked),
             NEW p \in Provider, NEW box \in Fresh(Synthetic \ synthesized),
             SyntheticOAuthUser(p, box, u, id)
      PROVE  AddsUser
    <2> DEFINE upper == p \in MixedCase
               b == [mailbox |-> box, upper |-> upper]
    <2>1. box \in Synthetic \ synthesized /\ u \in User /\ id \in IdentityId
        BY DEF Fresh
    <2>2. upper \in BOOLEAN
        OBVIOUS
    <2>3. Creates(b, p, id, FALSE, u) /\ synthesized' = synthesized \cup {box}
        BY <1>3 DEF SyntheticOAuthUser, Creates
    <2>4. upper = (p \in MixedCase)
        OBVIOUS
    <2> HIDE DEF upper
    <2>5. b \in Address /\ b.mailbox = box /\ b.upper = upper
        BY <2>1, <2>2, TypedAddresses
    <2> QED
        BY <2>1, <2>3, <2>4, <2>5 DEF AddsUser, NewAddress
<1>4. ASSUME NEW p \in Provider, NEW id \in Fresh(IdentityId \ linked),
             \/ \E a \in Typed : ReuseOAuthUser(p, a, id)
             \/ \E u \in User : AddIdentity(u, p, id)
      PROVE  EditsUser
    <2>1. id \in IdentityId
        BY DEF Fresh
    <2>2. ASSUME NEW a \in Typed, ReuseOAuthUser(p, a, id)
          PROVE  Edited /\ linked' \subseteq IdentityId
        BY <1>0, <2>1, <2>2, LinkStep, SameAccounts DEF ReuseOAuthUser, Inv
    <2>3. ASSUME NEW u \in User, AddIdentity(u, p, id)
          PROVE  Edited /\ linked' \subseteq IdentityId
        BY <1>0, <2>1, <2>3, LinkStep DEF AddIdentity
    <2> QED
        BY <1>4, <2>2, <2>3 DEF EditsUser, ReuseOAuthUser, AddIdentity
<1>5. ASSUME NEW u \in User,
             \/ \E id \in linked : RemoveIdentity(u, id)
             \/ \E data \in Metadata : SetUserMetadata(u, data)
             \/ UpdateLastSignIn(u)
      PROVE  EditsUser
    <2>1. ASSUME NEW id \in linked, RemoveIdentity(u, id)
          PROVE  Edited
        BY <2>1, UnlinkStep
    <2>2. ASSUME NEW data \in Metadata, SetUserMetadata(u, data)
          PROVE  Edited
        <3> DEFINE r == [users[u] EXCEPT !.metadata = data]
        <3>1. Orderly(r) /\ Follows(r, users[u])
            BY <2>2, OtherFields DEF SetUserMetadata, Inv, Accounts, UserExists
        <3>2. users' = [users EXCEPT ![u] = r]
            BY <2>2 DEF SetUserMetadata
        <3> HIDE DEF r
        <3> QED
            BY <3>1, <3>2, EditKeeps DEF Inv
    <2>3. ASSUME UpdateLastSignIn(u)
          PROVE  Edited
        <3> DEFINE r == [users[u] EXCEPT !.signedIn = TRUE]
        <3>1. Orderly(r) /\ Follows(r, users[u])
            BY <2>3, OtherFields DEF UpdateLastSignIn, Inv, Accounts, UserExists
        <3>2. users' = [users EXCEPT ![u] = r]
            BY <2>3 DEF UpdateLastSignIn
        <3> HIDE DEF r
        <3> QED
            BY <3>1, <3>2, EditKeeps DEF Inv
    <2> QED
        BY <1>0, <1>5, <2>1, <2>2, <2>3 DEF EditsUser, RemoveIdentity, SetUserMetadata, UpdateLastSignIn
<1>6. ASSUME NEW u \in User, NEW c \in Fresh(Code \ DOMAIN coded), CreateAuthCode(u, c)
      PROVE  ElsewhereOnly
    BY <1>6 DEF Fresh, CreateAuthCode, ElsewhereOnly
<1>7. ASSUME NEW c \in Code, ConsumeAuthCode(c)
      PROVE  ElsewhereOnly
    BY <1>7 DEF ConsumeAuthCode, ElsewhereOnly
<1> QED
    BY <1>1, <1>2, <1>3, <1>4, <1>5, <1>6, <1>7 DEF Next

-----------------------------------------------------------------------------
\* The empty store satisfies the invariant ...
LEMMA InvInit ==
    ASSUME Init
    PROVE  Inv
<1>1. users \in [DOMAIN users -> UserRecord] /\ DOMAIN users = {}
    BY DEF EmptyMap, Init
<1>2. emailIndex \in [DOMAIN emailIndex -> created] /\ DOMAIN emailIndex = {}
    BY DEF EmptyMap, Init
<1>3. authCodes \in [DOMAIN authCodes -> CodeRecord] /\ DOMAIN authCodes = {}
    BY DEF EmptyMap, Init
<1>4. coded \in [DOMAIN coded -> created] /\ DOMAIN coded = {}
    BY DEF EmptyMap, Init
<1> QED
    BY <1>1, <1>2, <1>3, <1>4, ClockAssumption DEF Init, Inv, TypeOK, Accounts

\* The steps that concern the clock and the codes keep the types.
LEMMA ElsewhereInv ==
    ASSUME Inv, ElsewhereOnly
    PROVE  Inv'
<1>1. Accounts' /\ UNCHANGED <<users, emailIndex, created, synthesized, linked>>
    BY DEF ElsewhereOnly, Inv, Accounts
<1> DEFINE Codes ==
           /\ now' \in 0..MaxTime
           /\ authCodes' \in [DOMAIN authCodes' -> CodeRecord]
           /\ DOMAIN authCodes' \subseteq DOMAIN coded'
           /\ coded' \in [DOMAIN coded' -> created] /\ DOMAIN coded' \subseteq Code
<1>2. Codes
    <2>1. CASE Tick
        BY <2>1, ClockAssumption DEF Tick, Inv, TypeOK
    <2>2. ASSUME NEW c \in Code, ConsumeAuthCode(c)
          PROVE  Codes
        BY <2>2 DEF ConsumeAuthCode, Delete, Restrict, Inv, TypeOK
    <2>3. ASSUME NEW u \in User, NEW c \in Code, CreateAuthCode(u, c)
          PROVE  Codes
        <3>1. u \in created
            BY <2>3 DEF CreateAuthCode, UserExists, Inv, TypeOK
        <3>2. [user |-> u, expiresAt |-> now + AuthCodeTTL] \in CodeRecord
            BY AuthCodeTTLAssumption, ClockAssumption DEF CodeRecord, Inv, TypeOK
        <3> QED
            BY <2>3, <3>1, <3>2 DEF CreateAuthCode, Put, Inv, TypeOK
    <2> QED
        BY <2>1, <2>2, <2>3 DEF ElsewhereOnly
<1> QED
    BY <1>1, <1>2 DEF Inv, TypeOK, Accounts

\* ... and every call keeps it.
LEMMA InvStep ==
    ASSUME Inv, [Next]_vars
    PROVE  Inv'
<1>1. CASE EditsUser
    BY <1>1, EditInv DEF EditsUser
<1>2. CASE AddsUser
    <2>1. PICK a \in Address, p \in Provider, id \in IdentityId, password \in BOOLEAN, u \in User :
              Creates(a, p, id, password, u) /\ NewAddress(a, p)
        BY <1>2 DEF AddsUser
    <2>2. synthesized' \subseteq Synthetic
        BY <2>1 DEF NewAddress, Inv, TypeOK
    <2> QED
        BY <2>1, <2>2, NewUserInv DEF Creates
<1>3. ASSUME NEW u \in User, DeleteUser(u)
      PROVE  Inv'
    <2>1. Accounts' /\ DOMAIN users' \subseteq created
        BY <1>3 DEF DeleteUser, Delete, Restrict, Inv, TypeOK, Accounts
    <2>2. emailIndex' \in [DOMAIN emailIndex' -> created] /\ DOMAIN emailIndex' \subseteq Address
        BY <1>3 DEF DeleteUser, Delete, Restrict, Inv, TypeOK
    <2> QED
        BY <1>3, <2>1, <2>2 DEF DeleteUser, Inv, TypeOK, Accounts
<1>4. CASE Reset
    <2>1. users' \in [DOMAIN users' -> UserRecord] /\ DOMAIN users' = {}
        BY <1>4 DEF EmptyMap, Reset
    <2>2. emailIndex' \in [DOMAIN emailIndex' -> created] /\ DOMAIN emailIndex' = {}
        BY <1>4 DEF EmptyMap, Reset
    <2>3. authCodes' \in [DOMAIN authCodes' -> CodeRecord] /\ DOMAIN authCodes' = {}
        BY <1>4 DEF EmptyMap, Reset
    <2> QED
        BY <1>4, <2>1, <2>2, <2>3 DEF Reset, Inv, TypeOK, Accounts
<1>5. CASE ElsewhereOnly
    BY <1>5, ElsewhereInv
<1>6. CASE UNCHANGED vars
    BY <1>6 DEF vars, Inv, TypeOK, Accounts
<1> QED
    BY <1>1, <1>2, <1>3, <1>4, <1>5, <1>6, StepKinds

\* So it holds of every behaviour.
LEMMA Invariance == Spec => []Inv
<1>1. Init => Inv
    BY InvInit
<1>2. Inv /\ [Next]_vars => Inv'
    BY InvStep
<1> QED
    BY <1>1, <1>2, PTL DEF Spec

\* The store's variables keep their types and the histories hold every id in use.
THEOREM TypeCorrect == Spec => []TypeOK
    BY Invariance, PTL DEF Inv

\* Whatever is linked, unlinked, signed in by hint or deleted, and with whatever
\* provider keys, a user has an identity, none twice, and app_metadata says which.
THEOREM IdentitiesInOrder == Spec => []IdentitiesAgree
<1>1. Inv => IdentitiesAgree
    BY DEF Inv, Accounts, Orderly, Distinct, ProvidersOf, IdentitiesAgree
<1> QED
    BY <1>1, Invariance, PTL

\* No sequence of calls makes a code exchangeable that is not.
THEOREM CodeSpentOnce == Spec => SpentForever
<1>1. ASSUME Inv, [Next]_vars, NEW c \in DOMAIN coded, ~Exchangeable(c)
      PROVE  ~Exchangeable(c)'
    <2>1. now \in Int
        BY <1>1, ClockAssumption DEF Inv, TypeOK
    <2>2. ASSUME c \in DOMAIN authCodes', c \in DOMAIN authCodes,
                 authCodes'[c] = authCodes[c], now' >= now, now' \in Int,
                 authCodes[c].expiresAt \in Int
          PROVE  ~Exchangeable(c)'
        BY <1>1, <2>1, <2>2 DEF Exchangeable, Expired
    <2>3. c \in DOMAIN authCodes => authCodes[c].expiresAt \in Int
        BY <1>1 DEF Inv, TypeOK, CodeRecord
    <2> DEFINE Kept == \/ c \notin DOMAIN authCodes'
                      \/ /\ c \in DOMAIN authCodes /\ authCodes'[c] = authCodes[c]
                         /\ now' >= now /\ now' \in Int
    <2>4. Kept
        <3>0. CASE UNCHANGED <<authCodes, now>>
            BY <3>0, <2>1
        <3>1. CASE Tick
            BY <3>1, <2>1 DEF Tick
        <3>2. ASSUME NEW d \in Code, ConsumeAuthCode(d)
              PROVE  Kept
            BY <3>2, <2>1 DEF ConsumeAuthCode, Delete, Restrict
        <3>3. ASSUME NEW u \in User, NEW d \in Code, CreateAuthCode(u, d)
              PROVE  Kept
            BY <1>1, <3>3, <2>1 DEF CreateAuthCode, Put
        <3>4. CASE Reset
            BY <3>4 DEF Reset, EmptyMap
        <3> QED
            BY <1>1, <3>0, <3>1, <3>2, <3>3, <3>4, StepKinds
               DEF EditsUser, AddsUser, Creates, DeleteUser, ElsewhereOnly, vars
    <2> QED
        BY <2>2, <2>3, <2>4 DEF Exchangeable
<1>2. Inv /\ [Next]_vars => \A c \in DOMAIN coded : ~Exchangeable(c) => ~Exchangeable(c)'
    BY <1>1
<1> QED
    BY <1>2, Invariance, PTL DEF Spec, SpentForever

-----------------------------------------------------------------------------
(***************************************************************************)
(* What holds with whatever provider keys: nobody but its user changes an  *)
(* address, and what is written in lower case is found.                    *)
(***************************************************************************)
\* A user that is still stored was stored before, under the same address.
Stays ==
    /\ created \subseteq created'
    /\ \A u \in created :
           u \in DOMAIN users' => u \in DOMAIN users /\ Follows(users'[u], users[u])

\* No id is handed out twice, so no call brings a removed user back.
LEMMA StaysStep ==
    ASSUME Inv, [Next]_vars
    PROVE  Stays
<1>1. CASE EditsUser
    BY <1>1 DEF EditsUser, Edited, Stays
<1>2. CASE AddsUser
    <2>1. PICK a \in Address, p \in Provider, id \in IdentityId, password \in BOOLEAN, u \in User :
              Creates(a, p, id, password, u)
        BY <1>2 DEF AddsUser
    <2>2. u \notin created /\ created' = created \cup {u}
        BY <2>1 DEF Creates, newUserLocked
    <2>3. /\ DOMAIN users' = DOMAIN users \cup {u}
          /\ \A v \in DOMAIN users : users'[v] = users[v]
        BY <2>1, NewUserStep DEF Creates
    <2> QED
        BY <2>2, <2>3 DEF Stays, Follows
<1>3. ASSUME NEW u \in User, DeleteUser(u)
      PROVE  Stays
    BY <1>3 DEF DeleteUser, Delete, Restrict, Stays, Follows
<1>4. CASE Reset
    BY <1>4 DEF Reset, EmptyMap, Stays
<1>5. CASE ElsewhereOnly \/ UNCHANGED vars
    BY <1>5 DEF ElsewhereOnly, vars, Stays, Follows
<1> QED
    BY <1>1, <1>2, <1>3, <1>4, <1>5, StepKinds

\* A lower-case entry of the index names a user that is stored under it.  (An
\* upper-case one outlives its user, since DeleteUser lowers the address.)
LowerIndex ==
    \A a \in DOMAIN emailIndex :
        a.upper = FALSE => emailIndex[a] \in DOMAIN users /\ users[emailIndex[a]].email = a

\* So a registered address is its holder's.
LEMMA HolderFound ==
    ASSUME Inv, LowerIndex, NEW a \in Address, Registered(a)
    PROVE  FindUserByEmail(a) \in DOMAIN users /\ users[FindUserByEmail(a)].email = ToLower(a)
    BY Lowered DEF LowerIndex, Registered, FindUserByEmail

\* Every call keeps the lower-case entries right.
LEMMA LowerIndexStep ==
    ASSUME Inv, LowerIndex, [Next]_vars
    PROVE  LowerIndex'
<1>1. CASE EditsUser
    BY <1>1 DEF EditsUser, Edited, Follows, LowerIndex
<1>2. CASE AddsUser
    <2>1. PICK a \in Address, p \in Provider, id \in IdentityId, password \in BOOLEAN, u \in User :
              Creates(a, p, id, password, u)
        BY <1>2 DEF AddsUser
    <2>2. /\ DOMAIN users' = DOMAIN users \cup {u}
          /\ users'[u].email = a
          /\ \A v \in DOMAIN users : v # u /\ users'[v] = users[v]
          /\ emailIndex' = Put(emailIndex, a, u)
        BY <2>1, NewUserStep DEF Creates
    <2> QED
        BY <2>2 DEF Put, LowerIndex
<1>3. ASSUME NEW u \in User, DeleteUser(u)
      PROVE  LowerIndex'
    <2>1. /\ DOMAIN users' = DOMAIN users \ {u}
          /\ \A v \in DOMAIN users' : users'[v] = users[v]
          /\ DOMAIN emailIndex' = DOMAIN emailIndex \ {ToLower(users[u].email)}
          /\ \A b \in DOMAIN emailIndex' : emailIndex'[b] = emailIndex[b]
        BY <1>3 DEF DeleteUser, Delete, Restrict
    <2>2. ASSUME NEW b \in DOMAIN emailIndex', b.upper = FALSE
          PROVE  emailIndex[b] # u
        <3>1. b \in Address /\ b \in DOMAIN emailIndex
            BY <2>1 DEF Inv, TypeOK
        <3>2. ToLower(b) = b
            BY <2>2, <3>1, Lowered
        <3> QED
            BY <2>1, <2>2, <3>1, <3>2 DEF LowerIndex
    <2>3. ASSUME NEW b \in DOMAIN emailIndex', b.upper = FALSE
          PROVE  emailIndex'[b] \in DOMAIN users' /\ users'[emailIndex'[b]].email = b
        <3>1. b \in DOMAIN emailIndex /\ emailIndex'[b] = emailIndex[b]
            BY <2>1
        <3>2. emailIndex[b] \in DOMAIN users /\ users[emailIndex[b]].email = b
            BY <2>3, <3>1 DEF LowerIndex
        <3>3. emailIndex[b] \in DOMAIN users'
            BY <2>1, <2>2, <2>3, <3>2
        <3> QED
            BY <2>1, <3>1, <3>2, <3>3
    <2> QED
        BY <2>3 DEF LowerIndex
<1>4. CASE Reset
    BY <1>4 DEF Reset, EmptyMap, LowerIndex
<1>5. CASE ElsewhereOnly \/ UNCHANGED vars
    BY <1>5 DEF ElsewhereOnly, vars, LowerIndex
<1> QED
    BY <1>1, <1>2, <1>3, <1>4, <1>5, StepKinds

-----------------------------------------------------------------------------
(***************************************************************************)
(* The e-mail index.  It takes lower-case provider keys: the invariant is  *)
(* that the index and the users are inverse to each other, and that every  *)
(* address in it was sent by a client or synthesized before.               *)
(***************************************************************************)
IndexInv ==
    /\ \A a \in DOMAIN emailIndex :
           /\ a.upper = FALSE /\ a.mailbox \in Mailbox \cup synthesized
           /\ emailIndex[a] \in DOMAIN users /\ users[emailIndex[a]].email = a
    /\ \A u \in DOMAIN users :
           users[u].email \in DOMAIN emailIndex /\ emailIndex[users[u].email] = u

\* A new address is not in the index yet.
LEMMA NewAddressIsNew ==
    ASSUME MixedCase = {}, Inv, IndexInv, NEW a \in Address, NEW p \in Provider, NewAddress(a, p)
    PROVE  /\ a \notin DOMAIN emailIndex /\ a.upper = FALSE
           /\ a.mailbox \in Mailbox \cup synthesized'
           /\ synthesized \subseteq synthesized'
<1>1. CASE /\ a \notin DOMAIN emailIndex /\ a.upper = FALSE
            /\ a.mailbox \in Mailbox \cup synthesized
            /\ UNCHANGED synthesized
    BY <1>1
<1>2. CASE /\ a.mailbox \in Synthetic \ synthesized /\ a.upper = (p \in MixedCase)
           /\ synthesized' = synthesized \cup {a.mailbox}
    <2>1. a.mailbox \notin Mailbox \cup synthesized
        BY <1>2, MailboxAssumption
    <2>2. a \notin DOMAIN emailIndex
        BY <2>1 DEF IndexInv
    <2>3. (p \in MixedCase) = FALSE
        OBVIOUS
    <2>4. a.upper = FALSE
        BY <1>2, <2>3
    <2> QED
        BY <1>2, <2>2, <2>4
<1> QED
    BY <1>1, <1>2 DEF NewAddress

\* The entry that a deletion removes is the user's own.
LEMMA DeletesOwnEntry ==
    ASSUME Inv, IndexInv, NEW u \in User, DeleteUser(u)
    PROVE  /\ u \in DOMAIN users /\ users[u].email \in DOMAIN emailIndex
           /\ emailIndex[users[u].email] = u
           /\ users' = Delete(users, {u})
           /\ emailIndex' = Delete(emailIndex, {users[u].email})
           /\ UNCHANGED <<synthesized, created>>
<1>1. u \in DOMAIN users
    BY DEF DeleteUser, UserExists
<1>2. users[u].email \in DOMAIN emailIndex /\ emailIndex[users[u].email] = u
    BY <1>1 DEF IndexInv
<1>3. users[u].email \in Address /\ users[u].email.upper = FALSE
    BY <1>2 DEF IndexInv, Inv, TypeOK
<1>4. ToLower(users[u].email) = users[u].email
    BY <1>3, Lowered
<1> QED
    BY <1>1, <1>2, <1>4 DEF DeleteUser

\* Every call keeps index and users inverse to each other.
LEMMA IndexStep ==
    ASSUME MixedCase = {}, Inv, IndexInv, [Next]_vars
    PROVE  IndexInv'
<1>1. CASE EditsUser
    BY <1>1 DEF EditsUser, Edited, Follows, IndexInv
<1>2. CASE AddsUser
    <2>1. PICK a \in Address, p \in Provider, id \in IdentityId, password \in BOOLEAN, u \in User :
              Creates(a, p, id, password, u) /\ NewAddress(a, p)
        BY <1>2 DEF AddsUser
    <2>2. /\ a \notin DOMAIN emailIndex /\ a.upper = FALSE
          /\ a.mailbox \in Mailbox \cup synthesized'
          /\ synthesized \subseteq synthesized'
        BY <2>1, NewAddressIsNew
    <2>3. /\ DOMAIN users' = DOMAIN users \cup {u}
          /\ u \notin DOMAIN users
          /\ users'[u].email = a
          /\ \A v \in DOMAIN users : v # u /\ users'[v] = users[v]
          /\ emailIndex' = Put(emailIndex, a, u)
        BY <2>1, NewUserStep DEF Creates
    <2>4. /\ DOMAIN emailIndex' = DOMAIN emailIndex \cup {a} /\ emailIndex'[a] = u
          /\ \A b \in DOMAIN emailIndex : b # a /\ emailIndex'[b] = emailIndex[b]
        BY <2>2, <2>3 DEF Put
    <2>5. ASSUME NEW b \in DOMAIN emailIndex'
          PROVE  /\ b.upper = FALSE /\ b.mailbox \in Mailbox \cup synthesized'
                 /\ emailIndex'[b] \in DOMAIN users' /\ users'[emailIndex'[b]].email = b
        <3>1. CASE b = a
            BY <3>1, <2>2, <2>3, <2>4
        <3>2. CASE b # a
            BY <3>2, <2>2, <2>3, <2>4 DEF IndexInv
        <3> QED
            BY <3>1, <3>2
    <2>6. ASSUME NEW v \in DOMAIN users'
          PROVE  users'[v].email \in DOMAIN emailIndex' /\ emailIndex'[users'[v].email] = v
        BY <2>3, <2>4 DEF IndexInv
    <2> QED
        BY <2>5, <2>6 DEF IndexInv
<1>3. ASSUME NEW u \in User, DeleteUser(u)
      PROVE  IndexInv'
    <2>1. /\ u \in DOMAIN users /\ users[u].email \in DOMAIN emailIndex
          /\ emailIndex[users[u].email] = u
          /\ users' = Delete(users, {u})
          /\ emailIndex' = Delete(emailIndex, {users[u].email})
          /\ UNCHANGED synthesized
        BY <1>3, DeletesOwnEntry
    <2>2. /\ DOMAIN users' = DOMAIN users \ {u}
          /\ \A v \in DOMAIN users' : users'[v] = users[v]
          /\ DOMAIN emailIndex' = DOMAIN emailIndex \ {users[u].email}
          /\ \A b \in DOMAIN emailIndex' : emailIndex'[b] = emailIndex[b]
        BY <2>1 DEF Delete, Restrict
    <2>3. ASSUME NEW b \in DOMAIN emailIndex'
          PROVE  /\ b.upper = FALSE /\ b.mailbox \in Mailbox \cup synthesized'
                 /\ emailIndex'[b] \in DOMAIN users' /\ users'[emailIndex'[b]].email = b
        <3>1. b \in DOMAIN emailIndex /\ b # users[u].email /\ emailIndex'[b] = emailIndex[b]
            BY <2>2
        <3>2. /\ b.upper = FALSE /\ b.mailbox \in Mailbox \cup synthesized
              /\ emailIndex[b] \in DOMAIN users /\ users[emailIndex[b]].email = b
            BY <3>1 DEF IndexInv
        <3>3. emailIndex[b] \in DOMAIN users'
            BY <2>2, <3>1, <3>2
        <3> QED
            BY <2>1, <2>2, <3>1, <3>2, <3>3
    <2>4. ASSUME NEW v \in DOMAIN users'
          PROVE  users'[v].email \in DOMAIN emailIndex' /\ emailIndex'[users'[v].email] = v
        <3>1. v \in DOMAIN users /\ v # u /\ users'[v] = users[v]
            BY <2>2
        <3>2. users[v].email \in DOMAIN emailIndex /\ emailIndex[users[v].email] = v
            BY <3>1 DEF IndexInv
        <3>3. users[v].email # users[u].email
            BY <2>1, <3>1, <3>2
        <3> QED
            BY <2>2, <3>1, <3>2, <3>3
    <2> QED
        BY <2>3, <2>4 DEF IndexInv
<1>4. CASE Reset
    BY <1>4 DEF Reset, EmptyMap, IndexInv
<1>5. CASE ElsewhereOnly
    BY <1>5 DEF ElsewhereOnly, IndexInv
<1>6. CASE UNCHANGED vars
    BY <1>6 DEF vars, IndexInv
<1> QED
    BY <1>1, <1>2, <1>3, <1>4, <1>5, <1>6, StepKinds

\* So they are in every behaviour.
LEMMA IndexInvariance ==
    ASSUME MixedCase = {}
    PROVE  Spec => [](Inv /\ IndexInv)
<1>1. Init => IndexInv
    BY DEF Init, EmptyMap, IndexInv
<1>2. Inv /\ IndexInv /\ [Next]_vars => IndexInv'
    BY IndexStep
<1> QED
    BY <1>1, <1>2, Invariance, PTL DEF Spec

\* With lower-case provider keys the e-mail index and the users agree: every
\* user is found by its address, and every entry is of a user with that address.
THEOREM EmailIndex ==
    ASSUME MixedCase = {}
    PROVE  Spec => []EmailIndexAgrees
<1>1. ASSUME Inv, IndexInv
      PROVE  EmailIndexAgrees
    <2>1. ASSUME NEW u \in DOMAIN users
          PROVE  FindUserByEmail(users[u].email) = u
        <3>1. /\ users[u].email \in DOMAIN emailIndex /\ emailIndex[users[u].email] = u
              /\ users[u].email \in Address /\ users[u].email.upper = FALSE
            BY <1>1 DEF IndexInv, Inv, TypeOK
        <3>2. ToLower(users[u].email) = users[u].email
            BY <3>1, Lowered
        <3> QED
            BY <3>1, <3>2 DEF FindUserByEmail, Registered
    <2> QED
        BY <1>1, <2>1 DEF EmailIndexAgrees, FindableByEmail, IndexInv
<1>2. Inv /\ IndexInv => EmailIndexAgrees
    BY <1>1
<1> QED
    BY <1>2, IndexInvariance, PTL

-----------------------------------------------------------------------------
(***************************************************************************)
(* The store implements AddressBook.                                       *)
(***************************************************************************)
AddressOf(m) == [mailbox |-> m, upper |-> FALSE]

Mailboxes == Mailbox \cup Synthetic

HolderOf(m) ==
    IF AddressOf(m) \in DOMAIN emailIndex /\ emailIndex[AddressOf(m)] \in DOMAIN users
    THEN emailIndex[AddressOf(m)]
    ELSE NoUser

\* The address of a mailbox is a normalized one.
LEMMA LoweredAddress ==
    ASSUME NEW m \in Mailboxes
    PROVE  ToLower(AddressOf(m)) = AddressOf(m)
<1>1. AddressOf(m) \in Address /\ AddressOf(m).upper = FALSE
    BY DEF Address, AddressOf, Mailboxes
<1> QED
    BY <1>1, Lowered

\* So a mailbox is looked up as it is.
LEMMA HolderDef == Holder = [m \in Mailboxes |-> HolderOf(m)]
    BY LoweredAddress DEF Holder, Mailboxes, HolderOf, AddressOf, FindUserByEmail, Registered

\* When the index and the users agree, a mailbox is held by whom the index names.
LEMMA HolderValue ==
    ASSUME Inv, IndexInv, NEW m \in Mailboxes
    PROVE  Holder[m] = IF AddressOf(m) \in DOMAIN emailIndex
                       THEN emailIndex[AddressOf(m)] ELSE NoUser
    BY HolderDef DEF HolderOf, IndexInv

\* The same of the next state.
LEMMA HolderNext ==
    ASSUME Inv', IndexInv'
    PROVE  /\ Holder' = [m \in Mailboxes |-> Holder'[m]]
           /\ \A m \in Mailboxes :
                  Holder'[m] = IF AddressOf(m) \in DOMAIN emailIndex'
                               THEN emailIndex'[AddressOf(m)] ELSE NoUser
<1>1. Holder' = [m \in Mailboxes |-> HolderOf(m)']
    BY LoweredAddress DEF Holder, Mailboxes, HolderOf, AddressOf, FindUserByEmail, Registered
<1>2. ASSUME NEW m \in Mailboxes
      PROVE  HolderOf(m)' = IF AddressOf(m) \in DOMAIN emailIndex'
                            THEN emailIndex'[AddressOf(m)] ELSE NoUser
    BY DEF HolderOf, IndexInv, AddressOf
<1> QED
    BY <1>1, <1>2

\* No mailbox has a holder at first.
LEMMA BookInit ==
    ASSUME Init
    PROVE  Book!Init
    BY HolderDef DEF Init, EmptyMap, Book!Init, Mailboxes, HolderOf

\* The step that each kind of call is on the address book.
LEMMA BookStep ==
    ASSUME MixedCase = {}, Inv, IndexInv, [Next]_vars, Inv', IndexInv'
    PROVE  [Book!Next]_Book!vars
<1>1. /\ Holder = [m \in Mailboxes |-> Holder[m]]
      /\ \A m \in Mailboxes :
             Holder[m] = IF AddressOf(m) \in DOMAIN emailIndex
                         THEN emailIndex[AddressOf(m)] ELSE NoUser
    BY HolderDef, HolderValue
<1>2. /\ Holder' = [m \in Mailboxes |-> Holder'[m]]
      /\ \A m \in Mailboxes :
             Holder'[m] = IF AddressOf(m) \in DOMAIN emailIndex'
                          THEN emailIndex'[AddressOf(m)] ELSE NoUser
    BY HolderNext
<1>3. ASSUME UNCHANGED <<emailIndex, created>>
      PROVE  UNCHANGED <<Holder, created>>
    BY <1>1, <1>2, <1>3
<1>4. CASE AddsUser
    <2>1. PICK a \in Address, p \in Provider, id \in IdentityId, password \in BOOLEAN, u \in User :
              Creates(a, p, id, password, u) /\ NewAddress(a, p)
        BY <1>4 DEF AddsUser
    <2>2. a \notin DOMAIN emailIndex /\ a.upper = FALSE
        BY <2>1, NewAddressIsNew
    <2>0. newUserLocked(a, p, id, password, u)
        BY <2>1 DEF Creates
    <2>3. emailIndex' = Put(emailIndex, a, u) /\ created' = created \cup {u}
        BY <2>0 DEF newUserLocked
    <2>4. u \notin created
        BY <2>1 DEF Creates, newUserLocked
    <2>5. a.mailbox \in Mailboxes /\ AddressOf(a.mailbox) = a
          /\ \A m \in Mailboxes : AddressOf(m) = a <=> m = a.mailbox
        BY <2>2 DEF Address, Mailboxes, AddressOf
    <2>6. Holder[a.mailbox] = NoUser
        BY <1>1, <2>2, <2>5
    <2>7. \A m \in Mailboxes : Holder'[m] = IF m = a.mailbox THEN u ELSE Holder[m]
        BY <1>1, <1>2, <2>3, <2>5 DEF Put
    <2>8. Holder' = [Holder EXCEPT ![a.mailbox] = u]
        BY <1>1, <1>2, <2>7
    <2>9. Book!Register(a.mailbox, u)
        BY <2>3, <2>4, <2>6, <2>8 DEF Book!Register
    <2> QED
        BY <2>5, <2>9 DEF Book!Next, Mailboxes
<1>5. ASSUME NEW u \in User, DeleteUser(u)
      PROVE  Book!Next
    <2>1. /\ users[u].email \in DOMAIN emailIndex
          /\ emailIndex[users[u].email] = u
          /\ emailIndex' = Delete(emailIndex, {users[u].email})
          /\ UNCHANGED created
        BY <1>5, DeletesOwnEntry
    <2>2. \A b \in DOMAIN emailIndex : emailIndex[b] = u <=> b = users[u].email
        BY <2>1 DEF IndexInv
    <2>3. u # NoUser
        BY NoUserAssumption
    <2>4. \A m \in Mailboxes : Holder'[m] = IF Holder[m] = u THEN NoUser ELSE Holder[m]
        BY <1>1, <1>2, <2>1, <2>2, <2>3 DEF Delete, Restrict
    <2>5. Holder' = [m \in Mailboxes |-> IF Holder[m] = u THEN NoUser ELSE Holder[m]]
        BY <1>2, <2>4
    <2> QED
        BY <2>1, <2>5 DEF Book!Next, Book!Remove, Mailboxes
<1>6. CASE Reset
    <2>1. \A m \in Mailboxes : Holder'[m] = NoUser
        BY <1>2, <1>6 DEF Reset, EmptyMap
    <2>2. Holder' = [m \in Mailboxes |-> NoUser]
        BY <1>2, <2>1
    <2> QED
        BY <1>6, <2>2 DEF Reset, Book!Next, Book!Clear, Mailboxes
<1>7. CASE EditsUser \/ ElsewhereOnly \/ UNCHANGED vars
    BY <1>3, <1>7 DEF EditsUser, ElsewhereOnly, vars, Book!vars
<1> QED
    BY <1>4, <1>5, <1>6, <1>7, StepKinds

\* With lower-case provider keys, signing in by address is what AddressBook says:
\* an address has one holder until it is removed, and a removed user none again.
THEOREM ImplementsAddressBook ==
    ASSUME MixedCase = {}
    PROVE  Spec => KeepsAddressBook
<1>1. Init => Book!Init
    BY BookInit
<1>2. (Inv /\ IndexInv) /\ [Next]_vars /\ (Inv /\ IndexInv)' => [Book!Next]_Book!vars
    BY BookStep
<1> QED
    BY <1>1, <1>2, IndexInvariance, PTL DEF Spec, KeepsAddressBook, Book!Spec

=============================================================================
