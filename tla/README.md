# Verification of supa-emu

supa-emu emulates the auth service of Supabase (GoTrue) for local tests: one Go
process, one in-memory store behind one mutex, and HTTP handlers that each make
one or several calls on that store. This directory holds TLA+ models of it, the
TLC configurations that check them and TLAPS proofs about them.

## 1. Inventory

Paths are under `src/internal/auth/` unless they start with `src/`.

| Part | Code | State | Operations |
|---|---|---|---|
| Session and refresh-token store | `store/refresh.go`, part of `store/factor.go`, `store/user.go`, `store/store.go` | `sessions`, `refreshTokens`, `parentToChild` | IssueSessionWithMethod, IssueRefreshToken, ConsumeRefreshToken, RevokeRefreshTokensBySession, UpgradeSessionAAL, GetSession, and the cascades of DeleteUser and Reset |
| MFA factor store | `store/factor.go` | `factors`, `challenges` | EnrollFactor, GetFactor, VerifyFactor, DeleteFactor, CreateChallenge, ConsumeChallenge, cascades |
| Passkey store | `store/passkey.go` | `passkeys`, `passkeyByCred`, `passkeyChallenges` | CreatePasskeyChallenge, ConsumePasskeyChallenge, AddPasskey, MarkPasskeyUsed, DeletePasskey, lookups, cascades |
| Accounts and identities | `store/user.go`, `store/identity.go`, `store/oauth.go` | `users`, `emailIndex`, `authCodes` | CreateUser, CreateOAuthUser, AddIdentity, RemoveIdentity, SetUserMetadata, UpdateLastSignIn, ListUsers, CreateAuthCode, ConsumeAuthCode, DeleteUser |
| Session, token and MFA handlers | `handler/signup.go`, `token.go`, `jwt.go`, `factors.go`, `logout.go`, `admin_delete_user.go`, `reset.go` | none of their own; signed tokens at the clients | see section 3 |
| Passkey handlers | `handler/passkeys.go` | none | two ceremonies of two requests each, list, delete |
| OAuth and identity handlers | `handler/oauth.go`, `identities.go` | none | authorize, pkce grant, link, unlink |
| Listing, seeding | `handler/admin_list_users.go`, `seed_user.go` | none | pagination; a user made in several store calls |
| Read-only endpoints, plumbing, configuration | `handler/handler.go`, `src/main.go`, `src/internal/config` | none | encoding, routing, flags |

How they interact. Every method of `store.Store` holds the mutex for its whole
body, so a store call is atomic. A handler is not: `net/http` runs each request
in a goroutine of its own, and between two store calls of one request any other
request may run. Handlers look at a *clone* taken by one call when they make the
next one. Access tokens are self-contained (`sub`, `session_id`, `exp`): a
handler checks the signature, the expiry and that the user exists, never that the
session does. Nothing is persisted, so there is no crash recovery to model; a
lost answer and a client's retry are what the reuse interval is for.

What is hard, and what makes each part correct:

* **Refresh tokens.** Rotation, a walk along `parentToChild` for retries, stamps
  that are overwritten on rotation and back-dated on logout, cascades that must
  clean both ends of every edge. Correct means: a token is rotated once; a retry
  in time is answered with the newest token; a refusal, and a logout, are final;
  no record outlives its user; no session is left that cannot be refreshed.
* **Factors and passkeys.** Challenges are single-use and expire; deletions arrive
  in the middle of ceremonies; the credential index must agree with the records.
* **Handlers.** Eight store calls of one verify request interleave with logouts,
  unenrolments, deletions, resets and other verifies. Correct means: a challenge
  serves one request; `aal2` is earned; logout is final; every request is answered.
* **Passkey ceremonies.** A verify reads a passkey by its credential and makes four
  more store calls on what it read. Correct means: a challenge serves one ceremony,
  of its own kind and user; `last_used_at` means a login; a deleted passkey logs
  nobody in but whoever had already been looked up.
* **Accounts and identities.** The e-mail index, identities and
  `app_metadata.providers` must agree after any sequence of sign-ups, seeds, OAuth
  sign-ins and unlinks; addresses are compared without letter case; codes are
  single-use and may outlive their user, whose address may have a new holder.
* **Listing.** `(page-1)*per_page`, `offset+limit` and `total+per_page-1` overflow for
  queries a client may send, and every page is sorted anew from a Go map. Correct
  means: no slice panics, the pages up to the last are right, and a walk along the
  `next` links misses nobody.

`PROJECT.json` lists the hazards line by line, with the properties that cover them.

## 2. Modules

| Module | Kind | What it models |
|---|---|---|
| `GoMap` | helper | a Go map as a function: `Put`, `Delete`, `EmptyMap`; `Fresh`, a new uuid |
| `RefreshStore` | component | sessions and refresh tokens of the store |
| `TokenForwarding` | abstract | what rotating tokens promise to their clients |
| `FactorStore` | component | MFA factors and challenges |
| `PasskeyStore` | component | passkeys, the credential index and ceremony challenges |
| `AccountStore` | component | users, the e-mail index, identities, authorization codes |
| `AddressBook` | abstract | what the accounts promise to whoever signs in by address |
| `AuthHandlers` | composition | sign-up, tokens, MFA and logout as concurrent requests over `RefreshStore` and `FactorStore` |
| `PasskeyHandlers` | composition | the passkey ceremonies over `PasskeyStore` and `RefreshStore` |
| `AccountHandlers` | composition | sign-up, seeding, OAuth sign-in, the password and pkce grants and unlinking over `AccountStore` and `RefreshStore` |
| `Pagination` | component | the user listing in ints of a given width, and a client that walks it |
| `MCRefreshStore`, `MCPasskeyHandlers` | instances | symmetry sets for TLC |
| `RefreshStoreProofs`, `FactorStoreProofs`, `PasskeyStoreProofs`, `AccountStoreProofs`, `PaginationProofs`, `AuthHandlersProofs`, `PasskeyHandlersProofs`, `AccountHandlersProofs` | proofs | section 6 |

The three handler modules instantiate two stores each on shared variables; an
action of theirs conjoins store actions with the handler's control state. They
overlap in little: `IssueSession` is in all three, because each ends there. In
`AccountHandlers` the users are records, and what `RefreshStore` keeps of a user is
computed from them (`Account`).

## 3. Correspondence with the code

**Store modules.** One method is one action, with the names of the Go code. The
guard is the condition of success; a method that returns an error changes nothing,
so the error answer is the negated guard (`Found`, `Expired`, `Consumable`,
`UserExists`), which the handlers test. Rejected calls therefore have no action in
a store module. Ids are opaque (`Fresh` takes one that was never handed out), time
is a counter of ticks that only `Tick` moves, and durations are numbers of ticks.
In `RevokeRefreshTokensBySession` one tick stands for the second the code adds to
step past the interval. Of a user the store modules keep only whether the `users`
map holds it; a deleted user does not come back, since its uuid does not.

*RefreshStore.* `Chain(t)` is the set of tokens that the loop of `findLatestChild`
visits, defined as a least closed set instead of by recursion, so that the prover
can use it; `LatestChild(t)` is what the loop returns, with `NoToken` for `nil`.
`issuedAt` is stamped when a token is made, stamped again when it is rotated and
back-dated at logout, as in the code. The back-dating is a second safeguard only:
logout also revokes every token of the session and removes both ends of its edges,
so a retry is refused whatever the stamp says, and no property hangs on its size. `owner` and `minted` are history: which
(user, session) pairs and which tokens may be in clients' hands.

*FactorStore, PasskeyStore.* `deleteFactorsLocked` and `deletePasskeysLocked` are
the code's per-record helpers applied to a set. Friendly names matter for factors
(they are unique per user) and are left out for passkeys, where nothing depends on
them; `last_used_at` is abstracted to whether it is set.

*AccountStore.* A user keeps its e-mail address, identities, the two keys of
`app_metadata` and whether password, `last_sign_in_at` and metadata are set. An
address is a mailbox and whether it is written with an upper case letter, which is
what `strings.ToLower` clears; the synthesized address of an OAuth user without a
hint holds a uuid, so it comes from a set of its own, and its case is that of the
provider key (`MixedCase`). Identities are a sequence, because `app_metadata.provider`
is that of the first one. CreateOAuthUser has three outcomes, one action each:
`HintedOAuthUser`, `SyntheticOAuthUser` and `ReuseOAuthUser`. An expired code is
removed like a good one; `Exchangeable` says which answer is given.

**AuthHandlers.** `req[r]` is what request `r` is doing: the store call it makes
next (`at`) and the ids it carries. Each action is one store call of one request
with the branch that the handler takes on its answer.

| Code | Actions |
|---|---|
| `Signup` | `Signup`, `IssueSession`, `Build` |
| `tokenPassword` | `tokenPassword` (FindUserByEmail), `UpdateLastSignIn`, `IssueSession`, `Build` |
| `tokenRefresh` | `tokenRefresh` (ConsumeRefreshToken), `Build` |
| `VerifyFactor` | `VerifyFactor` (requireUser), `GetFactor`, `ConsumeChallenge`, `PromoteFactor`, `UpgradeSessionAAL`, `IssueRefreshToken`, `FindUserByID`, `Build` |
| `EnrollFactor`, `ChallengeFactor`, `UnenrollFactor` | one action each |
| `Logout`, `AdminDeleteUser`, `Reset` | one action each |

The handlers in one action make one changing store call, the last, which repeats
the checks made before it (the owner of a factor never changes), so the calls
before it cannot make a difference to what it does. Only the access token is not looked
at again: in the code it may expire between requireUser and the last call of
EnrollFactor, ChallengeFactor or UnenrollFactor, so that the change happens a moment after
the expiry, where the model has both in one tick. No property depends on it: none
relates a factor or a challenge to the expiry of the token it was asked for with.
SetUserMetadata in Signup changes nothing the model keeps. `access[s]` is the expiry and aal of the latest access token sent for
session `s`, whose subject is the session's user (`owner`); `delivered` is the set
of refresh tokens sent. A client may present any of them, in any order, as often
as it likes, and so lose answers and retry. `proved` and `overtaken` are history
variables for the properties; no guard reads them.

**PasskeyHandlers.** Registration verify is `PasskeyRegistrationVerify` (requireUser),
`ConsumeRegistration`, `AddPasskey`; authentication verify is
`PasskeyAuthenticationVerify`, `ConsumeAuthentication`, `FindPasskeyByCredentialID`,
`FindUserByID`, `MarkPasskeyUsed`, `IssueSession`. The two options calls and the
deletion of a passkey are one action each. Users come from `SeedUser`, and any stored
user may have an access token: where tokens come from is the matter of `AuthHandlers`.
A request may name any challenge that was ever made, of either kind, and any
credential: the emulator checks no signature.

**AccountHandlers.** A request arrives with its first store call; one that is refused
there changes nothing and has no action.

| Code | Actions |
|---|---|
| `Signup` | `Signup` (CreateUser), `SetUserMetadata`, `IssueSession` |
| `SeedUser` | `SeedUser` (CreateUser), one `AddIdentity` per seeded identity |
| `Authorize` | `Authorize` (CreateOAuthUser), `CreateAuthCode` |
| `tokenPKCE` | `tokenPKCE` (ConsumeAuthCode), `UpdateLastSignIn`, `IssueSession` |
| `tokenPassword` | `tokenPassword` (FindUserByEmail), `UpdateLastSignIn`, `IssueSession` |
| `UnlinkIdentity`, `AdminDeleteUser`, `Reset` | one action each |

**Pagination.** `Wrap` is two's complement of `2 * Half` values, `Quotient` is Go's
division, `Atoi` is `strconv.Atoi` with its error dropped, which saturates. `Listing`
follows the handler and `ListUsers` step by step; the comparison with the plain
definition is `PagesExact`. `sort.Slice` on map values gives any order that agrees
with `CreatedAt` (`Orders`), drawn anew for every page. The walk is the client's loop
over the `next` links: it notes whom it was sent and whether a deletion came between.

## 4. Runs

| Run | Instance | States | Shows |
|---|---|---|---|
| `refresh_store` | 2 users, 2 sessions, 4 tokens, interval 1, clock to 2 | 34 k | nine properties of the refresh store, among them that it implements `TokenForwarding` |
| `factor_store` | 2 users, 3 factors, 2 challenges, 1 name, clock to 3 | 336 k | cascades, names, single use |
| `passkey_store` | 2 users, 3 passkeys, 2 credentials, 2 challenges, clock to 2 | 56 k | index, cascades, single use |
| `passkey_ceremonies` | 2 requests, 2 users, 2 passkeys, 2 credentials, 3 challenges, 2 sessions, clock to 1 | 462 k | safety of the ceremonies; they refine both stores |
| `account_store` | 2 users, 1 mailbox and 1 synthetic address, 2 providers, 4 identities, 1 code, clock to 1 | 96 k | index, identities, codes; `AccountStore` implements `AddressBook` |
| `account_safety` | 2 requests, 2 users, 2 sessions, 3 identities, up to 2 of them seeded, otherwise the same | 53 k | safety of these handlers, refinement of both stores, every request answered |
| `auth_safety` | 2 requests, 2 users, 2 sessions, 3 tokens, 1 factor, 2 challenges, clock to 1 | 314 k | safety of the handlers, refinement of both stores, every request answered |
| `pagination` | 3 users, ints of 4 bits, queries -9..9, clock to 2 | 83 k | slices, pages and walks |
| `auth_one_live_token`, `auth_logged_out`, `account_mixed_case`, `factor_expiry` | smallest instance | - | the findings of section 5 |

Why the bounds are enough. Four tokens give a chain of four, or two chains of two:
the walk has a first, a middle and a last step, and a rotation can happen while an
older retry is still in its interval. A clock two ticks long with an interval of
one lets an interval end for one token while it runs for the next. Two users and
two sessions let a cascade or a logout touch, or wrongly touch, somebody else's
records. Two requests give every pairwise overlap of handlers, and two challenges
let the two verify with the same or with different ones; single-call handlers run
beside them at any time. In the handler runs challenges and codes live for the tick
they are made in and the clock has two ticks, so a request may find one fresh,
expired, spent or swept away. Three tokens are a login, its rotation and the token of
a verify. Three passkey challenges allow a registration, a login that has looked the
passkey up, and the registration of the same credential again by the other user
before the login goes on. Two users and one mailbox let an address change hands, and
three identities (four in `account_store`) let a user link again what it unlinked.
Names are left to `factor_store` (`Name = {}` in the handlers). The passing runs of the
accounts have lower-case provider keys only (`MixedCase = {}`), because with others the
e-mail index is wrong (section 5). Three users need ints of 4 bits for twice their number to fit;
`MaxQuery` is past the largest of them, so every query a client can send, and every
overflow, is there.

Bounds that the models add to the code: a request starts only while an unused id is
left for every request in flight (`IdsLeft`, `IdentitiesLeft`, `Begin`), which also
keeps the bound from blocking a request; a seed has at most `MaxSeeds` identities;
the clock stops at `MaxTime`; a listing with arbitrary queries is not asked for
during a walk, which it could not change.

Symmetry is used for users, requests and credentials in runs without liveness, never
for ids that `Fresh` chooses. No run turns off deadlock checking:
`Reset` is always possible.

**Fairness.** `AuthHandlers` and `AccountHandlers` assume weak fairness of the next store call of each
request in flight, and nothing else. The Go scheduler runs every goroutine, the
mutex is held only for the length of a store method, and no handler waits for
another. No fairness is assumed for arrivals, for the clock or for clients.

**Properties.** Each is stated in a comment above its definition. The ones that
took the most thought: `GraceAnswered` (a retry in time always finds a live token,
although rotations, logouts and deletions go on), `RefusedForever` (re-stamping
never re-opens an interval), `ReferentialIntegrity` (a token issued late for a
session that is gone is still found by the cascade of its user), `IndexAgrees` of
the passkeys, `AssuranceEarned` and `LogoutFinal` of the handlers, `UsedExactly` (the
mark that one call sets and the session that the next one makes agree, although the
user may go in between), `SignedInHolder` (no call of a login falls to the next holder
of an address), `PagesExact` and `WalkExact` (overflow and random order do no harm
where a client goes).

**Variants with a bug.** Operators named `X_Something` next to `X` are faulty
variants of `X`; each property is violated when one of them takes its place, which
shows that the property can fail on the chosen instance.

## 5. Where code and comments disagree

1. *A verify does not rotate* (`auth_one_live_token`). `handler/factors.go:191`
   says that VerifyFactor returns a new pair "by rotating the refresh_token within
   the same session". It issues a further token and leaves the old one live.
2. *Logout can be overtaken* (`auth_logged_out`). A verify raises the session, a
   logout deletes it and revokes its tokens, the verify then issues a new token:
   `IssueRefreshToken` looks up the user only. The token can be refreshed on, which
   is what the comment at `handler/logout.go:5` wants to rule out. `LogoutFinal`
   shows that this overlap is the only one.
3. *Expired challenges* (`factor_expiry`). `store/factor.go:143` says that removing
   an expired challenge makes later calls "surface expired explicitly rather than
   degrading to not-found". Removing it is what makes later calls say not found.
4. *Provider keys with upper case* (`account_mixed_case`). CreateOAuthUser lowers a
   hint, but not the address it makes out of the provider key as it was sent
   (`store/oauth.go:53`). newUserLocked wants "a normalized, unique address"
   (`store/user.go:14`): the user cannot be found by its own address, and its deletion
   looks for the lowered key and leaves the entry behind.

Two more came up without a run of their own. A passkey login does not stamp
`last_sign_in_at`, which the comment at `handler/oauth.go:95` takes for granted ("like
a password/passkey login"). And `(page-1)*per_page` may wrap around to an offset in
range, so that users are listed on a page far past the end (in 64 bits, page
`2^62 + 1` with `per_page` 4 has offset 0), where the comment at `store/user.go:170`
thinks of negative offsets only; `PagesExact` is about the pages up to the last.

## 6. Proofs

TLAPS proves the following for all values of the constants, from the assumptions
named in the modules: `NoToken` is no token, the reuse interval is a positive
number of ticks, `Unissued` and `Refused` are two values that are no tokens,
`ChallengeTTL` and `AuthCodeTTL` are natural numbers, the lifetime of an access token
is positive, `Method` holds the methods the handlers name, `None` and `NoUser` are no
ids, `NoAddress` is no address, `NoProvider` no provider, mailboxes and synthetic
addresses are different, "email" is a provider, the users in the listing are finitely
many and twice their number is an int.

*RefreshStoreProofs.* The inductive invariant is built in two layers.
`ShapeInv` is `TypeOK`, `ReferentialIntegrity`, `ChainShape`, `NoFork` and
`ParentShape` (the parent of a stored token was handed out and, as long as it is
stored, is revoked and of the same session): `NoFork` needs it, because a token
that is rotated now must not be the parent of another one yet. The effect of each operation is
stated once, entry by entry (`IssueSessionStep`, `IssueTokenStep`, `ConsumeStep`, `RevokeStep`,
`DeleteUserStep`), and each is shown to keep `ShapeInv`. `GraceInv` adds `LeafInv`:
the walk from a revoked token still in its interval meets an unrevoked one. That
needs lemmas about walks: a walk stays in its session (`ChainInSession`), is not
changed by what happens in other sessions (`ChainUntouched`), and a rotation
extends exactly the walks that reach the rotated token (`ConsumeExtendsChains`).
From these: `TypeCorrect`, `Integrity`, `IndexAgrees`, `RotatedOnce`,
`RetryAnswered`, `RefusalIsFinal`, `LogoutSilences`, `NoStrandedSession`.
`StoreForwards` is the refinement: under the mapping `Position` the initial state
maps to the abstract one, and every step maps to `Issue`, `Rotate`, `Expire`,
`Revoke` or to no change (`PromiseStep`).

*FactorStoreProofs.* `TypeOK` and `NoOrphans` are inductive together, the latter
through one lemma about the shared cascade; `NamesDistinct` needs that no step but
EnrollFactor adds a name (`NamesKept`); `SpentForever` that no step brings back or
changes a challenge (`ChallengesShrink`) and that the clock does not go back.

*PasskeyStoreProofs.* `IndexAgrees` is inductive with `TypeOK`: the index and the
passkeys are inverse to each other, and one lemma about the shared cascade
(`CascadeKeepsAgreement`) serves the deletion of a passkey and of a user. `NoOrphans`
needs that a challenge is only made for a stored user (`NoOrphansStep`), `SpentForever`
that challenges only shrink (`ChallengesShrink`) and the clock does not go back.

*AccountStoreProofs.* `Inv` says that the types are right and that every record is
orderly: identities are not empty and name no provider twice, and the metadata is
computed from them (`RecomputeOrderly`, `WithIdentityOrderly`, `RemovedOrderly`). The
operations fall into five kinds (`StepKinds`): a step edits one record and leaves its
address, adds a user, deletes one, resets, or happens elsewhere; each kind is shown
once to keep `Inv`. `IdentitiesInOrder`
and `TypeCorrect` follow, `CodeSpentOnce` from what the steps do to codes. Under
`MixedCase = {}`, stated in the two theorems and in no module, `IndexInv` adds that
stored addresses are lower case and that index and users are inverse
(`DeletesOwnEntry` is where the letter case matters), which gives `EmailIndex`; and
`BookStep` maps each step to one of `AddressBook`: registering, removing, clearing or
no change (`ImplementsAddressBook`).

*PaginationProofs.* Facts about two's complement first: a wrapped number is an int, an
int is its own wrap, and what is less than one range too large wraps to a negative
number (`WrapRange`, `WrapInt`, `WrapOver`). From them `OffsetExact` (the product cannot
overflow on the pages up to the last), `LastPageExact` (if `total + per_page - 1`
overflows, everybody fits on page 1, which is what the negative quotient is replaced
by) and `SliceExact`. They make every answer sound (`ListingSound`), whatever order
the users are sorted in. `TypeCorrect`, `NoPanic` and `ListedExactly` hold for every
width of int.

`WalkCorrect` is about a sequence of answers that each draw an order. It rests on the
rank of a user, the number of users who are older: in every order of the listing a
user who is alone in his tick stands right behind so many (`PlaceIsRank`, by a
bijection between them and the places before his), so a page sends him exactly when
his rank lies within its slice (`SentByRank`), and a new user changes no rank
(`NewcomerLast`). The inductive invariant `WalkInv` says, as long as nobody was
deleted, that everybody from the start is still there, that the page to ask for next
begins within the users, and that those sent so far are those with the ranks below it,
each once. `WalkExact` alone is not inductive: it says nothing of the pages in the
middle.

*AuthHandlersProofs.* `Inv` joins the invariants of the two stores with `TypeOK` and
`RequestsKnown`: a request in flight carries only ids the stores have handed out, so
the arguments of its next call are good ones. Each handler step is shown to be a
step of each store or to leave it alone (`RefreshStep`, `FactorStep`), which is
`Discipline`, and which carries the stores' lemmas up to the handlers. On top of
that, one lemma says how a verify request comes to be at a call (`VerifyMoves`),
and three more strengthenings give the three results:
- `MetOnce`: the challenge of a request that has passed was issued and is gone;
  challenges do not come back.
- `LogoutIsFinal`: a request at IssueRefreshToken has a session that is stored, was
  noted in `overtaken`, or has a deleted user (`LateIssue`); a token made before the
  logout is silenced by it and refused from there on, by the proofs of the store.
- `AssuranceIsEarned`: a request at ConsumeChallenge has a factor of its own user,
  a later one has its challenge in `proved` (`RequestsEarn`); only such requests
  verify a factor (`FactorKept`) or raise a session (`SessionRaised`), and a token
  takes its aal from its session (`AccessRaised`).

*PasskeyHandlersProofs.* The steps are sorted into ten kinds by what they do to the
ceremonies (`StepKinds`): parts of the store go, a challenge is made, a request
arrives, fails, has its challenge accepted, finds its passkey, goes on, marks it,
registers one, or signs in. `Inv` is shown to survive each kind in one lemma
(`ElsewhereKeeps` to `SignInKeeps`). It joins `TypeOK` and `NoOrphans` of
`PasskeyStore` with four strengthenings:
- `RequestsKnown`: a request carries only ids that were handed out, and one that
  holds a passkey holds the user the passkey was registered by;
- `HistoryAgrees`: the histories and the stored records say the same;
- `SpentOnce`: an accepted challenge is no longer stored, and stands behind one
  request, one passkey or one session;
- `OwnChallenge`: the challenge of a request that goes on is one of its kind and,
  in a registration, of its user.

`CeremoniesBound` follows from the last two, since the store removes a challenge in
the call that finds it. `MarkExact` is where the store's cascade matters
(`FailureKeeps`): a login that fails after marking its passkey has lost its user, so
by `NoOrphans` the passkey is not stored. `DeletionIsFinal` rests on `Finds`, which
takes only stored passkeys. `PasskeyStep` and `RefreshStep` give `Disciplined`.

*AccountHandlersProofs.* Here the calls of a login are tied together by an address
and not by a challenge, so the invariant says of every id in a request or in a history
what it has become. `StoreInv` adds to the invariant of `AccountStore` that the
lower-case entries of the e-mail index lead to stored users of that very address
(`LowerIndex`), which holds whatever the letter case of the provider keys. `HandlerInv`
joins `TypeOK` and `CodeExchangedOnce` with three strengthenings:
- `RequestsInformed`: the user of a request was handed out, and, as long as it is
  stored, holds the address the request came by (`Settled`) and, at the last call of a
  grant, has been stamped;
- `HistoryAgrees`: the same of the users of codes and sessions;
- `SpentOnce`: an accepted code is no longer stored, and stands behind one request or
  one session.

What other requests do in between is the matter of one lemma of the store
(`StaysStep`): no step changes the address or takes back the stamp of a user that
stays stored. The steps are sorted by what they do to requests, codes and sessions
(go elsewhere, go on, accept a code, make one, sign in), each kind with its lemma.
`TypeCorrect`, `ExchangedOnce` and `Disciplined` hold whatever the letter case of the
provider keys; `SignedInAsHolder` needs `MixedCase = {}`, because it goes from the
address back to the user by the index (`SettledFound`), which finding 4 of section 5
breaks otherwise.

*What the stores promise, promised by the handlers.* `Disciplined` and its kin carry
the theorems about the stores up: `TokensKeepTheirPromises` and
`FactorsKeepTheirPromises` of `AuthHandlers`, `PasskeysInOrder` and `SessionsKept` of
`PasskeyHandlers`, `AccountsInOrder` and `SessionsKept` of `AccountHandlers`. Two of
them compose refinements: the handlers implement `TokenForwarding`, and
(`SignInKeepsAddressBook`) `AddressBook`. The stores are instantiated twice, by a
handler module and through the proof modules of the stores; `SameRefreshNext`,
`SameFactorNext`, `SamePasskeyNext`, `SameAccountNext` and their kin say that the two
agree.

*The variant behind liveness.* `CallsRunOut`, in each of the three modules, is the part
of `Answered` that is no liveness: every call takes the request that makes it nearer to
its answer, by a count of the calls that are left (of the identities left, in a seed),
and no other step touches a request in flight. So no handler goes round in a circle,
however requests overlap, which covers the ceremonies too, whose liveness no run checks.

`TypeOK` of `AccountStore` and of `Pagination` is proved and not listed in a run.

*Model-checked only:* liveness (`Answered`): that the next call of a request in flight is
always possible is about ENABLED, and that it is made about fairness, both out of the
prover's reach. Every other property of a passing run is a theorem. No proof is by
induction over data and no module declares a RECURSIVE operator.

## 7. Not modelled

* Request parsing, response bodies, error wording, bcrypt, JWT encoding, listening
  and shutdown: input and output around the handlers.
* Read-only endpoints (one read under the lock, or a constant): the user, settings,
  health, the snapshot, the lists of factors, passkeys and identities.
  LinkIdentityAuthorize only builds a URL.
* `src/internal/config`: flags, environment and keys are read once, before anything
  runs, and keep no state.
* `CreateSession`, which only tests call.
* Liveness of the passkey ceremonies: they run in the same way as the requests of
  `AuthHandlers` and `AccountHandlers`, whose liveness is checked, and have no loop
  (`CallsRunOut`).
* What a walk sees of users made in one tick, or after a deletion, which shifts the
  pages behind it: the code promises nothing there.

## 8. What could come next

A model of the precedence of flags, environment and defaults in `src/internal/config`,
which has no state and no ordering. A walk of the pages with deletions, if the code
ever promises something there.
