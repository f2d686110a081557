---------------------------- MODULE RefreshStore ----------------------------
(***************************************************************************)
(* Sessions and rotating refresh tokens of the auth store                  *)
(* (src/internal/auth/store/refresh.go, and the parts of user.go, factor.go*)
(* and store.go that touch the same maps).                                 *)
(*                                                                         *)
(* Every method of store.Store takes the store's mutex for its whole body, *)
(* so one method is one action.  A method that returns an error changes    *)
(* nothing; its condition is the negated guard of the action, and modules  *)
(* that compose this one look at the guard to know which answer was given. *)
(***************************************************************************)
EXTENDS Integers, GoMap

CONSTANTS
    User,           \* user ids (uuids)
    Session,        \* session ids (uuids)
    Token,          \* refresh tokens (two concatenated uuids)
    Method,         \* amr methods: "password", "webauthn", "oauth"
    NoToken,        \* the empty Parent of a token that was not rotated
    ReuseInterval,  \* store.Config.ReuseInterval, in ticks
    MaxTime         \* bound on the clock

ASSUME NoTokenAssumption == NoToken \notin Token

\* New replaces 0 by 10s, and a tick is what the code adds to step past the
\* interval (time.Second).
ASSUME ReuseIntervalAssumption == ReuseInterval \in Nat \ {0}

ASSUME MaxTimeAssumption == MaxTime \in Nat

VARIABLES
    account,        \* users: "live" iff the users map holds the id
    sessions,       \* sessions map
    refreshTokens,  \* refreshTokens map
    parentToChild,  \* rotated token -> its replacement
    now,            \* the store's clock, in ticks
    owner,          \* history: session id -> user, for every session ever made:
                    \* the (sub, session_id) pairs an access token may carry
    minted          \* history: refresh tokens ever handed out

vars == <<account, sessions, refreshTokens, parentToChild, now, owner, minted>>

SessionRecord == [user : User, aal : {"aal1", "aal2"}, amr : SUBSET Method]

TokenRecord == [user : User, session : Session, issuedAt : Int,
                revoked : BOOLEAN, parent : Token \cup {NoToken}]

-----------------------------------------------------------------------------
(***************************************************************************)
(* findLatestChild follows parentToChild from a revoked token, through     *)
(* revoked tokens only, and returns the first token that is not revoked.   *)
(* Chain(t) is the set of tokens it visits: the least set with t that is   *)
(* closed under the edges of its revoked tokens.  A chain that ends in a   *)
(* token without an edge, in a token that is gone or in a cycle holds no   *)
(* unrevoked token, and the code returns nil.                              *)
(***************************************************************************)
Revoked(t) == t \in DOMAIN refreshTokens /\ refreshTokens[t].revoked

Live(t) == t \in DOMAIN refreshTokens /\ ~refreshTokens[t].revoked

ClosedUnderEdges(S) ==
    \A t \in S : Revoked(t) /\ t \in DOMAIN parentToChild => parentToChild[t] \in S

Chain(t) ==
    {x \in Token : \A S \in SUBSET Token : t \in S /\ ClosedUnderEdges(S) => x \in S}

\* Variant with a bug: only the direct child of a retried token is looked at.
LatestChild_DirectChildOnly(t) ==
    IF t \in DOMAIN parentToChild /\ Live(parentToChild[t]) THEN parentToChild[t] ELSE NoToken

LatestChild(t) ==
    IF \E x \in Chain(t) : Live(x) THEN CHOOSE x \in Chain(t) : Live(x) ELSE NoToken

\* Variant with a bug: the interval is measured from the newest token.
InReuseInterval_SinceNewest(t) ==
    LET newest == LatestChild(t)
    IN  newest # NoToken /\ now - refreshTokens[newest].issuedAt <= ReuseInterval

InReuseInterval(t) == now - refreshTokens[t].issuedAt <= ReuseInterval

UserExists(u) == account[u] = "live"

\* Variant with a bug: a retry inside the interval is rotated again.
Rotatable_RetryToo(t) ==
    /\ Live(t) \/ (Revoked(t) /\ InReuseInterval(t))
    /\ UserExists(refreshTokens[t].user)

\* ConsumeRefreshToken rotates an unrevoked token ...
Rotatable(t) == Live(t) /\ UserExists(refreshTokens[t].user)

\* ... answers a revoked one with the end of its chain for a while ...
Reusable(t) ==
    /\ Revoked(t)
    /\ UserExists(refreshTokens[t].user)
    /\ InReuseInterval(t)
    /\ LatestChild(t) # NoToken

\* ... and refuses every other one with ErrInvalidRefreshToken.
Consumable(t) == Rotatable(t) \/ Reusable(t)

-----------------------------------------------------------------------------
Init ==
    /\ account = [u \in User |-> "unborn"]
    /\ sessions = EmptyMap
    /\ refreshTokens = EmptyMap
    /\ parentToChild = EmptyMap
    /\ now = 0
    /\ owner = EmptyMap
    /\ minted = {}

Tick ==
    /\ now < MaxTime
    /\ now' = now + 1
    /\ UNCHANGED <<account, sessions, refreshTokens, parentToChild, owner, minted>>

NewUser(u) ==
    /\ account[u] = "unborn"
    /\ account' = [account EXCEPT ![u] = "live"]
    /\ UNCHANGED <<sessions, refreshTokens, parentToChild, now, owner, minted>>

\* Variant with a bug: the two ids, both strings, are swapped.
NewToken_SwappedIds(u, s, parent) ==
    [user |-> s, session |-> u, issuedAt |-> now, revoked |-> FALSE, parent |-> parent]

NewToken(u, s, parent) ==
    [user |-> u, session |-> s, issuedAt |-> now, revoked |-> FALSE, parent |-> parent]

\* A revoked token is stamped anew: its reuse interval starts when it is retired.
RevokedAt(token, time) == [token EXCEPT !.revoked = TRUE, !.issuedAt = time]

\* Session and token are made under one lock, so that no session is left
\* without a token.
IssueSessionWithMethod(u, method, s, t) ==
    /\ UserExists(u)
    /\ s \notin DOMAIN owner
    /\ t \notin minted
    /\ sessions' = Put(sessions, s, [user |-> u, aal |-> "aal1", amr |-> {method}])
    /\ refreshTokens' = Put(refreshTokens, t, NewToken(u, s, NoToken))
    /\ owner' = Put(owner, s, u)
    /\ minted' = minted \cup {t}
    /\ UNCHANGED <<account, parentToChild, now>>

\* A further token for a session.  Only the user is looked up: the session may
\* have been logged out.
IssueRefreshToken(u, s, t) ==
    /\ UserExists(u)
    /\ t \notin minted
    /\ refreshTokens' = Put(refreshTokens, t, NewToken(u, s, NoToken))
    /\ minted' = minted \cup {t}
    /\ UNCHANGED <<account, sessions, parentToChild, now, owner>>

\* Variant with a bug: the replacement is not recorded in parentToChild.
ConsumeRefreshToken_EdgeForgotten(t, child) ==
    LET old == refreshTokens[t] IN
    /\ Rotatable(t)
    /\ child \notin minted
    /\ refreshTokens' =
           Put([refreshTokens EXCEPT ![t] = RevokedAt(old, now)],
               child, NewToken(old.user, old.session, t))
    /\ minted' = minted \cup {child}
    /\ UNCHANGED <<account, sessions, parentToChild, now, owner>>

\* The rotating half of ConsumeRefreshToken; the other half (Reusable) only
\* reads.
ConsumeRefreshToken(t, child) ==
    LET old == refreshTokens[t] IN
    /\ Rotatable(t)
    /\ child \notin minted
    /\ refreshTokens' =
           Put([refreshTokens EXCEPT ![t] = RevokedAt(old, now)],
               child, NewToken(old.user, old.session, t))
    /\ parentToChild' = Put(parentToChild, t, child)
    /\ minted' = minted \cup {child}
    /\ UNCHANGED <<account, sessions, now, owner>>

\* Variant with a bug: no edge is cleaned up.
EdgesOf_None(tokens) == {}

\* The edges that have a token of the set at either end, found through Parent.
EdgesOf(tokens) ==
    tokens \cup {refreshTokens[t].parent : t \in tokens}

\* Variant with a bug: only the first token of each chain is found.
TokensOfSession_RootsOnly(s) ==
    {t \in DOMAIN refreshTokens :
        refreshTokens[t].session = s /\ refreshTokens[t].parent = NoToken}

TokensOfSession(s) == {t \in DOMAIN refreshTokens : refreshTokens[t].session = s}

\* Variant with a bug: the tokens are found through the sessions that remain.
TokensOfUser_ThroughSessions(u) ==
    {t \in DOMAIN refreshTokens :
        \E s \in DOMAIN sessions : sessions[s].user = u /\ refreshTokens[t].session = s}

TokensOfUser(u) == {t \in DOMAIN refreshTokens : refreshTokens[t].user = u}

SessionsOfUser(u) == {s \in DOMAIN sessions : sessions[s].user = u}

\* Variant with a bug: the session itself is kept.
RevokeRefreshTokensBySession_SessionKept(s) ==
    /\ refreshTokens' =
           [t \in DOMAIN refreshTokens |->
               IF t \in TokensOfSession(s)
               THEN RevokedAt(refreshTokens[t], now - (ReuseInterval + 1))
               ELSE refreshTokens[t]]
    /\ parentToChild' = Delete(parentToChild, EdgesOf(TokensOfSession(s)))
    /\ UNCHANGED <<account, sessions, now, owner, minted>>

\* Logout: back-dating issuedAt takes the tokens out of the reuse interval.
RevokeRefreshTokensBySession(s) ==
    /\ refreshTokens' =
           [t \in DOMAIN refreshTokens |->
               IF t \in TokensOfSession(s)
               THEN RevokedAt(refreshTokens[t], now - (ReuseInterval + 1))
               ELSE refreshTokens[t]]
    /\ parentToChild' = Delete(parentToChild, EdgesOf(TokensOfSession(s)))
    /\ sessions' = Delete(sessions, {s})
    /\ UNCHANGED <<account, now, owner, minted>>

UpgradeSessionAAL(s, method) ==
    /\ s \in DOMAIN sessions
    /\ sessions' = [sessions EXCEPT ![s].aal = "aal2", ![s].amr = @ \cup {method}]
    /\ UNCHANGED <<account, refreshTokens, parentToChild, now, owner, minted>>

DeleteUser(u) ==
    /\ UserExists(u)
    /\ account' = [account EXCEPT ![u] = "deleted"]
    /\ sessions' = Delete(sessions, SessionsOfUser(u))
    /\ refreshTokens' = Delete(refreshTokens, TokensOfUser(u))
    /\ parentToChild' = Delete(parentToChild, EdgesOf(TokensOfUser(u)))
    /\ UNCHANGED <<now, owner, minted>>

Reset ==
    /\ account' = [u \in User |-> IF UserExists(u) THEN "deleted" ELSE account[u]]
    /\ sessions' = EmptyMap
    /\ refreshTokens' = EmptyMap
    /\ parentToChild' = EmptyMap
    /\ UNCHANGED <<now, owner, minted>>

\* The handlers pass the user and the session of one access token to
\* IssueRefreshToken, UpgradeSessionAAL and RevokeRefreshTokensBySession.
Next ==
    \/ Tick
    \/ Reset
    \/ \E u \in User : NewUser(u) \/ DeleteUser(u)
    \/ \E u \in User, method \in Method :
           \E s \in Fresh(Session \ DOMAIN owner), t \in Fresh(Token \ minted) :
               IssueSessionWithMethod(u, method, s, t)
    \/ \E s \in DOMAIN owner, t \in Fresh(Token \ minted) : IssueRefreshToken(owner[s], s, t)
    \/ \E t \in DOMAIN refreshTokens, child \in Fresh(Token \ minted) :
           ConsumeRefreshToken(t, child)
    \/ \E s \in DOMAIN owner :
           \/ RevokeRefreshTokensBySession(s)
           \/ \E method \in Method : UpgradeSessionAAL(s, method)

Spec == Init /\ [][Next]_vars

-----------------------------------------------------------------------------
(***************************************************************************)
(* Properties.                                                             *)
(***************************************************************************)

\* Every variable has its type, and the maps hold only ids handed out before.
TypeOK ==
    /\ account \in [User -> {"unborn", "live", "deleted"}]
    /\ owner \in [DOMAIN owner -> User] /\ DOMAIN owner \subseteq Session
    /\ sessions \in [DOMAIN sessions -> SessionRecord]
    /\ DOMAIN sessions \subseteq DOMAIN owner
    /\ minted \subseteq Token
    /\ refreshTokens \in [DOMAIN refreshTokens -> TokenRecord]
    /\ DOMAIN refreshTokens \subseteq minted
    /\ parentToChild \in [DOMAIN parentToChild -> Token]
    /\ DOMAIN parentToChild \subseteq Token
    /\ now \in Nat

\* No session and no refresh token outlives its user, and a token belongs to
\* the user of its session, whether or not that session still exists: what
\* DeleteUser's cascade has to keep up with after logouts and late issues.
ReferentialIntegrity ==
    /\ \A s \in DOMAIN sessions : sessions[s].user = owner[s] /\ UserExists(owner[s])
    /\ \A t \in DOMAIN refreshTokens :
           /\ refreshTokens[t].session \in DOMAIN owner
           /\ owner[refreshTokens[t].session] = refreshTokens[t].user
           /\ UserExists(refreshTokens[t].user)

\* parentToChild, the index findLatestChild walks, agrees with the tokens: both
\* ends are stored, the parent was rotated, the child names it as Parent, and
\* the two are of one session, so a walk never leaves the session.
ChainShape ==
    \A p \in DOMAIN parentToChild :
        LET c == parentToChild[p] IN
        /\ p \in DOMAIN refreshTokens
        /\ c \in DOMAIN refreshTokens
        /\ refreshTokens[p].revoked
        /\ refreshTokens[c].parent = p
        /\ refreshTokens[c].session = refreshTokens[p].session

\* A token is rotated at most once, however often a client sends it: no two
\* tokens have the same Parent.
NoFork ==
    \A a, b \in DOMAIN refreshTokens :
        refreshTokens[a].parent = refreshTokens[b].parent /\ refreshTokens[a].parent # NoToken
            => a = b

\* A client that lost the answer and retries within the reuse interval gets an
\* answer, also when its token's replacement was itself rotated since: the walk
\* of findLatestChild never comes back empty inside the interval.
GraceAnswered ==
    \A t \in DOMAIN refreshTokens :
        Revoked(t) /\ InReuseInterval(t) => LatestChild(t) # NoToken

\* Every session can be refreshed (refresh.go, the comment above IssueSession:
\* a session is never left behind without its refresh token).
SessionRefreshable ==
    \A s \in DOMAIN sessions :
        \E t \in DOMAIN refreshTokens : refreshTokens[t].session = s /\ Live(t)

\* When a session ends no refresh token of it is accepted any more, not even a
\* rotated one inside the reuse interval.
EndedSessionSilenced ==
    [][\A s \in DOMAIN sessions \ DOMAIN sessions' :
          \A t \in DOMAIN refreshTokens' :
              refreshTokens'[t].session = s => ~Consumable(t)']_vars

\* A refresh token that is refused once is refused for ever.
RefusedForever ==
    [][\A t \in minted : ~Consumable(t) => ~Consumable(t)']_vars

-----------------------------------------------------------------------------
(***************************************************************************)
(* What a client is promised, token by token (module TokenForwarding).     *)
(***************************************************************************)
CONSTANTS Unissued, Refused

ASSUME PositionAssumption ==
    Unissued \notin Token /\ Refused \notin Token /\ Unissued # Refused

\* The token a client is served when it presents t.
Position(t) ==
    IF t \notin minted THEN Unissued
    ELSE IF Rotatable(t) THEN t
    ELSE IF Reusable(t) THEN LatestChild(t)
    ELSE Refused

Promise == INSTANCE TokenForwarding WITH leaf <- [t \in Token |-> Position(t)]

\* The store keeps that promise.
ForwardsToNewest == Promise!Spec

=============================================================================
