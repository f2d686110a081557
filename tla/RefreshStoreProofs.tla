------------------------- MODULE RefreshStoreProofs -------------------------
(***************************************************************************)
(* Proofs about RefreshStore, for every set of users, sessions and tokens  *)
(* and every reuse interval.                                               *)
(***************************************************************************)
EXTENDS RefreshStore, TLAPS

\* The steps of the store with their arguments typed; Fresh is only a choice of
\* an unused id.
LEMMA NextCases ==
    ASSUME Next
    PROVE  \/ Tick
           \/ Reset
           \/ \E u \in User : NewUser(u)
           \/ \E u \in User : DeleteUser(u)
           \/ \E u \in User, method \in Method, s \in Session, t \in Token :
                  IssueSessionWithMethod(u, method, s, t)
           \/ \E s \in DOMAIN owner, t \in Token : IssueRefreshToken(owner[s], s, t)
           \/ \E t \in DOMAIN refreshTokens, child \in Token : ConsumeRefreshToken(t, child)
           \/ \E s \in DOMAIN owner : RevokeRefreshTokensBySession(s)
           \/ \E s \in DOMAIN owner, method \in Method : UpgradeSessionAAL(s, method)
    <1>1. Fresh(Session \ DOMAIN owner) \subseteq Session
        BY DEF Fresh
    <1>2. Fresh(Token \ minted) \subseteq Token
        BY DEF Fresh
    <1> QED
        BY <1>1, <1>2 DEF Next

\* Revoking a token changes its mark and its stamp and nothing else.
LEMMA RevokedAtEffect ==
    ASSUME NEW token \in TokenRecord, NEW time \in Int
    PROVE  /\ RevokedAt(token, time) \in TokenRecord
           /\ RevokedAt(token, time).revoked = TRUE
           /\ RevokedAt(token, time).issuedAt = time
           /\ RevokedAt(token, time).user = token.user
           /\ RevokedAt(token, time).session = token.session
           /\ RevokedAt(token, time).parent = token.parent
    BY DEF RevokedAt, TokenRecord

-----------------------------------------------------------------------------
\* Every step keeps the types.
LEMMA TypeStep ==
    ASSUME TypeOK, [Next]_vars
    PROVE  TypeOK'
    <1> USE ReuseIntervalAssumption DEF TypeOK
    <1>1. CASE Tick
        BY <1>1 DEF Tick
    <1>2. CASE Reset
        <2>1. account' \in [User -> {"unborn", "live", "deleted"}]
            BY <1>2 DEF Reset
        <2> QED
            BY <1>2, <2>1 DEF EmptyMap, Reset
    <1>3. ASSUME NEW u \in User, NewUser(u) PROVE TypeOK'
        BY <1>3 DEF NewUser
    <1>4. ASSUME NEW u \in User, DeleteUser(u) PROVE TypeOK'
        BY <1>4 DEF Delete, Restrict, DeleteUser
    <1>5. ASSUME NEW u \in User, NEW method \in Method, NEW s \in Session, NEW t \in Token,
                 IssueSessionWithMethod(u, method, s, t)
          PROVE  TypeOK'
        <2>1. NewToken(u, s, NoToken) \in TokenRecord
            BY DEF NewToken, TokenRecord
        <2>2. [user |-> u, aal |-> "aal1", amr |-> {method}] \in SessionRecord
            BY DEF SessionRecord
        <2>3. owner' \in [DOMAIN owner' -> User] /\ DOMAIN owner' = DOMAIN owner \cup {s}
            BY <1>5 DEF Put, IssueSessionWithMethod
        <2>4. sessions' \in [DOMAIN sessions' -> SessionRecord]
              /\ DOMAIN sessions' = DOMAIN sessions \cup {s}
            BY <1>5, <2>2 DEF Put, IssueSessionWithMethod
        <2>5. refreshTokens' \in [DOMAIN refreshTokens' -> TokenRecord]
              /\ DOMAIN refreshTokens' = DOMAIN refreshTokens \cup {t}
            BY <1>5, <2>1 DEF Put, IssueSessionWithMethod
        <2> QED
            BY <1>5, <2>3, <2>4, <2>5 DEF IssueSessionWithMethod
    <1>6. ASSUME NEW s \in DOMAIN owner, NEW t \in Token, IssueRefreshToken(owner[s], s, t)
          PROVE  TypeOK'
        <2>1. NewToken(owner[s], s, NoToken) \in TokenRecord
            BY DEF NewToken, TokenRecord
        <2>2. refreshTokens' \in [DOMAIN refreshTokens' -> TokenRecord]
              /\ DOMAIN refreshTokens' = DOMAIN refreshTokens \cup {t}
            BY <1>6, <2>1 DEF Put, IssueRefreshToken
        <2> QED
            BY <1>6, <2>2 DEF IssueRefreshToken
    <1>7. ASSUME NEW t \in DOMAIN refreshTokens, NEW child \in Token,
                 ConsumeRefreshToken(t, child)
          PROVE  TypeOK'
        <2> DEFINE old == refreshTokens[t]
                   rotated == [refreshTokens EXCEPT ![t] = RevokedAt(old, now)]
        <2>1. NewToken(old.user, old.session, t) \in TokenRecord
            BY DEF NewToken, TokenRecord
        <2>2. RevokedAt(old, now) \in TokenRecord
            <3>1. old \in TokenRecord /\ now \in Int
                OBVIOUS
            <3> HIDE DEF old, TypeOK
            <3> QED
                BY <3>1, RevokedAtEffect
        <2>3. rotated \in [DOMAIN rotated -> TokenRecord] /\ DOMAIN rotated = DOMAIN refreshTokens
            BY <2>2
        <2>4. refreshTokens' = Put(rotated, child, NewToken(old.user, old.session, t))
            BY <1>7 DEF ConsumeRefreshToken
        <2> HIDE DEF rotated, old
        <2>5. refreshTokens' \in [DOMAIN refreshTokens' -> TokenRecord]
            BY <2>1, <2>3, <2>4 DEF Put
        <2>6. DOMAIN refreshTokens' = DOMAIN refreshTokens \cup {child}
            <3> HIDE DEF TypeOK
            <3> QED
                BY <2>3, <2>4 DEF Put
        <2>7. parentToChild' \in [DOMAIN parentToChild' -> Token]
              /\ DOMAIN parentToChild' = DOMAIN parentToChild \cup {t}
            BY <1>7 DEF Put, ConsumeRefreshToken
        <2> QED
            BY <1>7, <2>5, <2>6, <2>7 DEF ConsumeRefreshToken
    <1>8. ASSUME NEW s \in DOMAIN owner, RevokeRefreshTokensBySession(s) PROVE TypeOK'
        <2>1. now - (ReuseInterval + 1) \in Int
            OBVIOUS
        <2>2. \A t \in DOMAIN refreshTokens :
                  RevokedAt(refreshTokens[t], now - (ReuseInterval + 1)) \in TokenRecord
            BY <2>1, RevokedAtEffect
        <2>3. refreshTokens' \in [DOMAIN refreshTokens -> TokenRecord]
            BY <1>8, <2>2 DEF RevokeRefreshTokensBySession
        <2>4. /\ parentToChild' \in [DOMAIN parentToChild' -> Token]
              /\ DOMAIN parentToChild' \subseteq DOMAIN parentToChild
            BY <1>8 DEF Delete, Restrict, RevokeRefreshTokensBySession
        <2>5. /\ sessions' \in [DOMAIN sessions' -> SessionRecord]
              /\ DOMAIN sessions' \subseteq DOMAIN sessions
            BY <1>8 DEF Delete, Restrict, RevokeRefreshTokensBySession
        <2> QED
            BY <1>8, <2>3, <2>4, <2>5 DEF RevokeRefreshTokensBySession
    <1>9. ASSUME NEW s \in DOMAIN owner, NEW method \in Method, UpgradeSessionAAL(s, method)
          PROVE  TypeOK'
        <2>1. sessions' \in [DOMAIN sessions -> SessionRecord]
            BY <1>9 DEF UpgradeSessionAAL, SessionRecord
        <2> QED
            BY <1>9, <2>1 DEF UpgradeSessionAAL
    <1>10. CASE UNCHANGED vars
        BY <1>10 DEF vars
    <1> QED
        BY <1>1, <1>2, <1>3, <1>4, <1>5, <1>6, <1>7, <1>8, <1>9, <1>10, NextCases

\* Every variable keeps its type, and the maps only ever hold ids that were
\* handed out.
THEOREM TypeCorrect == Spec => []TypeOK
    <1>1. Init => TypeOK
        BY DEF EmptyMap, Init, TypeOK
    <1>2. TypeOK /\ [Next]_vars => TypeOK'
        BY TypeStep
    <1> QED
        BY <1>1, <1>2, PTL DEF Spec

-----------------------------------------------------------------------------
(***************************************************************************)
(* What the operations do to the tokens and to the index, entry by entry.  *)
(***************************************************************************)

\* The two operations that start a chain store one new unrevoked token.
IssueEffect(u, s, t) ==
    /\ t \notin minted
    /\ t \notin DOMAIN refreshTokens
    /\ DOMAIN refreshTokens' = DOMAIN refreshTokens \cup {t}
    /\ \A x \in DOMAIN refreshTokens : refreshTokens'[x] = refreshTokens[x]
    /\ refreshTokens'[t] = NewToken(u, s, NoToken)
    /\ minted' = minted \cup {t}
    /\ UNCHANGED <<account, parentToChild, now>>

\* IssueSessionWithMethod starts a chain of one token.
LEMMA IssueSessionStep ==
    ASSUME TypeOK, NEW u \in User, NEW method \in Method, NEW s \in Session, NEW t \in Token,
           IssueSessionWithMethod(u, method, s, t)
    PROVE  IssueEffect(u, s, t)
    <1>1. t \notin DOMAIN refreshTokens
        BY DEF TypeOK, IssueSessionWithMethod
    <1>2. refreshTokens' = Put(refreshTokens, t, NewToken(u, s, NoToken))
        BY DEF IssueSessionWithMethod
    <1>3. DOMAIN refreshTokens' = DOMAIN refreshTokens \cup {t}
        BY <1>2 DEF Put
    <1>4. \A x \in DOMAIN refreshTokens \cup {t} :
              refreshTokens'[x] = IF x = t THEN NewToken(u, s, NoToken) ELSE refreshTokens[x]
        BY <1>2 DEF Put
    <1> QED
        BY <1>1, <1>3, <1>4 DEF IssueEffect, IssueSessionWithMethod

\* So does IssueRefreshToken, and it leaves the sessions alone.
LEMMA IssueTokenStep ==
    ASSUME TypeOK, NEW s \in DOMAIN owner, NEW t \in Token, IssueRefreshToken(owner[s], s, t)
    PROVE  IssueEffect(owner[s], s, t) /\ UNCHANGED <<sessions, owner>>
    <1>1. t \notin DOMAIN refreshTokens
        BY DEF TypeOK, IssueRefreshToken
    <1>2. refreshTokens' = Put(refreshTokens, t, NewToken(owner[s], s, NoToken))
        BY DEF IssueRefreshToken
    <1>3. DOMAIN refreshTokens' = DOMAIN refreshTokens \cup {t}
        BY <1>2 DEF Put
    <1>4. \A x \in DOMAIN refreshTokens \cup {t} :
              refreshTokens'[x] = IF x = t THEN NewToken(owner[s], s, NoToken) ELSE refreshTokens[x]
        BY <1>2 DEF Put
    <1> QED
        BY <1>1, <1>3, <1>4 DEF IssueEffect, IssueRefreshToken

\* Rotation revokes one token, stamps it, and hangs a new one under it.
ConsumeEffect(t, child) ==
    /\ Live(t)
    /\ child \notin minted
    /\ child \notin DOMAIN refreshTokens
    /\ DOMAIN refreshTokens' = DOMAIN refreshTokens \cup {child}
    /\ \A x \in DOMAIN refreshTokens : x # t => refreshTokens'[x] = refreshTokens[x]
    /\ refreshTokens'[t] = RevokedAt(refreshTokens[t], now)
    /\ refreshTokens'[child] = NewToken(refreshTokens[t].user, refreshTokens[t].session, t)
    /\ DOMAIN parentToChild' = DOMAIN parentToChild \cup {t}
    /\ \A p \in DOMAIN parentToChild : p # t => parentToChild'[p] = parentToChild[p]
    /\ parentToChild'[t] = child
    /\ minted' = minted \cup {child}
    /\ UNCHANGED <<account, sessions, now, owner>>

\* ConsumeRefreshToken retires one token and stores its replacement.
LEMMA ConsumeStep ==
    ASSUME TypeOK, NEW t \in DOMAIN refreshTokens, NEW child \in Token, ConsumeRefreshToken(t, child)
    PROVE  ConsumeEffect(t, child)
    <1> DEFINE rotated == [refreshTokens EXCEPT ![t] = RevokedAt(refreshTokens[t], now)]
               new == NewToken(refreshTokens[t].user, refreshTokens[t].session, t)
    <1>1. child \notin DOMAIN refreshTokens /\ child # t
        BY DEF TypeOK, ConsumeRefreshToken
    <1>2. refreshTokens' = Put(rotated, child, new) /\ parentToChild' = Put(parentToChild, t, child)
        BY DEF ConsumeRefreshToken
    <1>3. /\ DOMAIN rotated = DOMAIN refreshTokens
          /\ rotated[t] = RevokedAt(refreshTokens[t], now)
          /\ \A x \in DOMAIN refreshTokens : x # t => rotated[x] = refreshTokens[x]
        BY DEF TypeOK
    <1> HIDE DEF rotated, new
    <1>4. DOMAIN refreshTokens' = DOMAIN refreshTokens \cup {child}
        <2>1. DOMAIN refreshTokens' = DOMAIN rotated \cup {child}
            BY <1>2 DEF Put
        <2> QED
            BY <2>1, <1>3
    <1>5. \A x \in DOMAIN refreshTokens \cup {child} :
              refreshTokens'[x] = IF x = child THEN new ELSE rotated[x]
        BY <1>2, <1>3 DEF Put
    <1>6. DOMAIN parentToChild' = DOMAIN parentToChild \cup {t}
        BY <1>2 DEF Put
    <1>7. \A p \in DOMAIN parentToChild \cup {t} :
              parentToChild'[p] = IF p = t THEN child ELSE parentToChild[p]
        BY <1>2 DEF Put
    <1> QED
        BY <1>1, <1>3, <1>4, <1>5, <1>6, <1>7 DEF ConsumeEffect, ConsumeRefreshToken, Rotatable, new

\* Logout revokes and back-dates the tokens of one session and forgets it.
RevokeEffect(s) ==
    /\ DOMAIN refreshTokens' = DOMAIN refreshTokens
    /\ \A x \in DOMAIN refreshTokens :
           refreshTokens'[x] = IF refreshTokens[x].session = s
                               THEN RevokedAt(refreshTokens[x], now - (ReuseInterval + 1))
                               ELSE refreshTokens[x]
    /\ DOMAIN parentToChild' = DOMAIN parentToChild \ EdgesOf(TokensOfSession(s))
    /\ \A p \in DOMAIN parentToChild' : parentToChild'[p] = parentToChild[p]
    /\ DOMAIN sessions' = DOMAIN sessions \ {s}
    /\ \A x \in DOMAIN sessions' : sessions'[x] = sessions[x]
    /\ UNCHANGED <<account, now, owner, minted>>

\* RevokeRefreshTokensBySession retires every token of the session and no other.
LEMMA RevokeStep ==
    ASSUME TypeOK, NEW s \in DOMAIN owner, RevokeRefreshTokensBySession(s)
    PROVE  RevokeEffect(s)
    <1>1. parentToChild' = Delete(parentToChild, EdgesOf(TokensOfSession(s)))
          /\ sessions' = Delete(sessions, {s})
        BY DEF RevokeRefreshTokensBySession
    <1>2. DOMAIN parentToChild' = DOMAIN parentToChild \ EdgesOf(TokensOfSession(s))
        BY <1>1 DEF Delete, Restrict
    <1>3. \A p \in DOMAIN parentToChild \ EdgesOf(TokensOfSession(s)) :
              parentToChild'[p] = parentToChild[p]
        BY <1>1 DEF Delete, Restrict
    <1>4. DOMAIN sessions' = DOMAIN sessions \ {s}
        BY <1>1 DEF Delete, Restrict
    <1>5. \A x \in DOMAIN sessions \ {s} : sessions'[x] = sessions[x]
        BY <1>1 DEF Delete, Restrict
    <1> QED
        BY <1>2, <1>3, <1>4, <1>5 DEF RevokeEffect, RevokeRefreshTokensBySession, TokensOfSession

\* The cascade removes what belongs to the user and nothing else.
DeleteUserEffect(u) ==
    /\ account[u] = "live"
    /\ account' = [account EXCEPT ![u] = "deleted"]
    /\ DOMAIN sessions' = {s \in DOMAIN sessions : sessions[s].user # u}
    /\ \A x \in DOMAIN sessions' : sessions'[x] = sessions[x]
    /\ DOMAIN refreshTokens' = {t \in DOMAIN refreshTokens : refreshTokens[t].user # u}
    /\ \A x \in DOMAIN refreshTokens' : refreshTokens'[x] = refreshTokens[x]
    /\ DOMAIN parentToChild' = DOMAIN parentToChild \ EdgesOf(TokensOfUser(u))
    /\ \A p \in DOMAIN parentToChild' : parentToChild'[p] = parentToChild[p]
    /\ UNCHANGED <<now, owner, minted>>

\* DeleteUser's cascade removes what is the user's and touches nothing else.
LEMMA DeleteUserStep ==
    ASSUME TypeOK, NEW u \in User, DeleteUser(u)
    PROVE  DeleteUserEffect(u)
    <1>1. /\ parentToChild' = Delete(parentToChild, EdgesOf(TokensOfUser(u)))
          /\ sessions' = Delete(sessions, SessionsOfUser(u))
          /\ refreshTokens' = Delete(refreshTokens, TokensOfUser(u))
        BY DEF DeleteUser
    <1>2. DOMAIN parentToChild' = DOMAIN parentToChild \ EdgesOf(TokensOfUser(u))
        BY <1>1 DEF Delete, Restrict
    <1>3. \A p \in DOMAIN parentToChild \ EdgesOf(TokensOfUser(u)) :
              parentToChild'[p] = parentToChild[p]
        BY <1>1 DEF Delete, Restrict
    <1>4. DOMAIN sessions' = DOMAIN sessions \ SessionsOfUser(u)
        BY <1>1 DEF Delete, Restrict
    <1>5. \A x \in DOMAIN sessions \ SessionsOfUser(u) : sessions'[x] = sessions[x]
        BY <1>1 DEF Delete, Restrict
    <1>6. DOMAIN refreshTokens' = DOMAIN refreshTokens \ TokensOfUser(u)
        BY <1>1 DEF Delete, Restrict
    <1>7. \A x \in DOMAIN refreshTokens \ TokensOfUser(u) : refreshTokens'[x] = refreshTokens[x]
        BY <1>1 DEF Delete, Restrict
    <1>8. DOMAIN sessions \ SessionsOfUser(u) = {s \in DOMAIN sessions : sessions[s].user # u}
        BY DEF SessionsOfUser
    <1>9. DOMAIN refreshTokens \ TokensOfUser(u) = {t \in DOMAIN refreshTokens : refreshTokens[t].user # u}
        BY DEF TokensOfUser
    <1>10. account[u] = "live" /\ account' = [account EXCEPT ![u] = "deleted"]
           /\ UNCHANGED <<now, owner, minted>>
        BY DEF DeleteUser, UserExists
    <1> QED
        BY <1>2, <1>3, <1>4, <1>5, <1>6, <1>7, <1>8, <1>9, <1>10 DEF DeleteUserEffect

-----------------------------------------------------------------------------
(***************************************************************************)
(* The inductive invariant about the shape of the store.  ChainShape and   *)
(* NoFork are not inductive alone: that a rotated token is never rotated   *)
(* again, and that cleaning up the edges of a session or a user leaves the *)
(* edges of the others alone, needs to know of every Parent that it was    *)
(* handed out, and, while it is stored, that it is revoked and of the same *)
(* session.                                                                *)
(***************************************************************************)
ParentShape ==
    \A c \in DOMAIN refreshTokens :
        LET p == refreshTokens[c].parent IN
        p # NoToken =>
            /\ p \in minted
            /\ p \in DOMAIN refreshTokens =>
                   /\ refreshTokens[p].revoked
                   /\ refreshTokens[p].session = refreshTokens[c].session

ShapeInv == TypeOK /\ ReferentialIntegrity /\ ChainShape /\ NoFork /\ ParentShape

\* Starting a chain keeps the records and the index consistent.
LEMMA IssueKeepsShape ==
    ASSUME ShapeInv, TypeOK', NEW u \in User, NEW s \in Session, NEW t \in Token,
           IssueEffect(u, s, t), UserExists(u),
           DOMAIN sessions' \subseteq DOMAIN sessions \cup {s},
           \A x \in DOMAIN sessions' :
               IF x \in DOMAIN sessions THEN sessions'[x] = sessions[x] ELSE sessions'[x].user = u,
           DOMAIN owner' = DOMAIN owner \cup {s}, owner'[s] = u,
           \A x \in DOMAIN owner : owner'[x] = owner[x]
    PROVE  ShapeInv'
    <1>1. /\ refreshTokens'[t].user = u
          /\ refreshTokens'[t].session = s
          /\ refreshTokens'[t].parent = NoToken
        BY DEF IssueEffect, NewToken
    <1>2. ReferentialIntegrity'
        BY <1>1 DEF ShapeInv, ReferentialIntegrity, IssueEffect, UserExists, TypeOK
    <1>3. ChainShape'
        BY <1>1 DEF ShapeInv, ChainShape, IssueEffect
    <1>4. NoFork'
        BY <1>1 DEF ShapeInv, NoFork, IssueEffect
    <1>5. ParentShape'
        BY <1>1 DEF ShapeInv, ParentShape, IssueEffect, TypeOK
    <1> QED
        BY <1>2, <1>3, <1>4, <1>5 DEF ShapeInv

\* So does a rotation ...
LEMMA ConsumeKeepsShape ==
    ASSUME ShapeInv, TypeOK', NEW t \in DOMAIN refreshTokens, NEW child \in Token,
           ConsumeEffect(t, child)
    PROVE  ShapeInv'
    <1>1. /\ t \in minted /\ t # NoToken /\ t # child
          /\ refreshTokens[t] \in TokenRecord
          /\ now \in Int
        BY NoTokenAssumption DEF ShapeInv, TypeOK, ConsumeEffect
    <1>2. /\ refreshTokens'[t].user = refreshTokens[t].user
          /\ refreshTokens'[t].session = refreshTokens[t].session
          /\ refreshTokens'[t].parent = refreshTokens[t].parent
          /\ refreshTokens'[t].revoked
        <2>1. refreshTokens'[t] = RevokedAt(refreshTokens[t], now)
            BY DEF ConsumeEffect
        <2> QED
            BY <1>1, <2>1 DEF RevokedAt, TokenRecord
    <1>3. /\ refreshTokens'[child].user = refreshTokens[t].user
          /\ refreshTokens'[child].session = refreshTokens[t].session
          /\ refreshTokens'[child].parent = t
        BY DEF ConsumeEffect, NewToken
    <1>4. ~refreshTokens[t].revoked
        BY DEF ConsumeEffect, Live
    <1>5. \A c \in DOMAIN refreshTokens : refreshTokens[c].parent # t
        BY <1>1, <1>4 DEF ShapeInv, ParentShape
    <1>6. ReferentialIntegrity'
        BY <1>2, <1>3 DEF ShapeInv, ReferentialIntegrity, ConsumeEffect, UserExists, TypeOK
    <1>7. ChainShape'
        <2> SUFFICES ASSUME NEW p \in DOMAIN parentToChild'
                     PROVE  LET c == parentToChild'[p] IN
                            /\ p \in DOMAIN refreshTokens'
                            /\ c \in DOMAIN refreshTokens'
                            /\ refreshTokens'[p].revoked
                            /\ refreshTokens'[c].parent = p
                            /\ refreshTokens'[c].session = refreshTokens'[p].session
            BY DEF ChainShape
        <2>1. CASE p = t
            BY <2>1, <1>2, <1>3 DEF ConsumeEffect
        <2>2. CASE p # t
            <3>1. p \in DOMAIN parentToChild /\ parentToChild'[p] = parentToChild[p]
                BY <2>2 DEF ConsumeEffect
            <3> QED
                BY <2>2, <3>1, <1>2 DEF ShapeInv, ChainShape, ConsumeEffect
        <2> QED
            BY <2>1, <2>2
    <1>8. NoFork'
        <2> SUFFICES ASSUME NEW a \in DOMAIN refreshTokens', NEW b \in DOMAIN refreshTokens',
                            refreshTokens'[a].parent = refreshTokens'[b].parent,
                            refreshTokens'[a].parent # NoToken
                     PROVE  a = b
            BY DEF NoFork
        <2>1. \A x \in DOMAIN refreshTokens : refreshTokens'[x].parent = refreshTokens[x].parent
            BY <1>2 DEF ConsumeEffect
        <2> QED
            BY <1>3, <1>5, <2>1 DEF ShapeInv, NoFork, ConsumeEffect
    <1>9. ParentShape'
        <2> SUFFICES ASSUME NEW c \in DOMAIN refreshTokens', refreshTokens'[c].parent # NoToken
                     PROVE  LET p == refreshTokens'[c].parent IN
                            /\ p \in minted'
                            /\ p \in DOMAIN refreshTokens' =>
                                   /\ refreshTokens'[p].revoked
                                   /\ refreshTokens'[p].session = refreshTokens'[c].session
            BY DEF ParentShape
        <2>1. CASE c = child
            BY <2>1, <1>1, <1>2, <1>3 DEF ConsumeEffect
        <2>2. CASE c # child
            <3>1. /\ c \in DOMAIN refreshTokens
                  /\ refreshTokens'[c].parent = refreshTokens[c].parent
                  /\ refreshTokens'[c].session = refreshTokens[c].session
                BY <2>2, <1>2 DEF ConsumeEffect
            <3>2. refreshTokens[c].parent \in minted /\ refreshTokens[c].parent # child
                BY <3>1 DEF ShapeInv, ParentShape, ConsumeEffect
            <3> QED
                BY <3>1, <3>2, <1>2 DEF ShapeInv, ParentShape, ConsumeEffect
        <2> QED
            BY <2>1, <2>2
    <1> QED
        BY <1>6, <1>7, <1>8, <1>9 DEF ShapeInv

\* ... a logout ...
LEMMA RevokeKeepsShape ==
    ASSUME ShapeInv, TypeOK', NEW s \in DOMAIN owner, RevokeEffect(s)
    PROVE  ShapeInv'
    <1>1. now - (ReuseInterval + 1) \in Int
        BY ReuseIntervalAssumption DEF ShapeInv, TypeOK
    <1>2. \A x \in DOMAIN refreshTokens :
              /\ refreshTokens'[x].user = refreshTokens[x].user
              /\ refreshTokens'[x].session = refreshTokens[x].session
              /\ refreshTokens'[x].parent = refreshTokens[x].parent
              /\ refreshTokens[x].revoked => refreshTokens'[x].revoked
        <2> SUFFICES ASSUME NEW x \in DOMAIN refreshTokens
                     PROVE  /\ refreshTokens'[x].user = refreshTokens[x].user
                            /\ refreshTokens'[x].session = refreshTokens[x].session
                            /\ refreshTokens'[x].parent = refreshTokens[x].parent
                            /\ refreshTokens[x].revoked => refreshTokens'[x].revoked
            OBVIOUS
        <2>1. refreshTokens[x] \in TokenRecord
            BY DEF ShapeInv, TypeOK
        <2>2. refreshTokens'[x] \in {refreshTokens[x],
                                     RevokedAt(refreshTokens[x], now - (ReuseInterval + 1))}
            BY DEF RevokeEffect
        <2> QED
            BY <2>1, <2>2 DEF RevokedAt, TokenRecord
    <1>3. ReferentialIntegrity'
        BY <1>2 DEF ShapeInv, ReferentialIntegrity, RevokeEffect, UserExists
    <1>4. ChainShape'
        BY <1>2 DEF ShapeInv, ChainShape, RevokeEffect
    <1>5. NoFork'
        BY <1>2 DEF ShapeInv, NoFork, RevokeEffect
    <1>6. ParentShape'
        BY <1>2 DEF ShapeInv, ParentShape, RevokeEffect
    <1> QED
        BY <1>3, <1>4, <1>5, <1>6 DEF ShapeInv

\* ... and the deletion of a user.
LEMMA DeleteUserKeepsShape ==
    ASSUME ShapeInv, TypeOK', NEW u \in User, DeleteUserEffect(u)
    PROVE  ShapeInv'
    <1>1. ReferentialIntegrity'
        BY DEF ShapeInv, ReferentialIntegrity, DeleteUserEffect, UserExists, TypeOK
    <1>2. ChainShape'
        <2> SUFFICES ASSUME NEW p \in DOMAIN parentToChild'
                     PROVE  p \in DOMAIN refreshTokens' /\ parentToChild[p] \in DOMAIN refreshTokens'
            BY DEF ShapeInv, ChainShape, DeleteUserEffect
        <2> DEFINE c == parentToChild[p]
        <2>1. /\ p \in DOMAIN refreshTokens /\ c \in DOMAIN refreshTokens
              /\ refreshTokens[c].parent = p
            BY DEF ShapeInv, ChainShape, DeleteUserEffect
        <2>2. p \notin TokensOfUser(u) /\ c \notin TokensOfUser(u)
            BY <2>1 DEF DeleteUserEffect, EdgesOf
        <2> QED
            BY <2>1, <2>2 DEF DeleteUserEffect, TokensOfUser
    <1>3. NoFork'
        BY DEF ShapeInv, NoFork, DeleteUserEffect
    <1>4. ParentShape'
        BY DEF ShapeInv, ParentShape, DeleteUserEffect
    <1> QED
        BY <1>1, <1>2, <1>3, <1>4 DEF ShapeInv

\* Every step keeps the records and the index consistent.
LEMMA ShapeStep ==
    ASSUME ShapeInv, [Next]_vars
    PROVE  ShapeInv'
    <1>1. TypeOK'
        BY TypeStep DEF ShapeInv
    <1>2. CASE Tick
        BY <1>1, <1>2 DEF Tick, ShapeInv, ReferentialIntegrity, ChainShape, NoFork, ParentShape,
                          UserExists
    <1>3. CASE Reset
        <2>1. DOMAIN sessions' = {} /\ DOMAIN refreshTokens' = {} /\ DOMAIN parentToChild' = {}
            BY <1>3 DEF EmptyMap, Reset
        <2> QED
            BY <1>1, <2>1 DEF ShapeInv, ReferentialIntegrity, ChainShape, NoFork, ParentShape
    <1>4. ASSUME NEW u \in User, NewUser(u) PROVE ShapeInv'
        BY <1>1, <1>4 DEF NewUser, ShapeInv, TypeOK, ReferentialIntegrity, ChainShape, NoFork,
                          ParentShape, UserExists
    <1>5. ASSUME NEW u \in User, DeleteUser(u) PROVE ShapeInv'
        BY <1>1, <1>5, DeleteUserStep, DeleteUserKeepsShape DEF ShapeInv
    <1>6. ASSUME NEW u \in User, NEW method \in Method, NEW s \in Session, NEW t \in Token,
                 IssueSessionWithMethod(u, method, s, t)
          PROVE  ShapeInv'
        <2> DEFINE new == [user |-> u, aal |-> "aal1", amr |-> {method}]
        <2>1. IssueEffect(u, s, t)
            BY <1>6, IssueSessionStep DEF ShapeInv
        <2>2. sessions' = Put(sessions, s, new) /\ owner' = Put(owner, s, u)
              /\ s \notin DOMAIN owner /\ UserExists(u)
            BY <1>6 DEF IssueSessionWithMethod
        <2>3. new.user = u
            OBVIOUS
        <2> HIDE DEF new
        <2>4. DOMAIN sessions' = DOMAIN sessions \cup {s} /\ DOMAIN owner' = DOMAIN owner \cup {s}
            BY <2>2 DEF Put
        <2>5. \A x \in DOMAIN sessions \cup {s} :
                  sessions'[x] = IF x = s THEN new ELSE sessions[x]
            BY <2>2 DEF Put
        <2>6. \A x \in DOMAIN owner \cup {s} : owner'[x] = IF x = s THEN u ELSE owner[x]
            BY <2>2 DEF Put
        <2>7. s \notin DOMAIN sessions
            BY <2>2 DEF ShapeInv, TypeOK
        <2>8. \A x \in DOMAIN sessions' :
                  IF x \in DOMAIN sessions THEN sessions'[x] = sessions[x]
                                           ELSE sessions'[x].user = u
            BY <2>3, <2>4, <2>5, <2>7
        <2>9. owner'[s] = u /\ \A x \in DOMAIN owner : owner'[x] = owner[x]
            BY <2>2, <2>6
        <2> QED
            BY <1>1, <2>1, <2>2, <2>4, <2>8, <2>9, IssueKeepsShape
    <1>7. ASSUME NEW s \in DOMAIN owner, NEW t \in Token, IssueRefreshToken(owner[s], s, t)
          PROVE  ShapeInv'
        <2>1. IssueEffect(owner[s], s, t) /\ UNCHANGED <<sessions, owner>>
            BY <1>7, IssueTokenStep DEF ShapeInv
        <2>2. s \in Session /\ owner[s] \in User /\ UserExists(owner[s])
            BY <1>7 DEF ShapeInv, TypeOK, IssueRefreshToken
        <2> QED
            BY <1>1, <2>1, <2>2, IssueKeepsShape
    <1>8. ASSUME NEW t \in DOMAIN refreshTokens, NEW child \in Token, ConsumeRefreshToken(t, child)
          PROVE  ShapeInv'
        BY <1>1, <1>8, ConsumeStep, ConsumeKeepsShape DEF ShapeInv
    <1>9. ASSUME NEW s \in DOMAIN owner, RevokeRefreshTokensBySession(s) PROVE ShapeInv'
        BY <1>1, <1>9, RevokeStep, RevokeKeepsShape DEF ShapeInv
    <1>10. ASSUME NEW s \in DOMAIN owner, NEW method \in Method, UpgradeSessionAAL(s, method)
           PROVE  ShapeInv'
        <2>1. DOMAIN sessions' = DOMAIN sessions
              /\ \A x \in DOMAIN sessions : sessions'[x].user = sessions[x].user
            BY <1>10 DEF UpgradeSessionAAL, ShapeInv, TypeOK, SessionRecord
        <2>2. UNCHANGED <<account, refreshTokens, parentToChild, now, owner, minted>>
            BY <1>10 DEF UpgradeSessionAAL
        <2> QED
            BY <1>1, <2>1, <2>2 DEF ShapeInv, ReferentialIntegrity, ChainShape, NoFork, ParentShape,
                                    UserExists
    <1>11. CASE UNCHANGED vars
        BY <1>1, <1>11 DEF vars, ShapeInv, ReferentialIntegrity, ChainShape, NoFork, ParentShape,
                           UserExists
    <1> QED
        BY <1>2, <1>3, <1>4, <1>5, <1>6, <1>7, <1>8, <1>9, <1>10, <1>11, NextCases

\* The records and the index are always consistent.
LEMMA ShapeInvariant == Spec => []ShapeInv
    <1>1. Init => ShapeInv
        <2> SUFFICES ASSUME Init PROVE ShapeInv
            OBVIOUS
        <2>1. TypeOK
            BY DEF EmptyMap, Init, TypeOK
        <2>2. DOMAIN sessions = {} /\ DOMAIN refreshTokens = {} /\ DOMAIN parentToChild = {}
            BY DEF EmptyMap, Init
        <2> QED
            BY <2>1, <2>2 DEF ShapeInv, ReferentialIntegrity, ChainShape, NoFork, ParentShape
    <1>2. ShapeInv /\ [Next]_vars => ShapeInv'
        BY ShapeStep
    <1> QED
        BY <1>1, <1>2, PTL DEF Spec

\* Nothing the store keeps outlives its user, and a token belongs to the user
\* of its session: DeleteUser's cascade misses nothing.
THEOREM Integrity == Spec => []ReferentialIntegrity
    BY ShapeInvariant, PTL DEF ShapeInv

\* The index that findLatestChild walks agrees with the tokens.
THEOREM IndexAgrees == Spec => []ChainShape
    BY ShapeInvariant, PTL DEF ShapeInv

\* No token is rotated twice.
THEOREM RotatedOnce == Spec => []NoFork
    BY ShapeInvariant, PTL DEF ShapeInv

-----------------------------------------------------------------------------
(***************************************************************************)
(* The walk of findLatestChild.                                            *)
(***************************************************************************)

\* It starts at the token it is called with ...
LEMMA ChainStart ==
    ASSUME NEW t \in Token
    PROVE  t \in Chain(t)
    BY DEF Chain

\* ... goes on from every revoked token that has an edge ...
LEMMA ChainClosed ==
    ASSUME TypeOK, NEW t \in Token
    PROVE  ClosedUnderEdges(Chain(t))
    <1> SUFFICES ASSUME NEW x \in Chain(t), Revoked(x), x \in DOMAIN parentToChild
                 PROVE  parentToChild[x] \in Chain(t)
        BY DEF ClosedUnderEdges
    <1>1. parentToChild[x] \in Token
        BY DEF TypeOK
    <1> QED
        BY <1>1 DEF Chain, ClosedUnderEdges

\* ... and visits nothing else.
LEMMA ChainLeast ==
    ASSUME NEW t, NEW S, S \subseteq Token, t \in S, ClosedUnderEdges(S)
    PROVE  Chain(t) \subseteq S
    BY DEF Chain

\* It stays among the stored tokens of one session.
LEMMA ChainInSession ==
    ASSUME ShapeInv, NEW t \in DOMAIN refreshTokens, NEW x \in Chain(t)
    PROVE  x \in DOMAIN refreshTokens /\ refreshTokens[x].session = refreshTokens[t].session
    <1> DEFINE S == {y \in DOMAIN refreshTokens : refreshTokens[y].session = refreshTokens[t].session}
    <1>1. S \subseteq Token
        BY DEF ShapeInv, TypeOK
    <1>2. ClosedUnderEdges(S)
        BY DEF ClosedUnderEdges, ShapeInv, ChainShape
    <1>3. t \in S
        OBVIOUS
    <1> HIDE DEF S
    <1>4. x \in S
        BY <1>1, <1>2, <1>3, ChainLeast
    <1> QED
        BY <1>4 DEF S

\* What happens to the other sessions of the store leaves a chain as it is.
LEMMA ChainUntouched ==
    ASSUME ShapeInv, TypeOK', NEW t \in DOMAIN refreshTokens, NEW s, s = refreshTokens[t].session,
           \A x \in TokensOfSession(s) :
               /\ x \in DOMAIN refreshTokens' /\ refreshTokens'[x] = refreshTokens[x]
               /\ x \in DOMAIN parentToChild' <=> x \in DOMAIN parentToChild
               /\ x \in DOMAIN parentToChild => parentToChild'[x] = parentToChild[x]
    PROVE  Chain(t)' = Chain(t)
    <1>1. t \in Token
        BY DEF ShapeInv, TypeOK
    <1>2. \A x \in Chain(t) : x \in TokensOfSession(s)
        BY ChainInSession DEF TokensOfSession
    <1>3. Chain(t)' \subseteq Chain(t)
        <2> DEFINE C == Chain(t)
        <2>1. C \subseteq Token /\ t \in C
            BY <1>1, ChainStart DEF Chain
        <2>2. \A x \in C : Revoked(x)' /\ x \in DOMAIN parentToChild' => parentToChild'[x] \in C
            <3> SUFFICES ASSUME NEW x \in C, Revoked(x)', x \in DOMAIN parentToChild'
                         PROVE  parentToChild'[x] \in C
                OBVIOUS
            <3>1. x \in TokensOfSession(s)
                BY <1>2
            <3>2. Revoked(x) /\ x \in DOMAIN parentToChild
                BY <3>1 DEF Revoked, TokensOfSession
            <3>3. parentToChild[x] \in C
                BY <1>1, <3>2, ChainClosed DEF ShapeInv, ClosedUnderEdges
            <3> QED
                BY <3>1, <3>2, <3>3
        <2> HIDE DEF C
        <2>3. Chain(t)' \subseteq C
            BY <2>1, <2>2 DEF Chain, ClosedUnderEdges
        <2> QED
            BY <2>3 DEF C
    <1>4. Chain(t) \subseteq Chain(t)'
        <2> SUFFICES ASSUME NEW y \in Chain(t), NEW S \in SUBSET Token, t \in S, ClosedUnderEdges(S)'
                     PROVE  y \in S
            BY DEF Chain
        <2> DEFINE S2 == S \cup (Token \ TokensOfSession(s))
        <2>1. ClosedUnderEdges(S2)
            <3> SUFFICES ASSUME NEW z \in S2, Revoked(z), z \in DOMAIN parentToChild
                         PROVE  parentToChild[z] \in S2
                BY DEF ClosedUnderEdges
            <3>1. CASE z \in TokensOfSession(s)
                BY <3>1 DEF ClosedUnderEdges, Revoked
            <3>2. CASE z \notin TokensOfSession(s)
                BY <3>2 DEF ShapeInv, ChainShape, TypeOK, TokensOfSession
            <3> QED
                BY <3>1, <3>2
        <2>2. S2 \subseteq Token /\ t \in S2
            OBVIOUS
        <2> HIDE DEF S2
        <2>3. y \in S2
            BY <2>1, <2>2, ChainLeast
        <2> QED
            BY <1>2, <2>3 DEF S2
    <1> QED
        BY <1>3, <1>4

\* A walk depends on the tokens and the index alone.
LEMMA ChainUnchanged ==
    ASSUME UNCHANGED <<refreshTokens, parentToChild>>, NEW t
    PROVE  Chain(t)' = Chain(t)
    BY DEF Chain, ClosedUnderEdges, Revoked

\* A token that starts a chain is on no other walk.
LEMMA IssueKeepsChains ==
    ASSUME ShapeInv, TypeOK', NEW u, NEW s, NEW t, IssueEffect(u, s, t),
           NEW x \in DOMAIN refreshTokens
    PROVE  Chain(x)' = Chain(x)
    <1>1. \A y \in TokensOfSession(refreshTokens[x].session) :
              /\ y \in DOMAIN refreshTokens' /\ refreshTokens'[y] = refreshTokens[y]
              /\ y \in DOMAIN parentToChild' <=> y \in DOMAIN parentToChild
              /\ y \in DOMAIN parentToChild => parentToChild'[y] = parentToChild[y]
        BY DEF IssueEffect, TokensOfSession
    <1> QED
        BY <1>1, ChainUntouched

\* The deletion of a user cuts no walk of another user.
LEMMA DeleteUserKeepsChains ==
    ASSUME ShapeInv, TypeOK', NEW u, DeleteUserEffect(u), NEW x \in DOMAIN refreshTokens'
    PROVE  x \in DOMAIN refreshTokens /\ Chain(x)' = Chain(x)
    <1>1. x \in DOMAIN refreshTokens /\ refreshTokens[x].user # u
        BY DEF DeleteUserEffect
    <1>2. \A y \in TokensOfSession(refreshTokens[x].session) :
              /\ y \in DOMAIN refreshTokens' /\ refreshTokens'[y] = refreshTokens[y]
              /\ y \in DOMAIN parentToChild' <=> y \in DOMAIN parentToChild
              /\ y \in DOMAIN parentToChild => parentToChild'[y] = parentToChild[y]
        <2> SUFFICES ASSUME NEW y \in TokensOfSession(refreshTokens[x].session)
                     PROVE  /\ y \in DOMAIN refreshTokens' /\ refreshTokens'[y] = refreshTokens[y]
                            /\ y \in DOMAIN parentToChild' <=> y \in DOMAIN parentToChild
                            /\ y \in DOMAIN parentToChild => parentToChild'[y] = parentToChild[y]
            OBVIOUS
        <2>1. y \in DOMAIN refreshTokens /\ refreshTokens[y].session = refreshTokens[x].session
            BY DEF TokensOfSession
        <2>2. refreshTokens[y].user # u
            BY <1>1, <2>1 DEF ShapeInv, ReferentialIntegrity
        <2>3. \A c \in TokensOfUser(u) : refreshTokens[c].parent # y
            <3> SUFFICES ASSUME NEW c \in DOMAIN refreshTokens, refreshTokens[c].user = u,
                                refreshTokens[c].parent = y
                         PROVE  FALSE
                BY DEF TokensOfUser
            <3>1. y # NoToken
                BY <2>1, NoTokenAssumption DEF ShapeInv, TypeOK
            <3>2. refreshTokens[c].session = refreshTokens[y].session
                BY <2>1, <3>1 DEF ShapeInv, ParentShape
            <3> QED
                BY <2>1, <2>2, <3>2 DEF ShapeInv, ReferentialIntegrity
        <2>4. y \notin EdgesOf(TokensOfUser(u))
            BY <2>2, <2>3 DEF EdgesOf, TokensOfUser
        <2> QED
            BY <2>1, <2>2, <2>4 DEF DeleteUserEffect
    <1> QED
        BY <1>1, <1>2, ChainUntouched

\* A logout cuts no walk of another session.
LEMMA RevokeKeepsChains ==
    ASSUME ShapeInv, TypeOK', NEW s, RevokeEffect(s), NEW x \in DOMAIN refreshTokens,
           refreshTokens[x].session # s
    PROVE  Chain(x)' = Chain(x)
    <1>1. \A y \in TokensOfSession(refreshTokens[x].session) :
              /\ y \in DOMAIN refreshTokens' /\ refreshTokens'[y] = refreshTokens[y]
              /\ y \in DOMAIN parentToChild' <=> y \in DOMAIN parentToChild
              /\ y \in DOMAIN parentToChild => parentToChild'[y] = parentToChild[y]
        <2> SUFFICES ASSUME NEW y \in TokensOfSession(refreshTokens[x].session)
                     PROVE  /\ y \in DOMAIN refreshTokens' /\ refreshTokens'[y] = refreshTokens[y]
                            /\ y \in DOMAIN parentToChild' <=> y \in DOMAIN parentToChild
                            /\ y \in DOMAIN parentToChild => parentToChild'[y] = parentToChild[y]
            OBVIOUS
        <2>1. y \in DOMAIN refreshTokens /\ refreshTokens[y].session # s
            BY DEF TokensOfSession
        <2>2. \A c \in TokensOfSession(s) : refreshTokens[c].parent # y
            <3> SUFFICES ASSUME NEW c \in DOMAIN refreshTokens, refreshTokens[c].session = s,
                                refreshTokens[c].parent = y
                         PROVE  FALSE
                BY DEF TokensOfSession
            <3>1. y # NoToken
                BY <2>1, NoTokenAssumption DEF ShapeInv, TypeOK
            <3> QED
                BY <2>1, <3>1 DEF ShapeInv, ParentShape
        <2>3. y \notin EdgesOf(TokensOfSession(s))
            BY <2>1, <2>2 DEF EdgesOf, TokensOfSession
        <2> QED
            BY <2>1, <2>3 DEF RevokeEffect
    <1> QED
        BY <1>1, ChainUntouched

\* Rotating a token hangs its replacement under the chains that end in it.
LEMMA ConsumeExtendsChains ==
    ASSUME ShapeInv, NEW t \in DOMAIN refreshTokens, NEW child \in Token,
           ConsumeEffect(t, child), NEW x \in DOMAIN refreshTokens
    PROVE  Chain(x)' = IF t \in Chain(x) THEN Chain(x) \cup {child} ELSE Chain(x)
    <1> DEFINE C == Chain(x)
               N == IF t \in C THEN C \cup {child} ELSE C
    <1>1. /\ t \in Token /\ x \in Token
          /\ now \in Int /\ refreshTokens[t] \in TokenRecord
        BY DEF ShapeInv, TypeOK
    <1>2. C \subseteq DOMAIN refreshTokens /\ x \in C
        BY <1>1, ChainInSession, ChainStart
    <1>3. \A z \in C : Revoked(z) /\ z \in DOMAIN parentToChild => parentToChild[z] \in C
        BY <1>1, ChainClosed DEF ShapeInv, ClosedUnderEdges
    <1>4. Revoked(t)' /\ ~Revoked(t) /\ ~Revoked(child)'
        <2>1. RevokedAt(refreshTokens[t], now).revoked
            BY <1>1 DEF RevokedAt, TokenRecord
        <2> QED
            BY <2>1 DEF ConsumeEffect, Revoked, Live, NewToken
    <1>5. \A z \in DOMAIN refreshTokens : z # t => (Revoked(z)' <=> Revoked(z))
        BY DEF ConsumeEffect, Revoked
    <1>6. Chain(x)' \subseteq N
        <2>1. \A z \in N : Revoked(z)' /\ z \in DOMAIN parentToChild' => parentToChild'[z] \in N
            <3> SUFFICES ASSUME NEW z \in N, Revoked(z)', z \in DOMAIN parentToChild'
                         PROVE  parentToChild'[z] \in N
                OBVIOUS
            <3> HIDE DEF C
            <3>1. CASE z = t
                BY <3>1, <1>2 DEF ConsumeEffect
            <3>2. CASE z # t
                <4>1. z # child
                    BY <1>4
                <4>2. z \in C /\ z \in DOMAIN refreshTokens
                    BY <4>1, <1>2
                <4>3. Revoked(z)
                    BY <3>2, <4>2, <1>5
                <4>4. z \in DOMAIN parentToChild /\ parentToChild'[z] = parentToChild[z]
                    BY <3>2 DEF ConsumeEffect
                <4> QED
                    BY <4>2, <4>3, <4>4, <1>3
            <3> QED
                BY <3>1, <3>2
        <2>2. N \subseteq Token /\ x \in N
            BY <1>2 DEF ShapeInv, TypeOK
        <2> HIDE DEF N
        <2> QED
            BY <2>1, <2>2 DEF Chain, ClosedUnderEdges
    <1>7. N \subseteq Chain(x)'
        <2> SUFFICES ASSUME NEW y \in N, NEW S \in SUBSET Token, x \in S, ClosedUnderEdges(S)'
                     PROVE  y \in S
            <3>1. N \subseteq Token
                BY <1>2 DEF ShapeInv, TypeOK
            <3> HIDE DEF N
            <3> QED
                BY <3>1 DEF Chain
        <2>1. ClosedUnderEdges(S)
            <3> SUFFICES ASSUME NEW z \in S, Revoked(z), z \in DOMAIN parentToChild
                         PROVE  parentToChild[z] \in S
                BY DEF ClosedUnderEdges
            <3>1. z # t /\ z \in DOMAIN refreshTokens
                BY <1>4 DEF Revoked
            <3>2. Revoked(z)'
                BY <3>1, <1>5
            <3>3. z \in DOMAIN parentToChild' /\ parentToChild'[z] = parentToChild[z]
                BY <3>1 DEF ConsumeEffect
            <3> QED
                BY <3>2, <3>3 DEF ClosedUnderEdges
        <2>2. C \subseteq S
            BY <2>1, ChainLeast
        <2>3. t \in S => child \in S
            <3>1. t \in DOMAIN parentToChild' /\ parentToChild'[t] = child
                BY DEF ConsumeEffect
            <3> QED
                BY <1>4, <3>1 DEF ClosedUnderEdges
        <2> HIDE DEF C
        <2> QED
            BY <2>2, <2>3
    <1> HIDE DEF C
    <1>8. Chain(x)' = N
        BY <1>6, <1>7
    <1> QED
        BY <1>8 DEF C

-----------------------------------------------------------------------------
(***************************************************************************)
(* A retry inside the reuse interval is answered.                          *)
(***************************************************************************)
HasLeaf(t) == \E x \in Chain(t) : Live(x)

\* findLatestChild returns nil exactly when its walk meets no unrevoked token.
LEMMA LeafFound ==
    ASSUME NEW t
    PROVE  /\ LatestChild(t) # NoToken <=> HasLeaf(t)
           /\ HasLeaf(t) => LatestChild(t) \in Chain(t) /\ Live(LatestChild(t))
    BY NoTokenAssumption DEF LatestChild, HasLeaf, Chain

\* GraceAnswered with the walk in place of its result.
LeafInv == \A t \in DOMAIN refreshTokens : Revoked(t) /\ InReuseInterval(t) => HasLeaf(t)

GraceInv == ShapeInv /\ LeafInv

\* Every step keeps an unrevoked token on every walk that starts in the interval.
LEMMA LeafStep ==
    ASSUME GraceInv, [Next]_vars
    PROVE  LeafInv'
    <1>1. ShapeInv /\ LeafInv /\ TypeOK /\ ShapeInv' /\ TypeOK'
        BY ShapeStep DEF GraceInv, ShapeInv
    <1>2. ASSUME UNCHANGED <<refreshTokens, parentToChild>>, now' >= now PROVE LeafInv'
        <2> SUFFICES ASSUME NEW t \in DOMAIN refreshTokens, Revoked(t)', InReuseInterval(t)'
                     PROVE  HasLeaf(t)'
            BY <1>2 DEF LeafInv
        <2>1. refreshTokens[t].issuedAt \in Int /\ now \in Int /\ now' \in Int /\ ReuseInterval \in Int
            BY <1>1, ReuseIntervalAssumption DEF TypeOK, TokenRecord
        <2>2. Revoked(t) /\ InReuseInterval(t)
            BY <1>2, <2>1 DEF Revoked, InReuseInterval
        <2>3. HasLeaf(t)
            BY <1>1, <2>2 DEF LeafInv
        <2>4. Chain(t)' = Chain(t)
            BY <1>2, ChainUnchanged
        <2> QED
            BY <1>2, <2>3, <2>4 DEF HasLeaf, Live
    <1>3. ASSUME NEW u, NEW s, NEW t, IssueEffect(u, s, t) PROVE LeafInv'
        <2> SUFFICES ASSUME NEW x \in DOMAIN refreshTokens', Revoked(x)', InReuseInterval(x)'
                     PROVE  HasLeaf(x)'
            BY DEF LeafInv
        <2>1. x \in DOMAIN refreshTokens
            BY <1>3 DEF IssueEffect, Revoked, NewToken
        <2>2. Revoked(x) /\ InReuseInterval(x)
            BY <1>3, <2>1 DEF IssueEffect, Revoked, InReuseInterval
        <2>3. HasLeaf(x)
            BY <1>1, <2>1, <2>2 DEF LeafInv
        <2>4. Chain(x)' = Chain(x)
            BY <1>1, <1>3, <2>1, IssueKeepsChains
        <2> QED
            BY <1>3, <2>3, <2>4 DEF HasLeaf, Live, IssueEffect
    <1>4. ASSUME NEW t \in DOMAIN refreshTokens, NEW child \in Token, ConsumeEffect(t, child)
          PROVE  LeafInv'
        <2> SUFFICES ASSUME NEW x \in DOMAIN refreshTokens', Revoked(x)', InReuseInterval(x)'
                     PROVE  HasLeaf(x)'
            BY DEF LeafInv
        <2>1. Live(child)'
            BY <1>4 DEF ConsumeEffect, Live, NewToken
        <2>2. x \in DOMAIN refreshTokens
            BY <1>4, <2>1 DEF ConsumeEffect, Revoked, Live
        <2>3. Chain(x)' = IF t \in Chain(x) THEN Chain(x) \cup {child} ELSE Chain(x)
            BY <1>1, <1>4, <2>2, ConsumeExtendsChains
        <2>4. CASE t \in Chain(x)
            BY <2>1, <2>3, <2>4 DEF HasLeaf
        <2>5. CASE t \notin Chain(x)
            <3>1. x # t
                BY <1>1, <2>5, ChainStart DEF TypeOK
            <3>2. Revoked(x) /\ InReuseInterval(x)
                BY <1>4, <2>2, <3>1 DEF ConsumeEffect, Revoked, InReuseInterval
            <3>3. PICK y \in Chain(x) : Live(y)
                BY <1>1, <2>2, <3>2 DEF LeafInv, HasLeaf
            <3>4. Live(y)'
                BY <1>4, <2>5, <3>3 DEF ConsumeEffect, Live
            <3> QED
                BY <2>3, <2>5, <3>3, <3>4 DEF HasLeaf
        <2> QED
            BY <2>4, <2>5
    <1>5. ASSUME NEW s, RevokeEffect(s) PROVE LeafInv'
        <2> SUFFICES ASSUME NEW x \in DOMAIN refreshTokens', Revoked(x)', InReuseInterval(x)'
                     PROVE  HasLeaf(x)'
            BY DEF LeafInv
        <2>1. x \in DOMAIN refreshTokens /\ now \in Int /\ ReuseInterval \in Int
              /\ refreshTokens[x] \in TokenRecord
            BY <1>1, <1>5, ReuseIntervalAssumption DEF RevokeEffect, TypeOK
        <2>2. refreshTokens[x].session # s
            <3> SUFFICES ASSUME refreshTokens[x].session = s PROVE FALSE
                OBVIOUS
            <3>1. refreshTokens'[x] = RevokedAt(refreshTokens[x], now - (ReuseInterval + 1)) /\ now' = now
                BY <1>5, <2>1 DEF RevokeEffect
            <3>2. refreshTokens'[x].issuedAt = now - (ReuseInterval + 1)
                BY <2>1, <3>1 DEF RevokedAt, TokenRecord
            <3> QED
                BY <2>1, <3>1, <3>2 DEF InReuseInterval
        <2>3. Revoked(x) /\ InReuseInterval(x)
            BY <1>5, <2>1, <2>2 DEF RevokeEffect, Revoked, InReuseInterval
        <2>4. PICK y \in Chain(x) : Live(y)
            BY <1>1, <2>1, <2>3 DEF LeafInv, HasLeaf
        <2>5. y \in DOMAIN refreshTokens /\ refreshTokens[y].session # s
            BY <1>1, <2>1, <2>2, <2>4, ChainInSession
        <2>6. Live(y)'
            BY <1>5, <2>4, <2>5 DEF RevokeEffect, Live
        <2>7. Chain(x)' = Chain(x)
            BY <1>1, <1>5, <2>1, <2>2, RevokeKeepsChains
        <2> QED
            BY <2>4, <2>6, <2>7 DEF HasLeaf
    <1>6. ASSUME NEW u, DeleteUserEffect(u) PROVE LeafInv'
        <2> SUFFICES ASSUME NEW x \in DOMAIN refreshTokens', Revoked(x)', InReuseInterval(x)'
                     PROVE  HasLeaf(x)'
            BY DEF LeafInv
        <2>1. x \in DOMAIN refreshTokens /\ Chain(x)' = Chain(x)
            BY <1>1, <1>6, DeleteUserKeepsChains
        <2>2. Revoked(x) /\ InReuseInterval(x)
            BY <1>6, <2>1 DEF DeleteUserEffect, Revoked, InReuseInterval
        <2>3. PICK y \in Chain(x) : Live(y)
            BY <1>1, <2>1, <2>2 DEF LeafInv, HasLeaf
        <2>4. y \in DOMAIN refreshTokens /\ refreshTokens[y].session = refreshTokens[x].session
            BY <1>1, <2>1, <2>3, ChainInSession
        <2>5. refreshTokens[y].user = refreshTokens[x].user
            BY <1>1, <2>1, <2>4 DEF ShapeInv, ReferentialIntegrity
        <2>6. y \in DOMAIN refreshTokens'
            BY <1>6, <2>4, <2>5 DEF DeleteUserEffect
        <2>7. Live(y)'
            BY <1>6, <2>3, <2>6 DEF DeleteUserEffect, Live
        <2> QED
            BY <2>1, <2>3, <2>7 DEF HasLeaf
    <1>7. CASE Tick
        <2>1. UNCHANGED <<refreshTokens, parentToChild>> /\ now' >= now
            BY <1>1, <1>7 DEF Tick, TypeOK
        <2> QED
            BY <1>2, <2>1
    <1>8. CASE Reset
        BY <1>8 DEF EmptyMap, Reset, LeafInv
    <1>9. ASSUME NEW u \in User, NewUser(u) PROVE LeafInv'
        <2>1. UNCHANGED <<refreshTokens, parentToChild>> /\ now' >= now
            BY <1>1, <1>9 DEF NewUser, TypeOK
        <2> QED
            BY <1>2, <2>1
    <1>10. ASSUME NEW u \in User, DeleteUser(u) PROVE LeafInv'
        BY <1>1, <1>6, <1>10, DeleteUserStep
    <1>11. ASSUME NEW u \in User, NEW method \in Method, NEW s \in Session, NEW t \in Token,
                  IssueSessionWithMethod(u, method, s, t)
           PROVE  LeafInv'
        BY <1>1, <1>3, <1>11, IssueSessionStep
    <1>12. ASSUME NEW s \in DOMAIN owner, NEW t \in Token, IssueRefreshToken(owner[s], s, t)
           PROVE  LeafInv'
        BY <1>1, <1>3, <1>12, IssueTokenStep
    <1>13. ASSUME NEW t \in DOMAIN refreshTokens, NEW child \in Token, ConsumeRefreshToken(t, child)
           PROVE  LeafInv'
        BY <1>1, <1>4, <1>13, ConsumeStep
    <1>14. ASSUME NEW s \in DOMAIN owner, RevokeRefreshTokensBySession(s) PROVE LeafInv'
        BY <1>1, <1>5, <1>14, RevokeStep
    <1>15. ASSUME NEW s \in DOMAIN owner, NEW method \in Method, UpgradeSessionAAL(s, method)
           PROVE  LeafInv'
        <2>1. UNCHANGED <<refreshTokens, parentToChild>> /\ now' >= now
            BY <1>1, <1>15 DEF UpgradeSessionAAL, TypeOK
        <2> QED
            BY <1>2, <2>1
    <1>16. CASE UNCHANGED vars
        <2>1. UNCHANGED <<refreshTokens, parentToChild>> /\ now' >= now
            BY <1>1, <1>16 DEF vars, TypeOK
        <2> QED
            BY <1>2, <2>1
    <1> QED
        BY <1>7, <1>8, <1>9, <1>10, <1>11, <1>12, <1>13, <1>14, <1>15, <1>16, NextCases

\* The walk of a token inside its reuse interval always ends in an unrevoked token.
LEMMA GraceInvariant == Spec => []GraceInv
    <1>1. Init => LeafInv
        BY DEF EmptyMap, Init, LeafInv
    <1>2. ShapeInv /\ LeafInv /\ [Next]_vars => LeafInv'
        BY LeafStep DEF GraceInv
    <1> QED
        BY <1>1, <1>2, ShapeInvariant, PTL DEF Spec, GraceInv

\* A client that retries a rotated token within the reuse interval is always
\* answered with a live token, however far the chain has grown.
THEOREM RetryAnswered == Spec => []GraceAnswered
    <1>1. GraceInv => GraceAnswered
        BY LeafFound DEF GraceInv, LeafInv, GraceAnswered
    <1> QED
        BY <1>1, GraceInvariant, PTL

-----------------------------------------------------------------------------
(***************************************************************************)
(* Refusal is final.                                                       *)
(***************************************************************************)

\* A token is stored anew only when it is handed out, and a revoked one keeps
\* its stamp or has it moved out of the reuse interval.
LEMMA TokenStep ==
    ASSUME ShapeInv, [Next]_vars, NEW t \in minted, t \in DOMAIN refreshTokens'
    PROVE  /\ t \in DOMAIN refreshTokens
           /\ Revoked(t) => /\ Revoked(t)'
                            /\ \/ refreshTokens'[t].issuedAt = refreshTokens[t].issuedAt /\ now' >= now
                               \/ refreshTokens'[t].issuedAt = now' - (ReuseInterval + 1)
    <1> DEFINE Kept == /\ t \in DOMAIN refreshTokens
                       /\ Revoked(t) => /\ refreshTokens'[t] = refreshTokens[t]
                                        /\ now' >= now
               Goal == /\ t \in DOMAIN refreshTokens
                       /\ Revoked(t) =>
                              /\ Revoked(t)'
                              /\ \/ refreshTokens'[t].issuedAt = refreshTokens[t].issuedAt /\ now' >= now
                                 \/ refreshTokens'[t].issuedAt = now' - (ReuseInterval + 1)
    <1>1. TypeOK /\ now \in Int /\ now' \in Int /\ (now' = now => now' >= now)
        <2>1. TypeOK /\ TypeOK'
            BY TypeStep DEF ShapeInv
        <2> QED
            BY <2>1 DEF TypeOK
    <1>2. Kept => Goal
        BY DEF Revoked
    <1>3. ASSUME UNCHANGED refreshTokens, now' >= now PROVE Goal
        BY <1>2, <1>3
    <1>4. CASE Tick
        BY <1>1, <1>3, <1>4 DEF Tick
    <1>5. ASSUME NEW u \in User, NewUser(u) PROVE Goal
        BY <1>1, <1>3, <1>5 DEF NewUser
    <1>6. ASSUME NEW s \in DOMAIN owner, NEW method \in Method, UpgradeSessionAAL(s, method)
           PROVE  Goal
        BY <1>1, <1>3, <1>6 DEF UpgradeSessionAAL
    <1>7. CASE UNCHANGED vars
        BY <1>1, <1>3, <1>7 DEF vars
    <1>8. CASE Reset
        BY <1>8 DEF EmptyMap, Reset
    <1>9. ASSUME NEW u \in User, DeleteUser(u) PROVE Kept
        BY <1>1, <1>9, DeleteUserStep DEF DeleteUserEffect
    <1>10. ASSUME NEW u \in User, NEW method \in Method, NEW s \in Session, NEW x \in Token,
                 IssueSessionWithMethod(u, method, s, x)
          PROVE  Kept
        BY <1>1, <1>10, IssueSessionStep DEF IssueEffect
    <1>11. ASSUME NEW s \in DOMAIN owner, NEW x \in Token, IssueRefreshToken(owner[s], s, x)
          PROVE  Kept
        BY <1>1, <1>11, IssueTokenStep DEF IssueEffect
    <1>12. ASSUME NEW x \in DOMAIN refreshTokens, NEW child \in Token, ConsumeRefreshToken(x, child)
          PROVE  Kept
        <2>1. ConsumeEffect(x, child)
            BY <1>1, <1>12, ConsumeStep
        <2>2. t \in DOMAIN refreshTokens /\ now' >= now
            BY <1>1, <2>1 DEF ConsumeEffect
        <2>3. Revoked(t) => t # x
            BY <2>1 DEF ConsumeEffect, Live, Revoked
        <2> QED
            BY <2>1, <2>2, <2>3 DEF ConsumeEffect
    <1>13. ASSUME NEW s \in DOMAIN owner, RevokeRefreshTokensBySession(s) PROVE Goal
        <2>1. RevokeEffect(s)
            BY <1>1, <1>13, RevokeStep
        <2>2. t \in DOMAIN refreshTokens /\ refreshTokens[t] \in TokenRecord /\ now' = now
            BY <1>1, <2>1 DEF RevokeEffect, TypeOK
        <2>3. CASE refreshTokens[t].session = s
            <3>1. refreshTokens'[t] = RevokedAt(refreshTokens[t], now - (ReuseInterval + 1))
                BY <2>1, <2>2, <2>3 DEF RevokeEffect
            <3> QED
                BY <2>1, <2>2, <3>1 DEF RevokedAt, TokenRecord, Revoked, RevokeEffect
        <2>4. CASE refreshTokens[t].session # s
            BY <1>1, <2>1, <2>2, <2>4 DEF RevokeEffect, Revoked
        <2> QED
            BY <2>3, <2>4
    <1> QED
        BY <1>2, <1>8, <1>9, <1>10, <1>11, <1>12, <1>13, <1>4, <1>5, <1>6, <1>7, NextCases

\* A token is consumable exactly while it is unrevoked or inside the interval.
ConsumableMeaning ==
    \A t \in Token : Consumable(t) <=> Live(t) \/ (Revoked(t) /\ InReuseInterval(t))

\* What makes a token acceptable, without the walk.
LEMMA ConsumableMeans == GraceInv => ConsumableMeaning
    BY LeafFound DEF GraceInv, ShapeInv, LeafInv, ReferentialIntegrity, Consumable, Rotatable,
                     Reusable, Live, Revoked, ConsumableMeaning

\* No step makes a refused token acceptable.
LEMMA RefusedStep ==
    ASSUME GraceInv, GraceInv', [Next]_vars, NEW t \in minted, ~Consumable(t)
    PROVE  ~Consumable(t)'
    <1>1. t \in Token /\ ShapeInv
        BY DEF GraceInv, ShapeInv, TypeOK
    <1>2. (Consumable(t) <=> Live(t) \/ (Revoked(t) /\ InReuseInterval(t)))'
        <2>1. ConsumableMeaning'
            BY ConsumableMeans, PTL
        <2> QED
            BY <1>1, <2>1 DEF ConsumableMeaning
    <1>3. SUFFICES ASSUME t \in DOMAIN refreshTokens'
                   PROVE  Revoked(t)' /\ ~InReuseInterval(t)'
        BY <1>2 DEF Live, Revoked
    <1>4. t \in DOMAIN refreshTokens
        BY <1>1, <1>3, TokenStep
    <1>5. Revoked(t) /\ ~InReuseInterval(t)
        BY <1>1, <1>4, ConsumableMeans DEF Live, Revoked, ConsumableMeaning
    <1>6. /\ Revoked(t)'
          /\ \/ refreshTokens'[t].issuedAt = refreshTokens[t].issuedAt /\ now' >= now
             \/ refreshTokens'[t].issuedAt = now' - (ReuseInterval + 1)
        BY <1>1, <1>3, <1>5, TokenStep
    <1>7. /\ now \in Int /\ now' \in Int /\ ReuseInterval \in Int
          /\ refreshTokens[t].issuedAt \in Int
        BY <1>4, ReuseIntervalAssumption DEF GraceInv, ShapeInv, TypeOK, TokenRecord
    <1> QED
        BY <1>5, <1>6, <1>7 DEF InReuseInterval

\* A refresh token that is refused once is refused for ever: neither the clock,
\* nor a later rotation of its chain, nor a new login brings it back.
THEOREM RefusalIsFinal == Spec => RefusedForever
    <1>1. GraceInv /\ GraceInv' /\ [Next]_vars
              => [\A t \in minted : ~Consumable(t) => ~Consumable(t)']_vars
        BY RefusedStep
    <1> QED
        BY <1>1, GraceInvariant, PTL DEF Spec, RefusedForever

-----------------------------------------------------------------------------
(***************************************************************************)
(* Sessions and their tokens.                                              *)
(***************************************************************************)

\* A token stays with its session.
LEMMA SessionKept ==
    ASSUME ShapeInv, [Next]_vars, NEW t \in DOMAIN refreshTokens, t \in DOMAIN refreshTokens'
    PROVE  refreshTokens'[t].session = refreshTokens[t].session
    <1> DEFINE Goal == refreshTokens'[t].session = refreshTokens[t].session
    <1>1. TypeOK /\ refreshTokens[t] \in TokenRecord /\ now \in Int /\ ReuseInterval \in Int
        BY ReuseIntervalAssumption DEF ShapeInv, TypeOK
    <1>2. CASE UNCHANGED refreshTokens
        BY <1>2
    <1>3. CASE Reset
        BY <1>3 DEF EmptyMap, Reset
    <1>4. ASSUME NEW u \in User, DeleteUser(u) PROVE Goal
        BY <1>1, <1>4, DeleteUserStep DEF DeleteUserEffect
    <1>5. ASSUME NEW u \in User, NEW method \in Method, NEW s \in Session, NEW x \in Token,
                 IssueSessionWithMethod(u, method, s, x)
          PROVE  Goal
        BY <1>1, <1>5, IssueSessionStep DEF IssueEffect
    <1>6. ASSUME NEW s \in DOMAIN owner, NEW x \in Token, IssueRefreshToken(owner[s], s, x)
          PROVE  Goal
        BY <1>1, <1>6, IssueTokenStep DEF IssueEffect
    <1>7. ASSUME NEW x \in DOMAIN refreshTokens, NEW child \in Token, ConsumeRefreshToken(x, child)
          PROVE  Goal
        <2>1. ConsumeEffect(x, child)
            BY <1>1, <1>7, ConsumeStep
        <2>2. refreshTokens'[t] \in {refreshTokens[t], RevokedAt(refreshTokens[t], now)}
            BY <2>1 DEF ConsumeEffect
        <2> QED
            BY <1>1, <2>2 DEF RevokedAt, TokenRecord
    <1>8. ASSUME NEW s \in DOMAIN owner, RevokeRefreshTokensBySession(s) PROVE Goal
        <2>1. RevokeEffect(s)
            BY <1>1, <1>8, RevokeStep
        <2>2. refreshTokens'[t] \in {refreshTokens[t],
                                     RevokedAt(refreshTokens[t], now - (ReuseInterval + 1))}
            BY <2>1 DEF RevokeEffect
        <2> QED
            BY <1>1, <2>2 DEF RevokedAt, TokenRecord
    <1> QED
        BY <1>2, <1>3, <1>4, <1>5, <1>6, <1>7, <1>8, NextCases
           DEF Tick, NewUser, UpgradeSessionAAL, vars

\* The step that ends a session silences its tokens.
LEMMA SilencedStep ==
    ASSUME GraceInv, GraceInv', [Next]_vars, NEW s \in DOMAIN sessions \ DOMAIN sessions',
           NEW t \in DOMAIN refreshTokens', refreshTokens'[t].session = s
    PROVE  ~Consumable(t)'
    <1>1. ShapeInv /\ TypeOK /\ ShapeInv' /\ TypeOK'
        BY DEF GraceInv, ShapeInv
    <1>2. CASE Tick \/ (\E u \in User : NewUser(u)) \/ UNCHANGED vars
        BY <1>2 DEF Tick, NewUser, vars
    <1>3. CASE Reset
        BY <1>3 DEF EmptyMap, Reset
    <1>4. ASSUME NEW u \in User, DeleteUser(u) PROVE FALSE
        <2>1. DeleteUserEffect(u)
            BY <1>1, <1>4, DeleteUserStep
        <2>2. sessions[s].user = u
            BY <2>1 DEF DeleteUserEffect
        <2>3. t \in DOMAIN refreshTokens /\ refreshTokens[t].session = s /\ refreshTokens[t].user # u
            BY <2>1 DEF DeleteUserEffect
        <2> QED
            BY <1>1, <2>2, <2>3 DEF ShapeInv, ReferentialIntegrity
    <1>5. ASSUME NEW u \in User, NEW method \in Method, NEW x \in Session, NEW y \in Token,
                 IssueSessionWithMethod(u, method, x, y)
          PROVE  FALSE
        <2>1. \E new : sessions' = Put(sessions, x, new)
            BY <1>5 DEF IssueSessionWithMethod
        <2>2. DOMAIN sessions' = DOMAIN sessions \cup {x}
            BY <2>1 DEF Put
        <2> QED
            BY <2>2
    <1>6. ASSUME NEW x \in DOMAIN owner, NEW y \in Token, IssueRefreshToken(owner[x], x, y)
          PROVE  FALSE
        BY <1>6 DEF IssueRefreshToken
    <1>7. ASSUME NEW x \in DOMAIN refreshTokens, NEW child \in Token, ConsumeRefreshToken(x, child)
          PROVE  FALSE
        BY <1>7 DEF ConsumeRefreshToken
    <1>8. ASSUME NEW x \in DOMAIN owner, NEW method \in Method, UpgradeSessionAAL(x, method)
          PROVE  FALSE
        BY <1>1, <1>8 DEF UpgradeSessionAAL, TypeOK
    <1>9. ASSUME NEW x \in DOMAIN owner, RevokeRefreshTokensBySession(x) PROVE ~Consumable(t)'
        <2>1. RevokeEffect(x) /\ x = s
            BY <1>1, <1>9, RevokeStep DEF RevokeEffect
        <2>2. /\ t \in DOMAIN refreshTokens /\ refreshTokens[t] \in TokenRecord
              /\ now' = now /\ now \in Int /\ ReuseInterval \in Int
            BY <1>1, <2>1, ReuseIntervalAssumption DEF RevokeEffect, TypeOK
        <2>3. refreshTokens[t].session = s
            <3>1. refreshTokens'[t] \in {refreshTokens[t],
                                         RevokedAt(refreshTokens[t], now - (ReuseInterval + 1))}
                BY <2>1, <2>2 DEF RevokeEffect
            <3> QED
                BY <2>2, <3>1 DEF RevokedAt, TokenRecord
        <2>4. refreshTokens'[t] = RevokedAt(refreshTokens[t], now - (ReuseInterval + 1))
            BY <2>1, <2>2, <2>3 DEF RevokeEffect
        <2>5. refreshTokens'[t].revoked /\ refreshTokens'[t].issuedAt = now - (ReuseInterval + 1)
            BY <2>2, <2>4 DEF RevokedAt, TokenRecord
        <2>6. ~Live(t)' /\ ~InReuseInterval(t)'
            BY <2>2, <2>5 DEF Live, InReuseInterval
        <2> QED
            BY <2>6 DEF Consumable, Rotatable, Reusable
    <1> QED
        BY <1>2, <1>3, <1>4, <1>5, <1>6, <1>7, <1>8, <1>9, NextCases

\* When a session ends none of its tokens is accepted any more.
THEOREM LogoutSilences == Spec => EndedSessionSilenced
    <1>1. GraceInv /\ GraceInv' /\ [Next]_vars
              => [\A s \in DOMAIN sessions \ DOMAIN sessions' :
                     \A t \in DOMAIN refreshTokens' :
                         refreshTokens'[t].session = s => ~Consumable(t)']_vars
        BY SilencedStep
    <1> QED
        BY <1>1, GraceInvariant, PTL DEF Spec, EndedSessionSilenced

\* Every step leaves each stored session a token that is not revoked.
LEMMA RefreshableStep ==
    ASSUME ShapeInv, SessionRefreshable, [Next]_vars
    PROVE  SessionRefreshable'
    <1>1. TypeOK /\ ReferentialIntegrity /\ ShapeInv'
        BY ShapeStep DEF ShapeInv
    <1>2. ASSUME DOMAIN sessions' \subseteq DOMAIN sessions, UNCHANGED refreshTokens
          PROVE  SessionRefreshable'
        BY <1>2 DEF SessionRefreshable, Live
    <1>3. ASSUME NEW u, NEW s, NEW t, IssueEffect(u, s, t), DOMAIN sessions' \subseteq DOMAIN sessions \cup {s}
          PROVE  SessionRefreshable'
        <2> SUFFICES ASSUME NEW x \in DOMAIN sessions'
                     PROVE  \E y \in DOMAIN refreshTokens' : refreshTokens'[y].session = x /\ Live(y)'
            BY DEF SessionRefreshable
        <2>1. CASE x = s
            BY <1>3, <2>1 DEF IssueEffect, NewToken, Live
        <2>2. CASE x # s
            <3>1. PICK y \in DOMAIN refreshTokens : refreshTokens[y].session = x /\ Live(y)
                BY <1>3, <2>2 DEF SessionRefreshable
            <3> QED
                BY <1>3, <3>1 DEF IssueEffect, Live
        <2> QED
            BY <2>1, <2>2
    <1>4. CASE Tick
        BY <1>2, <1>4 DEF Tick
    <1>5. CASE Reset
        BY <1>5 DEF EmptyMap, Reset, SessionRefreshable
    <1>6. ASSUME NEW u \in User, NewUser(u) PROVE SessionRefreshable'
        BY <1>2, <1>6 DEF NewUser
    <1>7. ASSUME NEW u \in User, DeleteUser(u) PROVE SessionRefreshable'
        <2>1. DeleteUserEffect(u)
            BY <1>1, <1>7, DeleteUserStep
        <2> SUFFICES ASSUME NEW x \in DOMAIN sessions'
                     PROVE  \E y \in DOMAIN refreshTokens' : refreshTokens'[y].session = x /\ Live(y)'
            BY DEF SessionRefreshable
        <2>2. x \in DOMAIN sessions /\ sessions[x].user # u
            BY <2>1 DEF DeleteUserEffect
        <2>3. PICK y \in DOMAIN refreshTokens : refreshTokens[y].session = x /\ Live(y)
            BY <2>2 DEF SessionRefreshable
        <2>4. refreshTokens[y].user # u
            BY <1>1, <2>2, <2>3 DEF ReferentialIntegrity
        <2> QED
            BY <2>1, <2>3, <2>4 DEF DeleteUserEffect, Live
    <1>8. ASSUME NEW u \in User, NEW method \in Method, NEW s \in Session, NEW t \in Token,
                 IssueSessionWithMethod(u, method, s, t)
          PROVE  SessionRefreshable'
        <2>1. \E new : sessions' = Put(sessions, s, new)
            BY <1>8 DEF IssueSessionWithMethod
        <2>2. DOMAIN sessions' = DOMAIN sessions \cup {s}
            BY <2>1 DEF Put
        <2>3. IssueEffect(u, s, t)
            BY <1>1, <1>8, IssueSessionStep
        <2> QED
            BY <1>3, <2>2, <2>3
    <1>9. ASSUME NEW s \in DOMAIN owner, NEW t \in Token, IssueRefreshToken(owner[s], s, t)
          PROVE  SessionRefreshable'
        BY <1>1, <1>3, <1>9, IssueTokenStep
    <1>10. ASSUME NEW t \in DOMAIN refreshTokens, NEW child \in Token, ConsumeRefreshToken(t, child)
           PROVE  SessionRefreshable'
        <2>1. ConsumeEffect(t, child)
            BY <1>1, <1>10, ConsumeStep
        <2> SUFFICES ASSUME NEW x \in DOMAIN sessions'
                     PROVE  \E y \in DOMAIN refreshTokens' : refreshTokens'[y].session = x /\ Live(y)'
            BY DEF SessionRefreshable
        <2>2. PICK y \in DOMAIN refreshTokens : refreshTokens[y].session = x /\ Live(y)
            BY <2>1 DEF SessionRefreshable, ConsumeEffect
        <2>3. CASE y = t
            BY <2>1, <2>2, <2>3 DEF ConsumeEffect, NewToken, Live
        <2>4. CASE y # t
            BY <2>1, <2>2, <2>4 DEF ConsumeEffect, Live
        <2> QED
            BY <2>3, <2>4
    <1>11. ASSUME NEW s \in DOMAIN owner, RevokeRefreshTokensBySession(s) PROVE SessionRefreshable'
        <2>1. RevokeEffect(s)
            BY <1>1, <1>11, RevokeStep
        <2> SUFFICES ASSUME NEW x \in DOMAIN sessions'
                     PROVE  \E y \in DOMAIN refreshTokens' : refreshTokens'[y].session = x /\ Live(y)'
            BY DEF SessionRefreshable
        <2>2. x \in DOMAIN sessions /\ x # s
            BY <2>1 DEF RevokeEffect
        <2>3. PICK y \in DOMAIN refreshTokens : refreshTokens[y].session = x /\ Live(y)
            BY <2>2 DEF SessionRefreshable
        <2> QED
            BY <2>1, <2>2, <2>3 DEF RevokeEffect, Live
    <1>12. ASSUME NEW s \in DOMAIN owner, NEW method \in Method, UpgradeSessionAAL(s, method)
           PROVE  SessionRefreshable'
        BY <1>1, <1>2, <1>12 DEF UpgradeSessionAAL, TypeOK
    <1>13. CASE UNCHANGED vars
        BY <1>2, <1>13 DEF vars
    <1> QED
        BY <1>4, <1>5, <1>6, <1>7, <1>8, <1>9, <1>10, <1>11, <1>12, <1>13, NextCases

\* No session is ever left behind without a refresh token that is accepted.
THEOREM NoStrandedSession == Spec => []SessionRefreshable
    <1>1. Init => SessionRefreshable
        BY DEF EmptyMap, Init, SessionRefreshable
    <1>2. ShapeInv /\ SessionRefreshable /\ [Next]_vars => SessionRefreshable'
        BY RefreshableStep
    <1> QED
        BY <1>1, <1>2, ShapeInvariant, PTL DEF Spec

-----------------------------------------------------------------------------
(***************************************************************************)
(* The store implements TokenForwarding.                                   *)
(***************************************************************************)

\* A walk meets at most one unrevoked token: it stops there.
LEMMA LeafUnique ==
    ASSUME TypeOK, NEW t \in Token, NEW x \in Chain(t), NEW y \in Chain(t), Live(x), Live(y)
    PROVE  x = y
    <1> DEFINE S == {z \in Chain(t) : y \in Chain(z)}
    <1>1. x \in Token /\ y \in Token /\ S \subseteq Token
        BY DEF Chain
    <1>2. t \in S
        BY ChainStart
    <1>3. ClosedUnderEdges(S)
        <2> SUFFICES ASSUME NEW z \in S, Revoked(z), z \in DOMAIN parentToChild
                     PROVE  parentToChild[z] \in S
            BY DEF ClosedUnderEdges
        <2> DEFINE n == parentToChild[z]
        <2>1. z \in Token /\ z \in Chain(t) /\ y \in Chain(z) /\ n \in Token
            BY <1>1 DEF TypeOK
        <2>2. n \in Chain(t)
            BY <2>1, ChainClosed DEF ClosedUnderEdges
        <2>3. ClosedUnderEdges({z} \cup Chain(n))
            <3>1. n \in Chain(n) /\ ClosedUnderEdges(Chain(n))
                BY <2>1, ChainStart, ChainClosed
            <3> HIDE DEF n
            <3>2. parentToChild[z] \in Chain(n)
                BY <3>1 DEF n
            <3> QED
                BY <3>1, <3>2 DEF ClosedUnderEdges
        <2>4. {z} \cup Chain(n) \subseteq Token
            BY <2>1 DEF Chain
        <2>5. y \in {z} \cup Chain(n)
            <3> HIDE DEF n
            <3>1. Chain(z) \subseteq {z} \cup Chain(n)
                BY <2>1, <2>3, <2>4, ChainLeast
            <3> QED
                BY <2>1, <3>1
        <2>6. y # z
            BY DEF Live, Revoked
        <2> QED
            BY <2>2, <2>5, <2>6
    <1> HIDE DEF S
    <1>4. x \in S
        BY <1>1, <1>2, <1>3, ChainLeast
    <1>5. y \in Chain(x)
        BY <1>4 DEF S
    <1>6. ClosedUnderEdges({x})
        BY DEF ClosedUnderEdges, Live, Revoked
    <1>7. Chain(x) \subseteq {x}
        BY <1>1, <1>6, ChainLeast
    <1> QED
        BY <1>5, <1>7

\* Where each token stands, case by case.
PositionMeaning ==
    \A t \in Token :
        /\ t \notin minted => Position(t) = Unissued
        /\ t \in minted /\ t \notin DOMAIN refreshTokens => Position(t) = Refused
        /\ Live(t) => Position(t) = t
        /\ Revoked(t) /\ ~InReuseInterval(t) => Position(t) = Refused
        /\ Revoked(t) /\ InReuseInterval(t) =>
               \E y \in Chain(t) : Live(y) /\ Position(t) = y
        /\ Revoked(t) /\ InReuseInterval(t) =>
               \A y \in Chain(t) : Live(y) => Position(t) = y

\* The token a client is served, case by case.
LEMMA PositionMeans == GraceInv => PositionMeaning
    <1> SUFFICES ASSUME GraceInv, NEW t \in Token
                 PROVE  /\ t \notin minted => Position(t) = Unissued
                        /\ t \in minted /\ t \notin DOMAIN refreshTokens => Position(t) = Refused
                        /\ Live(t) => Position(t) = t
                        /\ Revoked(t) /\ ~InReuseInterval(t) => Position(t) = Refused
                        /\ Revoked(t) /\ InReuseInterval(t) =>
                               \E y \in Chain(t) : Live(y) /\ Position(t) = y
                        /\ Revoked(t) /\ InReuseInterval(t) =>
                               \A y \in Chain(t) : Live(y) => Position(t) = y
        BY DEF PositionMeaning
    <1>1. TypeOK /\ ReferentialIntegrity /\ LeafInv
        BY DEF GraceInv, ShapeInv
    <1>2. Live(t) => t \in minted /\ Rotatable(t)
        BY <1>1 DEF Live, Rotatable, TypeOK, ReferentialIntegrity
    <1>3. Revoked(t) => t \in minted /\ ~Rotatable(t)
        BY <1>1 DEF Live, Revoked, Rotatable, TypeOK
    <1>4. Revoked(t) /\ InReuseInterval(t) =>
              Reusable(t) /\ LatestChild(t) \in Chain(t) /\ Live(LatestChild(t))
        BY <1>1, LeafFound DEF LeafInv, Revoked, Reusable, ReferentialIntegrity
    <1>5. \A y \in Chain(t) :
              Revoked(t) /\ InReuseInterval(t) /\ Live(y) => LatestChild(t) = y
        BY <1>1, <1>4, LeafUnique
    <1>6. t \notin DOMAIN refreshTokens => ~Rotatable(t) /\ ~Reusable(t)
        BY DEF Rotatable, Reusable, Live, Revoked
    <1>7. ~InReuseInterval(t) => ~Reusable(t)
        BY DEF Reusable
    <1> QED
        BY <1>2, <1>3, <1>4, <1>5, <1>6, <1>7 DEF Position

\* A step that leaves the tokens, their index and the users of tokens alone, and
\* does not turn the clock back, can only expire replaced tokens.
LEMMA IdlePosition ==
    ASSUME GraceInv, GraceInv', UNCHANGED <<refreshTokens, parentToChild, minted>>, now' >= now,
           NEW x \in Token
    PROVE  \/ Position(x)' = Position(x)
           \/ Position(x) \in Token \ {x} /\ Position(x)' = Refused
    <1>1. PositionMeaning /\ PositionMeaning'
        BY PositionMeans, PTL
    <1>2. Chain(x)' = Chain(x) /\ (Live(x)' <=> Live(x)) /\ (Revoked(x)' <=> Revoked(x))
        BY ChainUnchanged DEF Live, Revoked
    <1>3. CASE x \notin minted \/ x \notin DOMAIN refreshTokens \/ Live(x)
        BY <1>1, <1>2, <1>3 DEF PositionMeaning
    <1>4. CASE Revoked(x) /\ ~InReuseInterval(x)
        <2>1. ~InReuseInterval(x)'
            <3>1. /\ refreshTokens[x].issuedAt \in Int /\ now \in Int /\ now' \in Int
                  /\ ReuseInterval \in Int
                BY <1>4, ReuseIntervalAssumption DEF GraceInv, ShapeInv, TypeOK, TokenRecord, Revoked
            <3> QED
                BY <1>4, <3>1 DEF InReuseInterval
        <2> QED
            BY <1>1, <1>2, <1>4, <2>1 DEF PositionMeaning
    <1>5. CASE Revoked(x) /\ InReuseInterval(x)
        <2>1. PICK y \in Chain(x) : Live(y) /\ Position(x) = y
            BY <1>1, <1>5 DEF PositionMeaning
        <2>2. y \in Token /\ y # x
            BY <1>5, <2>1 DEF Chain, Live, Revoked
        <2>3. y \in Chain(x)' /\ Live(y)' /\ Revoked(x)'
            BY <1>2, <1>5, <2>1 DEF Live
        <2>4. Position(x)' = y \/ Position(x)' = Refused
            BY <1>1, <2>3 DEF PositionMeaning
        <2> QED
            BY <2>1, <2>2, <2>4
    <1> QED
        BY <1>3, <1>4, <1>5 DEF Live, Revoked

\* A token whose session is not touched keeps its position.
LEMMA SamePosition ==
    ASSUME GraceInv, GraceInv', NEW x \in Token, x \in DOMAIN refreshTokens,
           x \in DOMAIN refreshTokens', refreshTokens'[x] = refreshTokens[x], now' = now,
           Chain(x)' = Chain(x), \A y \in Chain(x) : Live(y) => Live(y)'
    PROVE  Position(x)' = Position(x)
    <1>1. PositionMeaning /\ PositionMeaning'
        BY PositionMeans, PTL
    <1>2. (Live(x)' <=> Live(x)) /\ (Revoked(x)' <=> Revoked(x))
          /\ (InReuseInterval(x)' <=> InReuseInterval(x)) /\ (Live(x) \/ Revoked(x))
        BY DEF Live, Revoked, InReuseInterval
    <1>3. CASE Live(x) \/ (Revoked(x) /\ ~InReuseInterval(x))
        BY <1>1, <1>2, <1>3 DEF PositionMeaning
    <1>4. CASE Revoked(x) /\ InReuseInterval(x)
        <2>1. PICK y \in Chain(x) : Live(y) /\ Position(x) = y
            BY <1>1, <1>4 DEF PositionMeaning
        <2>2. y \in Chain(x)' /\ Live(y)' /\ Revoked(x)' /\ InReuseInterval(x)'
            BY <1>2, <1>4, <2>1
        <2> QED
            BY <1>1, <2>1, <2>2 DEF PositionMeaning
    <1> QED
        BY <1>2, <1>3, <1>4

\* A token that was never handed out, or is gone already, keeps its position.
LEMMA AbsentPosition ==
    ASSUME GraceInv, GraceInv', NEW x \in Token, x \notin DOMAIN refreshTokens,
           x \notin DOMAIN refreshTokens', x \in minted' <=> x \in minted
    PROVE  Position(x)' = Position(x) /\ Position(x) \in {Unissued, Refused}
    <1>1. PositionMeaning /\ PositionMeaning'
        BY PositionMeans, PTL
    <1>2. CASE x \in minted
        BY <1>1, <1>2 DEF PositionMeaning
    <1>3. CASE x \notin minted
        <2>1. Position(x) = Unissued
            BY <1>1, <1>3 DEF PositionMeaning
        <2>2. Position(x)' = Unissued
            BY <1>1, <1>3 DEF PositionMeaning
        <2> QED
            BY <2>1, <2>2
    <1> QED
        BY <1>2, <1>3

\* Starting a chain is an Issue of the promise ...
LEMMA IssuePosition ==
    ASSUME GraceInv, GraceInv', NEW u, NEW s, NEW t \in Token, IssueEffect(u, s, t)
    PROVE  /\ Position(t) = Unissued
           /\ \A x \in Token : Position(x)' = IF x = t THEN t ELSE Position(x)
    <1>1. PositionMeaning /\ PositionMeaning'
        BY PositionMeans, PTL
    <1>2. Position(t) = Unissued
        BY <1>1 DEF PositionMeaning, IssueEffect
    <1>3. Position(t)' = t
        <2>1. Live(t)'
            BY DEF IssueEffect, Live, NewToken
        <2> QED
            BY <1>1, <2>1 DEF PositionMeaning
    <1>4. ASSUME NEW x \in Token, x # t PROVE Position(x)' = Position(x)
        <2>1. CASE x \in DOMAIN refreshTokens
            <3>1. Chain(x)' = Chain(x)
                BY <2>1, IssueKeepsChains DEF GraceInv, ShapeInv
            <3>2. \A y \in Chain(x) : Live(y) => Live(y)'
                BY DEF IssueEffect, Live
            <3>3. x \in DOMAIN refreshTokens' /\ refreshTokens'[x] = refreshTokens[x] /\ now' = now
                BY <2>1 DEF IssueEffect
            <3> QED
                BY <2>1, <3>1, <3>2, <3>3, SamePosition
        <2>2. CASE x \notin DOMAIN refreshTokens
            <3>1. x \notin DOMAIN refreshTokens' /\ (x \in minted' <=> x \in minted)
                BY <1>4, <2>2 DEF IssueEffect
            <3> QED
                BY <2>2, <3>1, AbsentPosition
        <2> QED
            BY <2>1, <2>2
    <1> QED
        BY <1>2, <1>3, <1>4

\* ... and a rotation is a Rotate.
LEMMA ConsumePosition ==
    ASSUME GraceInv, GraceInv', NEW t \in DOMAIN refreshTokens, NEW child \in Token,
           ConsumeEffect(t, child)
    PROVE  /\ t \in Token /\ Position(t) = t /\ Position(child) = Unissued
           /\ \A x \in Token :
                  Position(x)' = IF x = child \/ Position(x) = t THEN child ELSE Position(x)
    <1>1. PositionMeaning /\ PositionMeaning' /\ TypeOK
        BY PositionMeans, PTL DEF GraceInv, ShapeInv
    <1>2. t \in Token /\ Position(t) = t /\ Position(child) = Unissued
        BY <1>1 DEF PositionMeaning, ConsumeEffect, TypeOK
    <1>3. Live(child)' /\ Position(child)' = child
        <2>1. Live(child)'
            BY DEF ConsumeEffect, Live, NewToken
        <2> QED
            BY <1>1, <2>1 DEF PositionMeaning
    <1>4. Revoked(t)' /\ InReuseInterval(t)'
        <2>1. /\ now \in Int /\ now' = now /\ ReuseInterval \in Nat
              /\ refreshTokens[t] \in TokenRecord
              /\ refreshTokens'[t] = RevokedAt(refreshTokens[t], now)
              /\ t \in DOMAIN refreshTokens'
            BY <1>1, ReuseIntervalAssumption DEF ConsumeEffect, TypeOK
        <2>2. refreshTokens'[t].revoked /\ refreshTokens'[t].issuedAt = now
            BY <2>1 DEF RevokedAt, TokenRecord
        <2> QED
            BY <2>1, <2>2 DEF Revoked, InReuseInterval
    <1>5. ASSUME NEW x \in Token, x # child
          PROVE  Position(x)' = IF Position(x) = t THEN child ELSE Position(x)
        <2>1. CASE x \notin DOMAIN refreshTokens
            <3>1. x \notin DOMAIN refreshTokens' /\ (x \in minted' <=> x \in minted)
                BY <1>5, <2>1 DEF ConsumeEffect
            <3>2. Position(x)' = Position(x) /\ Position(x) \in {Unissued, Refused}
                BY <2>1, <3>1, AbsentPosition
            <3> QED
                BY <1>2, <3>2, PositionAssumption
        <2>2. CASE x \in DOMAIN refreshTokens
            <3>1. Chain(x)' = IF t \in Chain(x) THEN Chain(x) \cup {child} ELSE Chain(x)
                BY <2>2, ConsumeExtendsChains DEF GraceInv
            <3>2. x \in Chain(x)
                BY ChainStart
            <3>3. CASE x = t
                BY <1>1, <1>2, <1>3, <1>4, <3>1, <3>2, <3>3 DEF PositionMeaning
            <3>4. CASE x # t
                <4>1. /\ x \in DOMAIN refreshTokens' /\ refreshTokens'[x] = refreshTokens[x]
                      /\ now' = now
                    BY <2>2, <3>4 DEF ConsumeEffect
                <4>2. CASE t \in Chain(x) /\ Revoked(x) /\ InReuseInterval(x)
                    <5>1. Live(t)
                        BY DEF ConsumeEffect
                    <5>2. Position(x) = t
                        BY <1>1, <4>2, <5>1 DEF PositionMeaning
                    <5>3. Revoked(x)' /\ InReuseInterval(x)' /\ child \in Chain(x)'
                        BY <3>1, <4>1, <4>2 DEF Revoked, InReuseInterval
                    <5>4. Position(x)' = child
                        BY <1>1, <1>3, <5>3 DEF PositionMeaning
                    <5> QED
                        BY <5>2, <5>4
                <4>3. CASE t \notin Chain(x)
                    <5>1. \A y \in Chain(x) : Live(y) => Live(y)'
                        BY <4>3 DEF ConsumeEffect, Live
                    <5>2. Position(x)' = Position(x)
                        BY <2>2, <3>1, <4>1, <4>3, <5>1, SamePosition
                    <5>3. Position(x) # t
                        <6>1. CASE Live(x)
                            BY <1>1, <3>4, <6>1 DEF PositionMeaning
                        <6>2. CASE Revoked(x) /\ ~InReuseInterval(x)
                            BY <1>1, <1>2, <6>2, PositionAssumption DEF PositionMeaning
                        <6>3. CASE Revoked(x) /\ InReuseInterval(x)
                            BY <1>1, <4>3, <6>3 DEF PositionMeaning
                        <6> QED
                            BY <2>2, <6>1, <6>2, <6>3 DEF Live, Revoked
                    <5> QED
                        BY <5>2, <5>3
                <4>4. CASE Live(x)
                    <5>1. Live(x)'
                        BY <4>1, <4>4 DEF Live
                    <5>2. Position(x) = x /\ Position(x)' = x
                        BY <1>1, <4>4, <5>1 DEF PositionMeaning
                    <5> QED
                        BY <3>4, <5>2
                <4>5. CASE Revoked(x) /\ ~InReuseInterval(x)
                    <5>1. Revoked(x)' /\ ~InReuseInterval(x)'
                        BY <4>1, <4>5 DEF Revoked, InReuseInterval
                    <5>2. Position(x) = Refused /\ Position(x)' = Refused
                        BY <1>1, <4>5, <5>1 DEF PositionMeaning
                    <5> QED
                        BY <1>2, <5>2, PositionAssumption
                <4> QED
                    BY <2>2, <4>2, <4>3, <4>4, <4>5 DEF Live, Revoked
            <3> QED
                BY <3>3, <3>4
        <2> QED
            BY <2>1, <2>2
    <1> QED
        BY <1>2, <1>3, <1>5

\* Ending a session refuses whoever was served one of its live tokens.
LEMMA RevokePosition ==
    ASSUME GraceInv, GraceInv', NEW s, RevokeEffect(s), NEW x \in Token
    PROVE  Position(x)' = IF Position(x) \in {t \in TokensOfSession(s) : Live(t)}
                          THEN Refused ELSE Position(x)
    <1> DEFINE L == {t \in TokensOfSession(s) : Live(t)}
    <1>1. PositionMeaning /\ PositionMeaning' /\ TypeOK /\ ShapeInv /\ TypeOK'
        BY PositionMeans, PTL DEF GraceInv, ShapeInv
    <1>2. L \subseteq Token
        BY <1>1 DEF TokensOfSession, TypeOK
    <1>3. CASE x \notin DOMAIN refreshTokens
        <2>1. x \notin DOMAIN refreshTokens' /\ (x \in minted' <=> x \in minted)
            BY <1>3 DEF RevokeEffect
        <2>2. Position(x)' = Position(x) /\ Position(x) \in {Unissued, Refused}
            BY <1>3, <2>1, AbsentPosition
        <2> HIDE DEF L
        <2> QED
            BY <1>2, <2>2, PositionAssumption DEF L
    <1>4. CASE x \in DOMAIN refreshTokens /\ refreshTokens[x].session # s
        <2>1. Chain(x)' = Chain(x)
            BY <1>1, <1>4, RevokeKeepsChains
        <2>2. \A y \in Chain(x) : y \in DOMAIN refreshTokens /\ refreshTokens[y].session # s
            BY <1>1, <1>4, ChainInSession
        <2>3. \A y \in Chain(x) : Live(y) => Live(y)'
            BY <2>2 DEF RevokeEffect, Live
        <2>4. x \in DOMAIN refreshTokens' /\ refreshTokens'[x] = refreshTokens[x] /\ now' = now
            BY <1>4 DEF RevokeEffect
        <2>5. Position(x)' = Position(x)
            BY <1>4, <2>1, <2>3, <2>4, SamePosition
        <2>6. Position(x) = Refused \/ Position(x) \in Chain(x)
            <3>1. x \in Chain(x)
                BY ChainStart
            <3> QED
                BY <1>1, <1>4, <3>1 DEF PositionMeaning, Live, Revoked
        <2>7. Position(x) \notin L
            BY <1>2, <2>2, <2>6, PositionAssumption DEF TokensOfSession
        <2> QED
            BY <2>5, <2>7
    <1>5. CASE x \in DOMAIN refreshTokens /\ refreshTokens[x].session = s
        <2>1. Revoked(x)' /\ ~InReuseInterval(x)'
            <3>1. /\ refreshTokens[x] \in TokenRecord /\ now \in Int /\ ReuseInterval \in Int
                  /\ refreshTokens'[x] = RevokedAt(refreshTokens[x], now - (ReuseInterval + 1))
                  /\ now' = now /\ x \in DOMAIN refreshTokens'
                BY <1>1, <1>5, ReuseIntervalAssumption DEF RevokeEffect, TypeOK
            <3>2. refreshTokens'[x].revoked /\ refreshTokens'[x].issuedAt = now - (ReuseInterval + 1)
                BY <3>1 DEF RevokedAt, TokenRecord
            <3> QED
                BY <3>1, <3>2 DEF Revoked, InReuseInterval
        <2>2. Position(x)' = Refused
            BY <1>1, <2>1 DEF PositionMeaning
        <2>3. Position(x) = Refused \/ Position(x) \in L
            <3>1. CASE Live(x)
                BY <1>1, <1>5, <3>1 DEF PositionMeaning, TokensOfSession
            <3>2. CASE Revoked(x) /\ ~InReuseInterval(x)
                BY <1>1, <3>2 DEF PositionMeaning
            <3>3. CASE Revoked(x) /\ InReuseInterval(x)
                <4>1. PICK y \in Chain(x) : Live(y) /\ Position(x) = y
                    BY <1>1, <3>3 DEF PositionMeaning
                <4>2. y \in DOMAIN refreshTokens /\ refreshTokens[y].session = s
                    BY <1>1, <1>5, <4>1, ChainInSession
                <4> QED
                    BY <4>1, <4>2 DEF TokensOfSession
            <3> QED
                BY <1>5, <3>1, <3>2, <3>3 DEF Live, Revoked
        <2> QED
            BY <2>2, <2>3
    <1> QED
        BY <1>3, <1>4, <1>5

\* Deleting a user refuses whoever was served one of the user's live tokens.
LEMMA DeleteUserPosition ==
    ASSUME GraceInv, GraceInv', NEW u, DeleteUserEffect(u), NEW x \in Token
    PROVE  Position(x)' = IF Position(x) \in {t \in TokensOfUser(u) : Live(t)}
                          THEN Refused ELSE Position(x)
    <1> DEFINE L == {t \in TokensOfUser(u) : Live(t)}
    <1>1. PositionMeaning /\ PositionMeaning' /\ TypeOK /\ ShapeInv /\ TypeOK' /\ ReferentialIntegrity
        BY PositionMeans, PTL DEF GraceInv, ShapeInv
    <1>2. L \subseteq Token
        BY <1>1 DEF TokensOfUser, TypeOK
    <1>3. CASE x \notin DOMAIN refreshTokens
        <2>1. x \notin DOMAIN refreshTokens' /\ (x \in minted' <=> x \in minted)
            BY <1>3 DEF DeleteUserEffect
        <2>2. Position(x)' = Position(x) /\ Position(x) \in {Unissued, Refused}
            BY <1>3, <2>1, AbsentPosition
        <2> HIDE DEF L
        <2> QED
            BY <1>2, <2>2, PositionAssumption DEF L
    <1>4. ASSUME x \in DOMAIN refreshTokens, NEW y \in Chain(x)
          PROVE  y \in DOMAIN refreshTokens /\ refreshTokens[y].user = refreshTokens[x].user
        <2>1. y \in DOMAIN refreshTokens /\ refreshTokens[y].session = refreshTokens[x].session
            BY <1>1, <1>4, ChainInSession
        <2> QED
            BY <1>1, <1>4, <2>1 DEF ReferentialIntegrity
    <1>5. CASE x \in DOMAIN refreshTokens /\ refreshTokens[x].user # u
        <2>1. x \in DOMAIN refreshTokens' /\ refreshTokens'[x] = refreshTokens[x] /\ now' = now
            BY <1>5 DEF DeleteUserEffect
        <2>2. Chain(x)' = Chain(x)
            BY <1>1, <2>1, DeleteUserKeepsChains
        <2>3. \A y \in Chain(x) : Live(y) => Live(y)'
            BY <1>4, <1>5 DEF DeleteUserEffect, Live
        <2>4. Position(x)' = Position(x)
            BY <1>5, <2>1, <2>2, <2>3, SamePosition
        <2>5. Position(x) = Refused \/ Position(x) \in Chain(x)
            <3>1. x \in Chain(x)
                BY ChainStart
            <3> QED
                BY <1>1, <1>5, <3>1 DEF PositionMeaning, Live, Revoked
        <2>6. Position(x) \notin L
            BY <1>2, <1>4, <1>5, <2>5, PositionAssumption DEF TokensOfUser
        <2> QED
            BY <2>4, <2>6
    <1>6. CASE x \in DOMAIN refreshTokens /\ refreshTokens[x].user = u
        <2>1. x \in minted' /\ x \notin DOMAIN refreshTokens'
            BY <1>1, <1>6 DEF DeleteUserEffect, TypeOK
        <2>2. Position(x)' = Refused
            BY <1>1, <2>1 DEF PositionMeaning
        <2>3. Position(x) = Refused \/ Position(x) \in L
            <3>1. CASE Live(x)
                BY <1>1, <1>6, <3>1 DEF PositionMeaning, TokensOfUser
            <3>2. CASE Revoked(x) /\ ~InReuseInterval(x)
                BY <1>1, <3>2 DEF PositionMeaning
            <3>3. CASE Revoked(x) /\ InReuseInterval(x)
                <4>1. PICK y \in Chain(x) : Live(y) /\ Position(x) = y
                    BY <1>1, <3>3 DEF PositionMeaning
                <4> QED
                    BY <1>4, <1>6, <4>1 DEF TokensOfUser
            <3> QED
                BY <1>6, <3>1, <3>2, <3>3 DEF Live, Revoked
        <2> QED
            BY <2>2, <2>3
    <1> QED
        BY <1>3, <1>5, <1>6

\* Every step of the store is a step of the promise, or leaves it alone.
LEMMA PromiseStep ==
    ASSUME GraceInv, GraceInv', [Next]_vars
    PROVE  [Promise!Next]_([t \in Token |-> Position(t)])
    <1> DEFINE leaf == [t \in Token |-> Position(t)]
               Goal == Promise!Next \/ leaf' = leaf
    <1>1. PositionMeaning /\ PositionMeaning' /\ TypeOK /\ TypeOK' /\ ShapeInv
        BY PositionMeans, PTL DEF GraceInv, ShapeInv
    <1>2. ASSUME UNCHANGED <<refreshTokens, parentToChild, minted>>, now' >= now PROVE Promise!Next
        <2> DEFINE E == {x \in Token : Position(x) \in Token \ {x} /\ Position(x)' = Refused}
        <2>1. \A x \in Token : Position(x)' = IF x \in E THEN Refused ELSE Position(x)
            BY <1>2, IdlePosition
        <2>2. Promise!Expire(E)
            BY <2>1 DEF Promise!Expire
        <2>3. E \in SUBSET Token
            OBVIOUS
        <2> HIDE DEF E
        <2> QED
            BY <2>2, <2>3 DEF Promise!Next
    <1>3. ASSUME NEW u, NEW s, NEW t \in Token, IssueEffect(u, s, t) PROVE Promise!Next
        <2>1. /\ Position(t) = Unissued
              /\ \A x \in Token : Position(x)' = IF x = t THEN t ELSE Position(x)
            BY <1>3, IssuePosition
        <2>2. Promise!Issue(t)
            BY <2>1 DEF Promise!Issue
        <2> QED
            BY <2>2 DEF Promise!Next
    <1>4. ASSUME NEW L \in SUBSET Token, \A t \in L : Live(t),
                 \A x \in Token : Position(x)' = IF Position(x) \in L THEN Refused ELSE Position(x)
          PROVE  Promise!Next
        <2>1. L \subseteq Promise!Current
            BY <1>1, <1>4 DEF Promise!Current, PositionMeaning
        <2>2. Promise!Revoke(L)
            BY <1>4 DEF Promise!Revoke
        <2> QED
            BY <2>1, <2>2 DEF Promise!Next
    <1>5. now' = now => now' >= now
        BY <1>1 DEF TypeOK
    <1>6. CASE Tick
        <2>1. now' >= now
            BY <1>1, <1>6 DEF Tick, TypeOK
        <2> QED
            BY <1>2, <1>6, <2>1 DEF Tick
    <1>7. CASE Reset
        <2> DEFINE L == {t \in Token : Live(t)}
        <2>1. /\ DOMAIN refreshTokens' = {}
              /\ minted' = minted
            BY <1>7 DEF EmptyMap, Reset
        <2>2. ASSUME NEW x \in Token
              PROVE  Position(x)' = IF Position(x) \in L THEN Refused ELSE Position(x)
            <3>1. CASE x \notin minted
                BY <1>1, <2>1, <3>1, PositionAssumption DEF PositionMeaning
            <3>2. CASE x \in minted
                <4>1. Position(x)' = Refused
                    BY <1>1, <2>1, <3>2 DEF PositionMeaning
                <4>2. Position(x) = Refused \/ Position(x) \in L
                    BY <1>1, <3>2 DEF PositionMeaning, Chain, Live, Revoked
                <4> QED
                    BY <4>1, <4>2
            <3> QED
                BY <3>1, <3>2
        <2>3. L \in SUBSET Token /\ \A t \in L : Live(t)
            OBVIOUS
        <2> HIDE DEF L
        <2> QED
            BY <1>4, <2>2, <2>3
    <1>8. ASSUME NEW u \in User, NewUser(u) PROVE Promise!Next
        BY <1>2, <1>5, <1>8 DEF NewUser
    <1>9. ASSUME NEW u \in User, DeleteUser(u) PROVE Promise!Next
        <2> DEFINE L == {t \in TokensOfUser(u) : Live(t)}
        <2>1. L \in SUBSET Token /\ \A t \in L : Live(t)
            BY <1>1 DEF TokensOfUser, TypeOK
        <2>2. \A x \in Token : Position(x)' = IF Position(x) \in L THEN Refused ELSE Position(x)
            BY <1>1, <1>9, DeleteUserStep, DeleteUserPosition
        <2> HIDE DEF L
        <2> QED
            BY <1>4, <2>1, <2>2
    <1>10. ASSUME NEW u \in User, NEW method \in Method, NEW s \in Session, NEW t \in Token,
                  IssueSessionWithMethod(u, method, s, t)
           PROVE  Promise!Next
        BY <1>1, <1>3, <1>10, IssueSessionStep
    <1>11. ASSUME NEW s \in DOMAIN owner, NEW t \in Token, IssueRefreshToken(owner[s], s, t)
           PROVE  Promise!Next
        BY <1>1, <1>3, <1>11, IssueTokenStep
    <1>12. ASSUME NEW t \in DOMAIN refreshTokens, NEW child \in Token, ConsumeRefreshToken(t, child)
           PROVE  Promise!Next
        <2>1. /\ t \in Token /\ Position(t) = t /\ Position(child) = Unissued
              /\ \A x \in Token :
                     Position(x)' = IF x = child \/ Position(x) = t THEN child ELSE Position(x)
            BY <1>1, <1>12, ConsumeStep, ConsumePosition
        <2>2. Promise!Rotate(t, child)
            BY <2>1 DEF Promise!Rotate
        <2> QED
            BY <2>1, <2>2 DEF Promise!Next
    <1>13. ASSUME NEW s \in DOMAIN owner, RevokeRefreshTokensBySession(s) PROVE Promise!Next
        <2> DEFINE L == {t \in TokensOfSession(s) : Live(t)}
        <2>1. L \in SUBSET Token /\ \A t \in L : Live(t)
            BY <1>1 DEF TokensOfSession, TypeOK
        <2>2. \A x \in Token : Position(x)' = IF Position(x) \in L THEN Refused ELSE Position(x)
            BY <1>1, <1>13, RevokeStep, RevokePosition
        <2> HIDE DEF L
        <2> QED
            BY <1>4, <2>1, <2>2
    <1>14. ASSUME NEW s \in DOMAIN owner, NEW method \in Method, UpgradeSessionAAL(s, method)
           PROVE  Promise!Next
        BY <1>2, <1>5, <1>14 DEF UpgradeSessionAAL
    <1>15. CASE UNCHANGED vars
        BY <1>2, <1>5, <1>15 DEF vars
    <1> QED
        BY <1>6, <1>7, <1>8, <1>9, <1>10, <1>11, <1>12, <1>13, <1>14, <1>15, NextCases

\* The store keeps the promise of TokenForwarding: whatever the interleaving of
\* logins, rotations, retries, logouts and deletions, a token that is accepted
\* stands for the newest token of its family.
THEOREM StoreForwards == Spec => ForwardsToNewest
    <1>1. Init => Promise!Init
        <2> SUFFICES ASSUME Init PROVE Promise!Init
            OBVIOUS
        <2>1. \A t \in Token : Position(t) = Unissued
            BY DEF Init, Position
        <2> QED
            BY <2>1 DEF Promise!Init
    <1>2. GraceInv /\ GraceInv' /\ [Next]_vars => [Promise!Next]_([t \in Token |-> Position(t)])
        BY PromiseStep
    <1> QED
        BY <1>1, <1>2, GraceInvariant, PTL DEF Spec, ForwardsToNewest, Promise!Spec

=============================================================================
