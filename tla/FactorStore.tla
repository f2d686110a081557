---------------------------- MODULE FactorStore ----------------------------
(***************************************************************************)
(* MFA factors and their challenges in the auth store                      *)
(* (src/internal/auth/store/factor.go, and the cascade of user.go).  As in *)
(* RefreshStore one method of store.Store is one action, because every     *)
(* method holds the store's mutex for its whole body.                      *)
(***************************************************************************)
EXTENDS Integers, GoMap

CONSTANTS
    User,           \* user ids
    Factor,         \* factor ids (uuids)
    Challenge,      \* challenge ids (uuids)
    Name,           \* friendly names
    NoName,         \* the empty friendly name
    ChallengeTTL,   \* challengeTTL, in ticks
    MaxTime         \* bound on the clock

ASSUME NoNameAssumption == NoName \notin Name

ASSUME ChallengeTTLAssumption == ChallengeTTL \in Nat

ASSUME ClockAssumption == MaxTime \in Nat

VARIABLES
    account,        \* users: "live" iff the users map holds the id
    factors,        \* factors map
    challenges,     \* challenges map
    now,            \* the store's clock, in ticks
    enrolled,       \* history: factor ids ever handed out
    challenged      \* history: challenge id -> factor, for every challenge ever made

vars == <<account, factors, challenges, now, enrolled, challenged>>

FactorRecord == [user : User, name : Name \cup {NoName}, status : {"unverified", "verified"}]

ChallengeRecord == [factor : Factor, expiresAt : Int]

-----------------------------------------------------------------------------
UserExists(u) == account[u] = "live"

\* Variant with a bug: names of unverified factors do not count.
NameTaken_VerifiedOnly(u, name) ==
    /\ name # NoName
    /\ \E f \in DOMAIN factors :
           factors[f].user = u /\ factors[f].name = name /\ factors[f].status = "verified"

\* A friendly name is taken once per user; any number of factors have none.
NameTaken(u, name) ==
    /\ name # NoName
    /\ \E f \in DOMAIN factors : factors[f].user = u /\ factors[f].name = name

\* What ConsumeChallenge returns.  The mismatch is tested before the expiry.
Found(f, c) == c \in DOMAIN challenges /\ challenges[c].factor = f

Expired(c) == now > challenges[c].expiresAt

Answer(f, c) ==
    IF ~Found(f, c) THEN "not found" ELSE IF Expired(c) THEN "expired" ELSE "consumed"

ChallengesOf(fs) == {c \in DOMAIN challenges : challenges[c].factor \in fs}

FactorsOfUser(u) == {f \in DOMAIN factors : factors[f].user = u}

-----------------------------------------------------------------------------
Init ==
    /\ account = [u \in User |-> "unborn"]
    /\ factors = EmptyMap
    /\ challenges = EmptyMap
    /\ now = 0
    /\ enrolled = {}
    /\ challenged = EmptyMap

Tick ==
    /\ now < MaxTime
    /\ now' = now + 1
    /\ UNCHANGED <<account, factors, challenges, enrolled, challenged>>

NewUser(u) ==
    /\ account[u] = "unborn"
    /\ account' = [account EXCEPT ![u] = "live"]
    /\ UNCHANGED <<factors, challenges, now, enrolled, challenged>>

EnrollFactor(u, name, f) ==
    /\ UserExists(u)
    /\ ~NameTaken(u, name)
    /\ f \notin enrolled
    /\ factors' = Put(factors, f, [user |-> u, name |-> name, status |-> "unverified"])
    /\ enrolled' = enrolled \cup {f}
    /\ UNCHANGED <<account, challenges, now, challenged>>

\* Also for a factor that is verified already (re-authentication).
VerifyFactor(f) ==
    /\ f \in DOMAIN factors
    /\ factors' = [factors EXCEPT ![f].status = "verified"]
    /\ UNCHANGED <<account, challenges, now, enrolled, challenged>>

\* Variant with a bug: the id of the challenge is stored for that of the factor.
CreateChallenge_SwappedIds(f, c) ==
    /\ f \in DOMAIN factors
    /\ c \notin DOMAIN challenged
    /\ challenges' = Put(challenges, c, [factor |-> c, expiresAt |-> now + ChallengeTTL])
    /\ challenged' = Put(challenged, c, f)
    /\ UNCHANGED <<account, factors, now, enrolled>>

CreateChallenge(f, c) ==
    /\ f \in DOMAIN factors
    /\ c \notin DOMAIN challenged
    /\ challenges' = Put(challenges, c, [factor |-> f, expiresAt |-> now + ChallengeTTL])
    /\ challenged' = Put(challenged, c, f)
    /\ UNCHANGED <<account, factors, now, enrolled>>

\* Variant with a bug: an expired challenge is renewed for another try.
ConsumeChallenge_ExpiredRenewed(f, c) ==
    /\ Found(f, c)
    /\ challenges' = IF Expired(c)
                     THEN [challenges EXCEPT ![c].expiresAt = now + ChallengeTTL]
                     ELSE Delete(challenges, {c})
    /\ UNCHANGED <<account, factors, now, enrolled, challenged>>

\* Variant with a bug: only an expired challenge is removed.
ConsumeChallenge_KeptWhenMet(f, c) ==
    /\ Found(f, c)
    /\ challenges' = IF Expired(c) THEN Delete(challenges, {c}) ELSE challenges
    /\ UNCHANGED <<account, factors, now, enrolled, challenged>>

\* An expired challenge is removed as well; only the answer differs.
ConsumeChallenge(f, c) ==
    /\ Found(f, c)
    /\ challenges' = Delete(challenges, {c})
    /\ UNCHANGED <<account, factors, now, enrolled, challenged>>

\* Variant with a bug: the challenges of the factors stay.
deleteFactorsLocked_ChallengesKept(fs) ==
    /\ factors' = Delete(factors, fs)
    /\ UNCHANGED challenges

\* deleteFactorLocked for each factor of a set: the factor and its challenges.
deleteFactorsLocked(fs) ==
    /\ factors' = Delete(factors, fs)
    /\ challenges' = Delete(challenges, ChallengesOf(fs))

DeleteFactor(u, f) ==
    /\ f \in FactorsOfUser(u)
    /\ deleteFactorsLocked({f})
    /\ UNCHANGED <<account, now, enrolled, challenged>>

DeleteUser(u) ==
    /\ UserExists(u)
    /\ account' = [account EXCEPT ![u] = "deleted"]
    /\ deleteFactorsLocked(FactorsOfUser(u))
    /\ UNCHANGED <<now, enrolled, challenged>>

Reset ==
    /\ account' = [u \in User |-> IF UserExists(u) THEN "deleted" ELSE account[u]]
    /\ factors' = EmptyMap
    /\ challenges' = EmptyMap
    /\ UNCHANGED <<now, enrolled, challenged>>

Next ==
    \/ Tick
    \/ Reset
    \/ \E u \in User : NewUser(u) \/ DeleteUser(u)
    \/ \E u \in User, name \in Name \cup {NoName}, f \in Fresh(Factor \ enrolled) :
           EnrollFactor(u, name, f)
    \/ \E f \in DOMAIN factors : VerifyFactor(f)
    \/ \E f \in DOMAIN factors, c \in Fresh(Challenge \ DOMAIN challenged) : CreateChallenge(f, c)
    \/ \E f \in Factor, c \in DOMAIN challenges : ConsumeChallenge(f, c)
    \/ \E u \in User, f \in DOMAIN factors : DeleteFactor(u, f)

Spec == Init /\ [][Next]_vars

-----------------------------------------------------------------------------
(***************************************************************************)
(* Properties.                                                             *)
(***************************************************************************)

\* Every variable has its type, and the maps hold only ids handed out before.
TypeOK ==
    /\ account \in [User -> {"unborn", "live", "deleted"}]
    /\ factors \in [DOMAIN factors -> FactorRecord]
    /\ enrolled \subseteq Factor /\ DOMAIN factors \subseteq enrolled
    /\ challenged \in [DOMAIN challenged -> Factor] /\ DOMAIN challenged \subseteq Challenge
    /\ challenges \in [DOMAIN challenges -> ChallengeRecord]
    /\ DOMAIN challenges \subseteq DOMAIN challenged
    /\ now \in Nat

\* The cascades leave nothing behind: a factor's user and a challenge's factor
\* are stored, whatever was deleted while challenges were outstanding.
NoOrphans ==
    /\ \A f \in DOMAIN factors : UserExists(factors[f].user)
    /\ \A c \in DOMAIN challenges : challenges[c].factor \in DOMAIN factors

\* Two factors of one user never share a friendly name (EnrollFactor), so that
\* a client may take the name for a key.
NamesDistinct ==
    \A f, g \in DOMAIN factors :
        factors[f].user = factors[g].user /\ factors[f].name = factors[g].name
        /\ factors[f].name # NoName => f = g

\* A challenge serves one factor and one call: once ConsumeChallenge would not
\* accept it (used, expired or cascaded away) it never accepts it again.
SpentForever ==
    [][\A c \in DOMAIN challenged, f \in Factor :
          Answer(f, c) # "consumed" => Answer(f, c)' # "consumed"]_vars

\* What the comment in ConsumeChallenge says of an expired challenge: "later
\* calls surface expired explicitly rather than degrading to not-found", as long
\* as its factor is there.
ExpirySurfaces ==
    [][\A c \in DOMAIN challenged, f \in DOMAIN factors :
          Answer(f, c) = "expired" /\ f \in DOMAIN factors' => Answer(f, c)' = "expired"]_vars

=============================================================================
