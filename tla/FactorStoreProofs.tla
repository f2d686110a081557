------------------------- MODULE FactorStoreProofs -------------------------
(***************************************************************************)
(* Proofs about FactorStore, for every set of users, factors, challenges   *)
(* and names and every lifetime of a challenge.                            *)
(***************************************************************************)
EXTENDS FactorStore, TLAPS

\* The steps of the store with their arguments typed; Fresh is only a choice of
\* an unused id.
LEMMA NextCases ==
    ASSUME Next
    PROVE  \/ Tick
           \/ Reset
           \/ \E u \in User : NewUser(u)
           \/ \E u \in User : DeleteUser(u)
           \/ \E u \in User, name \in Name \cup {NoName}, f \in Factor : EnrollFactor(u, name, f)
           \/ \E f \in DOMAIN factors : VerifyFactor(f)
           \/ \E f \in DOMAIN factors, c \in Challenge : CreateChallenge(f, c)
           \/ \E f \in Factor, c \in DOMAIN challenges : ConsumeChallenge(f, c)
           \/ \E u \in User, f \in DOMAIN factors : DeleteFactor(u, f)
    <1>1. Fresh(Factor \ enrolled) \subseteq Factor
        BY DEF Fresh
    <1>2. Fresh(Challenge \ DOMAIN challenged) \subseteq Challenge
        BY DEF Fresh
    <1> QED
        BY <1>1, <1>2 DEF Next

-----------------------------------------------------------------------------
\* deleteFactorLocked removes the factors it is given and their challenges, and
\* touches no other entry of either map.
LEMMA CascadeEffect ==
    ASSUME NEW fs, deleteFactorsLocked(fs)
    PROVE  /\ DOMAIN factors' = DOMAIN factors \ fs
           /\ \A f \in DOMAIN factors' : factors'[f] = factors[f]
           /\ DOMAIN challenges' = DOMAIN challenges \ ChallengesOf(fs)
           /\ \A c \in DOMAIN challenges' : challenges'[c] = challenges[c]
    BY DEF deleteFactorsLocked, Delete, Restrict

\* The cascade keeps both maps well typed.
LEMMA CascadeType ==
    ASSUME TypeOK, NEW fs, deleteFactorsLocked(fs)
    PROVE  /\ factors' \in [DOMAIN factors' -> FactorRecord]
           /\ challenges' \in [DOMAIN challenges' -> ChallengeRecord]
    BY DEF Delete, Restrict, deleteFactorsLocked, TypeOK

\* Every step keeps the types.
LEMMA TypeStep ==
    ASSUME TypeOK, [Next]_vars
    PROVE  TypeOK'
    <1> USE DEF TypeOK
    <1>1. CASE Tick
        BY <1>1 DEF Tick
    <1>2. CASE Reset
        <2>1. account' \in [User -> {"unborn", "live", "deleted"}]
            BY <1>2 DEF Reset
        <2> QED
            BY <1>2, <2>1 DEF EmptyMap, Reset
    <1>3. ASSUME NEW u \in User, NewUser(u) PROVE TypeOK'
        BY <1>3 DEF NewUser
    <1>4. ASSUME NEW u \in User, DeleteUser(u) PROVE TypeOK'
        BY <1>4, CascadeEffect, CascadeType DEF DeleteUser
    <1>5. ASSUME NEW u \in User, NEW name \in Name \cup {NoName}, NEW f \in Factor,
                 EnrollFactor(u, name, f)
          PROVE  TypeOK'
        <2>1. [user |-> u, name |-> name, status |-> "unverified"] \in FactorRecord
            BY DEF FactorRecord
        <2>2. factors' \in [DOMAIN factors' -> FactorRecord]
              /\ DOMAIN factors' = DOMAIN factors \cup {f}
            BY <1>5, <2>1 DEF Put, EnrollFactor
        <2> QED
            BY <1>5, <2>2 DEF EnrollFactor
    <1>6. ASSUME NEW f \in DOMAIN factors, VerifyFactor(f) PROVE TypeOK'
        <2>1. factors' \in [DOMAIN factors -> FactorRecord]
            BY <1>6 DEF VerifyFactor, FactorRecord
        <2> QED
            BY <1>6, <2>1 DEF VerifyFactor
    <1>7. ASSUME NEW f \in DOMAIN factors, NEW c \in Challenge, CreateChallenge(f, c)
          PROVE  TypeOK'
        <2>1. [factor |-> f, expiresAt |-> now + ChallengeTTL] \in ChallengeRecord
            BY ChallengeTTLAssumption DEF ChallengeRecord
        <2>2. challenges' \in [DOMAIN challenges' -> ChallengeRecord]
              /\ DOMAIN challenges' = DOMAIN challenges \cup {c}
            BY <1>7, <2>1 DEF Put, CreateChallenge
        <2>3. challenged' \in [DOMAIN challenged' -> Factor]
              /\ DOMAIN challenged' = DOMAIN challenged \cup {c}
            BY <1>7 DEF Put, CreateChallenge
        <2> QED
            BY <1>7, <2>2, <2>3 DEF CreateChallenge
    <1>8. ASSUME NEW f \in Factor, NEW c \in DOMAIN challenges, ConsumeChallenge(f, c)
          PROVE  TypeOK'
        BY <1>8 DEF Delete, Restrict, ConsumeChallenge
    <1>9. ASSUME NEW u \in User, NEW f \in DOMAIN factors, DeleteFactor(u, f) PROVE TypeOK'
        BY <1>9, CascadeEffect, CascadeType DEF DeleteFactor
    <1>10. CASE UNCHANGED vars
        BY <1>10 DEF vars
    <1> QED
        BY <1>1, <1>2, <1>3, <1>4, <1>5, <1>6, <1>7, <1>8, <1>9, <1>10, NextCases

\* Every variable keeps its type, and the maps only ever hold ids that were
\* handed out.
THEOREM TypeCorrect == Spec => []TypeOK
    <1>1. Init => TypeOK
        BY DEF EmptyMap, Init, TypeOK
    <1> QED
        BY <1>1, TypeStep, PTL DEF Spec

-----------------------------------------------------------------------------
\* The cascade of a set of factors leaves no challenge of a factor that is gone,
\* and the users of the remaining factors stored as long as it takes all factors
\* of a user that goes.
LEMMA CascadeKeepsNoOrphans ==
    ASSUME NoOrphans, NEW fs, deleteFactorsLocked(fs),
           \A f \in DOMAIN factors \ fs : account'[factors[f].user] = "live"
    PROVE  NoOrphans'
    <1>1. ASSUME NEW f \in DOMAIN factors' PROVE account'[factors'[f].user] = "live"
        <2>1. f \in DOMAIN factors \ fs /\ factors'[f] = factors[f]
            BY <1>1, CascadeEffect
        <2> QED
            BY <2>1
    <1>2. ASSUME NEW c \in DOMAIN challenges' PROVE challenges'[c].factor \in DOMAIN factors'
        <2>1. c \in DOMAIN challenges \ ChallengesOf(fs) /\ challenges'[c] = challenges[c]
            BY <1>2, CascadeEffect
        <2>2. challenges[c].factor \in DOMAIN factors \ fs
            BY <2>1 DEF NoOrphans, ChallengesOf
        <2> QED
            BY <2>1, <2>2, CascadeEffect
    <1> QED
        BY <1>1, <1>2 DEF NoOrphans, UserExists

\* Every step keeps factors with their user and challenges with their factor.
LEMMA NoOrphansStep ==
    ASSUME TypeOK, NoOrphans, [Next]_vars
    PROVE  NoOrphans'
    <1>1. CASE Tick
        BY <1>1 DEF Tick, NoOrphans, UserExists
    <1>2. CASE Reset
        BY <1>2 DEF EmptyMap, Reset, NoOrphans
    <1>3. ASSUME NEW u \in User, NewUser(u) PROVE NoOrphans'
        BY <1>3 DEF NewUser, NoOrphans, UserExists, TypeOK, FactorRecord
    <1>4. ASSUME NEW u \in User, DeleteUser(u) PROVE NoOrphans'
        <2>1. ASSUME NEW f \in DOMAIN factors \ FactorsOfUser(u)
              PROVE  account'[factors[f].user] = "live"
            <3>1. factors[f].user # u /\ factors[f].user \in User
                BY DEF FactorsOfUser, TypeOK, FactorRecord
            <3> QED
                BY <1>4, <3>1 DEF DeleteUser, NoOrphans, UserExists, TypeOK
        <2> QED
            BY <1>4, <2>1, CascadeKeepsNoOrphans DEF DeleteUser
    <1>5. ASSUME NEW u \in User, NEW name \in Name \cup {NoName}, NEW f \in Factor,
                 EnrollFactor(u, name, f)
          PROVE  NoOrphans'
        <2>1. DOMAIN factors' = DOMAIN factors \cup {f}
            BY <1>5 DEF Put, EnrollFactor
        <2>2. \A g \in DOMAIN factors' : factors'[g].user = IF g = f THEN u ELSE factors[g].user
            BY <1>5 DEF EnrollFactor, Put
        <2> QED
            BY <1>5, <2>1, <2>2 DEF EnrollFactor, NoOrphans, UserExists
    <1>6. ASSUME NEW f \in DOMAIN factors, VerifyFactor(f) PROVE NoOrphans'
        <2>1. DOMAIN factors' = DOMAIN factors
              /\ \A g \in DOMAIN factors' : factors'[g].user = factors[g].user
            BY <1>6 DEF VerifyFactor, TypeOK, FactorRecord
        <2> QED
            BY <1>6, <2>1 DEF VerifyFactor, NoOrphans, UserExists
    <1>7. ASSUME NEW f \in DOMAIN factors, NEW c \in Challenge, CreateChallenge(f, c)
          PROVE  NoOrphans'
        <2>1. \A d \in DOMAIN challenges' :
                  challenges'[d].factor = IF d = c THEN f ELSE challenges[d].factor
            BY <1>7 DEF CreateChallenge, Put
        <2>2. DOMAIN challenges' = DOMAIN challenges \cup {c}
            BY <1>7 DEF Put, CreateChallenge
        <2> QED
            BY <1>7, <2>1, <2>2 DEF CreateChallenge, NoOrphans, UserExists
    <1>8. ASSUME NEW f \in Factor, NEW c \in DOMAIN challenges, ConsumeChallenge(f, c)
          PROVE  NoOrphans'
        <2>1. /\ DOMAIN challenges' \subseteq DOMAIN challenges
              /\ \A d \in DOMAIN challenges' : challenges'[d] = challenges[d]
            BY <1>8 DEF ConsumeChallenge, Delete, Restrict
        <2> QED
            BY <1>8, <2>1 DEF ConsumeChallenge, NoOrphans, UserExists
    <1>9. ASSUME NEW u \in User, NEW f \in DOMAIN factors, DeleteFactor(u, f) PROVE NoOrphans'
        <2>1. \A g \in DOMAIN factors \ {f} : account'[factors[g].user] = "live"
            BY <1>9 DEF DeleteFactor, NoOrphans, UserExists
        <2> QED
            BY <1>9, <2>1, CascadeKeepsNoOrphans DEF DeleteFactor
    <1>10. CASE UNCHANGED vars
        BY <1>10 DEF vars, NoOrphans, UserExists
    <1> QED
        BY <1>1, <1>2, <1>3, <1>4, <1>5, <1>6, <1>7, <1>8, <1>9, <1>10, NextCases

\* The cascades of DeleteFactor and DeleteUser leave nothing behind: a factor's
\* user and a challenge's factor are always stored.
THEOREM CascadesComplete == Spec => []NoOrphans
    <1>1. Init => NoOrphans
        BY DEF EmptyMap, Init, NoOrphans
    <1> QED
        BY <1>1, TypeCorrect, NoOrphansStep, PTL DEF Spec

-----------------------------------------------------------------------------
\* Of a factor that is there before and after a step the user and the name are
\* as they were; a factor that appears is one that was enrolled.
LEMMA NamesKept ==
    ASSUME TypeOK, [Next]_vars
    PROVE  \/ \A g \in DOMAIN factors' :
                  /\ g \in DOMAIN factors
                  /\ factors'[g].user = factors[g].user
                  /\ factors'[g].name = factors[g].name
           \/ \E u \in User, name \in Name \cup {NoName}, f \in Factor : EnrollFactor(u, name, f)
    <1> DEFINE Kept == \A g \in DOMAIN factors' :
                           /\ g \in DOMAIN factors
                           /\ factors'[g].user = factors[g].user
                           /\ factors'[g].name = factors[g].name
    <1>1. CASE Reset
        BY <1>1 DEF EmptyMap, Reset
    <1>2. ASSUME NEW u \in User, DeleteUser(u) PROVE Kept
        BY <1>2, CascadeEffect DEF DeleteUser
    <1>3. ASSUME NEW u \in User, NEW f \in DOMAIN factors, DeleteFactor(u, f) PROVE Kept
        BY <1>3, CascadeEffect DEF DeleteFactor
    <1>4. ASSUME NEW f \in DOMAIN factors, VerifyFactor(f) PROVE Kept
        BY <1>4 DEF VerifyFactor, TypeOK, FactorRecord
    <1>5. CASE UNCHANGED factors
        BY <1>5
    <1>6. CASE Tick
        BY <1>5, <1>6 DEF Tick
    <1>7. ASSUME NEW u \in User, NewUser(u) PROVE Kept
        BY <1>5, <1>7 DEF NewUser
    <1>8. ASSUME NEW f \in DOMAIN factors, NEW c \in Challenge, CreateChallenge(f, c) PROVE Kept
        BY <1>5, <1>8 DEF CreateChallenge
    <1>9. ASSUME NEW f \in Factor, NEW c \in DOMAIN challenges, ConsumeChallenge(f, c) PROVE Kept
        BY <1>5, <1>9 DEF ConsumeChallenge
    <1>10. CASE UNCHANGED vars
        BY <1>5, <1>10 DEF vars
    <1> HIDE DEF Kept
    <1>11. Kept \/ \E u \in User, name \in Name \cup {NoName}, f \in Factor :
                       EnrollFactor(u, name, f)
        BY <1>1, <1>2, <1>3, <1>4, <1>6, <1>7, <1>8, <1>9, <1>10, NextCases DEF Kept
    <1> QED
        BY <1>11 DEF Kept

\* Every step keeps the names of a user's factors distinct.
LEMMA NamesStep ==
    ASSUME TypeOK, NamesDistinct, [Next]_vars
    PROVE  NamesDistinct'
    <1>1. CASE \A g \in DOMAIN factors' :
                   /\ g \in DOMAIN factors
                   /\ factors'[g].user = factors[g].user
                   /\ factors'[g].name = factors[g].name
        BY <1>1 DEF NamesDistinct
    <1>2. ASSUME NEW u \in User, NEW name \in Name \cup {NoName}, NEW f \in Factor,
                 EnrollFactor(u, name, f)
          PROVE  NamesDistinct'
        <2>1. DOMAIN factors' = DOMAIN factors \cup {f} /\ f \notin DOMAIN factors
            BY <1>2 DEF Put, EnrollFactor, TypeOK
        <2>2. factors'[f].user = u /\ factors'[f].name = name
            BY <1>2 DEF Put, EnrollFactor
        <2>3. \A g \in DOMAIN factors : factors'[g] = factors[g]
            BY <1>2, <2>1 DEF Put, EnrollFactor
        <2>4. \A g \in DOMAIN factors : ~(name # NoName /\ factors[g].user = u /\ factors[g].name = name)
            BY <1>2 DEF EnrollFactor, NameTaken
        <2> QED
            BY <2>1, <2>2, <2>3, <2>4 DEF NamesDistinct
    <1> QED
        BY <1>1, <1>2, NamesKept

\* Two factors of one user never share a friendly name.
THEOREM NamesAreKeys == Spec => []NamesDistinct
    <1>1. Init => NamesDistinct
        BY DEF EmptyMap, Init, NamesDistinct
    <1> QED
        BY <1>1, TypeCorrect, NamesStep, PTL DEF Spec

-----------------------------------------------------------------------------
\* No step brings back a challenge that is gone or changes one that is there.
LEMMA ChallengesShrink ==
    ASSUME TypeOK, [Next]_vars, NEW c \in DOMAIN challenged, c \in DOMAIN challenges'
    PROVE  c \in DOMAIN challenges /\ challenges'[c] = challenges[c]
    <1>1. CASE Reset
        BY <1>1 DEF EmptyMap, Reset
    <1>2. ASSUME NEW u \in User, DeleteUser(u)
          PROVE  c \in DOMAIN challenges /\ challenges'[c] = challenges[c]
        BY <1>2, CascadeEffect DEF DeleteUser
    <1>3. ASSUME NEW u \in User, NEW f \in DOMAIN factors, DeleteFactor(u, f)
          PROVE  c \in DOMAIN challenges /\ challenges'[c] = challenges[c]
        BY <1>3, CascadeEffect DEF DeleteFactor
    <1>4. ASSUME NEW f \in DOMAIN factors, NEW d \in Challenge, CreateChallenge(f, d)
          PROVE  c \in DOMAIN challenges /\ challenges'[c] = challenges[c]
        <2>1. c # d
            BY <1>4 DEF CreateChallenge
        <2>2. c \in DOMAIN challenges
            BY <1>4, <2>1 DEF CreateChallenge, Put
        <2> QED
            BY <1>4, <2>1, <2>2 DEF CreateChallenge, Put
    <1>5. ASSUME NEW f \in Factor, NEW d \in DOMAIN challenges, ConsumeChallenge(f, d)
          PROVE  c \in DOMAIN challenges /\ challenges'[c] = challenges[c]
        BY <1>5 DEF ConsumeChallenge, Delete, Restrict
    <1>6. CASE Tick
        BY <1>6 DEF Tick
    <1>7. ASSUME NEW u \in User, NewUser(u)
          PROVE  c \in DOMAIN challenges /\ challenges'[c] = challenges[c]
        BY <1>7 DEF NewUser
    <1>8. ASSUME NEW u \in User, NEW name \in Name \cup {NoName}, NEW f \in Factor,
                 EnrollFactor(u, name, f)
          PROVE  c \in DOMAIN challenges /\ challenges'[c] = challenges[c]
        BY <1>8 DEF EnrollFactor
    <1>9. ASSUME NEW f \in DOMAIN factors, VerifyFactor(f)
          PROVE  c \in DOMAIN challenges /\ challenges'[c] = challenges[c]
        BY <1>9 DEF VerifyFactor
    <1>10. CASE UNCHANGED vars
        BY <1>10 DEF vars
    <1> QED
        BY <1>1, <1>2, <1>3, <1>4, <1>5, <1>6, <1>7, <1>8, <1>9, <1>10, NextCases

\* The clock never goes back.
LEMMA ClockStep ==
    ASSUME TypeOK, [Next]_vars
    PROVE  now' \in Nat /\ now' >= now
    <1> USE DEF TypeOK
    <1>1. CASE Tick
        BY <1>1 DEF Tick
    <1>2. CASE now' = now
        BY <1>2
    <1>3. \/ Tick
          \/ now' = now
        BY NextCases DEF Reset, NewUser, DeleteUser, EnrollFactor, VerifyFactor, CreateChallenge,
                         ConsumeChallenge, DeleteFactor, vars
    <1> QED
        BY <1>1, <1>2, <1>3

\* A challenge that ConsumeChallenge would not accept is not accepted after the
\* step either.
LEMMA SpentStep ==
    ASSUME TypeOK, [Next]_vars, NEW c \in DOMAIN challenged, NEW f \in Factor,
           Answer(f, c) # "consumed"
    PROVE  Answer(f, c)' # "consumed"
    <1> SUFFICES ASSUME Found(f, c)', ~Expired(c)'
                 PROVE  FALSE
        BY DEF Answer
    <1>1. c \in DOMAIN challenges /\ challenges'[c] = challenges[c]
        BY ChallengesShrink DEF Found
    <1>2. Found(f, c)
        BY <1>1 DEF Found
    <1>3. challenges[c].expiresAt \in Int
        BY <1>1 DEF TypeOK, ChallengeRecord
    <1>4. ~Expired(c)
        BY <1>1, <1>3, ClockStep DEF Expired, TypeOK
    <1> QED
        BY <1>2, <1>4 DEF Answer

\* A challenge serves one call of ConsumeChallenge: once it would be refused it
\* is refused for ever.
THEOREM ChallengeSpentOnce == Spec => SpentForever
    <1>1. TypeOK /\ [Next]_vars =>
              [\A c \in DOMAIN challenged, f \in Factor :
                  Answer(f, c) # "consumed" => Answer(f, c)' # "consumed"]_vars
        BY SpentStep
    <1> QED
        BY <1>1, TypeCorrect, PTL DEF Spec, SpentForever

=============================================================================
