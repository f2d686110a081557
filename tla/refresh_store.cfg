\* Two users, two sessions and a chain of up to four tokens; the clock runs past
\* the reuse interval of the first.
SPECIFICATION Spec
CONSTANTS
    User = {u1, u2}
    Session = {s1, s2}
    Token = {t1, t2, t3, t4}
    Method = {"password"}
    NoToken = NoToken
    Unissued = Unissued
    Refused = Refused
    ReuseInterval = 1
    MaxTime = 2
SYMMETRY UserSymmetry
INVARIANTS
    TypeOK
    ReferentialIntegrity
    ChainShape
    NoFork
    GraceAnswered
    SessionRefreshable
PROPERTIES
    EndedSessionSilenced
    RefusedForever
    ForwardsToNewest
