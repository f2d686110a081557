\* Two overlapping requests on two users; a verify may find its challenge used,
\* expired (the clock passes ChallengeTTL) or gone, its session logged out and
\* its user deleted.
SPECIFICATION Spec
CONSTANTS
    Request = {r1, r2}
    User = {u1, u2}
    Session = {s1, s2}
    Token = {t1, t2, t3}
    Method = {"password", "webauthn"}
    NoToken = NoToken
    ReuseInterval = 1
    Factor = {f1}
    Challenge = {c1, c2}
    Name = {}
    NoName = NoName
    ChallengeTTL = 0
    JwtTTL = 1
    MaxTime = 1
    None = None
INVARIANTS
    TypeOK
    ChallengeMetOnce
    AssuranceEarned
    LogoutFinal
PROPERTIES
    StoreDiscipline
    Answered
