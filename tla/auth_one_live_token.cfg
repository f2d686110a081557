\* One login and one verify are enough.
SPECIFICATION Spec
CONSTANTS
    Request = {r1, r2}
    User = {u1}
    Session = {s1, s2}
    Token = {t1, t2, t3}
    Method = {"password", "webauthn"}
    NoToken = NoToken
    ReuseInterval = 1
    Factor = {f1}
    Challenge = {c1}
    Name = {}
    NoName = NoName
    ChallengeTTL = 1
    JwtTTL = 2
    MaxTime = 1
    None = None
INVARIANTS
    OneLiveToken
