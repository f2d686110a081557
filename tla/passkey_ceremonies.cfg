\* Two overlapping requests on two users, each of which can register either
\* credential, again too; the clock passes the lifetime of a challenge.
SPECIFICATION Spec
CONSTANTS
    Request = {r1, r2}
    User = {u1, u2}
    Session = {s1, s2}
    Token = {t1, t2}
    Method = {"webauthn"}
    NoToken = NoToken
    ReuseInterval = 1
    Passkey = {p1, p2}
    Credential = {k1, k2}
    Challenge = {c1, c2, c3}
    NoUser = NoUser
    ChallengeTTL = 0
    MaxTime = 1
    None = None
SYMMETRY ClientSymmetry
INVARIANTS
    TypeOK
    CeremonyBound
    UsedExactly
PROPERTIES
    StoreDiscipline
    DeletionFinal
