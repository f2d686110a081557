\* Two users and two credentials, so that a credential is registered again by
\* another user; the clock runs past the lifetime of a challenge.
SPECIFICATION Spec
CONSTANTS
    User = {u1, u2}
    Passkey = {p1, p2, p3}
    Credential = {k1, k2}
    Challenge = {c1, c2}
    NoUser = NoUser
    ChallengeTTL = 1
    MaxTime = 2
INVARIANTS
    TypeOK
    IndexAgrees
    NoOrphans
PROPERTIES
    SpentForever
