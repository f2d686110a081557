\* Two users, so that factors and challenges of different owners meet; the clock
\* runs past the lifetime of a challenge.
SPECIFICATION Spec
CONSTANTS
    User = {u1, u2}
    Factor = {f1, f2, f3}
    Challenge = {c1, c2}
    Name = {phone}
    NoName = NoName
    ChallengeTTL = 1
    MaxTime = 3
INVARIANTS
    TypeOK
    NoOrphans
    NamesDistinct
PROPERTIES
    SpentForever
