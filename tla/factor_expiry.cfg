\* One factor and one challenge are enough.
SPECIFICATION Spec
CONSTANTS
    User = {u1}
    Factor = {f1}
    Challenge = {c1}
    Name = {phone}
    NoName = NoName
    ChallengeTTL = 1
    MaxTime = 3
PROPERTIES
    ExpirySurfaces
