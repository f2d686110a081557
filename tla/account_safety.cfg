\* Two overlapping requests, an address that changes hands, one code.
SPECIFICATION Spec
CONSTANTS
    Request = {r1, r2}
    User = {u1, u2}
    Session = {s1, s2}
    Token = {t1, t2}
    Method = {"password", "oauth"}
    NoToken = NoToken
    ReuseInterval = 1
    NoUser = NoUser
    Mailbox = {m1}
    Synthetic = {x1}
    NoAddress = NoAddress
    Provider = {"email", "github"}
    MixedCase = {}
    IdentityId = {i1, i2, i3}
    Code = {c1}
    Metadata = {d1}
    NoMetadata = NoMetadata
    AuthCodeTTL = 0
    MaxTime = 1
    NoProvider = NoProvider
    MaxSeeds = 2
    None = None
INVARIANTS
    TypeOK
    CodeExchangedOnce
    
PROPERTIES
    StoreDiscipline
    Answered
