\* A provider key with an upper case letter.
SPECIFICATION Spec
CONSTANTS
    User = {u1, u2}
    NoUser = NoUser
    Mailbox = {m1}
    Synthetic = {x1}
    NoAddress = NoAddress
    Provider = {"email", "github"}
    MixedCase = {"github"}
    IdentityId = {i1, i2, i3, i4}
    Code = {c1}
    Metadata = {d1}
    NoMetadata = NoMetadata
    AuthCodeTTL = 0
    MaxTime = 1
INVARIANTS
    FindableByEmail
