\* Two users so that an address changes hands, four identities so that one user
\* can link again what it unlinked; lower-case provider keys.
SPECIFICATION Spec
CONSTANTS
    User = {u1, u2}
    NoUser = NoUser
    Mailbox = {m1}
    Synthetic = {x1}
    NoAddress = NoAddress
    Provider = {"email", "github"}
    MixedCase = {}
    IdentityId = {i1, i2, i3, i4}
    Code = {c1}
    Metadata = {d1}
    NoMetadata = NoMetadata
    AuthCodeTTL = 0
    MaxTime = 1
INVARIANTS
    EmailIndexAgrees
    IdentitiesAgree
PROPERTIES
    SpentForever
    KeepsAddressBook
