SPECIFICATION Spec
CONSTANTS
    Payload = {p1}
    Request = {r1, r2}
    AccessTtl = 1
    RefreshTtl = 2
    MaxTime = 2
    NoToken = NoToken
    NoPayload = NoPayload
SYMMETRY SlotSymmetry
INVARIANTS
    RevocationLasts
    RevokedNotHonoured
    ReplayRejected
    ExchangedTokenIsDead
PROPERTY KeepsContract
