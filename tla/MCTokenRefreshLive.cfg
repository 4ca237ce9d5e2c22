SPECIFICATION Spec
CONSTANTS
    Payload = {p1}
    Request = {r1}
    AccessTtl = 1
    RefreshTtl = 2
    MaxTime = 2
    NoToken = NoToken
    NoPayload = NoPayload
PROPERTY
    RefreshYieldsLiveTokens
