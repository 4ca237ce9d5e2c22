SPECIFICATION PartSpec
CONSTANTS
    Payload = {p1}
    Request = {r1, r2}
    AccessTtl = 1
    RefreshTtl = 1
    MaxTime = 1
    NoToken = NoToken
    NoPayload = NoPayload
    Id = {i1, i2}
    Email = {e1, e2}
    Username = {n1}
    Password = {w1}
    Attempts = 2
    None = None
PROPERTIES
    RequestsFinish
    RequestsAnswered
