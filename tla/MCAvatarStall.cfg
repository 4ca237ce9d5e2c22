SPECIFICATION FairSpec
CONSTANTS
    User = {u1}
    Request = {r1}
    Path = {f1}
    NoUser = NoUser
    NoPath = NoPath
PROPERTY
    AuthenticationReturns
