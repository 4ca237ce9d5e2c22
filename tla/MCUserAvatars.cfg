SPECIFICATION Spec
CONSTANTS
    User = {u1}
    Request = {r1, r2, r3}
    Path = {f1, f2, f3, f4}
    NoUser = NoUser
    NoPath = NoPath
SYMMETRY Symmetry
INVARIANTS
    NoDanglingAvatar
    AvatarKept
    NoLeak
