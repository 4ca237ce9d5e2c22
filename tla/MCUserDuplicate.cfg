SPECIFICATION Spec
CONSTANTS
    Id = {i1, i2}
    Email = {e1, e2}
    Username = {n1, n2}
    Password = {p1}
    Request = {r1, r2}
    Body <- AllBodies
    Attempts = 2
    None = None
INVARIANT DuplicatesAreConflicts
