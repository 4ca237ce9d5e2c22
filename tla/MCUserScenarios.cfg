SPECIFICATION ScenarioSpec
CONSTANTS
    Id = {i1, i2}
    Email = {e1, e2}
    Username = {n1, n2}
    Plain = p0
    Secret = {p1, p2}
    Password <- Passwords
    Request = {r1, r2}
    Body <- AllBodies
    Attempts = 2
    None = None
SYMMETRY ScenarioSymmetry
INVARIANTS
    UniqueKeys
    ClashesAreReal
    SignInJustified
    RefusalsChangeNothing
PROPERTY PasswordsProved
