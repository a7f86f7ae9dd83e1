SPECIFICATION Spec
CONSTANTS
    Source = {k1, k2, k3}
    None = None
    GlobalLimit = 3
    ClientLimit = 2
    MaxClients = 2
    Window = 4
    Skew = 1
    MaxTime = 8
SYMMETRY MCSymmetry
INVARIANTS
    StaysDecodable
    GrantsBounded
    RetryIsHonoured
    ThrottledTakesNothing
