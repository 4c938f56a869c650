SPECIFICATION Spec
CONSTANTS
    u1 = u1
    u2 = u2
    u3 = u3
    h1 = h1
    Registrar = Registrar
    Nobody = Nobody
    Users = {u1}
    Homes = {h1}
    Lifetime = 1
    DefaultLifetime = 2
    Window = 1
    ScanThreshold = 2
    BurstThreshold = 2
    MaxEntries = 2
    MaxEvents = 4
INVARIANT
    ChangesAreMoves
