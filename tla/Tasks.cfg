\* Two connections, which may log in as the same player, and two tasks.
CONSTANTS
    Gids = {1, 2}
    Addrs = {a1, a2}
    TaskIds = {t1, t2}
    Coordinates <- Fractions
    Nil = Nil
    MaxRequests = 4
    MaxCrashes = 1
    MaxErrors = 1
SPECIFICATION Spec
SYMMETRY TaskSymmetry
INVARIANTS
    TypeOK
    OwnProgressOnly
    AckedTasksKept
PROPERTIES
    QueryComplete
