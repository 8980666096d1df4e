\* Two connections of the same player, no failures.
CONSTANTS
    Gids = {1}
    Addrs = {a1, a2}
    TaskIds = {t1, t2}
    Coordinates <- Whole
    Nil = Nil
    MaxRequests = 4
    MaxCrashes = 0
    MaxErrors = 0
SPECIFICATION Spec
INVARIANT AckMeansStored
