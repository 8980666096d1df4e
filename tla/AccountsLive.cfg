\* Liveness: no symmetry, the seeded account and a new one.
CONSTANTS
    EmptyName = empty
    SeedName = hello
    BootName = two
    Names = {empty, hello, two, u}
    ClientNames = {hello, u}
    Passwords = {"w1", "w2"}
    ClientPasswords = {"w1", "w2"}
    CStr <- UpToNul
    SeedPassword = "w1"
    BootPassword = "w1"
    SeedId = 2
    Addrs = {a1, a2}
    Main = main
    Nil = Nil
    MaxRequests = 2
    MaxCrashes = 1
    MaxErrors = 1
SPECIFICATION FairSpec
PROPERTIES
    EveryRequestAnswered
    AlwaysUpAgain
