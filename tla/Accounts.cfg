\* Two connections, an account that clients create and the seeded one.
CONSTANTS
    EmptyName = empty
    SeedName = hello
    BootName = two
    Names = {empty, hello, two, u}
    ClientNames = {empty, hello, u}
    Passwords = {"w1", "w2", "w2_nul"}
    ClientPasswords = {"w1", "w2_nul"}
    CStr <- UpToNul
    SeedPassword = "w1"
    BootPassword = "w1"
    SeedId = 2
    Addrs = {a1, a2}
    Main = main
    Nil = Nil
    MaxRequests = 3
    MaxCrashes = 1
    MaxErrors = 1
SPECIFICATION Spec
SYMMETRY AddrSymmetry
INVARIANTS
    TypeOK
    PlayerIdsDistinct
    RoleCopiesAgree
    RoleUnderOwnName
    RegistrationLasts
    RegisteredOnce
    HalfRegisteredExplained
    ReturningMeansVerified
PROPERTIES
    ReturningSticks
    ImplementsBook
