\* Two connections register the same name; nothing fails.
CONSTANTS
    EmptyName = empty
    SeedName = hello
    BootName = two
    Names = {empty, hello, two, u}
    ClientNames = {u}
    Passwords = {"w1", "w2"}
    ClientPasswords = {"w1", "w2"}
    CStr <- UpToNul
    SeedPassword = "w1"
    BootPassword = "w1"
    SeedId = 2
    Addrs = {a1, a2}
    Main = main
    Nil = Nil
    MaxRequests = 2
    MaxCrashes = 0
    MaxErrors = 0
SPECIFICATION Spec
INVARIANT RegisterExclusive
