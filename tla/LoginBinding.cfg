\* One connection logs in to one account and then to another.
CONSTANTS
    EmptyName = empty
    SeedName = hello
    BootName = two
    Names = {empty, hello, two, u}
    ClientNames = {hello, two}
    Passwords = {"w1"}
    ClientPasswords = {"w1"}
    CStr <- UpToNul
    SeedPassword = "w1"
    BootPassword = "w1"
    SeedId = 2
    Addrs = {a1}
    Main = main
    Nil = Nil
    MaxRequests = 2
    MaxCrashes = 0
    MaxErrors = 0
SPECIFICATION Spec
INVARIANT LoginBindsAccount
