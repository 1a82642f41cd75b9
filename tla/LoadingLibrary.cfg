\* Guests built with wapc-guest, with and without host calls.
CONSTANTS
    HostIds = {"h1"}
    Contexts = {c1}
    Paths = {"a", "b"}
    MaxDirs = 2
    Guests <- LibraryGuests
    preopened_dirs <- MCPreopened
    map_dirs <- MCMapped
SPECIFICATION Spec
INVARIANTS LibraryGuestLoads
CHECK_DEADLOCK FALSE
