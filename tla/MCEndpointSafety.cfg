\* Three requests and the startup loop, one crash and one database fault.
SPECIFICATION Spec
CONSTANTS
    Ids = {i1, i2}
    NoId = NoId
    Urls = {u1}
    NoUrl = NoUrl
    Requests = {r1, r2, r3}
    Boot = Boot
    MaxClock = 1
    MaxCrashes = 1
    MaxFaults = 1
SYMMETRY Symmetry
INVARIANTS
    TypeOK
    PendingHasOwner
    AnsweredCheckVisible
    OneProberPerUrl
    NoFalseChecking
PROPERTIES
    ImplementsRegistry
