\* Two endpoints, two clock values, one crash, no database fault.  No symmetry.
SPECIFICATION FairSpec
CONSTANTS
    Ids = {i1, i2}
    NoId = NoId
    Urls = {u1, u2}
    NoUrl = NoUrl
    Requests = {r1, r2}
    Boot = Boot
    MaxClock = 2
    MaxCrashes = 1
    MaxFaults = 0
PROPERTIES
    PendingResolved
    EventuallyServing
