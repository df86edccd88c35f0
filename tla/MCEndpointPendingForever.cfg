\* One database fault: an INSERT that is applied but reported as failed.
SPECIFICATION FairSpec
CONSTANTS
    Ids = {i1}
    NoId = NoId
    Urls = {u1}
    NoUrl = NoUrl
    Requests = {r1}
    Boot = Boot
    MaxClock = 1
    MaxCrashes = 0
    MaxFaults = 1
PROPERTIES
    PendingResolved
