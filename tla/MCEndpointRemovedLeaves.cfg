\* A check in flight while its endpoint is removed.
SPECIFICATION Spec
CONSTANTS
    Ids = {i1}
    NoId = NoId
    Urls = {u1}
    NoUrl = NoUrl
    Requests = {r1, r2}
    Boot = Boot
    MaxClock = 1
    MaxCrashes = 0
    MaxFaults = 0
INVARIANTS
    RemovedLeavesNothing
