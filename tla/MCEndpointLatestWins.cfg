\* Two overlapping checks of one endpoint, two clock values.
SPECIFICATION Spec
CONSTANTS
    Ids = {i1}
    NoId = NoId
    Urls = {u1}
    NoUrl = NoUrl
    Requests = {r1, r2}
    Boot = Boot
    MaxClock = 2
    MaxCrashes = 0
    MaxFaults = 0
PROPERTIES
    LatestWins
