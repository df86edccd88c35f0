\* Two pods, three endpoints, of which two fit the patience of the liveness
\* probe, an update and a crash.
SPECIFICATION FairSpec
CONSTANTS
    Pods = {p1, p2}
    First = p1
    Ids = {i1, i2, i3}
    NoId = NoId
    CheckTime = 1
    Patience = 2
    MaxUpdates = 1
    MaxFaults = 1
CHECK_DEADLOCK FALSE
INVARIANTS
    TypeOK
    OneInitialAdmin
    UncheckedOnlyMissed
PROPERTIES
    NoGap
    EveryPodARegistry
    KilledOnlyWithMany
    UpdateEnds
