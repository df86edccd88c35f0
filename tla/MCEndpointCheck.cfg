\* The timeouts of the code, in seconds, and three redirects.
SPECIFICATION FairSpec
CONSTANTS
    Hosts = {h1, h2}
    Origin = h1
    works = works
    refuses = refuses
    varies = varies
    internal = internal
    Addrs <- AllAddrs
    NoAddr = NoAddr
    Internal <- InternalAddrs
    Up <- UpAddrs
    Down <- DownAddrs
    Lookups <- AllLookups
    ResolverTimeout = 2
    RequestTimeout = 5
    TLSTimeout = 5
    WriteTimeout = 30
    MaxRedirects = 3
CHECK_DEADLOCK FALSE
INVARIANTS
    TypeOK
    AddedIffSaid
    MessageAgreesWithPage
    StoredNeverPending
    ConnectsToValidated
    WithinBudget
    CalmMeansResponding
PROPERTIES
    EveryCallAnswered
