\* Two tabs, two CSRF tokens, two logins.
SPECIFICATION FairSpec
CONSTANTS
    Tabs = {t1, t2}
    Tokens = {k1, k2}
    NoToken = NoToken
    Sessions = {s1, s2}
    NoSession = NoSession
    Keep = Keep
CHECK_DEADLOCK FALSE
INVARIANTS
    TypeOK
    RefusedOnlyExcused
PROPERTIES
    FreshFormAccepted
    OpenSessionKept
    RedirectsEnd
