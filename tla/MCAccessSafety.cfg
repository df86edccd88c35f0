\* Two concurrent requests of up to two accounts, with one database fault.
SPECIFICATION Spec
CONSTANTS
    Users = {u1, u2}
    NoUser = NoUser
    Tokens = {t1, t2}
    NoToken = NoToken
    Requests = {r1, r2}
    MaxExpired = 2
    MaxFaults = 1
    MaxRestarts = 0
SYMMETRY Symmetry
INVARIANTS
    TypeOK
    Entitled
    NoOrphanSessions
    CookieClearedSessionClosed
    NoSpuriousError
