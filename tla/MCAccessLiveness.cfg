\* One request at a time, a failing statement and a restart.
SPECIFICATION FairSpec
CONSTANTS
    Users = {u1, u2}
    NoUser = NoUser
    Tokens = {t1, t2}
    NoToken = NoToken
    Requests = {r1}
    MaxExpired = 2
    MaxFaults = 1
    MaxRestarts = 1
PROPERTIES
    OverdueRemoved
