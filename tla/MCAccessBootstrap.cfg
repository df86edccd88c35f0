\* Two admins who race until nobody is left, and the restart that inserts a new
\* initial admin.
SPECIFICATION Spec
CONSTANTS
    Users = {u1, u2, u3}
    NoUser = NoUser
    Tokens = {t1, t2}
    NoToken = NoToken
    Requests = {r1, r2}
    MaxExpired = 0
    MaxFaults = 0
    MaxRestarts = 1
SYMMETRY Symmetry
PROPERTIES
    OnlyAdminsChange
    AdminsLostOnlyByRace
