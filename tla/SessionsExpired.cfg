SPECIFICATION Spec
CONSTANTS
    Threads = {t1, t2}
    Users = {alice, bob}
    SessionIds = {s1, s2}
    NoUser = NoUser
    NoId = NoId
    MaxAge = 1
    MaxTime = 1
    MaxVoid = 1
SYMMETRY Symmetry
PROPERTY ExpiredIsRefused
