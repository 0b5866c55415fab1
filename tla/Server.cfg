SPECIFICATION Spec
CONSTANTS
    Threads = {t1, t2}
    Requests = {r1, r2, r3}
    r1 = r1
    r2 = r2
    r3 = r3
    c1 = c1
    None = None
    MaxQueued = 2
    MaxMessages = 1
    Applications <- MCApplications
    GetMethod <- MCGetMethod
INVARIANT TypeOK
INVARIANT EveryRequestIsAnswered
INVARIANT OnlyGrantedFunctionsRun
INVARIANT OnlyTheFirstAreMissed
INVARIANT SocketsAreLive
PROPERTY RequestsEnd
CHECK_DEADLOCK FALSE
