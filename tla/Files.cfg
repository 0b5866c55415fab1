SPECIFICATION Spec
CONSTANTS
    Threads = {t1, t2}
    Extensions = {"png", "html", "exe"}
    Supported = {"png", "html"}
    Forms <- MCForms
    Initial <- MCInitial
    IndexFile <- MCIndexFile
    NoFile = NoFile
    MaxRequests = 2
INVARIANT TypeOK
INVARIANT KnownIsStored
INVARIANT RemovedOnce
INVARIANT TempIsMoved
INVARIANT OneStray
PROPERTY ImplementsShelf
PROPERTY RequestsEnd
CHECK_DEADLOCK FALSE
