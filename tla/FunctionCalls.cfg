SPECIFICATION Spec
CONSTANTS
    Threads = {t1, t2}
    FunctionSet <- MCFunctions
    MaxConnections = 2
    MaxRequests = 3
INVARIANT TypeOK
INVARIANT EffectsArePrefix
INVARIANT ReplyIsTrue
INVARIANT LastInsertIdIsOwn
INVARIANT RowsAreFed
INVARIANT ConnectionsAreReturned
PROPERTY RequestsAreAnswered
CHECK_DEADLOCK FALSE
