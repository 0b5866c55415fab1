SPECIFICATION BackgroundSpec
CONSTANTS
    Handlers = {h1, h2}
    Builds = {"reads", "readsOnce", "removed"}
    MaxRequests = 2
    Readers = {r1}
INVARIANT TypeOK
INVARIANT NothingDangles
INVARIANT EndedMeansExecuted
PROPERTY AnswersAreOneUpdate
PROPERTY ThreadsEnd
PROPERTY FreshUnlessFailed
CHECK_DEADLOCK FALSE
