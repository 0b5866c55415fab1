SPECIFICATION Spec
CONSTANTS
    Threads = {t1, t2}
    Extensions = {"png", "html", "exe"}
    Supported = {"png", "html"}
    Forms <- MCForms
    Initial <- MCInitial
    IndexFile <- MCIndexFile
    NoFile = NoFile
    MaxRequests = 2
PROPERTY SeveralFilesAreStored
CHECK_DEADLOCK FALSE
