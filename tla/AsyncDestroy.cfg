SPECIFICATION Spec
CONSTANTS
    Handlers = {h1, h2}
    Builds = {"reads"}
    MaxRequests = 3
PROPERTY DestroyedWhenFinished
CHECK_DEADLOCK FALSE
