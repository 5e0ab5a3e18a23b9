SPECIFICATION MCSpec
CONSTANTS
    Requests = {r1, r2}
    Callbacks = {c1, c2}
    NoThread = NoThread
    MaxIssued = 4
    Types <- MCTypes
    Heard <- MCHeard
    PageLimit = 2
    MaxEvents = 4
    MaxPolls = 2
PROPERTY ReuseRevokesConnection
CHECK_DEADLOCK FALSE
