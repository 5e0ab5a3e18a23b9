SPECIFICATION MCSpec
CONSTANTS
    Requests = {r1, r2}
    Callbacks = {c1, c2}
    NoThread = NoThread
    MaxIssued = 3
    Types <- MCTypes
    Heard <- MCHeard
    PageLimit = 2
    MaxEvents = 4
    MaxPolls = 2
INVARIANTS TypeOK ReuseOnlyAfterLoss NothingHeardSkipped
PROPERTIES
    NoStaleOverwrite
    RequestsEnd
    EverythingHeardArrives
CHECK_DEADLOCK FALSE
