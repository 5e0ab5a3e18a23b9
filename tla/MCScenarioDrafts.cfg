SPECIFICATION LiveSpec
CONSTANTS
    r1 = r1
    r2 = r2
    r3 = r3
    r4 = r4
    Requests <- MCFourRequests
    NoRequest = NoRequest
    Legacy = Legacy
INVARIANTS
    NoLostUpdate
    HistoryConsistent
PROPERTIES
    ImplementsHistory
    RequestsEnd
CHECK_DEADLOCK FALSE
