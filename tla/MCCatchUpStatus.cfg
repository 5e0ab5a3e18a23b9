SPECIFICATION Spec
CONSTANTS
    i1 = i1
    i2 = i2
    i3 = i3
    Issues <- MCIssues
    Fields <- MCFields
    Values <- MCValues
    Initial = "a"
    NoIssue = NoIssue
    Concurrency = 2
    MaxJobs = 3
SYMMETRY Symmetry
INVARIANTS
    BoundedAndSerial
    InOrderPerIssue
    RowShowsJira
CHECK_DEADLOCK FALSE
