SPECIFICATION EditorSpec
CONSTANTS
    A = A
    B = B
    edit1 = edit1
    edit2 = edit2
    None = None
    NoOverrides = NoOverrides
    Scopes <- MCScopes
    Overrides <- MCOneEdit
    MaxVersions = 2
    MaxInFlight = 2
SYMMETRY Symmetry
INVARIANTS
    EditsKept
    TimelineMatchesDraft
CHECK_DEADLOCK FALSE
