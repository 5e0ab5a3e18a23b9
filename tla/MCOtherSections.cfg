SPECIFICATION MCSpec
CONSTANTS
    g1 = g1
    g2 = g2
    Group <- MCGroup
    Legacy <- MCLegacy
    None = None
    MaxRevision = 2
    MaxEdits = 2
    MaxOpens = 1
    MaxLoads = 2
    MaxFails = 1
    Parts = {"drafts"}
    MaxDraftEdits = 3
    projects = projects
    weights = weights
    board = board
    teams = teams
    one = one
    two = two
    none = none
    Unset = Unset
    components = components
    epics = epics
    row1 = row1
    row2 = row2
    menu = menu
    Blank = Blank
    ab = ab
    abc = abc
    abd = abd
    pre1 = pre1
    pre2 = pre2
    All = All
    x = x
    y = y
    z = z

PROPERTIES
    OtherSectionsPreserved
CHECK_DEADLOCK FALSE
