SPECIFICATION FairSpec
CONSTANTS
    Keys <- MCKeys
    Outside <- MCOutside
    Teams <- MCTeams
    Assignees <- MCAssignees
    NoOne = "-"
    Kinds <- MCKinds
    Graphs <- MCGraphs
    Modes = {"team", "assignee"}
    Slots <- MCSlots
    Anchor = 4
    DayTicks = 4
INVARIANTS
    ExactlyOnce
    TimelineFeasible
    NoDoubleBooking
PROPERTY Returns
CHECK_DEADLOCK FALSE
