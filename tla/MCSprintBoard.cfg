SPECIFICATION Spec
CONSTANTS
    now = now
    next = next
    ga = ga
    gb = gb
    gc = gc
    Sprints <- MCSprints
    Future <- MCFuture
    Groups <- MCGroups
    Teamless <- MCTeamless
    PageSprint = now
    FirstGroup = ga
    None = None
    MaxTurns = 2
    MaxEvents = 1
    MaxAsked = 3

INVARIANTS
    ShownOfSprint
    LoadsComplete
PROPERTIES
    Settles
CHECK_DEADLOCK FALSE
