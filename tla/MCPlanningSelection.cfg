SPECIFICATION Spec
CONSTANTS
    now = now
    later = later
    ga = ga
    gb = gb
    ta = ta
    tb = tb
    k1 = k1
    k2 = k2
    k3 = k3
    Sprints <- MCSprints
    Future <- MCFuture
    Groups <- MCGroups
    Teams <- MCTeams
    TeamsOf <- MCTeamsOf
    Tasks <- MCTasks
    TeamOf <- MCTeamOf
    Accepted <- MCAccepted
    Matching <- MCMatching
    FirstSprint = now
    FirstGroup = ga
    None = None
    MaxTurns = 2
    MaxClicks = 2
    MaxLoads = 1

INVARIANTS
    SelectionConsistent
PROPERTIES
    OtherScopesKept
    SprintKeepsTeams
CHECK_DEADLOCK FALSE
