SPECIFICATION Spec
CONSTANTS
    None = None
    All = All
    Lost = Lost
    d = d
    e = e
    i1 = i1
    i2 = i2
    i3 = i3
    t1 = t1
    t2 = t2
    t3 = t3
    g1 = g1
    g2 = g2
    s1 = s1
    s2 = s2
    pa = pa
    pb = pb
    pz = pz
    Epics <- MCEpics
    Stories <- MCStories
    Subtasks <- MCSubtasks
    MenuValues <- MCValues
    MenuInitial = "todo"
    MaxTargets = 2
    MaxOpens = 2
    MaxWrites = 1
    MaxSwitches = 1
    MaxFails = 1
    MaxToggles = 3
    Linked <- MCLinked
    LinkSets <- MCLinkSets
    OnBoard <- MCOnBoard
    OnRollup <- MCOnRollup
    MaxLinkActs = 3
    MaxLost = 1
    Scopes <- MCScopes
    LastSprint = 3
    EpicsIn <- MCEpicsIn
    StatsWorkers = 2
    MaxTurns = 2
    MaxStatsFails = 1
    MaxNow = 2
    GroupTeams <- MCTeams
    LabelledTeams <- MCTeams
    EpicKinds <- MCEpicKinds
    StoryKinds <- MCStoryKinds
    OfferedStatuses <- MCStatuses
    MaxActs = 2
    MaxLosses = 1
    IssueCount = 3
    Plans <- TimelinePlans
    IssueKinds <- MCIssueKinds
    Replanned <- MCReplanned
    Dependencies <- MCDependencies
    Matches = {1, 2}
    FocusSet = {1}
    ExcludedEpics = {13}
    Capacity <- MCCapacity
    SprintBounds = {8, 12, 17}
    BaseStart = 10
    Deadline = 15
    MaxSteps = 3
    MaxRuns = 1
    ChartTeams <- MCChartTeams
    SelectedTeams <- MCTeams
    BurnKinds <- MCBurnKinds
    SprintEnd = 1
    LastDay = 2
    MaxClicks = 2
SYMMETRY Symmetry
INVARIANTS
    MenusSound
    TimelineSound
    AlertsSound
    DependenciesSound
    TablesAgree
    StatsSound
    LeadTimesSound
    BurndownSound
    EpmSound
PROPERTIES
    LanesComeBack
CHECK_DEADLOCK FALSE
