------------------------------- MODULE PageParts -------------------------------
(* Six parts of the page: the menus that change a field of the issues       *)
(* (IssueMenus), the links between issues (DependencyFocus), the requests   *)
(* of Statistics (StatsLoading), the alerts (EngAlerts), the timeline of a  *)
(* scenario (ScenarioTimeline) and the Burndown chart (Burndown).  They     *)
(* share the state of SprintBoard and PlanningSelection, an input here, and *)
(* nothing else: a behaviour follows one of them, part.                     *)
EXTENDS Naturals, FiniteSets

CONSTANTS None,
          Epics, Stories, Subtasks, MenuValues, MenuInitial, \* of IssueMenus
          MaxTargets, MaxOpens, MaxWrites, MaxSwitches, MaxFails, MaxToggles,
          Linked, LinkSets, OnBoard, OnRollup,               \* of DependencyFocus
          MaxLinkActs, MaxLost,
          Scopes, LastSprint, EpicsIn, StatsWorkers, Lost,   \* of StatsLoading
          MaxTurns, MaxStatsFails, MaxNow,
          GroupTeams, LabelledTeams, EpicKinds, StoryKinds,  \* of EngAlerts
          OfferedStatuses, MaxActs, MaxLosses,
          IssueCount, Plans, IssueKinds, Replanned, Dependencies, \* of ScenarioTimeline
          Matches, FocusSet, ExcludedEpics, Capacity, SprintBounds, BaseStart, Deadline,
          MaxSteps, MaxRuns,
          ChartTeams, SelectedTeams, BurnKinds, All,         \* of Burndown
          SprintEnd, LastDay, MaxClicks

VARIABLES part, page

partVars == <<part, page>>

Menus == INSTANCE IssueMenus WITH Values <- MenuValues, Initial <- MenuInitial
Links == INSTANCE DependencyFocus
Stats == INSTANCE StatsLoading WITH Workers <- StatsWorkers, MaxFails <- MaxStatsFails
Alerts == INSTANCE EngAlerts WITH Statuses <- OfferedStatuses
Timeline == INSTANCE ScenarioTimeline WITH Count <- IssueCount, Kinds <- IssueKinds
Burn == INSTANCE Burndown WITH Teams <- ChartTeams, Selected <- SelectedTeams, Kinds <- BurnKinds

ASSUME MenusConstants == Menus!MenusAssumption
ASSUME LinksConstants == Links!LinksAssumption
ASSUME StatsConstants == Stats!StatsAssumption
ASSUME AlertsConstants == Alerts!AlertsAssumption
ASSUME BurndownConstants == Burn!BurndownAssumption

PartsInit ==
    \/ part = "menus" /\ Menus!Init
    \/ part = "dependencies" /\ Links!Init
    \/ part = "stats" /\ Stats!Init
    \/ part = "alerts" /\ Alerts!Init
    \/ part = "timeline" /\ Timeline!Init
    \/ part = "burndown" /\ Burn!Init

MenusNext == part = "menus" /\ Menus!Next /\ UNCHANGED part
DependenciesNext == part = "dependencies" /\ Links!Next /\ UNCHANGED part
StatsNext == part = "stats" /\ Stats!Next /\ UNCHANGED part
AlertsNext == part = "alerts" /\ Alerts!Next /\ UNCHANGED part
TimelineNext == part = "timeline" /\ Timeline!Next /\ UNCHANGED part
BurndownNext == part = "burndown" /\ Burn!Next /\ UNCHANGED part

PartsNext ==
    MenusNext \/ DependenciesNext \/ StatsNext \/ AlertsNext \/ TimelineNext \/ BurndownNext

PartsSpec == PartsInit /\ [][PartsNext]_partVars

-----------------------------------------------------------------------------
\* The menus of the Planning surface offer the options of the issue they are
\* open for, leave no control waiting, and put on the rows what Jira has.
MenusSound == part = "menus" => Menus!TypeOK /\ Menus!MenusSound

\* Chips, dimming and lists of linked issues agree with the links in Jira, with
\* each other and with one focus, whatever comes late.
DependenciesSound == part = "dependencies" => Links!TypeOK /\ Links!DependenciesSound

\* A panel of Statistics that loads has a request, and shows nothing that was
\* not asked for the filters it is shown under.
StatsSound == part = "stats" => Stats!TypeOK /\ Stats!StatsSound

\* The cards of the alerts list everything they are for, a planned epic on one
\* of them only, whatever was dismissed, patched or could not be counted.
AlertsSound == part = "alerts" => Alerts!TypeOK /\ Alerts!AlertsSound

\* The timeline of a scenario loses no issue, stacks bars so that none hides
\* another, and draws, sums up, warns of and exports the same ones.
TimelineSound == part = "timeline" => Timeline!TypeOK /\ Timeline!TimelineSound

\* Chart, cards and filtered list of the Burndown agree on what is open.
BurndownSound == part = "burndown" => Burn!BurndownSound

\* Leaving the focus on an epic gives the user the lanes back.
LanesComeBack == [][part = "timeline" => Timeline!LanesComeBack]_partVars
=============================================================================
