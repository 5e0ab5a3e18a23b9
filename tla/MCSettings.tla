----------------------------- MODULE MCSettings -----------------------------
(* The settings, in parts of which a behaviour follows one: the shared      *)
(* groups (GroupsConfig), the administrator's sections (SettingsDrafts),    *)
(* the same opened a second time, and the searches (SettingsSearch), of     *)
(* which there are the pickers and the labels.  They share no state.        *)
EXTENDS GroupsConfig

CONSTANTS g1, g2,
          Parts,         \* the parts that are followed
          MaxDraftEdits, \* of SettingsDrafts
          projects, weights, board, teams, one, two, none, Unset, \* and its values
          components, epics, row1, row2, menu, Blank, ab, abc, abd, pre1, pre2, All, x, y, z

VARIABLES part,
          stored, sheet, reads, saves, posts, want, touched, count,  \* of SettingsDrafts
          field, prefix, requests, cache, overtaken    \* of SettingsSearch

dialog == <<stored, sheet, reads, saves, posts, want, touched>>
search == <<field, prefix, requests, cache, overtaken>>

(* Two groups, of which the workspace's file has one, the default.          *)
MCGroup == {g1, g2}
MCLegacy == [groups |-> {g1}, default |-> g1, marked |-> {}]

(* One section of each kind: the projects are an array, are required, and   *)
(* their save ends the mark of saving; the answer replaces the priority     *)
(* weights; the board, like capacity and the custom fields, is a string     *)
(* that is not read before the settings are opened.                         *)
Offered(sections) ==
    [p \in sections \cup {teams} |-> IF p = board THEN {one, none} ELSE {one, two}]
Drafts == INSTANCE SettingsDrafts WITH page <- sheet, loads <- reads,
    Order <- <<projects, weights, board>>, Teams <- teams,
    Lists <- {projects, weights}, Echoed <- {weights}, Releasing <- {projects},
    Required <- {projects}, AtStart <- {},
    Value <- {one, two, none}, Empty <- none,
    Options <- Offered({projects, weights, board}),
    Initially <- {[p \in {projects, weights, board, teams} |-> one]},
    MaxOpens <- 1, MaxEdits <- MaxDraftEdits, MaxSaves <- 2, MaxFails <- 1

(* Without the weights and failures, to open the dialog twice.              *)
Reopened == INSTANCE SettingsDrafts WITH page <- sheet, loads <- reads,
    Order <- <<projects, board>>, Teams <- teams,
    Lists <- {projects}, Echoed <- {}, Releasing <- {projects},
    Required <- {projects}, AtStart <- {projects},
    Value <- {one, two, none}, Empty <- none,
    Options <- Offered({projects, board}),
    Initially <- {[p \in {projects, board, teams} |-> one]},
    MaxOpens <- 2, MaxEdits <- 2, MaxSaves <- 1, MaxFails <- 0

(* A picker of each kind; two rows and the menu of an EPM project.  Of the  *)
(* longer queries one finds two items, the other the third.                 *)
Found == [k \in {Blank, ab, abc, abd, pre1, pre2, All} |->
            CASE k = Blank -> <<>>
              [] k \in {abc, pre1} -> <<x, y>>
              [] k \in {abd, pre2} -> <<z>>
              [] OTHER -> <<x, y, z>>]
Picked == INSTANCE SettingsSearch WITH
    Pickers <- {projects, board, components, epics}, Rows <- {}, Menus <- {},
    Single <- {board}, Narrowing <- {projects, board}, FallingBack <- {projects},
    KeepingQuery <- {epics}, KeepingIndex <- {components},
    Query <- {Blank, ab, abc, abd}, Short <- {Blank}, Prefix <- {pre1, pre2},
    Item <- {x, y, z}, Known <- <<x, z>>,
    MaxTypes <- 3, MaxMoves <- 3, MaxFails <- 1
Labels == INSTANCE SettingsSearch WITH
    Pickers <- {}, Rows <- {row1, row2}, Menus <- {menu},
    Single <- {}, Narrowing <- {}, FallingBack <- {}, KeepingQuery <- {}, KeepingIndex <- {},
    Query <- {Blank, ab, abc, abd}, Short <- {Blank, ab}, Prefix <- {pre1, pre2, Blank},
    Item <- {x, y, z}, Known <- <<>>,
    MaxTypes <- 3, MaxMoves <- 2, MaxFails <- 1

ASSUME DraftsConstants == Drafts!SettingsAssumption /\ Reopened!SettingsAssumption
ASSUME SearchConstants == Picked!SearchAssumption /\ Labels!SearchAssumption

-----------------------------------------------------------------------------
NoDialog ==
    /\ stored = None /\ sheet = None /\ reads = None
    /\ saves = None /\ posts = None /\ want = None /\ touched = None
NoSearch ==
    field = None /\ prefix = None /\ requests = None /\ cache = None /\ overtaken = None

PartInit ==
    /\ part \in Parts /\ Init
    /\ part # "groups" => catalog = NoCatalog /\ page.active = None
    /\ CASE part = "drafts" -> Drafts!Init
         [] part = "reopened" -> Reopened!Init
         [] OTHER -> NoDialog
    /\ CASE part = "pickers" -> Picked!Init
         [] part = "labels" -> Labels!Init
         [] OTHER -> NoSearch
    /\ part = "groups" => count = None

\* Bound: a failure takes the place of an edit.
EditsAndFails == edits' + fails' <= MaxEdits
GroupsNext ==
    part = "groups" /\ Next /\ EditsAndFails /\ UNCHANGED <<part, dialog, count, search>>
DraftsNext ==
    /\ \/ part = "drafts" /\ Drafts!Next
       \/ part = "reopened" /\ Reopened!Next
    /\ UNCHANGED <<part, vars, search>>
SearchNext ==
    /\ \/ part = "pickers" /\ Picked!Next
       \/ part = "labels" /\ Labels!Next
    /\ UNCHANGED <<part, vars, dialog>>

MCSpec ==
    PartInit /\ [][GroupsNext \/ DraftsNext \/ SearchNext]_<<vars, part, dialog, count, search>>

-----------------------------------------------------------------------------
\* What is edited in the sections of the settings is stored, or was
\* discarded on request; only what was edited is sent (saveGroupsConfig).
DraftsSafe ==
    /\ part = "drafts" => Drafts!DraftsSafe
    /\ part = "reopened" => Reopened!DraftsSafe

\* What the searches of the settings offer was found for what is typed.
SearchSafe ==
    /\ part = "pickers" => Picked!SearchSafe
    /\ part = "labels" => Labels!SearchSafe

\* The team groups are saved "preserving other sections" (save_groups_config).
OtherSectionsPreserved == Drafts!OtherSectionsPreserved
=============================================================================
