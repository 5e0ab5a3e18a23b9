--------------------------- MODULE SettingsDrafts ---------------------------
(***************************************************************************)
(* The sections of the settings dialog that an administrator edits: the    *)
(* projects, priority weights, board, capacity, custom fields and issue    *)
(* types of the dashboard, and the team groups of a server without a       *)
(* database (dashboard.jsx, settings_routes.py).  All of them are parts of *)
(* one stored configuration.                                               *)
(*                                                                         *)
(* The page keeps of each section a draft, a baseline in a ref, and a memo *)
(* that says whether they differ.  The memo is computed when the draft     *)
(* changes, and never because the baseline does.  Save sends the sections  *)
(* that are dirty in the render it was pressed in one after the other, as  *)
(* they were in that render.  The server handles each by reading the whole *)
(* configuration, changing one section and writing the whole again.        *)
(*                                                                         *)
(* page is the state between two turns of the event loop.  There is one    *)
(* page; saves of it can overlap.                                          *)
(***************************************************************************)
EXTENDS Naturals, Sequences, FiniteSets, SequencesExt

CONSTANTS Order,     \* the sections, in the order in which Save sends them
          Teams,     \* the team groups, sent after the sections
          Lists,     \* sections whose draft is an array: a new one is never equal to the old
          Echoed,    \* sections whose draft is replaced by the answer to the save
          Releasing, \* sections whose save takes the mark of saving away
          Required,  \* sections that must be filled in before a save
          AtStart,   \* sections that the page loads when it is opened
          Value, Empty, Unset,
          Options,   \* what the user chooses from in each of them
          Initially, \* what may be stored at first
          MaxOpens,  \* bound on the times the dialog is opened
          MaxEdits,  \* bound on the edits
          MaxSaves,  \* bound on the saves
          MaxFails   \* bound on requests that fail

Section == ToSet(Order)
Part == Section \cup {Teams}

SettingsAssumption ==
    /\ IsInjective(Order) /\ Teams \notin Section
    /\ UNION {Lists, Echoed, Releasing, Required, AtStart} \subseteq Section
    /\ Echoed \subseteq Lists /\ AtStart \subseteq Lists
    /\ Empty \in Value /\ Unset \notin Value
    /\ Initially \subseteq [Part -> Value]
    /\ Options \in [Part -> SUBSET Value]
    /\ {MaxOpens, MaxEdits, MaxSaves, MaxFails} \subseteq Nat

VARIABLES stored,  \* the configuration that the server keeps
          page,
          loads,   \* sections that are being read
          saves,   \* saves of this page that are not over
          posts,   \* sections that are being sent by them
          want,    \* history: what the user chose and must not lose without being asked
          touched, \* history: the sections the user has edited
          count    \* how often each of the bounded things has happened

vars == <<stored, page, loads, saves, posts, want, touched, count>>

Counted(what, max) == count[what] < max /\ count' = [count EXCEPT ![what] = @ + 1]

-----------------------------------------------------------------------------
(* The page. *)

\* What the memo of a section says when it is computed.  A section that is not
\* an array is clean as long as it has not been read.
Differs(p, draft, base) ==
    IF p \in Lists THEN draft # base ELSE base # Unset /\ draft # base

\* A draft and a baseline are set; the memo follows if the draft is a new one.
Set(g, p, draft, base) ==
    [g EXCEPT !.draft[p] = draft, !.base[p] = base,
              !.dirty[p] = IF p \in Lists \/ draft # g.draft[p]
                           THEN Differs(p, draft, base) ELSE @]

TeamsDirty(g) == g.teams # g.known
SectionsDirty(g) == {p \in Section : g.dirty[p]}

\* isGroupDraftDirty
Dirty(g) == SectionsDirty(g) # {} \/ TeamsDirty(g)

\* groupConfigValidationErrors
Complete(g) == SectionsDirty(g) # {} => \A p \in Required : g.draft[p] # Empty

\* Requests that the effect of [showGroupManage, groupsConfig] sends.
Reading(sections) == {[section |-> p, opened |-> count["opens"], value |-> Unset] : p \in sections}

\* The effect itself, as far as the page goes.
Reset(g) == IF g.open THEN [g EXCEPT !.teams = g.known, !.asking = FALSE] ELSE g

Closed(g) == [g EXCEPT !.open = FALSE, !.asking = FALSE]

NoWant == [p \in Part |-> Unset]

Init ==
    /\ stored \in Initially
    /\ page = [open |-> FALSE, asking |-> FALSE, saving |-> FALSE,
               draft |-> [p \in Section |-> Empty],
               base |-> [p \in Section |-> IF p \in Lists THEN Empty ELSE Unset],
               dirty |-> [p \in Section |-> Differs(p, Empty, IF p \in Lists THEN Empty ELSE Unset)],
               teams |-> stored[Teams], known |-> stored[Teams]]
    /\ loads = {[section |-> p, opened |-> 0, value |-> Unset] : p \in AtStart}
    /\ saves = {} /\ posts = {}
    /\ want = NoWant /\ touched = {}
    /\ count = [what \in {"opens", "edits", "saves", "fails"} |-> 0]

-----------------------------------------------------------------------------
(* Reading a section. *)

\* openGroupManage, and the dialog that opens by itself on a first launch.
Open ==
    /\ ~page.open
    /\ Counted("opens", MaxOpens)
    /\ page' = Reset([page EXCEPT !.open = TRUE])
    /\ loads' = loads \cup {[r EXCEPT !.opened = count'["opens"]] : r \in Reading(Section)}
    /\ UNCHANGED <<stored, saves, posts, want, touched>>

ServeLoad(r) ==
    /\ r \in loads /\ r.value = Unset
    /\ loads' = (loads \ {r}) \cup {[r EXCEPT !.value = stored[r.section]]}
    /\ UNCHANGED <<stored, page, saves, posts, want, touched, count>>

\* loadSelectedProjects, loadBoardConfig and the others, at any time: nothing
\* asks whether the dialog is still open or the draft was edited.
ReceiveLoad(r) ==
    /\ r \in loads /\ r.value # Unset
    /\ loads' = loads \ {r}
    /\ page' = Set(page, r.section, r.value, r.value)
    /\ UNCHANGED <<stored, saves, posts, want, touched, count>>

FailLoad(r) ==
    /\ r \in loads
    /\ Counted("fails", MaxFails)
    /\ loads' = loads \ {r}
    /\ UNCHANGED <<stored, page, saves, posts, want, touched>>

-----------------------------------------------------------------------------
(* Editing and closing. *)

\* The user counts on an edit unless it was made while the section was being
\* read or saves were running, could not be read, or takes the draft back to
\* the baseline.
Wanted(p, value, base) ==
    IF value = base \/ base = Unset \/ saves # {} \/ \E r \in loads : r.section = p
    THEN Unset ELSE value

Edit(p, value) ==
    /\ page.open /\ value # page.draft[p]
    /\ Counted("edits", MaxEdits)
    /\ page' = Set(page, p, value, page.base[p])
    /\ want' = [want EXCEPT ![p] = Wanted(p, value, page.base[p])]
    /\ touched' = touched \cup {p}
    /\ UNCHANGED <<stored, loads, saves, posts>>

EditTeams(value) ==
    /\ page.open /\ value # page.teams
    /\ Counted("edits", MaxEdits)
    /\ page' = [page EXCEPT !.teams = value]
    /\ want' = [want EXCEPT ![Teams] = Wanted(Teams, value, page.known)]
    /\ touched' = touched \cup {Teams}
    /\ UNCHANGED <<stored, loads, saves, posts>>

\* requestCloseGroupManage, by the button or the Escape key
Close ==
    /\ page.open /\ ~page.saving /\ ~page.asking
    /\ page' = IF Dirty(page) THEN [page EXCEPT !.asking = TRUE] ELSE Closed(page)
    /\ UNCHANGED <<stored, loads, saves, posts, want, touched, count>>

KeepEditing ==
    /\ page.asking
    /\ page' = [page EXCEPT !.asking = FALSE]
    /\ UNCHANGED <<stored, loads, saves, posts, want, touched, count>>

\* discardGroupDraftChanges
Discard ==
    /\ page.asking
    /\ page' = Closed(page)
    /\ want' = NoWant
    /\ UNCHANGED <<stored, loads, saves, posts, touched, count>>

-----------------------------------------------------------------------------
(* Saving. *)

NoWhole == [p \in Part |-> Unset]

\* What Save has to send, in order, as it is in the render.
Todo(g) ==
    LET sections == SelectSeq(Order, LAMBDA p : g.dirty[p])
    IN  [i \in DOMAIN sections |-> [section |-> sections[i], value |-> g.draft[sections[i]]]]
            \o (IF TeamsDirty(g) THEN <<[section |-> Teams, value |-> g.teams]>> ELSE <<>>)

\* The request for what is to be sent next, if anything is left.
Sent(s) ==
    {[save |-> s.n, section |-> next.section, value |-> next.value,
      step |-> "sent", whole |-> NoWhole] : next \in {s.todo[i] : i \in DOMAIN s.todo \cap {1}}}

\* saveBlockedReason
Ready(g) == ~g.saving /\ Dirty(g) /\ Complete(g)

\* saveAllSettings and the start of saveGroupsConfig, by the button or Ctrl+S
Save ==
    /\ page.open /\ Ready(page)
    /\ Counted("saves", MaxSaves)
    /\ LET s == [n |-> count'["saves"], todo |-> Todo(page)]
       IN  saves' = saves \cup {s} /\ posts' = posts \cup Sent(s)
    /\ page' = [page EXCEPT !.saving = TRUE]
    /\ UNCHANGED <<stored, loads, want, touched>>

\* The server reads the whole configuration ...
ReadWhole(r) ==
    /\ r \in posts /\ r.step = "sent"
    /\ posts' = (posts \ {r}) \cup {[r EXCEPT !.step = "read", !.whole = stored]}
    /\ UNCHANGED <<stored, page, loads, saves, want, touched, count>>

\* ... and writes the whole, with one section changed.  The user cannot count
\* on what is written back with it to an older value.
WriteWhole(r) ==
    /\ r \in posts /\ r.step = "read"
    /\ stored' = [r.whole EXCEPT ![r.section] = r.value]
    /\ posts' = (posts \ {r}) \cup
                {[r EXCEPT !.step = "written", !.whole = NoWhole]}
    /\ want' = [p \in Part |->
                  IF p = r.section \/ stored'[p] = stored[p] THEN want[p] ELSE Unset]
    /\ UNCHANGED <<page, loads, saves, touched, count>>

\* What the answer to the save of a section does to the page.
Kept(g, p, value) ==
    CASE p = Teams -> Reset([g EXCEPT !.teams = value, !.known = value])
      [] p \in Echoed -> Set(g, p, value, value)
      [] OTHER -> [g EXCEPT !.base[p] = value, !.saving = IF p \in Releasing THEN FALSE ELSE @]

\* The answer: the baseline moves, and the next section is sent.  Saved groups
\* are a new groupsConfig, whose effect reads every section of an open dialog.
ReceiveSaved(s, r) ==
    /\ s \in saves /\ r \in posts /\ r.save = s.n /\ r.step = "written"
    /\ LET rest == [s EXCEPT !.todo = Tail(@)]
       IN  /\ saves' = (saves \ {s}) \cup {rest}
           /\ posts' = (posts \ {r}) \cup Sent(rest)
    /\ page' = Kept(page, r.section, r.value)
    /\ loads' = IF r.section = Teams /\ page.open THEN loads \cup Reading(Section) ELSE loads
    /\ UNCHANGED <<stored, want, touched, count>>

\* Everything is saved and the configuration was read again, as far as that
\* succeeded: the dialog is closed, whatever has become of it.
Finish(s) ==
    /\ s \in saves /\ s.todo = <<>>
    /\ saves' = saves \ {s}
    /\ page' = Closed([page EXCEPT !.saving = FALSE])
    /\ UNCHANGED <<stored, loads, posts, want, touched, count>>

\* Mutant of FailSave: the dialog closes after a save that failed.
FailSaveCloses(s, r) ==
    /\ s \in saves /\ r \in posts /\ r.save = s.n /\ r.step \in {"sent", "written"}
    /\ Counted("fails", MaxFails)
    /\ saves' = saves \ {s} /\ posts' = posts \ {r}
    /\ page' = Closed([page EXCEPT !.saving = FALSE])
    /\ UNCHANGED <<stored, loads, want, touched>>

\* A request is lost before the server has seen it, or its answer: the save is
\* over, and the dialog stays.
FailSave(s, r) ==
    /\ s \in saves /\ r \in posts /\ r.save = s.n /\ r.step \in {"sent", "written"}
    /\ Counted("fails", MaxFails)
    /\ saves' = saves \ {s} /\ posts' = posts \ {r}
    /\ page' = [page EXCEPT !.saving = FALSE]
    /\ UNCHANGED <<stored, loads, want, touched>>

-----------------------------------------------------------------------------
Next ==
    \/ Open \/ Close \/ KeepEditing \/ Discard \/ Save
    \/ \E p \in Section : \E value \in Options[p] : Edit(p, value)
    \/ \E value \in Options[Teams] : EditTeams(value)
    \/ \E r \in loads : ServeLoad(r) \/ ReceiveLoad(r) \/ FailLoad(r)
    \/ \E r \in posts : ReadWhole(r) \/ WriteWhole(r)
    \/ \E s \in saves, r \in posts : ReceiveSaved(s, r) \/ FailSave(s, r)
    \/ \E s \in saves : Finish(s)

Spec == Init /\ [][Next]_vars
-----------------------------------------------------------------------------
Config == [Part -> Value]

\* Every state is well typed.
TypeOK ==
    /\ stored \in Config
    /\ page \in [open: BOOLEAN, asking: BOOLEAN, saving: BOOLEAN,
                 draft: [Section -> Value], base: [Section -> Value \cup {Unset}],
                 dirty: [Section -> BOOLEAN], teams: Value, known: Value]
    /\ loads \subseteq [section: Section, opened: 0..MaxOpens, value: Value \cup {Unset}]
    /\ saves \subseteq [n: 1..MaxSaves, todo: Seq([section: Part, value: Value])]
    /\ posts \subseteq [save: 1..MaxSaves, section: Part, value: Value,
                        step: {"sent", "read", "written"}, whole: Config \cup {NoWhole}]
    /\ want \in [Part -> Value \cup {Unset}] /\ touched \subseteq Part

\* Once the dialog is closed and no save is running, what the user chose last
\* in a section is stored, unless the user was asked and said Discard
\* (requestCloseGroupManage, saveAllSettings).  Wanted and WriteWhole exempt
\* what the code does lose: edits made while the section was being read or a
\* save was running, edits of a section that could not be read, and sections
\* that overlapping saves wrote back.
NoSilentLoss ==
    ~page.open /\ saves = {} => \A p \in Part : want[p] \in {Unset, stored[p]}

\* The dialog that says "Save in progress", and cannot be closed, waits for a
\* save (saveGroupsConfig, saveProjectSelection).
BlockedBySave == page.saving => saves # {}

\* The page sends no section that the user has never edited: what it shows
\* before a section was read, or if that failed, never replaces what is stored
\* (isBoardConfigDirty and its like ask for a baseline).
OnlyTouchedSaved == \A s \in saves : \A next \in ToSet(s.todo) : next.section \in touched

DraftsSafe == TypeOK /\ NoSilentLoss /\ BlockedBySave /\ OnlyTouchedSaved

\* The team groups are saved "preserving other sections" (save_groups_config).
OtherSectionsPreserved ==
    [][\A r \in posts : r.section = Teams /\ r \notin posts' /\ r.step = "read"
          => \A p \in Section : stored'[p] = stored[p]]_vars
=============================================================================
