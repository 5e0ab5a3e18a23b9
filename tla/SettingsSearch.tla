--------------------------- MODULE SettingsSearch ---------------------------
(***************************************************************************)
(* The searches of the settings dialog (dashboard.jsx): the user types,    *)
(* the page waits until the typing stops, asks the server, and lists what  *)
(* was found, from which the user chooses.  There are three kinds.         *)
(*                                                                         *)
(* A picker (projects, board, components, epics) is an effect of the query *)
(* and of what is shown.  Its cleanup stops the timer and aborts the       *)
(* request.  A row of the team labels numbers its requests, keeps the      *)
(* answers in a cache, and asks only for three characters and more.  A     *)
(* menu of the labels of an EPM project numbers its requests as well; it   *)
(* asks for a prefix, or for all labels, whenever it is opened or typed    *)
(* in.                                                                     *)
(*                                                                         *)
(* field[s] is what the page keeps of a search.  Whether a list is dropped *)
(* down or hidden by the Escape key is left out, as are the limits on the  *)
(* length of a list, and the text by which a menu narrows its list.        *)
(***************************************************************************)
EXTENDS Naturals, Sequences, FiniteSets, SequencesExt

CONSTANTS Pickers, Rows, Menus,
          Single,       \* pickers that are gone once something is chosen (board)
          Narrowing,    \* pickers that list only what matches the query (projects, board)
          FallingBack,  \* those that list what the page knows if nothing was found (projects)
          KeepingQuery, \* pickers that choosing does not clear (epics)
          KeepingIndex, \* pickers whose highlight typing does not reset (components)
          Query, Short, Blank, \* queries; those a row does not ask for; the empty one
          Prefix, All,  \* prefixes, which may be empty, and what a menu asks for without one
          Item,
          Found,        \* what the server finds
          Known,        \* what the page knows without a search
          MaxTypes,     \* bound on the queries typed
          MaxMoves,     \* bound on choices, moves of the highlight, and what is shown or opened
          MaxFails      \* bound on requests that fail

Search == Pickers \cup Rows \cup Menus
Key == Query \cup Prefix \cup {All}

SearchAssumption ==
    /\ Pickers \cap Rows = {} /\ (Pickers \cup Rows) \cap Menus = {}
    /\ Single \cup Narrowing \cup FallingBack \cup KeepingQuery \cup KeepingIndex \subseteq Pickers
    /\ FallingBack \subseteq Narrowing /\ Single \cap KeepingQuery = {}
    /\ Blank \in Query /\ Blank \in Short /\ Short \subseteq Query
    /\ Found \in [Key -> Seq(Item)] /\ Found[Blank] = <<>> /\ Known \in Seq(Item)
    /\ Query \cap Prefix \subseteq {Blank} /\ All \notin Query \cup Prefix
    /\ {MaxTypes, MaxMoves, MaxFails} \subseteq Nat

VARIABLES field,
          prefix,    \* the label prefix in the EPM section
          requests,  \* requests whose answer the page still waits for
          cache,     \* queries whose labels the page keeps
          overtaken, \* history: rows answered from the cache while a request was under way
          count      \* how often each of the bounded things has happened

vars == <<field, prefix, requests, cache, overtaken, count>>

Counted(what, max) == count[what] < max /\ count' = [count EXCEPT ![what] = @ + 1]

-----------------------------------------------------------------------------
\* What a picker lists before the chosen is taken out: the projects and the
\* board only what matches the query as it stands now.
Narrowed(s, f) ==
    LET source == IF s \in FallingBack /\ f.list = <<>> THEN Known ELSE f.list
    IN  IF s \in Narrowing
        THEN SelectSeq(source, LAMBDA item : item \in ToSet(Found[f.query])) ELSE source

Remaining(s, f) == SelectSeq(Narrowed(s, f), LAMBDA item : item \notin f.chosen)

\* What can be chosen from; a row does not list what a short query left over.
List(s, f) ==
    CASE s \in Pickers -> Remaining(s, f)
      [] s \in Rows -> IF f.query \in Short THEN <<>> ELSE f.list
      [] OTHER -> f.list

\* The effect of the length of a picker's list.
Clamped(s, old, new) ==
    IF Len(List(s, new)) # Len(List(s, old)) /\ new.index >= Len(List(s, new))
    THEN [new EXCEPT !.index = 0] ELSE new

\* Requests whose answer the search still takes.
Current(s, f) == {r \in requests : r.by = s /\ r.n = f.latest}

Visible(s, f) == f.shown /\ (s \in Single => f.chosen = {})

Init ==
    /\ field = [s \in Search |-> [query |-> Blank, timer |-> Blank, list |-> <<>>, loading |-> FALSE,
                                  index |-> 0, chosen |-> {}, latest |-> 0,
                                  shown |-> s \in Rows, all |-> FALSE]]
    /\ prefix \in Prefix
    /\ requests = {} /\ cache = {} /\ overtaken = {}
    /\ count = [what \in {"types", "moves", "fails"} |-> 0]

-----------------------------------------------------------------------------
(* The pickers. *)

\* Mutant of Aborted: the cleanup stops the timer only.
NotAborted(s) == requests

\* The cleanup aborts the request.
Aborted(s) == {r \in requests : r.by # s}

\* The effect of a picker: it starts a timer, or clears what was found.
Searching(s, f) ==
    IF Visible(s, f) /\ f.query # Blank
    THEN [f EXCEPT !.timer = f.query]
    ELSE [f EXCEPT !.timer = Blank, !.list = <<>>, !.loading = FALSE]

\* A change of the picker that its effect depends on.
Rerun(s, f) ==
    /\ field' = [field EXCEPT ![s] = Clamped(s, @, Searching(s, f))]
    /\ requests' = Aborted(s)

\* The dialog or the tab is left, or entered again; closeGroupManage clears
\* the queries of most pickers, and leaving a tab keeps them.
Show(s, query) ==
    /\ Counted("moves", MaxMoves)
    /\ ~field[s].shown => query = field[s].query
    /\ Rerun(s, [field[s] EXCEPT !.shown = ~@, !.query = query,
                                 !.index = IF query = Blank THEN 0 ELSE @])
    /\ UNCHANGED <<prefix, cache, overtaken>>

TypePicker(s, query) ==
    /\ Visible(s, field[s]) /\ query # field[s].query
    /\ Counted("types", MaxTypes)
    /\ Rerun(s, [field[s] EXCEPT !.query = query,
                                 !.index = IF s \in KeepingIndex THEN @ ELSE 0])
    /\ UNCHANGED <<prefix, cache, overtaken>>

\* The typing has stopped for 220 ms.
FirePicker(s) ==
    /\ field[s].timer # Blank
    /\ field' = [field EXCEPT ![s].timer = Blank, ![s].loading = TRUE]
    /\ requests' = requests \cup {[by |-> s, n |-> 0, key |-> field[s].timer]}
    /\ UNCHANGED <<prefix, cache, overtaken, count>>

\* The answer, or <<>> if the request failed.
AnswerPicker(r, list) ==
    /\ requests' = requests \ {r}
    /\ field' = [field EXCEPT ![r.by] = Clamped(r.by, @, [@ EXCEPT !.list = list, !.loading = FALSE])]
    /\ UNCHANGED <<prefix, cache, overtaken>>

\* What Enter takes: results[index] || results[0]
Highlighted(s, f) == LET list == List(s, f)
                     IN  IF f.index < Len(list) THEN list[f.index + 1] ELSE list[1]

\* Enter, or a click: the components, the projects and the board clear the
\* query, the epics only add to what was chosen.
ChoosePicker(s) ==
    /\ Visible(s, field[s]) /\ List(s, field[s]) # <<>>
    /\ Counted("moves", MaxMoves)
    /\ LET f == [field[s] EXCEPT !.chosen = @ \cup {Highlighted(s, field[s])}]
       IN  IF s \in KeepingQuery
           THEN field' = [field EXCEPT ![s] = Clamped(s, @, f)] /\ UNCHANGED requests
           ELSE Rerun(s, [f EXCEPT !.query = Blank])
    /\ UNCHANGED <<prefix, cache, overtaken>>

\* A chosen item is taken back; for the board that is clearBoardSelection.
TakeBack(s, item) ==
    /\ item \in field[s].chosen
    /\ Counted("moves", MaxMoves)
    /\ LET f == [field[s] EXCEPT !.chosen = @ \ {item}]
       IN  IF s \in Single
           THEN Rerun(s, [f EXCEPT !.query = Blank])
           ELSE /\ field' = [field EXCEPT ![s] = IF s \in Pickers THEN Clamped(s, @, f) ELSE f]
                /\ UNCHANGED requests
    /\ UNCHANGED <<prefix, cache, overtaken>>

\* The arrow keys, in every kind of search.
Move(s, index) ==
    /\ Visible(s, field[s]) /\ (s \in Rows => field[s].chosen = {})
    /\ index \in {field[s].index - 1, field[s].index + 1} \cap 0..(Len(List(s, field[s])) - 1)
    /\ Counted("moves", MaxMoves)
    /\ field' = [field EXCEPT ![s].index = index]
    /\ UNCHANGED <<prefix, requests, cache, overtaken>>

-----------------------------------------------------------------------------
(* The team labels. *)

\* A request, which makes all earlier ones of the search late.
Ask(s, f, key) ==
    /\ field' = [field EXCEPT ![s] = [f EXCEPT !.latest = @ + 1, !.loading = TRUE]]
    /\ requests' = requests \cup {[by |-> s, n |-> f.latest + 1, key |-> key]}

\* scheduleJiraLabelSearch: a short query clears the list at once.
TypeRow(s, query) ==
    /\ field[s].chosen = {} /\ query # field[s].query
    /\ Counted("types", MaxTypes)
    /\ field' = [field EXCEPT ![s] =
                   IF query \in Short
                   THEN [@ EXCEPT !.query = query, !.timer = Blank, !.index = 0,
                                  !.list = <<>>, !.loading = FALSE]
                   ELSE [@ EXCEPT !.query = query, !.timer = query, !.index = 0]]
    /\ UNCHANGED <<prefix, requests, cache, overtaken>>

\* loadJiraLabels: what the cache holds is listed without a request.
FireRow(s) ==
    LET f == [field[s] EXCEPT !.timer = Blank]
    IN  /\ field[s].timer # Blank
        /\ IF field[s].timer \in cache
           THEN /\ field' = [field EXCEPT ![s] = [f EXCEPT !.list = Found[field[s].timer],
                                                          !.loading = FALSE, !.index = 0]]
                /\ overtaken' = IF Current(s, f) # {} THEN overtaken \cup {s} ELSE overtaken \ {s}
                /\ UNCHANGED requests
           ELSE /\ Ask(s, f, field[s].timer)
                /\ overtaken' = overtaken \ {s}
        /\ UNCHANGED <<prefix, cache, count>>

\* labelSearchRequestIdRef.current[key] === requestId
Accepts(r) == r.n = field[r.by].latest

\* The answer to a row or a menu, or <<>> if the request failed.
AnswerLabels(r, list) ==
    /\ requests' = requests \ {r}
    /\ field' = IF Accepts(r)
                THEN [field EXCEPT ![r.by] = [@ EXCEPT !.list = list, !.index = 0, !.loading = FALSE]]
                ELSE field
    /\ UNCHANGED <<prefix, overtaken>>

\* selectTeamLabel leaves the timer and the request.
ChooseRow(s) ==
    /\ field[s].chosen = {} /\ List(s, field[s]) # <<>>
    /\ Counted("moves", MaxMoves)
    /\ field' = [field EXCEPT ![s] = [@ EXCEPT !.chosen = {Highlighted(s, field[s])}, !.query = Blank,
                                               !.list = <<>>, !.index = 0]]
    /\ UNCHANGED <<prefix, requests, cache, overtaken>>

-----------------------------------------------------------------------------
(* The labels of EPM projects. *)

\* What loadEpmProjectLabels asks for.
Asked(f) == IF f.all \/ prefix = Blank THEN All ELSE prefix

\* openEpmLabelMenu, also by every key typed in it
OpenMenu(s) ==
    /\ Counted("moves", MaxMoves)
    /\ Ask(s, [field[s] EXCEPT !.shown = TRUE], Asked(field[s]))
    /\ UNCHANGED <<prefix, cache, overtaken>>

\* The button "Show all labels" or "Use prefix".
ToggleAll(s) ==
    /\ Counted("moves", MaxMoves)
    /\ LET f == [field[s] EXCEPT !.shown = TRUE, !.all = ~@] IN Ask(s, f, Asked(f))
    /\ UNCHANGED <<prefix, cache, overtaken>>

\* The focus leaves the menu.
CloseMenu(s) ==
    /\ field[s].shown
    /\ field' = [field EXCEPT ![s].shown = FALSE]
    /\ UNCHANGED <<prefix, requests, cache, overtaken, count>>

\* selectEpmProjectLabel keeps what was found.
ChooseMenu(s) ==
    /\ field[s].shown /\ field[s].list # <<>>
    /\ Counted("moves", MaxMoves)
    /\ field' = [field EXCEPT ![s] = [@ EXCEPT !.chosen = {Highlighted(s, field[s])},
                                               !.index = 0, !.shown = FALSE]]
    /\ UNCHANGED <<prefix, requests, cache, overtaken>>

\* updateEpmLabelPrefixDraft, on a tab without menus: their lists are
\* deleted, and neither their highlight nor their requests are.
TypePrefix(value) ==
    /\ value # prefix /\ \A s \in Menus : ~field[s].shown
    /\ Counted("types", MaxTypes)
    /\ prefix' = value
    /\ field' = [s \in Search |-> IF s \in Menus THEN [field[s] EXCEPT !.list = <<>>] ELSE field[s]]
    /\ UNCHANGED <<requests, cache, overtaken>>

-----------------------------------------------------------------------------
\* A request is answered.
Answer(r) ==
    /\ \/ r.by \in Pickers /\ AnswerPicker(r, Found[r.key])
       \/ /\ r.by \notin Pickers /\ AnswerLabels(r, Found[r.key])
          /\ cache' = IF r.by \in Rows THEN cache \cup {r.key} ELSE cache
    /\ UNCHANGED count

Fail(r) ==
    /\ Counted("fails", MaxFails)
    /\ \/ r.by \in Pickers /\ AnswerPicker(r, <<>>)
       \/ r.by \notin Pickers /\ AnswerLabels(r, <<>>) /\ UNCHANGED cache

Next ==
    \/ \E s \in Pickers : \/ FirePicker(s) \/ ChoosePicker(s)
                          \/ \E query \in {field[s].query, Blank} : Show(s, query)
                          \/ \E query \in Query : TypePicker(s, query)
    \/ \E s \in Rows : FireRow(s) \/ ChooseRow(s) \/ \E query \in Query : TypeRow(s, query)
    \/ \E s \in Menus : OpenMenu(s) \/ ToggleAll(s) \/ CloseMenu(s) \/ ChooseMenu(s)
    \/ \E value \in Prefix : TypePrefix(value)
    \/ \E s \in Search : \/ \E index \in 0..Cardinality(Item) : Move(s, index)
                         \/ \E item \in Item : s \notin Menus /\ TakeBack(s, item)
    \/ \E r \in requests : Answer(r) \/ Fail(r)

Spec == Init /\ [][Next]_vars
-----------------------------------------------------------------------------
\* Every state is well typed.
TypeOK ==
    /\ field \in [Search -> [query: Query, timer: Query, list: {<<>>} \cup Range(Found),
                             loading: BOOLEAN, index: Nat, chosen: SUBSET Item, latest: Nat,
                             shown: BOOLEAN, all: BOOLEAN]]
    /\ prefix \in Prefix /\ cache \subseteq Query \ Short /\ overtaken \subseteq Rows
    /\ requests \subseteq [by: Search, n: Nat, key: Key]

\* Nothing of the search is to come.
Quiet(s) == field[s].timer = Blank /\ Current(s, field[s]) = {}

\* What the search is for: the query that is typed, or what a menu is to list.
Wanted(s) == IF s \in Menus THEN Asked(field[s]) ELSE field[s].query

\* Once nothing of a search is to come, all that is listed was found for the
\* query that stands in its field, or for the prefix and the mode in which the
\* menu is open, in whatever order the answers came (the abort in the effects'
\* cleanup, labelSearchRequestIdRef).  Exempt are overtaken rows, whose list
\* the code does replace by the answer to an older query: a row that is
\* answered from the cache does not make the request under way late.
FreshWhenQuiet ==
    \A s \in Search : field[s].shown /\ Quiet(s) /\ s \notin overtaken
                      => ToSet(List(s, field[s])) \subseteq ToSet(Found[Wanted(s)])

\* "Searching..." is shown only while a timer or a request is to come
\* (setProjectSearchRemoteLoading, setLabelSearchLoading and the others).
LoadingEnds == \A s \in Search : field[s].loading => ~Quiet(s)

\* The highlighted entry is one of the list: Enter takes the entry that is
\* highlighted, and not the first in its place.
HighlightInList ==
    \A s \in Search : List(s, field[s]) # <<>> => field[s].index < Len(List(s, field[s]))

SearchSafe == TypeOK /\ FreshWhenQuiet /\ LoadingEnds /\ HighlightInList
=============================================================================
