-------------------------------- MODULE LeadTimes --------------------------------
(***************************************************************************)
(* Lead Times (dashboard.jsx, cohort/cohortUtils.js): the epics created in *)
(* a range of quarters, filtered by project, assignee, capacity and        *)
(* status, in a table of rows by the period of creation and columns by the *)
(* periods it took to close them, with the median above it and, below,     *)
(* the epics of the row that is selected.                                  *)
(*                                                                         *)
(* Time is counted in months.  Filters and the selected row are put back   *)
(* by effects when the answer no longer has what they name.  StatsLoading  *)
(* has the request.                                                        *)
(***************************************************************************)
EXTENDS Integers, FiniteSetsExt, SequencesExt

CONSTANTS Epics, Projects, Assignees, None, All,
          Kinds,       \* [created, terminal, status, project, assignee, adHoc, excluded]
          LastQuarter,
          MonthBudget, QuarterBudget,   \* maxColumns
          MaxClicks

VARIABLE page

Statuses == {"done", "open", "killed", "incomplete", "postponed"}
Groupings == {"month", "quarter"}

\* periodKeyFromDate
PeriodOf(month, by) == IF by = "month" THEN month ELSE month \div 3

\* The epics of the answer: those of Epics that have a kind in it.
Issues(p) == IF p.data = None THEN {} ELSE {e \in Epics : p.data.kind[e] # None}

ProjectOptions(p) == {All} \union {p.data.kind[e].project : e \in Issues(p)}

AssigneeOptions(p) ==
    {All} \union {p.data.kind[e].assignee :
                     e \in {i \in Issues(p) : p.project \in {All, p.data.kind[i].project}}}

\* filterCohortIssues
Filtered(p) ==
    {e \in Issues(p) :
        LET k == p.data.kind[e]
        IN /\ ~(p.noExcluded /\ k.excluded)
           /\ p.project \in {All, k.project}
           /\ ~(p.noAdHoc /\ k.adHoc)
           /\ p.assignee \in {All, k.assignee}
           /\ k.status \in p.statuses}

\* aggregateCohortSummary
Summary(p) ==
    [s \in Statuses |-> Cardinality({e \in Filtered(p) : p.data.kind[e].status = s})]

-----------------------------------------------------------------------------
(* The table.                                                              *)

\* computeElapsedPeriods
Elapsed(k, by) ==
    IF k.terminal = None \/ (k.terminal # None /\ k.terminal < k.created) THEN None
    ELSE PeriodOf(k.terminal, by) - PeriodOf(k.created, by)

Budget(by) == IF by = "month" THEN MonthBudget ELSE QuarterBudget

\* Is the epic counted in a cell, and in which column?
InCell(k, by) ==
    k.status # "open" /\ Elapsed(k, by) # None /\ Elapsed(k, by) <= Budget(by)

\* A row for each period in which an epic was created, and for each of the range.
Rows(p, by) ==
    IF p.data = None THEN {}
    ELSE {PeriodOf(p.data.kind[e].created, by) : e \in Filtered(p)}
         \union PeriodOf(3 * p.data.start, by)..PeriodOf(3 * p.data.end + 2, by)

OfRow(p, by, r) == {e \in Filtered(p) : PeriodOf(p.data.kind[e].created, by) = r}

Columns(p, by) ==
    0..Max({0} \union {Elapsed(p.data.kind[e], by) :
                          e \in {i \in Filtered(p) : InCell(p.data.kind[i], by)}})

\* buildCohortGridModel
Grid(p, by) ==
    [r \in Rows(p, by) |->
        [created |-> Cardinality(OfRow(p, by, r)),
         open |-> Cardinality({e \in OfRow(p, by, r) : p.data.kind[e].status = "open"}),
         cells |-> [c \in Columns(p, by) |->
            Cardinality({e \in OfRow(p, by, r) : /\ InCell(p.data.kind[e], by)
                                                 /\ Elapsed(p.data.kind[e], by) = c})]]]

InSelected(p, e) ==
    p.row = None \/ PeriodOf(p.data.kind[e].created, p.by) = p.row

\* buildOpenEpicsBars
OpenBars(p) == {e \in Filtered(p) : p.data.kind[e].status = "open" /\ InSelected(p, e)}

\* leadTimeDays, as the server sends it: nothing for an epic whose end it could
\* not find in time.
LeadTime(k) == IF k.terminal = None THEN None ELSE k.terminal - k.created

\* Number(leadTimeDays): nothing is a number too, and it is zero.
AsNumber(t) == IF t = None THEN 0 ELSE t

\* The terminal epics, all of which pass for having a lead time.
Resolved(p) == {e \in Filtered(p) : p.data.kind[e].status # "open"}

\* A plausible slip: the epics of the row are taken by quarter, whatever the
\* table is grouped by.
CompletedBarsByQuarter(p) ==
    {e \in Resolved(p) :
        p.row = None \/ PeriodOf(p.data.kind[e].created, "quarter") = p.row}

\* buildCompletedEpicsBars
CompletedBars(p) == {e \in Resolved(p) : InSelected(p, e)}

\* cohortMedianLeadDays, doubled
DoubleMedian(p) ==
    LET values == SetToSortSeq(Resolved(p), LAMBDA d, e :
                      AsNumber(LeadTime(p.data.kind[d])) <= AsNumber(LeadTime(p.data.kind[e])))
        at(n) == AsNumber(LeadTime(p.data.kind[values[n]]))
        middle == Len(values) \div 2
    IN CASE Len(values) = 0 -> None
         [] Len(values) % 2 = 1 -> 2 * at(middle + 1)
         [] Len(values) > 0 /\ Len(values) % 2 = 0 -> at(middle) + at(middle + 1)

-----------------------------------------------------------------------------
(* The page.                                                               *)

\* The effects that follow a rendering: the filters, then the row of what they leave.
WithFilters(p) ==
    [p EXCEPT !.project = IF @ \in ProjectOptions(p) THEN @ ELSE All,
              !.assignee = IF @ \in AssigneeOptions(p) THEN @ ELSE All,
              !.row = IF @ \in Rows(p, p.by) THEN @ ELSE None]

\* They run again on what they have set: the assignees are those of the project.
Effects(p) == WithFilters(WithFilters(p))

Init ==
    \E project \in {All} \union Projects, shown \in {{"done", "open"}, Statuses} :
        page = Effects([data |-> None, start |-> LastQuarter, end |-> LastQuarter,
                        project |-> project, assignee |-> All, noAdHoc |-> FALSE,
                        noExcluded |-> TRUE, statuses |-> shown, by |-> "quarter",
                        row |-> None, clicks |-> 0])

\* The answer is of another range than the one chosen, or there is none.
Asking == page.data # None => <<page.data.start, page.data.end>> # <<page.start, page.end>>

\* An answer comes: the epics created in the range.
Load ==
    /\ Asking
    /\ \E kind \in [Epics -> Kinds \union {None}] :
           /\ \A e \in Epics : kind[e] # None =>
                  PeriodOf(kind[e].created, "quarter") \in page.start..page.end
           /\ page' = Effects([page EXCEPT !.data = [kind |-> kind, start |-> page.start,
                                                     end |-> page.end]])

LoadFails == Asking /\ page' = Effects([page EXCEPT !.data = None])

Click(q) ==
    /\ page.clicks < MaxClicks
    /\ page' = Effects([q EXCEPT !.clicks = @ + 1])

\* A range is kept in order by moving the other end.
SetStart ==
    \E s \in (0..LastQuarter) \ {page.start} :
        Click([page EXCEPT !.start = s, !.end = IF s > @ THEN s ELSE @, !.row = None])

SetEnd ==
    \E t \in (0..LastQuarter) \ {page.end} :
        Click([page EXCEPT !.end = t, !.start = IF @ > t THEN t ELSE @, !.row = None])

GroupBy == \E by \in Groupings \ {page.by} : Click([page EXCEPT !.by = by, !.row = None])

SetProject ==
    \E x \in ProjectOptions(page) \ {page.project} :
        Click([page EXCEPT !.project = x, !.row = None])

SetAssignee ==
    \E a \in AssigneeOptions(page) \ {page.assignee} :
        Click([page EXCEPT !.assignee = a, !.row = None])

Exclude == \/ Click([page EXCEPT !.noAdHoc = ~@, !.row = None])
           \/ Click([page EXCEPT !.noExcluded = ~@, !.row = None])

ToggleStatus ==
    \E s \in Statuses :
        Click([page EXCEPT !.statuses = IF s \in @ THEN @ \ {s} ELSE @ \union {s}, !.row = None])

SelectRow ==
    \E r \in Rows(page, page.by) :
        Click([page EXCEPT !.row = IF @ = r THEN None ELSE r])

Next == \/ Load \/ LoadFails \/ SetStart \/ SetEnd \/ GroupBy \/ SetProject \/ SetAssignee
        \/ Exclude \/ ToggleStatus \/ SelectRow

Spec == Init /\ [][Next]_page

-----------------------------------------------------------------------------
\* Type correctness of the page's state.
TypeOK ==
    /\ page.start \in 0..page.end /\ page.end \in 0..LastQuarter
    /\ page.by \in Groupings /\ page.statuses \subseteq Statuses
    /\ page.noAdHoc \in BOOLEAN /\ page.noExcluded \in BOOLEAN
    /\ page.clicks \in 0..MaxClicks

\* A filter is one of those offered, so an answer cannot leave the tables
\* emptied by a project or an assignee nobody can see or clear; a selected row
\* is drawn.
FiltersOffered(p) ==
    /\ p.project \in ProjectOptions(p) /\ p.assignee \in AssigneeOptions(p)
    /\ p.row \in Rows(p, p.by) \union {None}

CellsOf(row) == MapThenSumSet(LAMBDA c : row.cells[c], DOMAIN row.cells)

\* The epics of a row that no column shows: closed, with no date of it or later
\* than the last column.
Dropped(p, by, r) ==
    {e \in OfRow(p, by, r) : LET k == p.data.kind[e]
                             IN /\ k.status # "open"
                                /\ k.terminal = None \/ Elapsed(k, by) > Budget(by)}

\* Every epic of the summary is in a row of the table: open, closed in a
\* column, or left out for a reason.
EveryEpicCounted(p, by) ==
    LET grid == Grid(p, by)
    IN /\ \A r \in DOMAIN grid :
              grid[r].created = CellsOf(grid[r]) + grid[r].open + Cardinality(Dropped(p, by, r))
       /\ MapThenSumSet(LAMBDA r : grid[r].created, DOMAIN grid)
              = MapThenSumSet(LAMBDA s : Summary(p)[s], Statuses)
       /\ MapThenSumSet(LAMBDA r : grid[r].open, DOMAIN grid) = Summary(p)["open"]

\* Grouping by quarter or by month shows the same epics: a quarter's row is
\* the sum of its months'.
GroupingsAgree(p) ==
    LET months == Grid(p, "month")
        quarters == Grid(p, "quarter")
    IN \A q \in DOMAIN quarters :
           /\ quarters[q].created =
                  MapThenSumSet(LAMBDA m : months[m].created, {m \in DOMAIN months : m \div 3 = q})
           /\ quarters[q].open =
                  MapThenSumSet(LAMBDA m : months[m].open, {m \in DOMAIN months : m \div 3 = q})

\* The charts under the table are of the selected row: as many open and
\* completed epics as the row says were created.
BarsOfRow(p) ==
    LET grid == Grid(p, p.by)
        counted == IF p.row = None THEN DOMAIN grid ELSE {p.row}
    IN /\ Cardinality(OpenBars(p)) = MapThenSumSet(LAMBDA r : grid[r].open, counted)
       /\ Cardinality(OpenBars(p)) + Cardinality(CompletedBars(p))
              = MapThenSumSet(LAMBDA r : grid[r].created, counted)

\* Half of the completed epics took no longer than the median, half no less.
MedianInMiddle(p) ==
    Resolved(p) # {} =>
        LET twice(e) == 2 * AsNumber(LeadTime(p.data.kind[e]))
            n == Cardinality(Resolved(p))
        IN /\ 2 * Cardinality({e \in Resolved(p) : twice(e) <= DoubleMedian(p)}) >= n
           /\ 2 * Cardinality({e \in Resolved(p) : twice(e) >= DoubleMedian(p)}) >= n

\* Table, summary, cards and charts of Lead Times (cohortUtils.js and the memos
\* of dashboard.jsx) count the same epics, whatever is filtered and selected.
LeadTimesSound ==
    /\ FiltersOffered(page)
    /\ \A by \in Groupings : EveryEpicCounted(page, by)
    /\ GroupingsAgree(page) /\ BarsOfRow(page) /\ MedianInMiddle(page)
=============================================================================
