---------------------------- MODULE CatchUpStatus ----------------------------
(***************************************************************************)
(* Changing the status, the priority or the project track of single issues *)
(* on the ENG Catch Up surface: the hooks useEngStatusTransitions.js,      *)
(* useEngPriorityTransitions.js and useEngProjectTrackTransitions.js, the  *)
(* rows they patch in dashboard.jsx, and the services of the backend that  *)
(* write to Jira.  Each hook has its own menu and pending keys; all share  *)
(* the queue of writes and the scope.  A row shows the new value at once;  *)
(* the answer confirms it or puts an old one back, unless the user has     *)
(* left the surface by then (mutationScopeKey).  Nobody else changes the   *)
(* issues.  A cell is a field of an issue.  The options of the menus are   *)
(* in IssueMenus; their messages are left out.                             *)
(***************************************************************************)
EXTENDS IssueMutationQueue

CONSTANTS Fields,   \* "status", and "priority" and "track", which are alike
          Values,   \* of a field
          NoIssue,
          Initial   \* value of every cell when the rows were loaded

ASSUME InitialAssumption == Initial \in Values
ASSUME NoIssueAssumption == NoIssue \notin Issues

VARIABLES jira,         \* value of each cell in Jira
          shown,        \* value in the rows
          surface,      \* mutationScopeKey: another surface is another scope
          menu,         \* active target of each hook
          pendingKeys,  \* pendingMutationKeysRef and pendingIssueKeys of the hooks
          writes,       \* what each job of the queue is about
          unseen        \* history: cells whose last answer never got to the
                        \* rows or did not say what Jira did

vars == <<queueVars, jira, shown, surface, menu, pendingKeys, writes, unseen>>

Cells == Issues \X Fields

NoMenu == [key |-> NoIssue, current |-> "none"]

Init ==
    /\ QueueInit
    /\ jira = [c \in Cells |-> Initial]
    /\ shown = [c \in Cells |-> Initial]
    /\ surface = "catch_up"
    /\ menu = [f \in Fields |-> NoMenu]
    /\ pendingKeys = {}
    /\ writes = <<>>
    /\ unseen = {}

\* openSingleIssueStatusControl and its siblings.  The control of another
\* issue is enabled unless a write of that field of it is pending.
Open(k, f) ==
    /\ ~draining
    /\ surface = "catch_up"
    /\ menu[f].key # k
    /\ <<k, f>> \notin pendingKeys
    /\ menu' = [menu EXCEPT ![f] = [key |-> k, current |-> shown[<<k, f>>]]]
    /\ UNCHANGED <<queueVars, jira, shown, surface, pendingKeys, writes, unseen>>

\* closeSingleIssueStatusControl and its siblings.
Close(f) ==
    /\ ~draining
    /\ menu[f] # NoMenu
    /\ menu' = [menu EXCEPT ![f] = NoMenu]
    /\ UNCHANGED <<queueVars, jira, shown, surface, pendingKeys, writes, unseen>>

\* submitStatusTransition and its siblings from the open menu, which stays
\* open; the value the row shows is not among its options.
Submit(k, f, value) ==
    /\ surface = "catch_up"
    /\ menu[f].key = k
    /\ value # shown[<<k, f>>]
    /\ <<k, f>> \notin pendingKeys
    /\ Enqueue(k)
    /\ shown' = [shown EXCEPT ![<<k, f>>] = value]
    /\ pendingKeys' = pendingKeys \union {<<k, f>>}
    /\ writes' = Append(writes, [field |-> f, target |-> value, prior |-> menu[f].current,
                                 current |-> "none", answer |-> "none"])
    /\ UNCHANGED <<jira, surface, menu, unseen>>

\* What a finished write leaves.
NoWrite == [field |-> "none", target |-> "none", prior |-> "none",
            current |-> "none", answer |-> "none"]

Cell(j) == <<jobs[j].key, writes[j].field>>

\* The route and Jira handle a running write.  The snapshot is taken first;
\* an answer other than success may come although Jira made the change.
Serve(j, answer, applied) ==
    /\ ~draining
    /\ j \in In("running")
    /\ writes[j].answer = "none"
    /\ LET c == Cell(j) IN
       /\ answer = "success" => applied
       /\ jira[c] = writes[j].target => applied /\ answer # "refused"
       /\ answer = "refused" => ~applied
       /\ answer = "failed" => applied
       /\ jira' = IF applied THEN [jira EXCEPT ![c] = writes[j].target] ELSE jira
       /\ writes' = [writes EXCEPT ![j].answer = answer,
                        ![j].current = IF answer \in {"refused", "failed"} THEN jira[c] ELSE "none"]
    /\ UNCHANGED <<queueVars, shown, surface, menu, pendingKeys, unseen>>

\* The rows after the answer, when a failed write is not undone.
ReconciledKeepsFailure(j) == writes[j].target

\* What the row shows once the answer is in: the target; for a status that
\* was refused, what Jira had; otherwise what the menu was opened with.
Reconciled(j) ==
    CASE writes[j].answer = "success" -> writes[j].target
      [] writes[j].answer \in {"refused", "failed"} /\ writes[j].field = "status" ->
            writes[j].current
      [] OTHER -> writes[j].prior

\* mutationScopeRef.current === mutationScope
SameScope == surface = "catch_up"

\* After this answer the row can be trusted: it got there, and either the
\* write was made, or Jira refused it and the value put back is Jira's.  A
\* priority or track is put back to what the menu was opened with, which an
\* earlier write from the same menu may have changed since.
Trusted(j) ==
    /\ SameScope
    /\ \/ writes[j].answer = "success"
       \/ /\ writes[j].answer = "refused"
          /\ writes[j].field = "status" \/ writes[j].prior = writes[j].current

\* The answer reaches the hook that submitted, and the queue goes on.
Answer(j) ==
    /\ Finish(j)
    /\ writes[j].answer # "none"
    /\ shown' = IF SameScope THEN [shown EXCEPT ![Cell(j)] = Reconciled(j)] ELSE shown
    /\ pendingKeys' = IF SameScope THEN pendingKeys \ {Cell(j)} ELSE pendingKeys
    /\ unseen' = IF Trusted(j) THEN unseen \ {Cell(j)} ELSE unseen \union {Cell(j)}
    /\ writes' = [writes EXCEPT ![j] = NoWrite]
    /\ UNCHANGED <<jira, surface, menu>>

\* Planning and back, with the effects on mutationScopeKey of the hooks.
SwitchSurface ==
    /\ ~draining
    /\ surface' = IF surface = "catch_up" THEN "planning" ELSE "catch_up"
    /\ menu' = [f \in Fields |-> NoMenu]
    /\ pendingKeys' = {}
    /\ UNCHANGED <<queueVars, jira, shown, writes, unseen>>

Turn ==
    /\ \/ \E j \in DOMAIN jobs : Start(j)
       \/ DrainEnd
    /\ UNCHANGED <<jira, shown, surface, menu, pendingKeys, writes, unseen>>

Answers == {"success", "refused", "failed", "lost"}

Next ==
    \/ \E k \in Issues, f \in Fields : Open(k, f) \/ \E v \in Values : Submit(k, f, v)
    \/ \E f \in Fields : Close(f)
    \/ \E j \in DOMAIN jobs :
          \/ \E answer \in Answers, applied \in BOOLEAN : Serve(j, answer, applied)
          \/ Answer(j)
    \/ SwitchSurface
    \/ Turn

Spec == Init /\ [][Next]_vars
-----------------------------------------------------------------------------
TypeOK ==
    /\ QueueTypeOK
    /\ jira \in [Cells -> Values]
    /\ shown \in [Cells -> Values]
    /\ surface \in {"catch_up", "planning"}
    /\ menu \in [Fields -> [key : Issues, current : Values] \union {NoMenu}]
    /\ pendingKeys \subseteq Cells
    /\ writes \in Seq([field : Fields, target : Values, prior : Values,
                       current : Values \union {"none"}, answer : Answers \union {"none"}]
                      \union {NoWrite})
    /\ Len(writes) = Len(jobs)
    /\ unseen \subseteq Cells

Unfinished(c) == {j \in DOMAIN jobs : jobs[j].state # "done" /\ Cell(j) = c}

(* Once the writes of a cell are answered, its row shows what Jira has,    *)
(* whatever order the user worked in, whatever else of the issue is being  *)
(* written and however often the surface was left in between; and a control*)
(* that is disabled has a write under way, so none stays disabled.         *)
RowShowsJira ==
    /\ TypeOK
    /\ \A c \in Cells \ unseen : Unfinished(c) = {} => shown[c] = jira[c]
    /\ \A c \in pendingKeys : Unfinished(c) # {}
=============================================================================
