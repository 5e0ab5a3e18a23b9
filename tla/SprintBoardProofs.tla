-------------------------- MODULE SprintBoardProofs --------------------------
(***************************************************************************)
(* That the ENG board shows nothing of another scope than the one selected,*)
(* and that nothing on it waits for what nobody will ask for, for any      *)
(* sprints, groups and bounds.                                             *)
(*                                                                         *)
(* First: an operator on pages is good if it makes of a good page a good   *)
(* one of the same scope: the types hold, the lists shown and kept are of  *)
(* their sprint and group, and every request that the page asked for, and  *)
(* did not abort, is of the sprint selected (IInv).                        *)
(*                                                                         *)
(* Then: what is not there is on its way (LInv).  A list that is loading,  *)
(* or blank on a page that somebody loads for, has a request; the mark of  *)
(* the sprint is set or will be; and what is kept of a group whose rows    *)
(* were shown is whole, for the page that comes back to it asks for        *)
(* nothing.                                                                *)
(***************************************************************************)
EXTENDS SprintBoard, SequenceTheorems, WellFoundedInduction, TLAPS

Requests ==
    [list : Projects \cup {"preload"}, scope : Scopes, by : {"page", "batch"},
     at : {"jira", "session"}, again : BOOLEAN, aborted : BOOLEAN]

Marks == [sprint : Sprints, done : SUBSET Projects]

Pages ==
    [sprint : Sprints, group : Groups, teams : [Groups -> 0..MaxEvents],
     epm : BOOLEAN, statsOnly : BOOLEAN, rows : [Projects -> Lists], fetched : BOOLEAN,
     loading : [Projects -> BOOLEAN], busy : BOOLEAN, mark : Marks,
     lastLoaded : Sprints \cup {None}, preload : Lists, preloadOf : Scopes \cup {None},
     backlog : Scopes \cup {None}, backlogAsked : Scopes \cup {None},
     cache : [Groups -> Snapshots \cup {None}], asked : Seq(Requests)]

\* Lists shown with a sprint and a group are of them.
FreshLists(rows, preload, sprint, group) ==
    /\ \A p \in Projects : Fresh(rows[p], sprint, group)
    /\ Fresh(preload, sprint, group)

FreshCache(cache) ==
    \A g \in Groups : cache[g] # None =>
        FreshLists(cache[g].rows, cache[g].preload, cache[g].sprint, g)

\* What the page asked for is of its sprint, unless it was aborted.
OfSprint(asked, sprint) ==
    \A i \in DOMAIN asked :
        asked[i].by = "page" /\ ~asked[i].aborted => asked[i].scope.sprint = sprint

\* Only a request that waits for the session outlives its abortion.
Dismissed(asked) == \A i \in DOMAIN asked : ~Aborting(asked[i])

Good(b) ==
    /\ b \in Pages
    /\ FreshLists(b.rows, b.preload, b.sprint, b.group)
    /\ FreshCache(b.cache)
    /\ OfSprint(b.asked, b.sprint)

SameScope(b, c) == c.sprint = b.sprint /\ c.group = b.group /\ c.teams = b.teams /\ c.epm = b.epm

SameBacklog(b, c) == c.backlog = b.backlog /\ c.backlogAsked = b.backlogAsked

\* What most operators do to a good page.
Works(b, c) ==
    /\ Good(c) /\ SameScope(b, c) /\ SameBacklog(b, c)
    /\ Dismissed(b.asked) => Dismissed(c.asked)

BacklogOk(b) ==
    ~b.epm =>
        /\ b.backlogAsked \in {None, Scope(b)}
        /\ b.backlog # None /\ b.backlogAsked = None => b.backlog = Scope(b)

\* A page between two turns of the event loop.
Settled(b) == Good(b) /\ Dismissed(b.asked) /\ BacklogOk(b)

IInv ==
    /\ Settled(page)
    /\ batch = None \/ batch \in Scopes
    /\ saving \in BOOLEAN /\ sprintsAsked \in BOOLEAN
    /\ events \in 0..MaxEvents
    /\ \A g \in Groups : page.teams[g] <= events

-----------------------------------------------------------------------------
(* Small parts of a page.                                                  *)

LEMMA ScopeTyped ==
  ASSUME NEW b, b \in Pages
  PROVE  Scope(b) \in Scopes /\ Scope(b).sprint = b.sprint /\ Scope(b).group = b.group
BY DEF Pages, Scope, Scopes

LEMMA SameScopes ==
  ASSUME NEW b, NEW c, SameScope(b, c)
  PROVE  Scope(c) = Scope(b)
BY DEF SameScope, Scope

LEMMA BlankTyped ==
  Blank \in Lists /\ BlankLists \in [Projects -> Lists]
  /\ \A sprint, group : FreshLists(BlankLists, Blank, sprint, group)
<1>1. Blank \in Lists /\ Blank.as # "rows"
  BY DEF Blank, Lists
<1>2. BlankLists \in [Projects -> Lists] /\ \A p \in Projects : BlankLists[p] = Blank
  BY <1>1 DEF BlankLists
<1>3. \A sprint, group : Fresh(Blank, sprint, group)
  BY <1>1 DEF Fresh
<1> QED
  BY <1>1, <1>2, <1>3 DEF FreshLists

LEMMA RequestTyped ==
  ASSUME NEW list \in Projects \cup {"preload"}, NEW scope \in Scopes, NEW by \in {"page", "batch"}
  PROVE  LET r == Request(list, scope, by) IN
         /\ r \in Requests /\ ~r.aborted /\ r.list = list /\ r.scope = scope /\ r.by = by
         /\ ~Aborting(r)
BY DEF Request, Requests, Aborting

\* A list that says it came from Jira for the page is of the page's sprint.
LEMMA ListFresh ==
  ASSUME NEW b, b \in Pages, NEW r \in Requests,
         NEW as \in {"rows", "none", "empty", "dropped"},
         as = "rows" => r.by = "batch" \/ r.scope.sprint = b.sprint
  PROVE  List(b, r, as) \in Lists /\ Fresh(List(b, r, as), b.sprint, b.group)
<1> PICK how : how = (IF r.scope = Scope(b) THEN "prompt" ELSE r.by)
  OBVIOUS
<1> PICK l : l = [scope |-> r.scope, as |-> as, how |-> how]
  OBVIOUS
<1>1. l = List(b, r, as)
  BY DEF List
<1>2. how \in {"prompt", "page", "batch"} /\ r.scope \in Scopes
  BY DEF Requests
<1>3. l \in Lists
  BY <1>2 DEF Lists
<1>4. l.scope = r.scope /\ l.as = as /\ l.how = how
  OBVIOUS
<1>5. Scope(b).sprint = b.sprint /\ Scope(b).group = b.group
  BY ScopeTyped
<1>6. CASE r.scope = Scope(b)
  BY <1>1, <1>3, <1>4, <1>5, <1>6 DEF Fresh
<1>7. CASE r.scope # Scope(b)
  <2>1. how = r.by /\ r.by \in {"page", "batch"}
    BY <1>7 DEF Requests
  <2> QED
    BY <1>1, <1>3, <1>4, <1>7, <2>1 DEF Fresh
<1> QED
  BY <1>6, <1>7

-----------------------------------------------------------------------------
(* The end of a request.                                                   *)

\* A page of the same lists, requests and scope as another works alike.
LEMMA SameGood ==
  ASSUME NEW b, Good(b), NEW c, c \in Pages, SameScope(b, c),
         c.rows = b.rows, c.preload = b.preload, c.cache = b.cache, c.asked = b.asked
  PROVE  Good(c)
BY DEF Good, SameScope

LEMMA WorksSelf ==
  ASSUME NEW b, Good(b)
  PROVE  Works(b, b)
BY DEF Works, SameScope, SameBacklog

LEMMA WorksOn ==
  ASSUME NEW b, NEW c, NEW d, Works(b, c), Works(c, d)
  PROVE  Works(b, d)
BY DEF Works, SameScope, SameBacklog

\* The marks of the lists that are there.
LEMMA MarkedWorks ==
  ASSUME NEW b, Good(b), NEW p \in Projects, NEW sprint \in Sprints
  PROVE  Works(b, Marked(b, p, sprint)) /\ Marked(b, p, sprint).asked = b.asked
<1>0. b \in Pages /\ b.mark \in Marks
  BY DEF Good, Pages
<1>k. PICK kept \in SUBSET Projects :
           kept = IF b.mark.sprint = sprint THEN b.mark.done ELSE {}
  BY <1>0 DEF Marks
<1>m. PICK mark \in Marks : mark = [sprint |-> sprint, done |-> kept \cup {p}]
  BY DEF Marks
<1>l. PICK last \in Sprints \cup {None} :
           last = IF kept \cup {p} = Projects THEN sprint ELSE b.lastLoaded
  BY <1>0 DEF Pages
<1>c. PICK c : c = [b EXCEPT !.mark = mark, !.lastLoaded = last]
  OBVIOUS
<1>1. c = Marked(b, p, sprint)
  BY <1>0, <1>k, <1>m, <1>l, <1>c DEF Marked, Pages
<1>2. c \in Pages
  BY <1>0, <1>c DEF Pages
<1>3. /\ c.sprint = b.sprint /\ c.group = b.group /\ c.teams = b.teams /\ c.epm = b.epm
      /\ c.backlog = b.backlog /\ c.backlogAsked = b.backlogAsked
  BY <1>0, <1>c DEF Pages
<1>4. /\ c.rows = b.rows /\ c.preload = b.preload /\ c.cache = b.cache /\ c.asked = b.asked
  BY <1>0, <1>c DEF Pages
<1>5. SameScope(b, c) /\ SameBacklog(b, c)
  BY <1>3 DEF SameScope, SameBacklog
<1>6. Good(c)
  BY <1>2, <1>4, <1>5, SameGood
<1> QED
  BY <1>1, <1>4, <1>5, <1>6 DEF Works

\* A list arrives, one that says it came from Jira for the page being of its
\* sprint.
LEMMA LandedWorks ==
  ASSUME NEW b, Good(b), NEW r \in Requests,
         NEW as \in {"rows", "none", "empty", "dropped"},
         as = "rows" => r.by = "batch" \/ r.scope.sprint = b.sprint
  PROVE  Works(b, Landed(b, r, as)) /\ Landed(b, r, as).asked = b.asked
<1>0. b \in Pages
  BY DEF Good
<1> PICK l \in Lists : l = List(b, r, as) /\ Fresh(l, b.sprint, b.group)
  BY <1>0, ListFresh
<1>1. CASE r.list = "preload"
  <2>c. PICK c : c = [b EXCEPT !.preload = l]
    OBVIOUS
  <2>1. c = Landed(b, r, as)
    BY <1>1, <2>c DEF Landed
  <2>2. c \in Pages
    BY <1>0, <2>c DEF Pages
  <2>3. /\ c.sprint = b.sprint /\ c.group = b.group /\ c.teams = b.teams /\ c.epm = b.epm
        /\ c.backlog = b.backlog /\ c.backlogAsked = b.backlogAsked
    BY <1>0, <2>c DEF Pages
  <2>4. c.rows = b.rows /\ c.preload = l /\ c.cache = b.cache /\ c.asked = b.asked
    BY <1>0, <2>c DEF Pages
  <2>5. FreshLists(c.rows, c.preload, c.sprint, c.group)
    BY <2>3, <2>4 DEF Good, FreshLists
  <2>6. Good(c)
    BY <2>2, <2>3, <2>4, <2>5 DEF Good
  <2> QED
    BY <2>1, <2>3, <2>4, <2>6 DEF Works, SameScope, SameBacklog
<1>2. CASE r.list # "preload"
  <2> PICK p \in Projects : p = r.list
    BY <1>2 DEF Requests
  <2> PICK rows \in [Projects -> Lists] : rows = [b.rows EXCEPT ![p] = l]
    BY <1>0 DEF Pages
  <2> PICK loading \in [Projects -> BOOLEAN] : loading = [b.loading EXCEPT ![p] = FALSE]
    BY <1>0 DEF Pages
  <2>c. PICK c : c = [b EXCEPT !.rows = rows, !.fetched = TRUE, !.loading = loading]
    OBVIOUS
  <2>1. Landed(b, r, as) = Marked(c, p, r.scope.sprint)
    BY <1>0, <1>2, <2>c DEF Landed, Pages
  <2>2. c \in Pages
    BY <1>0, <2>c DEF Pages
  <2>3. /\ c.sprint = b.sprint /\ c.group = b.group /\ c.teams = b.teams /\ c.epm = b.epm
        /\ c.backlog = b.backlog /\ c.backlogAsked = b.backlogAsked
    BY <1>0, <2>c DEF Pages
  <2>4. c.rows = rows /\ c.preload = b.preload /\ c.cache = b.cache /\ c.asked = b.asked
    BY <1>0, <2>c DEF Pages
  <2>5. \A q \in Projects : rows[q] = IF q = p THEN l ELSE b.rows[q]
    BY <1>0 DEF Pages
  <2>6. FreshLists(c.rows, c.preload, c.sprint, c.group)
    <3>1. FreshLists(b.rows, b.preload, b.sprint, b.group)
      BY DEF Good
    <3>2. FreshLists(rows, b.preload, b.sprint, b.group)
      BY <2>5, <3>1 DEF FreshLists
    <3> QED
      BY <2>3, <2>4, <3>2
  <2>7. Good(c)
    BY <2>2, <2>3, <2>4, <2>6 DEF Good
  <2>8. r.scope.sprint \in Sprints
    BY DEF Requests, Scopes
  <2>9. Works(b, c)
    BY <2>3, <2>4, <2>7 DEF Works, SameScope, SameBacklog
  <2>10. Works(c, Marked(c, p, r.scope.sprint)) /\ Marked(c, p, r.scope.sprint).asked = c.asked
    BY <2>7, <2>8, MarkedWorks
  <2> QED
    BY <2>1, <2>4, <2>9, <2>10, WorksOn
<1> QED
  BY <1>1, <1>2

\* The end of a request.
LEMMA FinishedWorks ==
  ASSUME NEW b, Good(b), NEW r \in Requests,
         NEW as \in {"rows", "none", "empty", "dropped"},
         as = "rows" => r.by = "batch" \/ r.scope.sprint = b.sprint
  PROVE  Works(b, Finished(b, r, as)) /\ Finished(b, r, as).asked = b.asked
<1>0. b \in Pages
  BY DEF Good
<1> PICK busy \in BOOLEAN : busy = (b.busy /\ r.list = "preload")
  OBVIOUS
<1>c. PICK c : c = [b EXCEPT !.busy = busy]
  OBVIOUS
<1>1. Finished(b, r, as) = Landed(c, r, as)
  BY <1>0, <1>c DEF Finished, Pages
<1>2. c \in Pages
  BY <1>0, <1>c DEF Pages
<1>3. /\ c.sprint = b.sprint /\ c.group = b.group /\ c.teams = b.teams /\ c.epm = b.epm
      /\ c.backlog = b.backlog /\ c.backlogAsked = b.backlogAsked
  BY <1>0, <1>c DEF Pages
<1>4. c.rows = b.rows /\ c.preload = b.preload /\ c.cache = b.cache /\ c.asked = b.asked
  BY <1>0, <1>c DEF Pages
<1>5. Good(c)
  BY <1>2, <1>3, <1>4, SameGood DEF SameScope
<1>6. Works(b, c)
  BY <1>3, <1>4, <1>5 DEF Works, SameScope, SameBacklog
<1>7. Works(c, Landed(c, r, as)) /\ Landed(c, r, as).asked = c.asked
  <2>1. as = "rows" => r.by = "batch" \/ r.scope.sprint = c.sprint
    BY <1>3
  <2> QED
    BY <1>5, <2>1, LandedWorks
<1> QED
  BY <1>1, <1>4, <1>6, <1>7, WorksOn

-----------------------------------------------------------------------------
(* Asking.                                                                 *)

\* One more request of the page's sprint, or of a batch.
LEMMA AppendedOk ==
  ASSUME NEW asked \in Seq(Requests), NEW sprint, NEW r \in Requests,
         r.by = "page" /\ ~r.aborted => r.scope.sprint = sprint
  PROVE  /\ Append(asked, r) \in Seq(Requests)
         /\ OfSprint(asked, sprint) => OfSprint(Append(asked, r), sprint)
         /\ Dismissed(asked) /\ ~Aborting(r) => Dismissed(Append(asked, r))
<1> PICK n \in Nat : n = Len(asked)
  BY LenProperties
<1> PICK more \in Seq(Requests) : more = Append(asked, r)
  BY AppendProperties
<1>1. /\ Len(more) = n + 1
      /\ \A i \in 1..n : more[i] = asked[i]
      /\ more[n + 1] = r
  BY AppendProperties
<1>2. DOMAIN asked = 1..n /\ DOMAIN more = 1..(n + 1)
  BY <1>1, LenProperties
<1>3. \A i \in DOMAIN more : (i \in DOMAIN asked /\ more[i] = asked[i]) \/ more[i] = r
  BY <1>1, <1>2
<1>4. OfSprint(asked, sprint) => OfSprint(more, sprint)
  BY <1>3 DEF OfSprint
<1>5. Dismissed(asked) /\ ~Aborting(r) => Dismissed(more)
  BY <1>3 DEF Dismissed
<1> QED
  BY <1>4, <1>5

\* A page of the same lists and scope that asked for one thing more.
LEMMA AskedWorks ==
  ASSUME NEW b, Good(b), NEW c, c \in Pages, SameScope(b, c), SameBacklog(b, c),
         c.rows = b.rows, c.preload = b.preload, c.cache = b.cache,
         NEW r \in Requests, ~Aborting(r), c.asked = Append(b.asked, r),
         r.by = "page" /\ ~r.aborted => r.scope.sprint = b.sprint
  PROVE  Works(b, c)
<1>1. b \in Pages /\ b.asked \in Seq(Requests) /\ OfSprint(b.asked, b.sprint)
  BY DEF Good, Pages
<1>2. /\ OfSprint(c.asked, b.sprint)
      /\ Dismissed(b.asked) => Dismissed(c.asked)
  BY <1>1, AppendedOk
<1>3. Good(c)
  BY <1>2 DEF Good, SameScope
<1> QED
  BY <1>2, <1>3 DEF Works

\* A list of the page's sprint is asked for, or one of a batch.
LEMMA LoadTasksWorks ==
  ASSUME NEW b, Good(b), NEW p \in Projects, NEW scope \in Scopes,
         NEW by \in {"page", "batch"}, by = "page" => scope.sprint = b.sprint
  PROVE  Works(b, LoadTasks(b, p, scope, by))
<1>0. b \in Pages /\ Good(b)
  BY DEF Good
<1>r. PICK r \in Requests : r = Request(p, scope, by)
  BY RequestTyped
<1>1. r.scope = scope /\ r.by = by /\ ~r.aborted /\ ~Aborting(r)
  BY <1>r, RequestTyped
<1>2. CASE scope.group \in Teamless
  <2>1. LoadTasks(b, p, scope, by) = Landed(b, r, "empty")
    BY <1>2, <1>r DEF LoadTasks
  <2> QED
    BY <1>0, <2>1, LandedWorks
<1>3. CASE scope.group \notin Teamless
  <2>0. b.asked \in Seq(Requests) /\ b.loading \in [Projects -> BOOLEAN]
    BY <1>0 DEF Pages
  <2>l. PICK loading \in [Projects -> BOOLEAN] : loading = [b.loading EXCEPT ![p] = TRUE]
    BY <2>0
  <2>a. PICK asked \in Seq(Requests) : asked = Append(b.asked, r)
    BY <2>0, AppendProperties
  <2>c. PICK c : c = [b EXCEPT !.loading = loading, !.busy = TRUE, !.asked = asked]
    OBVIOUS
  <2>1. c = LoadTasks(b, p, scope, by)
    BY <1>0, <1>3, <1>r, <2>l, <2>a, <2>c DEF LoadTasks, Pages
  <2>2. c \in Pages
    BY <1>0, <2>c DEF Pages
  <2>3. /\ c.sprint = b.sprint /\ c.group = b.group /\ c.teams = b.teams /\ c.epm = b.epm
        /\ c.backlog = b.backlog /\ c.backlogAsked = b.backlogAsked
    BY <1>0, <2>c DEF Pages
  <2>4. c.rows = b.rows /\ c.preload = b.preload /\ c.cache = b.cache /\ c.asked = asked
    BY <1>0, <2>c DEF Pages
  <2>5. SameScope(b, c) /\ SameBacklog(b, c)
    BY <2>3 DEF SameScope, SameBacklog
  <2>6. r.by = "page" => r.scope.sprint = b.sprint
    BY <1>1
  <2> QED
    BY <1>0, <1>1, <2>a, <2>1, <2>2, <2>4, <2>5, <2>6, AskedWorks
<1> QED
  BY <1>2, <1>3

LEMMA LoadBothWorks ==
  ASSUME NEW b, Good(b), NEW scope \in Scopes,
         NEW by \in {"page", "batch"}, by = "page" => scope.sprint = b.sprint
  PROVE  Works(b, LoadBoth(b, scope, by))
<1>c. PICK c : c = LoadTasks(b, "product", scope, by)
  OBVIOUS
<1>1. "product" \in Projects /\ "tech" \in Projects
  BY DEF Projects
<1>2. Works(b, c)
  BY <1>c, <1>1, LoadTasksWorks
<1>3. Good(c) /\ c.sprint = b.sprint
  BY <1>2 DEF Works, SameScope
<1>4. Works(c, LoadTasks(c, "tech", scope, by))
  <2>1. by = "page" => scope.sprint = c.sprint
    BY <1>3
  <2> QED
    BY <1>1, <1>3, <2>1, LoadTasksWorks
<1>5. LoadBoth(b, scope, by) = LoadTasks(c, "tech", scope, by)
  BY <1>c DEF LoadBoth
<1> QED
  BY <1>2, <1>4, <1>5, WorksOn

\* The lists behind the alert are asked for.
LEMMA LoadPreloadWorks ==
  ASSUME NEW b, Good(b), NEW scope \in Scopes, NEW withEpics,
         NEW by \in {"page", "batch"}, by = "page" => scope.sprint = b.sprint
  PROVE  Works(b, LoadPreload(b, scope, withEpics, by))
<1>0. b \in Pages /\ Good(b)
  BY DEF Good
<1>r. PICK r \in Requests : r = Request("preload", scope, by)
  BY RequestTyped
<1>1. r.scope = scope /\ r.by = by /\ ~r.aborted /\ ~Aborting(r)
  BY <1>r, RequestTyped
<1>2. CASE scope.group \in Teamless \/ ~withEpics
  <2>1. LoadPreload(b, scope, withEpics, by) = Landed(b, r, "empty")
    BY <1>2, <1>r DEF LoadPreload
  <2> QED
    BY <1>0, <2>1, LandedWorks
<1>3. CASE ~(scope.group \in Teamless \/ ~withEpics)
  <2>0. b.asked \in Seq(Requests)
    BY <1>0 DEF Pages
  <2>a. PICK asked \in Seq(Requests) : asked = Append(b.asked, r)
    BY <2>0, AppendProperties
  <2>c. PICK c : c = [b EXCEPT !.asked = asked]
    OBVIOUS
  <2>1. c = LoadPreload(b, scope, withEpics, by)
    BY <1>0, <1>3, <1>r, <2>a, <2>c DEF LoadPreload, Pages
  <2>2. c \in Pages
    BY <1>0, <2>c DEF Pages
  <2>3. /\ c.sprint = b.sprint /\ c.group = b.group /\ c.teams = b.teams /\ c.epm = b.epm
        /\ c.backlog = b.backlog /\ c.backlogAsked = b.backlogAsked
    BY <1>0, <2>c DEF Pages
  <2>4. c.rows = b.rows /\ c.preload = b.preload /\ c.cache = b.cache /\ c.asked = asked
    BY <1>0, <2>c DEF Pages
  <2>5. SameScope(b, c) /\ SameBacklog(b, c)
    BY <2>3 DEF SameScope, SameBacklog
  <2>6. r.by = "page" => r.scope.sprint = b.sprint
    BY <1>1
  <2> QED
    BY <1>0, <1>1, <2>a, <2>1, <2>2, <2>4, <2>5, <2>6, AskedWorks
<1> QED
  BY <1>2, <1>3

-----------------------------------------------------------------------------
(* Aborting.  What aborted requests leave behind is a recursive function:  *)
(* it exists, and its values are good, by the least n for which they would *)
(* not.                                                                    *)

LEMMA LeastOf ==
  ASSUME NEW T, T \subseteq Nat, T # {}
  PROVE  \E n \in T : \A m \in T : n <= m
<1> DEFINE R == OpToRel(<, Nat)
<1>1. IsWellFoundedOn(R, Nat)
  BY NatLessThanWellFounded
<1>2. PICK n \in T : \A m \in T : ~(<<m, n>> \in R)
  <2> HIDE DEF R
  <2> QED
    BY <1>1, WFMin
<1>3. \A m \in Nat : m < n => <<m, n>> \in R
  BY DEF OpToRel
<1>4. \A m \in T : ~(m < n)
  <2> HIDE DEF R
  <2> QED
    BY <1>2, <1>3
<1> QED
  BY <1>4

\* After abortSprintFetches nothing the page asked for counts any more.
LEMMA AbortedIs ==
  ASSUME NEW b, b \in Pages
  PROVE  \E asked \in Seq(Requests) :
            /\ Aborted(b) = [b EXCEPT !.asked = asked]
            /\ \A sprint : OfSprint(asked, sprint)
<1>0. b.asked \in Seq(Requests)
  BY DEF Pages
<1>n. PICK n \in Nat : n = Len(b.asked)
  BY <1>0, LenProperties
<1>1. DOMAIN b.asked = 1..n /\ \A i \in 1..n : b.asked[i] \in Requests
  BY <1>0, <1>n, LenProperties, ElementOfSeq
<1>2. \A i \in 1..n : /\ [b.asked[i] EXCEPT !.aborted = TRUE] \in Requests
                      /\ [b.asked[i] EXCEPT !.aborted = TRUE].aborted
  BY <1>1 DEF Requests
<1>a. PICK asked : asked = [i \in 1..n |-> [b.asked[i] EXCEPT !.aborted = TRUE]]
  OBVIOUS
<1>3. asked \in [1..n -> Requests]
  BY <1>2, <1>a
<1>4. asked \in Seq(Requests) /\ DOMAIN asked = 1..n
  BY <1>3, SeqDef
<1>5. \A i \in DOMAIN asked : asked[i].aborted
  BY <1>2, <1>4, <1>a
<1>6. Aborted(b) = [b EXCEPT !.asked = asked]
  BY <1>1, <1>a DEF Aborted, Pages
<1> QED
  BY <1>4, <1>5, <1>6 DEF OfSprint

\* f[i] is the page when i requests have been seen to.
Landing(b, n, f) ==
    f = [i \in 0..n |-> IF i = 0 THEN [b EXCEPT !.asked = <<>>]
                        ELSE Dropped(f[i - 1], b.asked[i])]

LEMMA LandingExists ==
  ASSUME NEW b, NEW n \in Nat
  PROVE  \E f : Landing(b, n, f)
<1>t. PICK T : T = {k \in Nat : ~\E f : Landing(b, k, f)}
  OBVIOUS
<1>1. SUFFICES ASSUME T # {} PROVE FALSE
  BY <1>t
<1>2. PICK m \in T : \A k \in T : m <= k
  BY <1>1, <1>t, LeastOf
<1>3. m \in Nat /\ ~\E f : Landing(b, m, f)
  BY <1>2, <1>t
<1>4. CASE m = 0
  <2> PICK c : c = [b EXCEPT !.asked = <<>>]
    OBVIOUS
  <2>f. PICK f : f = [i \in 0..0 |-> c]
    OBVIOUS
  <2>1. Landing(b, 0, f)
    BY <2>f DEF Landing
  <2> QED
    BY <1>3, <1>4, <2>1
<1>5. CASE m # 0
  <2>k. PICK k \in Nat : k = m - 1
    BY <1>3, <1>5
  <2>1. k \notin T
    BY <1>2, <1>3, <2>k
  <2>2. PICK f : Landing(b, k, f)
    BY <1>t, <2>1
  <2>d. PICK d : d = Dropped(f[k], b.asked[m])
    OBVIOUS
  <2>g. PICK g : g = [i \in 0..m |-> IF i = m THEN d ELSE f[i]]
    OBVIOUS
  <2>3. \A i \in 0..m : g[i] = IF i = 0 THEN [b EXCEPT !.asked = <<>>]
                               ELSE Dropped(g[i - 1], b.asked[i])
    <3>1. TAKE i \in 0..m
    <3>2. CASE i = m
      <4>1. i # 0 /\ k \in 0..m /\ k # m /\ i - 1 = k
        BY <1>3, <1>5, <2>k, <3>2
      <4>2. g[i] = d /\ g[k] = f[k]
        BY <2>g, <3>2, <4>1
      <4> QED
        BY <2>d, <3>2, <4>1, <4>2
    <3>3. CASE i # m
      <4>1. i \in 0..k
        BY <1>3, <2>k, <3>3
      <4>2. g[i] = f[i] /\ (i # 0 => i - 1 \in 0..m /\ i - 1 # m /\ g[i - 1] = f[i - 1])
        BY <1>3, <2>g, <3>3
      <4>3. f[i] = IF i = 0 THEN [b EXCEPT !.asked = <<>>] ELSE Dropped(f[i - 1], b.asked[i])
        BY <2>2, <4>1 DEF Landing
      <4> QED
        BY <4>2, <4>3
    <3> QED
      BY <3>2, <3>3
  <2>4. g = [i \in 0..m |-> IF i = 0 THEN [b EXCEPT !.asked = <<>>]
                            ELSE Dropped(g[i - 1], b.asked[i])]
    BY <2>g, <2>3
  <2> QED
    BY <1>3, <2>4 DEF Landing
<1> QED
  BY <1>4, <1>5

\* A page on the way from b: good, of the same scope, and waiting only for
\* requests that are not about to end.
OnTheWay(b, d) == Good(d) /\ SameScope(b, d) /\ SameBacklog(b, d) /\ Dismissed(d.asked)

LEMMA EmptiedOnTheWay ==
  ASSUME NEW b, Good(b)
  PROVE  OnTheWay(b, [b EXCEPT !.asked = <<>>])
<1>0. b \in Pages
  BY DEF Good
<1>a. PICK asked \in Seq(Requests) : asked = <<>>
  BY EmptySeq
<1>c. PICK c : c = [b EXCEPT !.asked = asked]
  OBVIOUS
<1>1. c \in Pages
  BY <1>0, <1>c DEF Pages
<1>2. /\ c.sprint = b.sprint /\ c.group = b.group /\ c.teams = b.teams /\ c.epm = b.epm
      /\ c.backlog = b.backlog /\ c.backlogAsked = b.backlogAsked
  BY <1>0, <1>c DEF Pages
<1>3. c.rows = b.rows /\ c.preload = b.preload /\ c.cache = b.cache /\ c.asked = asked
  BY <1>0, <1>c DEF Pages
<1>4. DOMAIN asked = {}
  BY <1>a
<1>5. OfSprint(asked, c.sprint) /\ Dismissed(asked)
  BY <1>4 DEF OfSprint, Dismissed
<1>6. Good(c)
  BY <1>1, <1>2, <1>3, <1>5 DEF Good
<1>7. OnTheWay(b, c)
  BY <1>2, <1>3, <1>5, <1>6 DEF OnTheWay, SameScope, SameBacklog
<1> QED
  BY <1>7, <1>a, <1>c

LEMMA DroppedOnTheWay ==
  ASSUME NEW b, NEW d, OnTheWay(b, d), NEW r \in Requests,
         r.by = "page" /\ ~r.aborted => r.scope.sprint = b.sprint
  PROVE  OnTheWay(b, Dropped(d, r))
<1>0. Good(d) /\ d \in Pages /\ d.sprint = b.sprint
  BY DEF OnTheWay, Good, SameScope
<1>1. Works(d, Dropped(d, r))
  <2>1. CASE Aborting(r)
    <3>1. Dropped(d, r) = Finished(d, r, "dropped")
      BY <2>1 DEF Dropped
    <3> QED
      BY <1>0, <3>1, FinishedWorks
  <2>2. CASE ~Aborting(r)
    <3>a. PICK asked \in Seq(Requests) : asked = Append(d.asked, r)
      BY <1>0, AppendProperties DEF Pages
    <3>c. PICK c : c = [d EXCEPT !.asked = asked]
      OBVIOUS
    <3>1. c = Dropped(d, r)
      BY <1>0, <2>2, <3>a, <3>c DEF Dropped, Pages
    <3>2. c \in Pages
      BY <1>0, <3>c DEF Pages
    <3>3. /\ c.sprint = d.sprint /\ c.group = d.group /\ c.teams = d.teams /\ c.epm = d.epm
          /\ c.backlog = d.backlog /\ c.backlogAsked = d.backlogAsked
      BY <1>0, <3>c DEF Pages
    <3>4. c.rows = d.rows /\ c.preload = d.preload /\ c.cache = d.cache /\ c.asked = asked
      BY <1>0, <3>c DEF Pages
    <3>5. SameScope(d, c) /\ SameBacklog(d, c)
      BY <3>3 DEF SameScope, SameBacklog
    <3>6. r.by = "page" /\ ~r.aborted => r.scope.sprint = d.sprint
      BY <1>0
    <3> QED
      BY <1>0, <2>2, <3>a, <3>1, <3>2, <3>4, <3>5, <3>6, AskedWorks
  <2> QED
    BY <2>1, <2>2
<1> QED
  BY <1>1 DEF OnTheWay, Works, SameScope, SameBacklog

LEMMA LandingOnTheWay ==
  ASSUME NEW b, Good(b), NEW n \in Nat, n = Len(b.asked), NEW f, Landing(b, n, f)
  PROVE  \A i \in 0..n : OnTheWay(b, f[i])
<1>0. b \in Pages /\ b.asked \in Seq(Requests) /\ OfSprint(b.asked, b.sprint)
  BY DEF Good, Pages
<1>t. PICK T : T = {k \in 0..n : ~OnTheWay(b, f[k])}
  OBVIOUS
<1>1. SUFFICES ASSUME T # {} PROVE FALSE
  BY <1>t
<1>2. PICK m \in T : \A k \in T : m <= k
  <2>1. T \subseteq Nat
    BY <1>t
  <2> QED
    BY <1>1, <2>1, LeastOf
<1>3. m \in 0..n /\ ~OnTheWay(b, f[m])
  BY <1>2, <1>t
<1>4. f[m] = IF m = 0 THEN [b EXCEPT !.asked = <<>>] ELSE Dropped(f[m - 1], b.asked[m])
  BY <1>3 DEF Landing
<1>5. CASE m = 0
  <2>1. f[m] = [b EXCEPT !.asked = <<>>]
    BY <1>4, <1>5
  <2> QED
    BY <1>3, <2>1, EmptiedOnTheWay
<1>6. CASE m # 0
  <2>k. PICK k \in Nat : k = m - 1
    BY <1>3, <1>6
  <2>1. OnTheWay(b, f[k])
    BY <1>2, <1>3, <1>t, <2>k
  <2>2. m \in DOMAIN b.asked /\ b.asked[m] \in Requests
    BY <1>0, <1>3, <1>6, LenProperties, ElementOfSeq
  <2>3. b.asked[m].by = "page" /\ ~b.asked[m].aborted => b.asked[m].scope.sprint = b.sprint
    BY <1>0, <2>2 DEF OfSprint
  <2>4. f[m] = Dropped(f[k], b.asked[m])
    BY <1>4, <1>6, <2>k
  <2> QED
    BY <1>3, <2>1, <2>2, <2>3, <2>4, DroppedOnTheWay
<1> QED
  BY <1>5, <1>6

\* The aborted requests end, and the page is good and waits for none of them.
LEMMA LandAbortedOnTheWay ==
  ASSUME NEW b, Good(b)
  PROVE  OnTheWay(b, LandAborted(b))
<1>n. PICK n \in Nat : n = Len(b.asked)
  BY LenProperties DEF Good, Pages
<1>1. \E f : Landing(b, n, f)
  BY LandingExists
<1>f. PICK f : f = CHOOSE g : Landing(b, n, g)
  OBVIOUS
<1>2. Landing(b, n, f)
  BY <1>1, <1>f
<1>3. LandAborted(b) = f[n]
  BY <1>n, <1>f DEF LandAborted, Landing
<1>4. n \in 0..n
  OBVIOUS
<1> QED
  BY <1>n, <1>2, <1>3, <1>4, LandingOnTheWay

-----------------------------------------------------------------------------
(* What is kept for a group.                                               *)

\* A page with another snapshot kept for its group.
LEMMA KeptFresh ==
  ASSUME NEW b, b \in Pages, FreshCache(b.cache), NEW s \in Snapshots \cup {None},
         s # None => FreshLists(s.rows, s.preload, s.sprint, b.group)
  PROVE  /\ [b.cache EXCEPT ![b.group] = s] \in [Groups -> Snapshots \cup {None}]
         /\ FreshCache([b.cache EXCEPT ![b.group] = s])
<1>1. b.cache \in [Groups -> Snapshots \cup {None}] /\ b.group \in Groups
  BY DEF Pages
<1>c. PICK cache : cache = [b.cache EXCEPT ![b.group] = s]
  OBVIOUS
<1>2. /\ cache \in [Groups -> Snapshots \cup {None}]
      /\ \A g \in Groups : cache[g] = IF g = b.group THEN s ELSE b.cache[g]
  BY <1>1, <1>c
<1>3. ASSUME NEW g \in Groups, cache[g] # None
      PROVE  FreshLists(cache[g].rows, cache[g].preload, cache[g].sprint, g)
  <2>1. CASE g = b.group
    <3>1. cache[g] = s
      BY <1>2, <2>1
    <3> QED
      BY <1>3, <2>1, <3>1
  <2>2. CASE g # b.group
    <3>1. cache[g] = b.cache[g]
      BY <1>2, <2>2
    <3> QED
      BY <1>3, <3>1 DEF FreshCache
  <2> QED
    BY <2>1, <2>2
<1>4. FreshCache(cache)
  BY <1>3 DEF FreshCache
<1> QED
  BY <1>2, <1>4, <1>c

LEMMA SnapshotTyped ==
  ASSUME NEW b, b \in Pages
  PROVE  LET s == Snapshot(b) IN
         /\ s \in Snapshots /\ s.rows = b.rows /\ s.preload = b.preload /\ s.sprint = b.sprint
         /\ s.fetched = b.fetched /\ s.statsOnly = b.statsOnly
<1>1. b.teams[b.group] \in 0..MaxEvents
  BY DEF Pages
<1> QED
  BY <1>1 DEF Pages, Snapshot, Snapshots

\* The effect on groupStateSnapshot.
LEMMA RememberWorks ==
  ASSUME NEW b, Good(b)
  PROVE  Works(b, Remember(b)) /\ Remember(b).asked = b.asked
<1>0. b \in Pages
  BY DEF Good
<1>s. PICK s \in Snapshots : s = Snapshot(b) /\ s.rows = b.rows /\ s.preload = b.preload
                             /\ s.sprint = b.sprint
  BY <1>0, SnapshotTyped
<1>1. FreshLists(s.rows, s.preload, s.sprint, b.group)
  BY <1>s DEF Good
<1>k. PICK cache : cache = [b.cache EXCEPT ![b.group] = s]
  OBVIOUS
<1>2. cache \in [Groups -> Snapshots \cup {None}] /\ FreshCache(cache)
  BY <1>0, <1>1, <1>k, KeptFresh DEF Good
<1>c. PICK c : c = [b EXCEPT !.cache = cache]
  OBVIOUS
<1>3. c = Remember(b)
  BY <1>0, <1>s, <1>k, <1>c DEF Remember, Pages
<1>4. c \in Pages
  BY <1>0, <1>2, <1>c DEF Pages
<1>5. /\ c.sprint = b.sprint /\ c.group = b.group /\ c.teams = b.teams /\ c.epm = b.epm
      /\ c.backlog = b.backlog /\ c.backlogAsked = b.backlogAsked
  BY <1>0, <1>c DEF Pages
<1>6. c.rows = b.rows /\ c.preload = b.preload /\ c.cache = cache /\ c.asked = b.asked
  BY <1>0, <1>c DEF Pages
<1>7. Good(c)
  BY <1>2, <1>4, <1>5, <1>6 DEF Good
<1> QED
  BY <1>3, <1>5, <1>6, <1>7 DEF Works, SameScope, SameBacklog

\* The page shows the group that is selected, and nothing of another scope,
\* whatever it showed before.
LEMMA ShowGroupFresh ==
  ASSUME NEW b, b \in Pages, FreshCache(b.cache)
  PROVE  LET d == ShowGroup(b) IN
         /\ d \in Pages /\ SameScope(b, d) /\ SameBacklog(b, d) /\ d.asked = b.asked
         /\ FreshLists(d.rows, d.preload, d.sprint, d.group) /\ FreshCache(d.cache)
<1>0. b.group \in Groups /\ b.cache[b.group] \in Snapshots \cup {None}
  BY DEF Pages
<1>s. PICK s : s = IF Fits(b, b.cache[b.group]) THEN b.cache[b.group] ELSE DefaultState(b)
  OBVIOUS
<1>1. s \in Snapshots /\ FreshLists(s.rows, s.preload, b.sprint, b.group) /\ s.sprint = b.sprint
  <2>1. CASE Fits(b, b.cache[b.group])
    <3>1. s = b.cache[b.group] /\ s # None /\ s.sprint = b.sprint
      BY <1>s, <2>1 DEF Fits
    <3>2. FreshLists(s.rows, s.preload, s.sprint, b.group)
      BY <1>0, <3>1 DEF FreshCache
    <3> QED
      BY <1>0, <3>1, <3>2
  <2>2. CASE ~Fits(b, b.cache[b.group])
    <3>k. PICK k \in Snapshots : k = Snapshot(b) /\ k.sprint = b.sprint
      BY SnapshotTyped
    <3>1. s = [k EXCEPT !.rows = BlankLists, !.fetched = FALSE, !.preload = Blank]
      BY <1>s, <2>2, <3>k DEF DefaultState
    <3>2. Blank \in Lists /\ BlankLists \in [Projects -> Lists]
      BY BlankTyped
    <3>3. s \in Snapshots /\ s.rows = BlankLists /\ s.preload = Blank /\ s.sprint = b.sprint
      BY <3>k, <3>1, <3>2 DEF Snapshots
    <3> QED
      BY <3>3, BlankTyped
  <2> QED
    BY <2>1, <2>2
<1>k. PICK cache : cache = [b.cache EXCEPT ![b.group] = s]
  OBVIOUS
<1>2. cache \in [Groups -> Snapshots \cup {None}] /\ FreshCache(cache)
  BY <1>1, <1>k, KeptFresh
<1>c. PICK c : c = [b EXCEPT !.rows = s.rows, !.fetched = s.fetched, !.preload = s.preload,
                             !.statsOnly = s.statsOnly, !.busy = FALSE, !.cache = cache]
  OBVIOUS
<1>3. c = ShowGroup(b)
  BY <1>s, <1>k, <1>c DEF ShowGroup, Apply, Pages
<1>4. s.rows \in [Projects -> Lists] /\ s.fetched \in BOOLEAN /\ s.preload \in Lists
      /\ s.statsOnly \in BOOLEAN
  BY <1>1 DEF Snapshots
<1>5. c \in Pages
  BY <1>2, <1>4, <1>c DEF Pages
<1>6. /\ c.sprint = b.sprint /\ c.group = b.group /\ c.teams = b.teams /\ c.epm = b.epm
      /\ c.backlog = b.backlog /\ c.backlogAsked = b.backlogAsked
  BY <1>c DEF Pages
<1>7. c.rows = s.rows /\ c.preload = s.preload /\ c.cache = cache /\ c.asked = b.asked
  BY <1>c DEF Pages
<1>8. SameScope(b, c) /\ SameBacklog(b, c)
  BY <1>6 DEF SameScope, SameBacklog
<1>9. FreshLists(c.rows, c.preload, c.sprint, c.group)
  BY <1>1, <1>6, <1>7
<1> QED
  BY <1>2, <1>3, <1>5, <1>7, <1>8, <1>9

-----------------------------------------------------------------------------
(* The effects.                                                            *)

LEMMA LoadEffectWorks ==
  ASSUME NEW b, Good(b), NEW c, c \in Pages, SameScope(b, c), NEW force
  PROVE  Works(b, LoadEffect(c, b, force))
<1>1. Scope(c) \in Scopes /\ Scope(c).sprint = b.sprint
  BY ScopeTyped DEF SameScope
<1>2. Works(b, LoadBoth(b, Scope(c), "page"))
  BY <1>1, LoadBothWorks
<1>3. LoadEffect(c, b, force) \in {b, LoadBoth(b, Scope(c), "page")}
  BY DEF LoadEffect
<1> QED
  BY <1>2, <1>3, WorksSelf

LEMMA PreloadEffectWorks ==
  ASSUME NEW b, Good(b), NEW c, c \in Pages, SameScope(b, c)
  PROVE  Works(b, PreloadEffect(c, b))
<1>0. b \in Pages
  BY DEF Good
<1>s. PICK scope \in Scopes : scope = Scope(c) /\ scope.sprint = b.sprint
  BY ScopeTyped DEF SameScope
<1>d. PICK d : d = [b EXCEPT !.preloadOf = scope]
  OBVIOUS
<1>w. PICK w : w = HasRows(c.rows)
  OBVIOUS
<1>1. d \in Pages
  BY <1>0, <1>d DEF Pages
<1>2. /\ d.sprint = b.sprint /\ d.group = b.group /\ d.teams = b.teams /\ d.epm = b.epm
      /\ d.backlog = b.backlog /\ d.backlogAsked = b.backlogAsked
  BY <1>0, <1>d DEF Pages
<1>3. d.rows = b.rows /\ d.preload = b.preload /\ d.cache = b.cache /\ d.asked = b.asked
  BY <1>0, <1>d DEF Pages
<1>4. SameScope(b, d) /\ SameBacklog(b, d)
  BY <1>2 DEF SameScope, SameBacklog
<1>5. Good(d)
  BY <1>1, <1>3, <1>4, SameGood
<1>6. Works(b, d)
  BY <1>3, <1>4, <1>5 DEF Works
<1>7. Works(d, LoadPreload(d, scope, w, "page"))
  <2>1. scope.sprint = d.sprint
    BY <1>s, <1>2
  <2> QED
    BY <1>5, <2>1, LoadPreloadWorks
<1>8. PreloadEffect(c, b) \in {b, LoadPreload(d, scope, w, "page")}
  BY <1>s, <1>d, <1>w DEF PreloadEffect
<1>9. Works(b, LoadPreload(d, scope, w, "page"))
  BY <1>6, <1>7, WorksOn
<1> QED
  BY <1>8, <1>9, WorksSelf

\* The effects of a scope leave the backlog right, or on its way.
LEMMA BacklogEffectOk ==
  ASSUME NEW b, Good(b), NEW c, c \in Pages, SameScope(b, c)
  PROVE  LET d == BacklogEffect(c, b) IN
         Good(d) /\ SameScope(b, d) /\ d.asked = b.asked /\ BacklogOk(d)
<1>0. b \in Pages
  BY DEF Good
<1>s. PICK scope \in Scopes : scope = Scope(c) /\ scope = Scope(b)
  BY ScopeTyped, SameScopes
<1>1. scope # None
  BY <1>s, BoardAssumption DEF Scopes
<1>2. PICK asked \in Scopes \cup {None}, backlog \in Scopes \cup {None} :
         /\ BacklogEffect(c, b) = [b EXCEPT !.backlogAsked = asked, !.backlog = backlog]
         /\ b.epm \/ (asked = None /\ backlog = None) \/ asked = scope
  <2>0. b.backlog \in Scopes \cup {None}
    BY <1>0 DEF Pages
  <2>1. CASE c.epm
    <3>1. BacklogEffect(c, b) = [b EXCEPT !.backlogAsked = None, !.backlog = b.backlog]
      BY <1>0, <2>1 DEF BacklogEffect, Pages
    <3>2. b.epm
      BY <2>1 DEF SameScope
    <3> QED
      BY <2>0, <3>1, <3>2
  <2>2. CASE ~c.epm /\ (c.sprint \notin Future \/ c.group \in Teamless)
    <3>1. BacklogEffect(c, b) = [b EXCEPT !.backlogAsked = None, !.backlog = None]
      BY <2>2 DEF BacklogEffect
    <3> QED
      BY <3>1
  <2>3. CASE ~c.epm /\ ~(c.sprint \notin Future \/ c.group \in Teamless)
    <3>1. BacklogEffect(c, b) = [b EXCEPT !.backlogAsked = scope, !.backlog = b.backlog]
      BY <1>0, <1>s, <2>3 DEF BacklogEffect, Pages
    <3> QED
      BY <2>0, <3>1
  <2> QED
    BY <2>1, <2>2, <2>3
<1>d. PICK d : d = [b EXCEPT !.backlogAsked = asked, !.backlog = backlog]
  OBVIOUS
<1>3. d \in Pages
  BY <1>0, <1>d DEF Pages
<1>4. /\ d.sprint = b.sprint /\ d.group = b.group /\ d.teams = b.teams /\ d.epm = b.epm
      /\ d.backlog = backlog /\ d.backlogAsked = asked
  BY <1>0, <1>d DEF Pages
<1>5. d.rows = b.rows /\ d.preload = b.preload /\ d.cache = b.cache /\ d.asked = b.asked
  BY <1>0, <1>d DEF Pages
<1>6. SameScope(b, d)
  BY <1>4 DEF SameScope
<1>7. Good(d)
  BY <1>3, <1>5, <1>6, SameGood
<1>8. Scope(d) = scope
  BY <1>s, <1>6, SameScopes
<1>9. b.epm \/ (asked = None /\ backlog = None) \/ asked = scope
  BY <1>2
<1>10. BacklogOk(d)
  BY <1>1, <1>4, <1>8, <1>9 DEF BacklogOk
<1> QED
  BY <1>2, <1>5, <1>6, <1>7, <1>10, <1>d

LEMMA ScopeEffectsOk ==
  ASSUME NEW b, Good(b), NEW c, c \in Pages, SameScope(b, c), NEW force
  PROVE  LET d == ScopeEffects(c, b, force) IN
         /\ Good(d) /\ SameScope(b, d) /\ BacklogOk(d)
         /\ Dismissed(b.asked) => Dismissed(d.asked)
<1>e. PICK e : e = LoadEffect(c, b, force)
  OBVIOUS
<1>1. Works(b, e)
  BY <1>e, LoadEffectWorks
<1>2. Good(e) /\ SameScope(e, c)
  BY <1>1 DEF Works, SameScope
<1>f. PICK f : f = PreloadEffect(c, e)
  OBVIOUS
<1>3. Works(e, f)
  BY <1>2, <1>f, PreloadEffectWorks
<1>4. Good(f) /\ SameScope(f, c)
  BY <1>2, <1>3 DEF Works, SameScope
<1>d. PICK d : d = BacklogEffect(c, f)
  OBVIOUS
<1>5. Good(d) /\ SameScope(f, d) /\ d.asked = f.asked /\ BacklogOk(d)
  BY <1>4, <1>d, BacklogEffectOk
<1>6. d = ScopeEffects(c, b, force)
  BY <1>e, <1>f, <1>d DEF ScopeEffects
<1>7. SameScope(b, d) /\ (Dismissed(b.asked) => Dismissed(d.asked))
  BY <1>1, <1>3, <1>5 DEF Works, SameScope
<1> QED
  BY <1>5, <1>6, <1>7

\* The effects of a render that follows another.
LEMMA RenderedWorks ==
  ASSUME NEW b, Good(b)
  PROVE  Works(b, Rendered(b))
<1>c. PICK c : c = Remember(b)
  OBVIOUS
<1>1. Works(b, c)
  BY <1>c, RememberWorks
<1>2. Good(c) /\ b \in Pages /\ SameScope(c, b)
  BY <1>1 DEF Works, SameScope, Good
<1>d. PICK d : d = PreloadEffect(b, c)
  OBVIOUS
<1>3. Works(c, d)
  BY <1>2, <1>d, PreloadEffectWorks
<1>4. Good(d)
  BY <1>3 DEF Works
<1>5. Works(d, Remember(d))
  BY <1>4, RememberWorks
<1>6. Rendered(b) = Remember(d)
  BY <1>c, <1>d DEF Rendered
<1>7. Works(b, d)
  BY <1>1, <1>3, WorksOn
<1> QED
  BY <1>5, <1>6, <1>7, WorksOn

LEMMA AbortedWorks ==
  ASSUME NEW b, Good(b)
  PROVE  Works(b, LandAborted(Aborted(b))) /\ Dismissed(LandAborted(Aborted(b)).asked)
<1>0. b \in Pages
  BY DEF Good
<1>a. PICK asked \in Seq(Requests) :
            /\ Aborted(b) = [b EXCEPT !.asked = asked]
            /\ \A sprint : OfSprint(asked, sprint)
  BY <1>0, AbortedIs
<1>c. PICK c : c = [b EXCEPT !.asked = asked]
  OBVIOUS
<1>1. c \in Pages
  BY <1>0, <1>c DEF Pages
<1>2. /\ c.sprint = b.sprint /\ c.group = b.group /\ c.teams = b.teams /\ c.epm = b.epm
      /\ c.backlog = b.backlog /\ c.backlogAsked = b.backlogAsked
  BY <1>0, <1>c DEF Pages
<1>3. c.rows = b.rows /\ c.preload = b.preload /\ c.cache = b.cache /\ c.asked = asked
  BY <1>0, <1>c DEF Pages
<1>4. OfSprint(c.asked, c.sprint)
  BY <1>a, <1>3
<1>5. Good(c)
  BY <1>1, <1>2, <1>3, <1>4 DEF Good
<1>6. OnTheWay(c, LandAborted(c))
  BY <1>5, LandAbortedOnTheWay
<1>7. c = Aborted(b)
  BY <1>a, <1>c
<1>8. Works(b, LandAborted(c)) /\ Dismissed(LandAborted(c).asked)
  BY <1>2, <1>6 DEF OnTheWay, Works, SameScope, SameBacklog
<1> QED
  BY <1>7, <1>8

LEMMA StatsEffectsWorks ==
  ASSUME NEW b, Good(b), NEW was
  PROVE  Works(b, StatsEffects(was, b))
<1>c. PICK c : c = Remember(b)
  OBVIOUS
<1>1. Works(b, c)
  BY <1>c, RememberWorks
<1>2. Good(c) /\ b \in Pages /\ SameScope(c, b)
  BY <1>1 DEF Works, SameScope, Good
<1>3. Works(c, LoadEffect(b, c, FALSE))
  BY <1>2, LoadEffectWorks
<1>4. Works(b, LoadEffect(b, c, FALSE))
  BY <1>1, <1>3, WorksOn
<1>5. StatsEffects(was, b) \in {b, LandAborted(Aborted(b)), LoadEffect(b, c, FALSE)}
  BY <1>c DEF StatsEffects
<1> QED
  BY <1>4, <1>5, WorksSelf, AbortedWorks

-----------------------------------------------------------------------------
(* Whole turns of the event loop.                                          *)

LEMMA BacklogKept ==
  ASSUME NEW b, NEW c, BacklogOk(b), SameScope(b, c), SameBacklog(b, c)
  PROVE  BacklogOk(c)
BY SameScopes DEF BacklogOk, SameScope, SameBacklog

LEMMA WorksSettled ==
  ASSUME NEW b, Settled(b), NEW c, Works(b, c)
  PROVE  Settled(c) /\ c.teams = b.teams
<1>1. BacklogOk(c)
  BY BacklogKept DEF Settled, Works
<1> QED
  BY <1>1 DEF Settled, Works, SameScope

\* A page whose scope effects have run, rendered.
LEMMA ScopeEffectsSettle ==
  ASSUME NEW b, Good(b), Dismissed(b.asked), NEW c, c \in Pages, SameScope(b, c), NEW force
  PROVE  Settled(ScopeEffects(c, b, force)) /\ ScopeEffects(c, b, force).teams = b.teams
BY ScopeEffectsOk DEF Settled, SameScope

LEMMA RenderedSettles ==
  ASSUME NEW b, Settled(b)
  PROVE  Settled(Rendered(b)) /\ Rendered(b).teams = b.teams
BY RenderedWorks, WorksSettled DEF Settled

LEMMA ToSprintSettles ==
  ASSUME NEW b, Settled(b), NEW s \in Sprints
  PROVE  Settled(ToSprint(b, s)) /\ ToSprint(b, s).teams = b.teams
<1>0. b \in Pages /\ FreshCache(b.cache)
  BY DEF Settled, Good
<1>c. PICK c : c = [b EXCEPT !.sprint = s]
  OBVIOUS
<1>1. c \in Pages /\ c.cache = b.cache /\ c.sprint = s /\ c.teams = b.teams
  BY <1>0, <1>c DEF Pages
<1>d. PICK d : d = ShowGroup(c)
  OBVIOUS
<1>2. /\ d \in Pages /\ SameScope(c, d)
      /\ FreshLists(d.rows, d.preload, d.sprint, d.group) /\ FreshCache(d.cache)
  BY <1>0, <1>1, <1>d, ShowGroupFresh
<1>a. PICK asked \in Seq(Requests) :
            /\ Aborted(d) = [d EXCEPT !.asked = asked]
            /\ \A sprint : OfSprint(asked, sprint)
  BY <1>2, AbortedIs
<1>e. PICK e : e = [d EXCEPT !.asked = asked, !.rows = BlankLists, !.fetched = FALSE,
                             !.backlog = None, !.mark = NothingMarked(s), !.lastLoaded = None]
  OBVIOUS
<1>3. NothingMarked(s) \in Marks /\ BlankLists \in [Projects -> Lists]
  BY BlankTyped DEF NothingMarked, Marks
<1>4. e \in Pages
  BY <1>2, <1>3, <1>e DEF Pages
<1>5. /\ e.sprint = d.sprint /\ e.group = d.group /\ e.teams = d.teams /\ e.epm = d.epm
      /\ e.rows = BlankLists /\ e.preload = d.preload /\ e.cache = d.cache /\ e.asked = asked
  BY <1>2, <1>e DEF Pages
<1>6. FreshLists(e.rows, e.preload, e.sprint, e.group)
  BY <1>2, <1>5, BlankTyped DEF FreshLists
<1>7. OfSprint(e.asked, e.sprint)
  BY <1>5, <1>a
<1>8. Good(e) /\ SameScope(e, c)
  BY <1>2, <1>4, <1>5, <1>6, <1>7 DEF Good, SameScope
<1>f. PICK f : f = ScopeEffects(c, e, FALSE)
  OBVIOUS
<1>9. Good(f) /\ SameScope(e, f) /\ BacklogOk(f)
  BY <1>1, <1>8, <1>f, ScopeEffectsOk
<1>h. PICK h : h = LandAborted(f)
  OBVIOUS
<1>10. OnTheWay(f, h)
  BY <1>9, <1>h, LandAbortedOnTheWay
<1>11. Settled(h)
  BY <1>9, <1>10, BacklogKept DEF OnTheWay, Settled
<1>12. h.teams = b.teams
  BY <1>1, <1>8, <1>9, <1>10 DEF OnTheWay, SameScope
<1>13. ToSprint(b, s) = Rendered(h)
  <2>1. e = [Aborted(ShowGroup(c)) EXCEPT
                !.rows = BlankLists, !.fetched = FALSE, !.backlog = None,
                !.mark = NothingMarked(s), !.lastLoaded = None]
    BY <1>2, <1>a, <1>d, <1>e DEF Pages
  <2> QED
    BY <1>c, <1>f, <1>h, <2>1 DEF ToSprint
<1> QED
  BY <1>11, <1>12, <1>13, RenderedSettles

LEMMA ToGroupSettles ==
  ASSUME NEW b, Settled(b), NEW g \in Groups
  PROVE  Settled(ToGroup(b, g)) /\ ToGroup(b, g).teams = b.teams
<1>0. b \in Pages /\ FreshCache(b.cache) /\ Dismissed(b.asked) /\ OfSprint(b.asked, b.sprint)
  BY DEF Settled, Good
<1>c. PICK c : c = [b EXCEPT !.group = g]
  OBVIOUS
<1>1. /\ c \in Pages /\ c.cache = b.cache /\ c.sprint = b.sprint /\ c.teams = b.teams
      /\ c.asked = b.asked
  BY <1>0, <1>c DEF Pages
<1>d. PICK d : d = ShowGroup(c)
  OBVIOUS
<1>2. /\ d \in Pages /\ SameScope(c, d) /\ d.asked = c.asked
      /\ FreshLists(d.rows, d.preload, d.sprint, d.group) /\ FreshCache(d.cache)
  BY <1>0, <1>1, <1>d, ShowGroupFresh
<1>3. Good(d) /\ SameScope(d, c) /\ Dismissed(d.asked)
  BY <1>0, <1>1, <1>2 DEF Good, SameScope
<1>e. PICK e : e = ScopeEffects(c, d, FALSE)
  OBVIOUS
<1>4. Settled(e) /\ e.teams = d.teams
  BY <1>1, <1>3, <1>e, ScopeEffectsSettle
<1>f. PICK f : f = StatsEffects(c.statsOnly, e)
  OBVIOUS
<1>5. Works(e, f)
  BY <1>4, <1>f, StatsEffectsWorks DEF Settled
<1>6. Settled(f) /\ f.teams = e.teams
  BY <1>4, <1>5, WorksSettled
<1>7. ToGroup(b, g) = Rendered(f)
  BY <1>c, <1>d, <1>e, <1>f DEF ToGroup
<1>8. f.teams = b.teams
  BY <1>1, <1>3, <1>4, <1>6 DEF SameScope
<1> QED
  BY <1>6, <1>7, <1>8, RenderedSettles

\* The page as it is opened.
LEMMA OpenedSettled ==
  Settled(OpenedPage) /\ \A g \in Groups : OpenedPage.teams[g] = 0
<1>t. PICK teams \in [Groups -> 0..MaxEvents] : teams = [g \in Groups |-> 0]
  <2>1. 0 \in 0..MaxEvents
    BY BoardAssumption
  <2> QED
    BY <2>1
<1>l. PICK loading \in [Projects -> BOOLEAN] : loading = [p \in Projects |-> FALSE]
  OBVIOUS
<1>k. PICK cache \in [Groups -> Snapshots \cup {None}] : cache = [g \in Groups |-> None]
  OBVIOUS
<1>a. PICK asked \in Seq(Requests) : asked = <<>>
  BY EmptySeq
<1>b. PICK b : b = [sprint |-> PageSprint, group |-> FirstGroup,
              teams |-> teams, epm |-> FALSE, statsOnly |-> FALSE,
              rows |-> BlankLists, fetched |-> FALSE,
              loading |-> loading, busy |-> FALSE,
              mark |-> NothingMarked(PageSprint), lastLoaded |-> None,
              preload |-> Blank, preloadOf |-> None,
              backlog |-> None, backlogAsked |-> None,
              cache |-> cache, asked |-> asked]
  OBVIOUS
<1>1. /\ NothingMarked(PageSprint) \in Marks
      /\ BlankLists \in [Projects -> Lists] /\ Blank \in Lists
  BY BlankTyped, BoardAssumption DEF NothingMarked, Marks
<1>2. b \in Pages
  BY <1>b, <1>1, BoardAssumption DEF Pages
<1>3. b.cache = cache /\ b.asked = asked /\ b.teams = teams
  BY <1>b
<1>4. FreshCache(b.cache)
  <2>1. \A g \in Groups : cache[g] = None
    BY <1>k
  <2> QED
    BY <1>3, <2>1 DEF FreshCache
<1>d. PICK d : d = ShowGroup(b)
  OBVIOUS
<1>5. /\ d \in Pages /\ SameScope(b, d) /\ d.asked = b.asked
      /\ FreshLists(d.rows, d.preload, d.sprint, d.group) /\ FreshCache(d.cache)
  BY <1>2, <1>4, <1>d, ShowGroupFresh
<1>6. OfSprint(d.asked, d.sprint) /\ Dismissed(d.asked)
  BY <1>3, <1>5, <1>a DEF OfSprint, Dismissed
<1>7. Good(d) /\ SameScope(d, b)
  BY <1>5, <1>6 DEF Good, SameScope
<1>e. PICK e : e = ScopeEffects(b, d, FALSE)
  OBVIOUS
<1>8. Settled(e) /\ e.teams = d.teams
  BY <1>2, <1>6, <1>7, <1>e, ScopeEffectsSettle
<1>9. OpenedPage = Rendered(e)
  BY <1>t, <1>l, <1>k, <1>a, <1>b, <1>d, <1>e DEF OpenedPage
<1>10. OpenedPage.teams = teams /\ Settled(OpenedPage)
  BY <1>3, <1>7, <1>8, <1>9, RenderedSettles DEF SameScope
<1> QED
  BY <1>10, <1>t

\* A page that differs from a good one in what is neither shown nor asked for.
LEMMA AlteredGood ==
  ASSUME NEW b, Good(b), NEW c, c \in Pages, c.sprint = b.sprint, c.group = b.group,
         c.rows = b.rows, c.preload = b.preload, c.asked = b.asked, FreshCache(c.cache)
  PROVE  Good(c) /\ (Dismissed(b.asked) => Dismissed(c.asked))
BY DEF Good

LEMMA AdoptTeamsSettles ==
  ASSUME NEW b, Settled(b), NEW g \in Groups, b.teams[g] + 1 \in 0..MaxEvents
  PROVE  /\ Settled(AdoptTeams(b, g))
         /\ AdoptTeams(b, g).teams = [b.teams EXCEPT ![g] = b.teams[g] + 1]
<1>0. b \in Pages /\ Good(b) /\ Dismissed(b.asked) /\ BacklogOk(b) /\ FreshCache(b.cache)
  BY DEF Settled, Good
<1>t. PICK teams \in [Groups -> 0..MaxEvents] : teams = [b.teams EXCEPT ![g] = b.teams[g] + 1]
  BY <1>0 DEF Pages
<1>c. PICK c : c = [b EXCEPT !.teams = teams]
  OBVIOUS
<1>1. c = [b EXCEPT !.teams[g] = @ + 1]
  BY <1>0, <1>t, <1>c DEF Pages
<1>2. c \in Pages
  BY <1>0, <1>c DEF Pages
<1>3. /\ c.sprint = b.sprint /\ c.group = b.group /\ c.teams = teams /\ c.epm = b.epm
      /\ c.backlog = b.backlog /\ c.backlogAsked = b.backlogAsked
      /\ c.rows = b.rows /\ c.preload = b.preload /\ c.cache = b.cache /\ c.asked = b.asked
  BY <1>0, <1>c DEF Pages
<1>4. Good(c) /\ Dismissed(c.asked)
  <2>1. FreshCache(c.cache)
    BY <1>0, <1>3
  <2> QED
    BY <1>0, <1>2, <1>3, <2>1, AlteredGood
<1>5. CASE g = b.group
  <2>d. PICK d : d = Remember(c)
    OBVIOUS
  <2>1. Works(c, d)
    BY <1>4, <2>d, RememberWorks
  <2>2. Good(d) /\ SameScope(d, c) /\ Dismissed(d.asked) /\ d.teams = c.teams
    BY <1>4, <2>1 DEF Works, SameScope
  <2>e. PICK e : e = ScopeEffects(c, d, FALSE)
    OBVIOUS
  <2>3. Settled(e) /\ e.teams = d.teams
    BY <1>2, <2>2, <2>e, ScopeEffectsSettle
  <2>4. AdoptTeams(b, g) = Rendered(e)
    BY <1>1, <1>5, <2>d, <2>e DEF AdoptTeams
  <2>5. Settled(Rendered(e)) /\ Rendered(e).teams = e.teams
    BY <2>3, RenderedSettles
  <2> QED
    BY <1>3, <1>t, <2>2, <2>3, <2>4, <2>5
<1>6. CASE g # b.group
  <2>1. AdoptTeams(b, g) = c
    BY <1>1, <1>6 DEF AdoptTeams
  <2>2. c.teams[c.group] = b.teams[b.group]
    BY <1>0, <1>3, <1>t, <1>6 DEF Pages
  <2>3. Scope(c) = Scope(b)
    BY <1>3, <2>2 DEF Scope
  <2>4. BacklogOk(c)
    BY <1>0, <1>3, <2>3 DEF BacklogOk
  <2> QED
    BY <1>3, <1>4, <1>t, <2>1, <2>4 DEF Settled
<1> QED
  BY <1>5, <1>6

\* Nothing is kept for the group of the page any more.
LEMMA ForgottenCache ==
  ASSUME NEW b, b \in Pages, FreshCache(b.cache)
  PROVE  /\ [b.cache EXCEPT ![b.group] = None] \in [Groups -> Snapshots \cup {None}]
         /\ FreshCache([b.cache EXCEPT ![b.group] = None])
<1>s. PICK s \in Snapshots \cup {None} : s = None
  OBVIOUS
<1> QED
  BY <1>s, KeptFresh

\* invalidateSprintDataForConfigSave leaves a good page of the same scope.
LEMMA InvalidatedGood ==
  ASSUME NEW b, Good(b)
  PROVE  /\ Good(Invalidated(b)) /\ Dismissed(Invalidated(b).asked)
         /\ Invalidated(b).teams = b.teams
<1>0. b \in Pages /\ FreshCache(b.cache)
  BY DEF Good
<1>a. PICK asked \in Seq(Requests) :
            /\ Aborted(b) = [b EXCEPT !.asked = asked]
            /\ \A sprint : OfSprint(asked, sprint)
  BY <1>0, AbortedIs
<1>k. PICK cache \in [Groups -> Snapshots \cup {None}] :
            cache = [b.cache EXCEPT ![b.group] = None] /\ FreshCache(cache)
  BY <1>0, ForgottenCache
<1>c. PICK c : c = [b EXCEPT !.asked = asked, !.cache = cache,
                      !.rows = BlankLists, !.fetched = FALSE, !.preload = Blank,
                      !.mark = NothingMarked(b.sprint), !.lastLoaded = None,
                      !.preloadOf = None, !.backlog = None]
  OBVIOUS
<1>1. /\ NothingMarked(b.sprint) \in Marks
      /\ BlankLists \in [Projects -> Lists] /\ Blank \in Lists
  BY <1>0, BlankTyped DEF NothingMarked, Marks, Pages
<1>2. c \in Pages
  BY <1>0, <1>1, <1>c DEF Pages
<1>3. c.rows = BlankLists /\ c.preload = Blank /\ c.cache = cache /\ c.asked = asked
      /\ c.teams = b.teams
  BY <1>0, <1>c DEF Pages
<1>4. FreshLists(c.rows, c.preload, c.sprint, c.group)
  BY <1>3, BlankTyped
<1>5. OfSprint(c.asked, c.sprint)
  BY <1>a, <1>3
<1>6. Good(c)
  BY <1>2, <1>3, <1>4, <1>5, <1>k DEF Good
<1>7. c = [Aborted(b) EXCEPT
        !.cache[b.group] = None,
        !.rows = BlankLists, !.fetched = FALSE, !.preload = Blank,
        !.mark = NothingMarked(b.sprint), !.lastLoaded = None,
        !.preloadOf = None, !.backlog = None]
  BY <1>0, <1>a, <1>k, <1>c DEF Pages
<1>8. Invalidated(b) = LandAborted(c)
  BY <1>7 DEF Invalidated
<1> QED
  BY <1>3, <1>6, <1>8, LandAbortedOnTheWay DEF OnTheWay, SameScope

\* What remains of the requests when one has been answered.
LEMMA RemovedShape ==
  ASSUME NEW asked \in Seq(Requests), NEW i \in DOMAIN asked
  PROVE  /\ RemoveAt(asked, i) \in Seq(Requests)
         /\ Len(RemoveAt(asked, i)) = Len(asked) - 1
         /\ \A j \in 1..(Len(asked) - 1) :
               RemoveAt(asked, i)[j] = IF j < i THEN asked[j] ELSE asked[j + 1]
<1>n. PICK n \in Nat : n = Len(asked)
  BY LenProperties
<1>1. DOMAIN asked = 1..n /\ i \in 1..n /\ \A k \in 1..n : asked[k] \in Requests
  BY <1>n, LenProperties, ElementOfSeq
<1>a. PICK a : a = SubSeq(asked, 1, i - 1)
  OBVIOUS
<1>b. PICK b : b = SubSeq(asked, i + 1, n)
  OBVIOUS
<1>2. a \in Seq(Requests) /\ Len(a) = i - 1 /\ \A j \in 1..(i - 1) : a[j] = asked[j]
  <2>0. i - 1 \in Int /\ \A k \in 1..(i - 1) : asked[k] \in Requests
    BY <1>1
  <2>1. /\ a \in Seq(Requests) /\ Len(a) = IF 1 <= i - 1 THEN (i - 1) - 1 + 1 ELSE 0
        /\ \A j \in 1..((i - 1) - 1 + 1) : a[j] = asked[1 + j - 1]
    BY <1>a, <2>0, SubSeqProperties
  <2>2. (i - 1) - 1 + 1 = i - 1 /\ (1 <= i - 1 \/ i - 1 = 0)
    BY <1>1
  <2>3. \A j \in 1..(i - 1) : 1 + j - 1 = j
    BY <1>1
  <2> QED
    BY <2>1, <2>2, <2>3
<1>3. b \in Seq(Requests) /\ Len(b) = n - i /\ \A j \in 1..(n - i) : b[j] = asked[i + j]
  <2>0. i + 1 \in Int /\ n \in Int /\ \A k \in (i + 1)..n : asked[k] \in Requests
    BY <1>1
  <2>1. /\ b \in Seq(Requests) /\ Len(b) = IF i + 1 <= n THEN n - (i + 1) + 1 ELSE 0
        /\ \A j \in 1..(n - (i + 1) + 1) : b[j] = asked[(i + 1) + j - 1]
    BY <1>b, <2>0, SubSeqProperties
  <2>2. n - (i + 1) + 1 = n - i /\ (i + 1 <= n \/ n - i = 0)
    BY <1>1
  <2>3. \A j \in 1..(n - i) : (i + 1) + j - 1 = i + j
    BY <1>1
  <2> QED
    BY <2>1, <2>2, <2>3
<1>c. PICK c : c = a \o b
  OBVIOUS
<1>4. c = RemoveAt(asked, i)
  BY <1>n, <1>a, <1>b, <1>c DEF RemoveAt
<1>5. /\ c \in Seq(Requests) /\ Len(c) = Len(a) + Len(b)
      /\ \A j \in 1..(Len(a) + Len(b)) : c[j] = IF j <= Len(a) THEN a[j] ELSE b[j - Len(a)]
  BY <1>2, <1>3, <1>c, ConcatProperties
<1>6. Len(a) + Len(b) = n - 1
  BY <1>1, <1>2, <1>3
<1>7. ASSUME NEW j \in 1..(n - 1)
      PROVE  c[j] = IF j < i THEN asked[j] ELSE asked[j + 1]
  <2>1. CASE j < i
    <3>1. j <= i - 1 /\ j \in 1..(i - 1)
      BY <1>1, <2>1
    <3>2. c[j] = a[j]
      BY <1>2, <1>5, <1>6, <3>1
    <3> QED
      BY <1>2, <2>1, <3>1, <3>2
  <2>2. CASE ~(j < i)
    <3>k. PICK k : k = j - (i - 1)
      OBVIOUS
    <3>1. k \in 1..(n - i) /\ i + k = j + 1 /\ ~(j <= i - 1)
      BY <1>1, <2>2, <3>k
    <3>2. c[j] = b[k]
      BY <1>2, <1>5, <1>6, <3>1, <3>k
    <3> QED
      BY <1>3, <2>2, <3>1, <3>2
  <2> QED
    BY <2>1, <2>2
<1> QED
  BY <1>n, <1>4, <1>5, <1>6, <1>7

LEMMA RemovedOk ==
  ASSUME NEW asked \in Seq(Requests), NEW i \in DOMAIN asked
  PROVE  /\ RemoveAt(asked, i) \in Seq(Requests)
         /\ \A j \in DOMAIN RemoveAt(asked, i) :
               \E k \in DOMAIN asked : RemoveAt(asked, i)[j] = asked[k]
         /\ \A k \in DOMAIN asked : k # i =>
               \E j \in DOMAIN RemoveAt(asked, i) : RemoveAt(asked, i)[j] = asked[k]
<1>n. PICK n \in Nat : n = Len(asked)
  BY LenProperties
<1>c. PICK c : c = RemoveAt(asked, i)
  OBVIOUS
<1>1. /\ c \in Seq(Requests) /\ Len(c) = n - 1
      /\ \A j \in 1..(n - 1) : c[j] = IF j < i THEN asked[j] ELSE asked[j + 1]
  BY <1>n, <1>c, RemovedShape
<1>2. DOMAIN asked = 1..n /\ DOMAIN c = 1..(n - 1) /\ i \in 1..n
  BY <1>n, <1>1, LenProperties
<1>3. ASSUME NEW j \in 1..(n - 1)
      PROVE  \E k \in 1..n : c[j] = asked[k]
  <2>1. j \in 1..n /\ j + 1 \in 1..n
    BY <1>3
  <2> QED
    BY <1>1, <2>1
<1>4. ASSUME NEW k \in 1..n, k # i
      PROVE  \E j \in 1..(n - 1) : c[j] = asked[k]
  <2>1. CASE k < i
    <3>1. k \in 1..(n - 1)
      BY <1>2, <2>1
    <3> QED
      BY <1>1, <2>1, <3>1
  <2>2. CASE ~(k < i)
    <3>j. PICK j : j = k - 1
      OBVIOUS
    <3>1. j \in 1..(n - 1) /\ ~(j < i) /\ j + 1 = k
      BY <1>2, <1>4, <2>2, <3>j
    <3>2. c[j] = asked[k]
      BY <1>1, <3>1
    <3> QED
      BY <3>1, <3>2
  <2> QED
    BY <2>1, <2>2
<1> QED
  BY <1>c, <1>1, <1>2, <1>3, <1>4

LEMMA WithoutWorks ==
  ASSUME NEW b, Good(b), NEW i \in DOMAIN b.asked
  PROVE  Works(b, Without(b, i))
<1>0. b \in Pages /\ b.asked \in Seq(Requests)
  BY DEF Good, Pages
<1>a. PICK asked \in Seq(Requests) :
            /\ asked = RemoveAt(b.asked, i)
            /\ \A j \in DOMAIN asked : \E k \in DOMAIN b.asked : asked[j] = b.asked[k]
  BY <1>0, RemovedOk
<1>c. PICK c : c = [b EXCEPT !.asked = asked]
  OBVIOUS
<1>1. c = Without(b, i)
  BY <1>0, <1>a, <1>c DEF Without, Pages
<1>2. c \in Pages
  BY <1>0, <1>c DEF Pages
<1>3. /\ c.sprint = b.sprint /\ c.group = b.group /\ c.teams = b.teams /\ c.epm = b.epm
      /\ c.backlog = b.backlog /\ c.backlogAsked = b.backlogAsked
  BY <1>0, <1>c DEF Pages
<1>4. c.rows = b.rows /\ c.preload = b.preload /\ c.cache = b.cache /\ c.asked = asked
  BY <1>0, <1>c DEF Pages
<1>5. OfSprint(b.asked, b.sprint) => OfSprint(asked, b.sprint)
  BY <1>a DEF OfSprint
<1>6. Dismissed(b.asked) => Dismissed(asked)
  BY <1>a DEF Dismissed
<1>7. Good(c)
  BY <1>2, <1>3, <1>4, <1>5 DEF Good
<1> QED
  BY <1>1, <1>3, <1>4, <1>6, <1>7 DEF Works, SameScope, SameBacklog

-----------------------------------------------------------------------------
(* The actions.                                                            *)

LEMMA InitIInv ==
  ASSUME Init
  PROVE  IInv
<1>1. Settled(page) /\ \A g \in Groups : page.teams[g] = 0
  BY OpenedSettled DEF Init
<1>2. events = 0 /\ events \in 0..MaxEvents
  BY BoardAssumption DEF Init
<1>3. \A g \in Groups : page.teams[g] <= events
  BY <1>1, <1>2
<1>4. batch = None /\ saving \in BOOLEAN /\ sprintsAsked \in BOOLEAN
  BY DEF Init
<1> QED
  BY <1>1, <1>2, <1>3, <1>4 DEF IInv

\* What is left to show of an action that settles the page.
LEMMA IInvKept ==
  ASSUME IInv, Settled(page'), page'.teams = page.teams,
         events' \in 0..MaxEvents, events <= events',
         batch' = None \/ batch' \in Scopes,
         saving' \in BOOLEAN, sprintsAsked' \in BOOLEAN
  PROVE  IInv'
<1>1. \A g \in Groups : page.teams[g] \in Nat /\ page.teams[g] <= events
  BY DEF IInv, Settled, Good, Pages
<1>2. \A g \in Groups : page'.teams[g] <= events'
  BY <1>1 DEF IInv
<1> QED
  BY <1>2 DEF IInv

LEMMA Counted ==
  ASSUME IInv
  PROVE  /\ events \in 0..MaxEvents /\ events <= events
         /\ Event => events' \in 0..MaxEvents /\ events <= events'
BY BoardAssumption DEF IInv, Event

LEMMA SelectSprintIInv ==
  ASSUME IInv, NEW s \in Sprints, SelectSprint(s)
  PROVE  IInv'
<1>1. Settled(page') /\ page'.teams = page.teams
  BY ToSprintSettles DEF IInv, SelectSprint
<1> QED
  BY <1>1, Counted, IInvKept DEF IInv, SelectSprint, Turn

LEMMA SelectGroupIInv ==
  ASSUME IInv, NEW g \in Groups, SelectGroup(g)
  PROVE  IInv'
<1>1. Settled(page') /\ page'.teams = page.teams
  BY ToGroupSettles DEF IInv, SelectGroup
<1> QED
  BY <1>1, Counted, IInvKept DEF IInv, SelectGroup, Turn

LEMMA ToggleStatsIInv ==
  ASSUME IInv, ToggleStats
  PROVE  IInv'
<1>0. page \in Pages /\ Settled(page)
  BY DEF IInv, Settled, Good
<1>c. PICK c : c = [page EXCEPT !.statsOnly = ~@]
  OBVIOUS
<1>1. c \in Pages
  BY <1>0, <1>c DEF Pages
<1>2. /\ c.sprint = page.sprint /\ c.group = page.group /\ c.teams = page.teams
      /\ c.epm = page.epm /\ c.backlog = page.backlog /\ c.backlogAsked = page.backlogAsked
  BY <1>0, <1>c DEF Pages
<1>3. c.rows = page.rows /\ c.preload = page.preload /\ c.cache = page.cache /\ c.asked = page.asked
  BY <1>0, <1>c DEF Pages
<1>4. SameScope(page, c) /\ SameBacklog(page, c)
  BY <1>2 DEF SameScope, SameBacklog
<1>5. Good(c)
  BY <1>0, <1>1, <1>3, <1>4, SameGood DEF Settled
<1>6. Works(page, c)
  BY <1>3, <1>4, <1>5 DEF Works
<1>d. PICK d : d = StatsEffects(page.statsOnly, c)
  OBVIOUS
<1>7. Works(page, d)
  BY <1>5, <1>6, <1>d, StatsEffectsWorks, WorksOn
<1>8. Settled(d) /\ d.teams = page.teams
  BY <1>0, <1>7, WorksSettled
<1>9. page' = Rendered(d)
  BY <1>c, <1>d DEF ToggleStats
<1>10. Settled(page') /\ page'.teams = page.teams
  BY <1>8, <1>9, RenderedSettles
<1> QED
  BY <1>10, Counted, IInvKept DEF IInv, ToggleStats, Turn

LEMMA ToggleEpmIInv ==
  ASSUME IInv, ToggleEpm
  PROVE  IInv'
<1>0. page \in Pages /\ Good(page) /\ Dismissed(page.asked) /\ FreshCache(page.cache)
  BY DEF IInv, Settled, Good
<1>c. PICK c : c = [page EXCEPT !.epm = ~@]
  OBVIOUS
<1>1. c \in Pages
  BY <1>0, <1>c DEF Pages
<1>2. /\ c.sprint = page.sprint /\ c.group = page.group /\ c.teams = page.teams
      /\ c.rows = page.rows /\ c.preload = page.preload /\ c.cache = page.cache
      /\ c.asked = page.asked
  BY <1>0, <1>c DEF Pages
<1>3. Good(c) /\ Dismissed(c.asked)
  <2>1. FreshCache(c.cache)
    BY <1>0, <1>2
  <2> QED
    BY <1>0, <1>1, <1>2, <2>1, AlteredGood
<1>4. SameScope(c, c)
  BY DEF SameScope
<1>d. PICK d : d = ScopeEffects(c, c, FALSE)
  OBVIOUS
<1>5. Settled(d) /\ d.teams = c.teams
  BY <1>1, <1>3, <1>4, <1>d, ScopeEffectsSettle
<1>6. page' = Rendered(d)
  BY <1>c, <1>d DEF ToggleEpm
<1>7. Settled(page') /\ page'.teams = page.teams
  BY <1>2, <1>5, <1>6, RenderedSettles
<1> QED
  BY <1>7, Counted, IInvKept DEF IInv, ToggleEpm, Turn

LEMMA RefreshIInv ==
  ASSUME IInv, Refresh
  PROVE  IInv'
<1>0. page \in Pages /\ Settled(page) /\ Good(page) /\ FreshCache(page.cache)
  BY DEF IInv, Settled, Good
<1>k. PICK cache \in [Groups -> Snapshots \cup {None}] :
            cache = [page.cache EXCEPT ![page.group] = None] /\ FreshCache(cache)
  BY <1>0, ForgottenCache
<1>c. PICK c : c = [page EXCEPT !.cache = cache]
  OBVIOUS
<1>1. c \in Pages
  BY <1>0, <1>c DEF Pages
<1>2. /\ c.sprint = page.sprint /\ c.group = page.group /\ c.teams = page.teams
      /\ c.epm = page.epm /\ c.backlog = page.backlog /\ c.backlogAsked = page.backlogAsked
      /\ c.rows = page.rows /\ c.preload = page.preload /\ c.cache = cache
      /\ c.asked = page.asked
  BY <1>0, <1>c DEF Pages
<1>3. Good(c) /\ (Dismissed(page.asked) => Dismissed(c.asked))
  <2>1. FreshCache(c.cache)
    BY <1>2, <1>k
  <2> QED
    BY <1>0, <1>1, <1>2, <2>1, AlteredGood
<1>4. Works(page, c)
  BY <1>2, <1>3 DEF Works, SameScope, SameBacklog
<1>5. Scope(c) \in Scopes /\ Scope(c).sprint = c.sprint
  BY <1>1, ScopeTyped
<1>b. PICK b : b = LoadBoth(c, Scope(c), "page")
  OBVIOUS
<1>6. Works(c, b)
  BY <1>3, <1>5, <1>b, LoadBothWorks
<1>d. PICK d : d = LoadPreload(b, Scope(c), HasRows(c.rows), "page")
  OBVIOUS
<1>7. Works(b, d)
  <2>1. Good(b) /\ Scope(c).sprint = b.sprint
    BY <1>5, <1>6 DEF Works, SameScope
  <2> QED
    BY <1>5, <1>d, <2>1, LoadPreloadWorks
<1>8. Works(page, d)
  BY <1>4, <1>6, <1>7, WorksOn
<1>9. Works(page, Remember(d))
  <2>1. Works(d, Remember(d))
    BY <1>8, RememberWorks DEF Works
  <2> QED
    BY <1>8, <2>1, WorksOn
<1>10. page' \in {c, Remember(d), d}
  <2>1. c = [page EXCEPT !.cache[page.group] = None]
    BY <1>0, <1>k, <1>c DEF Pages
  <2> QED
    BY <1>b, <1>d, <2>1 DEF Refresh
<1>11. Settled(page') /\ page'.teams = page.teams
  BY <1>0, <1>4, <1>8, <1>9, <1>10, WorksSettled
<1> QED
  BY <1>11, Counted, IInvKept DEF IInv, Refresh

LEMMA SprintsListedIInv ==
  ASSUME IInv, SprintsListed
  PROVE  IInv'
<1>1. PageSprint \in Sprints /\ Settled(page)
  BY BoardAssumption DEF IInv
<1>2. page' = page \/ page' = ToSprint(page, PageSprint)
  BY DEF SprintsListed
<1>3. Settled(page') /\ page'.teams = page.teams
  BY <1>1, <1>2, ToSprintSettles
<1> QED
  BY <1>3, Counted, IInvKept DEF IInv, SprintsListed

LEMMA SaveSettingsIInv ==
  ASSUME IInv, SaveSettings
  PROVE  IInv'
<1>0. page \in Pages /\ Settled(page) /\ Good(page)
  BY DEF IInv, Settled, Good
<1>k. PICK cache \in [Groups -> Snapshots \cup {None}] : cache = [g \in Groups |-> None]
  OBVIOUS
<1>c. PICK c : c = [page EXCEPT !.cache = cache]
  OBVIOUS
<1>1. c \in Pages
  BY <1>0, <1>c DEF Pages
<1>2. /\ c.sprint = page.sprint /\ c.group = page.group /\ c.teams = page.teams
      /\ c.epm = page.epm /\ c.backlog = page.backlog /\ c.backlogAsked = page.backlogAsked
      /\ c.rows = page.rows /\ c.preload = page.preload /\ c.cache = cache
      /\ c.asked = page.asked
  BY <1>0, <1>c DEF Pages
<1>3. FreshCache(cache)
  BY <1>k DEF FreshCache
<1>4. Good(c) /\ (Dismissed(page.asked) => Dismissed(c.asked))
  <2>1. FreshCache(c.cache)
    BY <1>2, <1>3
  <2> QED
    BY <1>0, <1>1, <1>2, <2>1, AlteredGood
<1>5. Works(page, c)
  BY <1>2, <1>4 DEF Works, SameScope, SameBacklog
<1>6. page' = c
  BY <1>k, <1>c DEF SaveSettings
<1>7. Settled(page') /\ page'.teams = page.teams
  BY <1>0, <1>5, <1>6, WorksSettled
<1> QED
  BY <1>7, Counted, IInvKept DEF IInv, SaveSettings

LEMMA SaveTeamsIInv ==
  ASSUME IInv, NEW g \in Groups, SaveTeams(g)
  PROVE  IInv'
<1>0. Settled(page) /\ page.teams \in [Groups -> 0..MaxEvents]
  BY DEF IInv, Settled, Good, Pages
<1>1. \A h \in Groups : page.teams[h] \in Nat /\ page.teams[h] <= events
  BY <1>0 DEF IInv
<1>2. events \in Nat /\ events' = events + 1 /\ events' \in 0..MaxEvents
  BY BoardAssumption DEF IInv, SaveTeams, Event
<1>3. page.teams[g] + 1 \in 0..MaxEvents
  BY <1>1, <1>2, BoardAssumption
<1>4. page' = AdoptTeams(page, g)
  BY DEF SaveTeams
<1>5. Settled(page') /\ page'.teams = [page.teams EXCEPT ![g] = page.teams[g] + 1]
  BY <1>0, <1>3, <1>4, AdoptTeamsSettles
<1>6. \A h \in Groups : page'.teams[h] <= events'
  <2>1. \A h \in Groups : page'.teams[h] = IF h = g THEN page.teams[g] + 1 ELSE page.teams[h]
    BY <1>0, <1>5
  <2> QED
    BY <1>1, <1>2, <2>1
<1>7. /\ batch' = None \/ batch' \in Scopes
      /\ saving' \in BOOLEAN /\ sprintsAsked' \in BOOLEAN
  BY DEF IInv, SaveTeams
<1> QED
  BY <1>2, <1>5, <1>6, <1>7 DEF IInv

LEMMA FinishSaveIInv ==
  ASSUME IInv, FinishSave
  PROVE  IInv'
<1>0. Good(page)
  BY DEF IInv, Settled
<1>c. PICK c : c = Invalidated(page)
  OBVIOUS
<1>1. Good(c) /\ Dismissed(c.asked) /\ c.teams = page.teams /\ c \in Pages
  BY <1>0, <1>c, InvalidatedGood DEF Good
<1>d. PICK d : d = Remember(c)
  OBVIOUS
<1>2. Works(c, d)
  BY <1>1, <1>d, RememberWorks
<1>3. Good(d) /\ SameScope(d, c) /\ Dismissed(d.asked) /\ d.teams = c.teams
  BY <1>1, <1>2 DEF Works, SameScope
<1>e. PICK e : e = ScopeEffects(c, d, TRUE)
  OBVIOUS
<1>4. Settled(e) /\ e.teams = d.teams
  BY <1>1, <1>3, <1>e, ScopeEffectsSettle
<1>5. page' = Rendered(e)
  BY <1>c, <1>d, <1>e DEF FinishSave
<1>6. Settled(page') /\ page'.teams = page.teams
  BY <1>1, <1>3, <1>4, <1>5, RenderedSettles
<1> QED
  BY <1>6, Counted, IInvKept DEF IInv, FinishSave

LEMMA SubmitBatchIInv ==
  ASSUME IInv, SubmitBatch
  PROVE  IInv'
<1>1. Scope(page) \in Scopes
  BY ScopeTyped DEF IInv, Settled, Good
<1>2. batch' \in Scopes
  BY <1>1 DEF SubmitBatch
<1>3. Settled(page') /\ page'.teams = page.teams
  BY DEF IInv, SubmitBatch
<1> QED
  BY <1>2, <1>3, Counted, IInvKept DEF IInv, SubmitBatch

\* The lists of a batch are asked for of its own scope.
LEMMA FinishBatchIInv ==
  ASSUME IInv, FinishBatch
  PROVE  IInv'
<1>0. Settled(page) /\ Good(page) /\ batch \in Scopes
  BY DEF IInv, Settled, FinishBatch
<1>b. PICK b : b = LoadBoth(page, batch, "batch")
  OBVIOUS
<1>1. Works(page, b)
  BY <1>0, <1>b, LoadBothWorks
<1>d. PICK d : d = LoadPreload(b, batch, TRUE, "batch")
  OBVIOUS
<1>2. Works(b, d)
  <2>1. Good(b)
    BY <1>1 DEF Works
  <2> QED
    BY <1>0, <1>d, <2>1, LoadPreloadWorks
<1>3. Works(page, d)
  BY <1>1, <1>2, WorksOn
<1>4. Works(page, Rendered(d))
  <2>1. Works(d, Rendered(d))
    BY <1>3, RenderedWorks DEF Works
  <2> QED
    BY <1>3, <2>1, WorksOn
<1>5. page' \in {d, Rendered(d)}
  BY <1>b, <1>d DEF FinishBatch
<1>6. Settled(page') /\ page'.teams = page.teams
  BY <1>0, <1>3, <1>4, <1>5, WorksSettled
<1> QED
  BY <1>6, Counted, IInvKept DEF IInv, FinishBatch

\* A request that ends is no longer under way.
LEMMA AnsweredSettles ==
  ASSUME NEW b, Settled(b), NEW i \in DOMAIN b.asked,
         NEW as \in {"rows", "none", "dropped"}, as = "rows" => b.asked[i].at = "jira"
  PROVE  /\ Settled(Rendered(Finished(Without(b, i), b.asked[i], as)))
         /\ Rendered(Finished(Without(b, i), b.asked[i], as)).teams = b.teams
<1>0. Good(b) /\ b.asked \in Seq(Requests)
  BY DEF Settled, Good, Pages
<1>r. PICK r \in Requests : r = b.asked[i]
  BY <1>0, LenProperties, ElementOfSeq
<1>c. PICK c : c = Without(b, i)
  OBVIOUS
<1>1. Works(b, c)
  BY <1>0, <1>c, WithoutWorks
<1>2. Good(c) /\ c.sprint = b.sprint
  BY <1>1 DEF Works, SameScope
<1>3. as = "rows" => r.by = "batch" \/ r.scope.sprint = c.sprint
  <2>1. as = "rows" => ~r.aborted
    BY <1>r DEF Settled, Dismissed, Aborting
  <2>2. r.by = "page" /\ ~r.aborted => r.scope.sprint = b.sprint
    BY <1>r DEF Settled, Good, OfSprint
  <2>3. r.by \in {"page", "batch"}
    BY DEF Requests
  <2> QED
    BY <1>2, <2>1, <2>2, <2>3
<1>d. PICK d : d = Finished(c, r, as)
  OBVIOUS
<1>4. Works(c, d)
  BY <1>2, <1>3, <1>d, FinishedWorks
<1>5. Settled(d) /\ d.teams = b.teams
  BY <1>1, <1>4, WorksOn, WorksSettled
<1>6. Settled(Rendered(d)) /\ Rendered(d).teams = b.teams
  BY <1>5, RenderedSettles
<1> QED
  BY <1>6, <1>r, <1>c, <1>d

LEMMA AnswerIInv ==
  ASSUME IInv, NEW i \in DOMAIN page.asked, NEW as \in {"rows", "none"}, Answer(i, as)
  PROVE  IInv'
<1>1. Settled(page)
  BY DEF IInv
<1>2. page.asked[i].at = "jira" /\ as \in {"rows", "none", "dropped"}
  BY DEF Answer
<1>3. page' = Rendered(Finished(Without(page, i), page.asked[i], as))
  BY DEF Answer
<1>4. Settled(page') /\ page'.teams = page.teams
  BY <1>1, <1>2, <1>3, AnsweredSettles
<1> QED
  BY <1>4, Counted, IInvKept DEF IInv, Answer

\* A request of the page that goes on, as one that is not about to end.
LEMMA ChangedSettles ==
  ASSUME NEW b, Settled(b), NEW i \in DOMAIN b.asked, NEW r \in Requests, ~Aborting(r),
         r.by = b.asked[i].by, r.aborted = b.asked[i].aborted, r.scope = b.asked[i].scope
  PROVE  /\ Settled([b EXCEPT !.asked = [b.asked EXCEPT ![i] = r]])
         /\ [b EXCEPT !.asked = [b.asked EXCEPT ![i] = r]].teams = b.teams
<1>0. Good(b) /\ b \in Pages /\ b.asked \in Seq(Requests)
  BY DEF Settled, Good, Pages
<1>n. PICK n \in Nat : n = Len(b.asked)
  BY <1>0, LenProperties
<1>a. PICK asked : asked = [b.asked EXCEPT ![i] = r]
  OBVIOUS
<1>1. DOMAIN b.asked = 1..n /\ i \in 1..n
  BY <1>0, <1>n, LenProperties
<1>2. asked \in Seq(Requests) /\ Len(asked) = n
      /\ \A j \in 1..n : asked[j] = IF j = i THEN r ELSE b.asked[j]
  BY <1>0, <1>n, <1>a, <1>1, ExceptSeq
<1>3. DOMAIN asked = 1..n
  BY <1>2, LenProperties
<1>4. OfSprint(b.asked, b.sprint) => OfSprint(asked, b.sprint)
  BY <1>1, <1>2, <1>3 DEF OfSprint
<1>5. Dismissed(b.asked) => Dismissed(asked)
  BY <1>1, <1>2, <1>3 DEF Dismissed
<1>c. PICK c : c = [b EXCEPT !.asked = asked]
  OBVIOUS
<1>6. c \in Pages
  BY <1>0, <1>2, <1>c DEF Pages
<1>7. /\ c.sprint = b.sprint /\ c.group = b.group /\ c.teams = b.teams /\ c.epm = b.epm
      /\ c.backlog = b.backlog /\ c.backlogAsked = b.backlogAsked
  BY <1>0, <1>c DEF Pages
<1>8. c.rows = b.rows /\ c.preload = b.preload /\ c.cache = b.cache /\ c.asked = asked
  BY <1>0, <1>c DEF Pages
<1>9. Good(c)
  BY <1>0, <1>4, <1>6, <1>7, <1>8 DEF Good
<1>10. Works(b, c)
  BY <1>5, <1>7, <1>8, <1>9 DEF Works, SameScope, SameBacklog
<1>11. Settled(c) /\ c.teams = b.teams
  BY <1>10, WorksSettled
<1> QED
  BY <1>11, <1>a, <1>c

LEMMA SessionStaleIInv ==
  ASSUME IInv, NEW i \in DOMAIN page.asked, SessionStale(i)
  PROVE  IInv'
<1>0. page \in Pages /\ Settled(page) /\ page.asked \in Seq(Requests)
  BY DEF IInv, Settled, Good, Pages
<1>1. page.asked[i] \in Requests
  BY <1>0, LenProperties, ElementOfSeq
<1>r. PICK r : r = [page.asked[i] EXCEPT !.at = "session"]
  OBVIOUS
<1>2. /\ r \in Requests /\ ~Aborting(r) /\ r.by = page.asked[i].by
      /\ r.aborted = page.asked[i].aborted /\ r.scope = page.asked[i].scope
  BY <1>1, <1>r DEF Requests, Aborting
<1>c. PICK c : c = [page EXCEPT !.asked = [page.asked EXCEPT ![i] = r]]
  OBVIOUS
<1>3. Settled(c) /\ c.teams = page.teams
  BY <1>0, <1>2, <1>c, ChangedSettles
<1>4. page' = c
  BY <1>0, <1>r, <1>c DEF SessionStale, Pages
<1>5. Settled(page') /\ page'.teams = page.teams
  BY <1>3, <1>4
<1> QED
  BY <1>5, Counted, IInvKept DEF IInv, SessionStale

LEMMA SessionAnsweredIInv ==
  ASSUME IInv, NEW i \in DOMAIN page.asked, NEW ok \in BOOLEAN, SessionAnswered(i, ok)
  PROVE  IInv'
<1>0. page \in Pages /\ Settled(page) /\ page.asked \in Seq(Requests)
  BY DEF IInv, Settled, Good, Pages
<1>p. PICK p \in Requests : p = page.asked[i] /\ p.at = "session"
  BY <1>0, LenProperties, ElementOfSeq DEF SessionAnswered
<1>1. Settled(page') /\ page'.teams = page.teams
  <2>1. CASE ok /\ ~p.aborted
    <3>r. PICK r : r = [p EXCEPT !.at = "jira", !.again = TRUE]
      OBVIOUS
    <3>1. /\ r \in Requests /\ ~Aborting(r) /\ r.by = p.by
          /\ r.aborted = p.aborted /\ r.scope = p.scope
      BY <2>1, <3>r DEF Requests, Aborting
    <3>c. PICK c : c = [page EXCEPT !.asked = [page.asked EXCEPT ![i] = r]]
      OBVIOUS
    <3>2. Settled(c) /\ c.teams = page.teams
      BY <1>0, <1>p, <3>1, <3>c, ChangedSettles
    <3>3. page' = c
      BY <1>0, <1>p, <2>1, <3>r, <3>c DEF SessionAnswered, Pages
    <3> QED
      BY <3>2, <3>3
  <2>2. CASE ok /\ p.aborted
    <3>1. page' = Rendered(Finished(Without(page, i), page.asked[i], "dropped"))
      BY <1>p, <2>2 DEF SessionAnswered
    <3> QED
      BY <1>0, <3>1, AnsweredSettles
  <2>3. CASE ~ok
    <3>1. page' = Rendered(Finished(Without(page, i), page.asked[i], "none"))
      BY <1>p, <2>3 DEF SessionAnswered
    <3> QED
      BY <1>0, <3>1, AnsweredSettles
  <2> QED
    BY <2>1, <2>2, <2>3 DEF Requests
<1> QED
  BY <1>1, Counted, IInvKept DEF IInv, SessionAnswered

LEMMA BacklogAnswerIInv ==
  ASSUME IInv, NEW ok \in BOOLEAN, BacklogAnswer(ok)
  PROVE  IInv'
<1>0. page \in Pages /\ Settled(page) /\ Good(page)
  BY DEF IInv, Settled, Good
<1>k. PICK backlog \in Scopes \cup {None} :
            backlog = IF ok THEN page.backlogAsked ELSE None
  BY <1>0 DEF Pages
<1>c. PICK c : c = [page EXCEPT !.backlogAsked = None, !.backlog = backlog]
  OBVIOUS
<1>1. c \in Pages
  BY <1>0, <1>c DEF Pages
<1>2. /\ c.sprint = page.sprint /\ c.group = page.group /\ c.teams = page.teams
      /\ c.epm = page.epm /\ c.backlog = backlog /\ c.backlogAsked = None
  BY <1>0, <1>c DEF Pages
<1>3. c.rows = page.rows /\ c.preload = page.preload /\ c.cache = page.cache /\ c.asked = page.asked
  BY <1>0, <1>c DEF Pages
<1>4. SameScope(page, c)
  BY <1>2 DEF SameScope
<1>5. Good(c)
  BY <1>0, <1>1, <1>3, <1>4, SameGood
<1>6. Scope(c) = Scope(page)
  BY <1>4, SameScopes
<1>7. ~page.epm => page.backlogAsked = Scope(page)
  BY <1>0 DEF Settled, BacklogOk, BacklogAnswer
<1>8. BacklogOk(c)
  BY <1>2, <1>6, <1>7, <1>k DEF BacklogOk
<1>9. page' = c
  BY <1>k, <1>c DEF BacklogAnswer
<1>10. Settled(page') /\ page'.teams = page.teams
  BY <1>0, <1>2, <1>3, <1>5, <1>8, <1>9 DEF Settled
<1> QED
  BY <1>10, Counted, IInvKept DEF IInv, BacklogAnswer

LEMMA QuietIInv ==
  ASSUME IInv, RefuseBatch \/ SprintsNotListed \/ UNCHANGED vars
  PROVE  IInv'
<1>1. Settled(page') /\ page'.teams = page.teams /\ events' = events
  BY DEF IInv, RefuseBatch, SprintsNotListed, vars
<1>2. /\ batch' = None \/ batch' \in Scopes
      /\ saving' \in BOOLEAN /\ sprintsAsked' \in BOOLEAN
  BY DEF IInv, RefuseBatch, SprintsNotListed, vars
<1> QED
  BY <1>1, <1>2, Counted, IInvKept

LEMMA NextIInv ==
  ASSUME IInv, [Next]_vars
  PROVE  IInv'
<1>1. CASE Network
  <2>1. CASE \E i \in DOMAIN page.asked : Answering(i)
    BY <2>1, AnswerIInv, SessionAnsweredIInv DEF Answering
  <2>2. CASE \E ok \in BOOLEAN : BacklogAnswer(ok)
    BY <2>2, BacklogAnswerIInv
  <2> QED
    BY <1>1, <2>1, <2>2, SprintsListedIInv, FinishSaveIInv, FinishBatchIInv, QuietIInv DEF Network
<1>2. CASE User
  <2>1. CASE \E s \in Sprints : SelectSprint(s)
    BY <2>1, SelectSprintIInv
  <2>2. CASE \E g \in Groups : SelectGroup(g) \/ SaveTeams(g)
    BY <2>2, SelectGroupIInv, SaveTeamsIInv
  <2>3. CASE \E i \in DOMAIN page.asked : SessionStale(i)
    BY <2>3, SessionStaleIInv
  <2> QED
    BY <1>2, <2>1, <2>2, <2>3, ToggleStatsIInv, ToggleEpmIInv, RefreshIInv, SaveSettingsIInv,
       SubmitBatchIInv DEF User
<1> QED
  BY <1>1, <1>2, QuietIInv DEF Next

LEMMA IInvShown ==
  ASSUME IInv
  PROVE  ShownOfSprint
<1>0. page \in Pages
  BY DEF IInv, Settled, Good
<1>1. TypeOK
  <2>1. Scope(page) \in Scopes /\ Snapshot(page) \in Snapshots
    BY <1>0, ScopeTyped, SnapshotTyped
  <2>2. page.mark.sprint \in Sprints /\ page.mark.done \subseteq Projects
    BY <1>0 DEF Pages, Marks
  <2>3. \A g \in Groups : page.cache[g] # None => page.cache[g] \in Snapshots
    BY <1>0 DEF Pages
  <2>4. \A i \in DOMAIN page.asked : page.asked[i].scope \in Scopes
    <3>1. \A i \in DOMAIN page.asked : page.asked[i] \in Requests
      BY <1>0, LenProperties, ElementOfSeq DEF Pages
    <3> QED
      BY <3>1 DEF Requests
  <2>5. /\ page.lastLoaded \in Sprints \cup {None}
        /\ page.backlog \in Scopes \cup {None} /\ page.backlogAsked \in Scopes \cup {None}
    BY <1>0 DEF Pages
  <2>6. <<saving, sprintsAsked>> \in BOOLEAN \X BOOLEAN
    BY DEF IInv
  <2> QED
    BY <2>1, <2>2, <2>3, <2>4, <2>5, <2>6 DEF TypeOK
<1>2. ListsOfSprint
  BY DEF IInv, Settled, Good, FreshLists, FreshCache, ListsOfSprint
<1>3. BacklogOfScope
  BY DEF IInv, Settled, BacklogOk, BacklogOfScope
<1> QED
  BY <1>1, <1>2, <1>3 DEF ShownOfSprint

-----------------------------------------------------------------------------
(* Whether what is not there will come.  W are the lists of requests that  *)
(* have been taken from the page and not yet been seen to.                 *)

\* The lists that requests ask for, and those that somebody still wants.
Waited(asked) == {p \in Projects : \E i \in DOMAIN asked : asked[i].list = p}

Wished(asked) == {p \in Projects : \E i \in DOMAIN asked : asked[i].list = p /\ ~asked[i].aborted}

\* Only groups with teams ask.
Teamed(asked) == \A i \in DOMAIN asked : asked[i].scope.group \notin Teamless

BusyOk(b, W) ==
    /\ \A p \in Projects : b.loading[p] => p \in Waited(b.asked) \cup W
    /\ b.busy => Waited(b.asked) \cup W # {}

\* All lists are there or on their way.
Coming(b, W) ==
    /\ \A p \in Projects : b.rows[p].as = "blank" => p \in Waited(b.asked) \cup W
    /\ b.fetched \/ Waited(b.asked) \cup W # {}

\* The mark of the sprint is set, or will be.
Marking(b, W) ==
    b.group \notin Teamless =>
        \/ b.lastLoaded = b.sprint
        \/ \A p \in Projects : \/ p \in Waited(b.asked) \cup W
                               \/ b.mark.sprint = b.sprint /\ p \in b.mark.done

DoneOk(b) == b.mark.done = Projects => b.lastLoaded = b.mark.sprint

Sound(b) == BusyOk(b, {}) /\ DoneOk(b) /\ Teamed(b.asked)

Wanted(b) == HasRows(b.rows) \/ Wished(b.asked) # {}

\* A page of any view.
Steady(b) ==
    /\ Wanted(b) => Coming(b, {})
    /\ b.group \in Teamless => ~HasRows(b.rows)

Fed(b) ==
    /\ Steady(b)
    /\ ~b.epm /\ ~b.statsOnly => Coming(b, {}) /\ Marking(b, {})

\* What is kept of the groups that are not shown is whole, or will be asked for.
Others(b) ==
    \A g \in Groups : g # b.group /\ b.cache[g] # None /\ HasRows(b.cache[g].rows) =>
        /\ g \notin Teamless
        /\ b.cache[g].fetched
        /\ \A p \in Projects : b.cache[g].rows[p].as # "blank"

KeepsItself(b) == b.cache[b.group] \in {None, Snapshot(b)}

LInv ==
    /\ Sound(page)
    /\ KeepsItself(page)
    /\ ~strayed =>
         /\ Fed(page)
         /\ Others(page)
         /\ batch # None => batch.group \notin Teamless

\* What most operators carry over.
Bears(b, V, c, W) ==
    /\ c.sprint = b.sprint /\ c.group = b.group /\ c.epm = b.epm /\ c.statsOnly = b.statsOnly
    /\ \A g \in Groups : g # b.group => c.cache[g] = b.cache[g]
    /\ BusyOk(b, V) => BusyOk(c, W)
    /\ DoneOk(b) => DoneOk(c)
    /\ Coming(b, V) => Coming(c, W)
    /\ Teamed(b.asked) => Teamed(c.asked)

\* Two pages that wait for, and have, the same lists.
Alike(b, c) ==
    /\ c.sprint = b.sprint /\ c.group = b.group /\ c.epm = b.epm /\ c.statsOnly = b.statsOnly
    /\ c.rows = b.rows /\ c.fetched = b.fetched /\ c.loading = b.loading /\ c.busy = b.busy
    /\ c.mark = b.mark /\ c.lastLoaded = b.lastLoaded
    /\ \A g \in Groups : g # b.group => c.cache[g] = b.cache[g]
    /\ Waited(c.asked) = Waited(b.asked) /\ Wished(c.asked) = Wished(b.asked)
    /\ Teamed(b.asked) => Teamed(c.asked)

\* Both lists have just been asked for, or there is nobody to ask for.
Loaded(b) ==
    /\ Coming(b, {})
    /\ b.group \notin Teamless => Projects \subseteq Wished(b.asked)

LEMMA AlikeSelf ==
  ASSUME NEW b
  PROVE  Alike(b, b)
BY DEF Alike

LEMMA AlikeOn ==
  ASSUME NEW b, NEW c, NEW d, Alike(b, c), Alike(c, d)
  PROVE  Alike(b, d)
BY DEF Alike

LEMMA BearsOn ==
  ASSUME NEW b, NEW V, NEW c, NEW W, NEW d, NEW U, Bears(b, V, c, W), Bears(c, W, d, U)
  PROVE  Bears(b, V, d, U)
BY DEF Bears

LEMMA AlikeBears ==
  ASSUME NEW b, NEW c, Alike(b, c), NEW W
  PROVE  Bears(b, W, c, W)
<1>1. BusyOk(b, W) => BusyOk(c, W)
  BY DEF Alike, BusyOk
<1>2. Coming(b, W) => Coming(c, W)
  BY DEF Alike, Coming
<1>3. DoneOk(b) => DoneOk(c)
  BY DEF Alike, DoneOk
<1> QED
  BY <1>1, <1>2, <1>3 DEF Alike, Bears

LEMMA BearsSound ==
  ASSUME NEW b, NEW c, Bears(b, {}, c, {}), Sound(b)
  PROVE  Sound(c)
BY DEF Bears, Sound

LEMMA AlikeFed ==
  ASSUME NEW b, NEW c, Alike(b, c)
  PROVE  /\ Sound(b) => Sound(c)
         /\ Steady(b) => Steady(c)
         /\ Marking(b, {}) => Marking(c, {})
         /\ Fed(b) => Fed(c)
<1>1. Bears(b, {}, c, {})
  BY AlikeBears
<1>2. Marking(b, {}) => Marking(c, {})
  BY DEF Alike, Marking
<1>3. Wanted(c) => Wanted(b)
  BY DEF Alike, Wanted
<1>4. Coming(b, {}) => Coming(c, {})
  BY <1>1 DEF Bears
<1>5. Steady(b) => Steady(c)
  BY <1>3, <1>4 DEF Steady, Alike
<1> QED
  BY <1>1, <1>2, <1>4, <1>5, BearsSound DEF Fed, Alike

LEMMA BearsOthers ==
  ASSUME NEW b, NEW V, NEW c, NEW W, Bears(b, V, c, W), Others(b)
  PROVE  Others(c)
BY DEF Bears, Others

LEMMA WishedWaited ==
  ASSUME NEW asked
  PROVE  Wished(asked) \subseteq Waited(asked)
BY DEF Wished, Waited

\* What has just been asked for will come, and be marked.
LEMMA LoadedFeeds ==
  ASSUME NEW b, Loaded(b)
  PROVE  Coming(b, {}) /\ Marking(b, {})
BY WishedWaited DEF Loaded, Marking

LEMMA AlikeLoaded ==
  ASSUME NEW b, NEW c, Alike(b, c), Loaded(b)
  PROVE  Loaded(c)
<1>1. Bears(b, {}, c, {})
  BY AlikeBears
<1> QED
  BY <1>1 DEF Loaded, Bears, Alike

\* One more request is waited for.
LEMMA AppendedLists ==
  ASSUME NEW asked \in Seq(Requests), NEW r \in Requests
  PROVE  /\ Waited(Append(asked, r)) = Waited(asked) \cup ({r.list} \cap Projects)
         /\ ~r.aborted => Wished(Append(asked, r)) = Wished(asked) \cup ({r.list} \cap Projects)
         /\ r.aborted => Wished(Append(asked, r)) = Wished(asked)
         /\ Teamed(asked) /\ r.scope.group \notin Teamless => Teamed(Append(asked, r))
<1> PICK n \in Nat : n = Len(asked)
  BY LenProperties
<1> PICK more \in Seq(Requests) : more = Append(asked, r)
  BY AppendProperties
<1>1. /\ Len(more) = n + 1
      /\ \A i \in 1..n : more[i] = asked[i]
      /\ more[n + 1] = r
  BY AppendProperties
<1>2. DOMAIN asked = 1..n /\ DOMAIN more = 1..(n + 1)
  BY <1>1, LenProperties
<1>3. \A i \in DOMAIN more : (i \in DOMAIN asked /\ more[i] = asked[i]) \/ more[i] = r
  BY <1>1, <1>2
<1>4. \A i \in DOMAIN asked : i \in DOMAIN more /\ more[i] = asked[i]
  BY <1>1, <1>2
<1>5. \E i \in DOMAIN more : more[i] = r
  <2>1. n + 1 \in DOMAIN more
    BY <1>2
  <2> QED
    BY <1>1, <2>1
<1>6. Waited(more) = Waited(asked) \cup ({r.list} \cap Projects)
  BY <1>3, <1>4, <1>5 DEF Waited
<1>7. ~r.aborted => Wished(more) = Wished(asked) \cup ({r.list} \cap Projects)
  BY <1>3, <1>4, <1>5 DEF Wished
<1>8. r.aborted => Wished(more) = Wished(asked)
  BY <1>3, <1>4 DEF Wished
<1>9. Teamed(asked) /\ r.scope.group \notin Teamless => Teamed(more)
  BY <1>3 DEF Teamed
<1> QED
  BY <1>6, <1>7, <1>8, <1>9

LEMMA NothingAsked ==
  Waited(<<>>) = {} /\ Wished(<<>>) = {} /\ Teamed(<<>>)
<1>1. DOMAIN <<>> = {}
  OBVIOUS
<1> QED
  BY <1>1 DEF Waited, Wished, Teamed

\* Pages that differ in what neither is shown nor asked for.
LEMMA RememberAlike ==
  ASSUME NEW b, b \in Pages
  PROVE  /\ Alike(b, Remember(b)) /\ KeepsItself(Remember(b))
         /\ Remember(b).cache[b.group] = Snapshot(b)
<1>s. PICK s : s = Snapshot(b)
  OBVIOUS
<1>k. PICK cache : cache = [b.cache EXCEPT ![b.group] = s]
  OBVIOUS
<1>0. b.cache \in [Groups -> Snapshots \cup {None}] /\ b.group \in Groups
  BY DEF Pages
<1>1. cache[b.group] = s /\ \A g \in Groups : g # b.group => cache[g] = b.cache[g]
  BY <1>0, <1>k
<1>c. PICK c : c = [b EXCEPT !.cache = cache]
  OBVIOUS
<1>2. c = Remember(b)
  BY <1>s, <1>k, <1>c DEF Remember, Pages
<1>3. /\ c.sprint = b.sprint /\ c.group = b.group /\ c.epm = b.epm /\ c.statsOnly = b.statsOnly
      /\ c.rows = b.rows /\ c.fetched = b.fetched /\ c.loading = b.loading /\ c.busy = b.busy
  BY <1>c DEF Pages
<1>4. /\ c.mark = b.mark /\ c.lastLoaded = b.lastLoaded /\ c.asked = b.asked /\ c.cache = cache
      /\ c.teams = b.teams /\ c.preload = b.preload
  BY <1>c DEF Pages
<1>5. Alike(b, c)
  BY <1>1, <1>3, <1>4 DEF Alike
<1>6. Snapshot(c) = s
  BY <1>3, <1>4, <1>s DEF Snapshot
<1>7. KeepsItself(c) /\ c.cache[b.group] = s
  BY <1>1, <1>3, <1>4, <1>6 DEF KeepsItself
<1> QED
  BY <1>2, <1>5, <1>7, <1>s

LEMMA LoadPreloadAlike ==
  ASSUME NEW b, b \in Pages, NEW scope \in Scopes, NEW withEpics, NEW by \in {"page", "batch"}
  PROVE  LET c == LoadPreload(b, scope, withEpics, by) IN
         Alike(b, c) /\ c.cache = b.cache
<1>r. PICK r \in Requests : r = Request("preload", scope, by)
  BY RequestTyped
<1>1. r.scope = scope /\ ~r.aborted /\ r.list = "preload"
  BY <1>r, RequestTyped
<1>2. CASE scope.group \in Teamless \/ ~withEpics
  <2>l. PICK l : l = List(b, r, "empty")
    OBVIOUS
  <2>c. PICK c : c = [b EXCEPT !.preload = l]
    OBVIOUS
  <2>1. c = LoadPreload(b, scope, withEpics, by)
    BY <1>1, <1>2, <1>r, <2>l, <2>c DEF LoadPreload, Landed
  <2>2. /\ c.sprint = b.sprint /\ c.group = b.group /\ c.epm = b.epm /\ c.statsOnly = b.statsOnly
        /\ c.rows = b.rows /\ c.fetched = b.fetched /\ c.loading = b.loading /\ c.busy = b.busy
    BY <2>c DEF Pages
  <2>3. /\ c.mark = b.mark /\ c.lastLoaded = b.lastLoaded /\ c.asked = b.asked
        /\ c.cache = b.cache
    BY <2>c DEF Pages
  <2> QED
    BY <2>1, <2>2, <2>3 DEF Alike
<1>3. CASE ~(scope.group \in Teamless \/ ~withEpics)
  <2>0. b.asked \in Seq(Requests)
    BY DEF Pages
  <2>a. PICK asked : asked = Append(b.asked, r)
    OBVIOUS
  <2>c. PICK c : c = [b EXCEPT !.asked = asked]
    OBVIOUS
  <2>1. c = LoadPreload(b, scope, withEpics, by)
    BY <1>3, <1>r, <2>a, <2>c DEF LoadPreload, Pages
  <2>2. /\ c.sprint = b.sprint /\ c.group = b.group /\ c.epm = b.epm /\ c.statsOnly = b.statsOnly
        /\ c.rows = b.rows /\ c.fetched = b.fetched /\ c.loading = b.loading /\ c.busy = b.busy
    BY <2>c DEF Pages
  <2>3. /\ c.mark = b.mark /\ c.lastLoaded = b.lastLoaded /\ c.asked = asked /\ c.cache = b.cache
    BY <2>c DEF Pages
  <2>4. {r.list} \cap Projects = {}
    BY <1>1 DEF Projects
  <2>5. Waited(asked) = Waited(b.asked) /\ Wished(asked) = Wished(b.asked)
        /\ (Teamed(b.asked) => Teamed(asked))
    <3>1. r.scope.group \notin Teamless
      BY <1>1, <1>3
    <3>2. /\ Waited(asked) = Waited(b.asked) \cup ({r.list} \cap Projects)
          /\ Wished(asked) = Wished(b.asked) \cup ({r.list} \cap Projects)
          /\ Teamed(b.asked) => Teamed(asked)
      BY <1>1, <3>1, <2>0, <2>a, AppendedLists
    <3> QED
      BY <2>4, <3>2
  <2> QED
    BY <2>1, <2>2, <2>3, <2>5 DEF Alike
<1> QED
  BY <1>2, <1>3

LEMMA PreloadEffectAlike ==
  ASSUME NEW b, b \in Pages, NEW c, c \in Pages
  PROVE  Alike(b, PreloadEffect(c, b))
<1>s. PICK scope \in Scopes : scope = Scope(c)
  BY ScopeTyped
<1>d. PICK d : d = [b EXCEPT !.preloadOf = scope]
  OBVIOUS
<1>w. PICK w : w = HasRows(c.rows)
  OBVIOUS
<1>1. d \in Pages
  BY <1>d DEF Pages
<1>2. /\ d.sprint = b.sprint /\ d.group = b.group /\ d.epm = b.epm /\ d.statsOnly = b.statsOnly
      /\ d.rows = b.rows /\ d.fetched = b.fetched /\ d.loading = b.loading /\ d.busy = b.busy
  BY <1>d DEF Pages
<1>3. d.mark = b.mark /\ d.lastLoaded = b.lastLoaded /\ d.asked = b.asked /\ d.cache = b.cache
  BY <1>d DEF Pages
<1>4. Alike(b, d)
  BY <1>2, <1>3 DEF Alike
<1>5. Alike(d, LoadPreload(d, scope, w, "page"))
  BY <1>1, LoadPreloadAlike
<1>6. PreloadEffect(c, b) \in {b, LoadPreload(d, scope, w, "page")}
  BY <1>s, <1>d, <1>w DEF PreloadEffect
<1> QED
  BY <1>4, <1>5, <1>6, AlikeOn, AlikeSelf

LEMMA BacklogEffectAlike ==
  ASSUME NEW b, b \in Pages, NEW c
  PROVE  Alike(b, BacklogEffect(c, b))
<1>1. PICK asked, backlog :
         BacklogEffect(c, b) = [b EXCEPT !.backlogAsked = asked, !.backlog = backlog]
  <2>1. CASE c.epm
    <3>1. BacklogEffect(c, b) = [b EXCEPT !.backlogAsked = None, !.backlog = b.backlog]
      BY <2>1 DEF BacklogEffect, Pages
    <3> QED
      BY <3>1
  <2>2. CASE ~c.epm /\ (c.sprint \notin Future \/ c.group \in Teamless)
    <3>1. BacklogEffect(c, b) = [b EXCEPT !.backlogAsked = None, !.backlog = None]
      BY <2>2 DEF BacklogEffect
    <3> QED
      BY <3>1
  <2>3. CASE ~c.epm /\ ~(c.sprint \notin Future \/ c.group \in Teamless)
    <3>1. BacklogEffect(c, b) = [b EXCEPT !.backlogAsked = Scope(c), !.backlog = b.backlog]
      BY <2>3 DEF BacklogEffect, Pages
    <3> QED
      BY <3>1
  <2> QED
    BY <2>1, <2>2, <2>3
<1>d. PICK d : d = [b EXCEPT !.backlogAsked = asked, !.backlog = backlog]
  OBVIOUS
<1>2. /\ d.sprint = b.sprint /\ d.group = b.group /\ d.epm = b.epm /\ d.statsOnly = b.statsOnly
      /\ d.rows = b.rows /\ d.fetched = b.fetched /\ d.loading = b.loading /\ d.busy = b.busy
  BY <1>d DEF Pages
<1>3. d.mark = b.mark /\ d.lastLoaded = b.lastLoaded /\ d.asked = b.asked /\ d.cache = b.cache
  BY <1>d DEF Pages
<1>4. Alike(b, d)
  BY <1>2, <1>3 DEF Alike
<1> QED
  BY <1>1, <1>4, <1>d

\* A render that follows keeps what the page shows for its group.
LEMMA RenderedAlike ==
  ASSUME NEW b, Good(b)
  PROVE  Alike(b, Rendered(b)) /\ KeepsItself(Rendered(b))
<1>0. b \in Pages
  BY DEF Good
<1>c. PICK c : c = Remember(b)
  OBVIOUS
<1>1. Alike(b, c) /\ c \in Pages /\ Good(c) /\ SameScope(c, b)
  BY <1>0, <1>c, RememberAlike, RememberWorks DEF Works, Good, SameScope
<1>d. PICK d : d = PreloadEffect(b, c)
  OBVIOUS
<1>2. Alike(c, d)
  BY <1>0, <1>1, <1>d, PreloadEffectAlike
<1>3. d \in Pages
  <2>1. Works(c, d)
    BY <1>0, <1>1, <1>d, PreloadEffectWorks
  <2> QED
    BY <2>1 DEF Works, Good
<1>4. Alike(d, Remember(d)) /\ KeepsItself(Remember(d))
  BY <1>3, RememberAlike
<1>5. Rendered(b) = Remember(d)
  BY <1>c, <1>d DEF Rendered
<1>6. Alike(b, d)
  BY <1>1, <1>2, AlikeOn
<1>7. Alike(b, Remember(d))
  BY <1>4, <1>6, AlikeOn
<1> QED
  BY <1>4, <1>5, <1>7

\* What a list that arrives changes.
ListLanded(b, c, p, as, sprint) ==
    /\ c.sprint = b.sprint /\ c.group = b.group /\ c.epm = b.epm /\ c.statsOnly = b.statsOnly
    /\ c.cache = b.cache /\ c.asked = b.asked /\ c.busy = b.busy
    /\ c.fetched /\ c.rows[p].as = as /\ ~c.loading[p]
    /\ \A q \in Projects : q # p => c.rows[q] = b.rows[q] /\ c.loading[q] = b.loading[q]
    /\ c.mark.sprint = sprint /\ p \in c.mark.done
    /\ b.mark.sprint = sprint => c.mark.done = b.mark.done \cup {p}
    /\ c.lastLoaded = sprint \/ (c.mark.done # Projects /\ c.lastLoaded = b.lastLoaded)

LEMMA LandedShape ==
  ASSUME NEW b, b \in Pages, NEW r \in Requests, NEW as, r.list \in Projects
  PROVE  ListLanded(b, Landed(b, r, as), r.list, as, r.scope.sprint)
<1>p. PICK p \in Projects : p = r.list
  OBVIOUS
<1>o. PICK sprint : sprint = r.scope.sprint
  OBVIOUS
<1>l. PICK l : l = List(b, r, as)
  OBVIOUS
<1>1. l.as = as
  BY <1>l DEF List
<1>s. PICK rows : rows = [b.rows EXCEPT ![p] = l]
  OBVIOUS
<1>g. PICK loading : loading = [b.loading EXCEPT ![p] = FALSE]
  OBVIOUS
<1>2. /\ rows[p] = l /\ ~loading[p]
      /\ \A q \in Projects : q # p => rows[q] = b.rows[q] /\ loading[q] = b.loading[q]
  BY <1>s, <1>g DEF Pages
<1>k. PICK kept : kept = IF b.mark.sprint = sprint THEN b.mark.done ELSE {}
  OBVIOUS
<1>m. PICK mark : mark = [sprint |-> sprint, done |-> kept \cup {p}]
  OBVIOUS
<1>3. mark.sprint = sprint /\ mark.done = kept \cup {p}
  BY <1>m
<1>e. PICK last : last = IF kept \cup {p} = Projects THEN sprint ELSE b.lastLoaded
  OBVIOUS
<1>c. PICK c : c = [b EXCEPT !.rows = rows, !.fetched = TRUE, !.loading = loading,
                             !.mark = mark, !.lastLoaded = last]
  OBVIOUS
<1>d. PICK d : d = [b EXCEPT !.rows = rows, !.fetched = TRUE, !.loading = loading]
  OBVIOUS
<1>4. Landed(b, r, as) = Marked(d, p, sprint)
  <2>1. r.list # "preload"
    BY DEF Projects
  <2> QED
    BY <2>1, <1>p, <1>o, <1>l, <1>s, <1>g, <1>d DEF Landed, Pages
<1>5. d.mark = b.mark /\ d.lastLoaded = b.lastLoaded
  BY <1>d DEF Pages
<1>6. Marked(d, p, sprint) = [d EXCEPT !.mark = mark, !.lastLoaded = last]
  BY <1>5, <1>k, <1>m, <1>e DEF Marked
<1>7. [d EXCEPT !.mark = mark, !.lastLoaded = last] = c
  BY <1>c, <1>d DEF Pages
<1>8. /\ c.sprint = b.sprint /\ c.group = b.group /\ c.epm = b.epm /\ c.statsOnly = b.statsOnly
      /\ c.cache = b.cache /\ c.asked = b.asked /\ c.busy = b.busy
  BY <1>c DEF Pages
<1>9. c.fetched /\ c.rows = rows /\ c.loading = loading /\ c.mark = mark /\ c.lastLoaded = last
  BY <1>c DEF Pages
<1>10. c = Landed(b, r, as)
  BY <1>4, <1>6, <1>7
<1>11. b.mark.sprint = sprint => mark.done = b.mark.done \cup {p}
  BY <1>3, <1>k
<1>12. last = sprint \/ (mark.done # Projects /\ last = b.lastLoaded)
  BY <1>3, <1>e
<1>13. c.rows[p].as = as
  BY <1>1, <1>2, <1>9
<1>14. ListLanded(b, c, p, as, sprint)
  BY <1>2, <1>3, <1>8, <1>9, <1>11, <1>12, <1>13 DEF ListLanded
<1> QED
  BY <1>10, <1>14, <1>p, <1>o

\* A list that ends is not waited for any more.
Ended(b, V, r, as, c, W) ==
    /\ Bears(b, V, c, W) /\ c.cache = b.cache
    /\ Wished(c.asked) = Wished(b.asked)
    /\ HasRows(c.rows) => HasRows(b.rows) \/ (as = "rows" /\ r.list \in Projects)
    /\ (r.list \in Projects => r.scope.sprint = b.sprint)
         => (Marking(b, V) => Marking(c, W))

LEMMA FinishedFeeds ==
  ASSUME NEW b, b \in Pages, NEW r \in Requests, NEW as, as # "blank",
         NEW V, NEW W, V = W \cup ({r.list} \cap Projects)
  PROVE  Ended(b, V, r, as, Finished(b, r, as), W)
<1>u. PICK busy \in BOOLEAN : busy = (b.busy /\ r.list = "preload")
  OBVIOUS
<1>d. PICK d : d = [b EXCEPT !.busy = busy]
  OBVIOUS
<1>1. Finished(b, r, as) = Landed(d, r, as)
  BY <1>u, <1>d DEF Finished, Pages
<1>2. d \in Pages
  BY <1>d DEF Pages
<1>3. /\ d.sprint = b.sprint /\ d.group = b.group /\ d.epm = b.epm /\ d.statsOnly = b.statsOnly
      /\ d.rows = b.rows /\ d.fetched = b.fetched /\ d.loading = b.loading /\ d.busy = busy
  BY <1>d DEF Pages
<1>4. d.mark = b.mark /\ d.lastLoaded = b.lastLoaded /\ d.asked = b.asked /\ d.cache = b.cache
  BY <1>d DEF Pages
<1>c. PICK c : c = Landed(d, r, as)
  OBVIOUS
<1>5. CASE r.list = "preload"
  <2>1. V = W /\ r.list \notin Projects
    BY <1>5 DEF Projects
  <2>2. busy = b.busy
    BY <1>5, <1>u DEF Pages
  <2>l. PICK l : l = List(d, r, as)
    OBVIOUS
  <2>3. c = [d EXCEPT !.preload = l]
    BY <1>5, <1>c, <2>l DEF Landed
  <2>4. /\ c.sprint = d.sprint /\ c.group = d.group /\ c.epm = d.epm /\ c.statsOnly = d.statsOnly
        /\ c.rows = d.rows /\ c.fetched = d.fetched /\ c.loading = d.loading /\ c.busy = d.busy
    BY <1>2, <2>3 DEF Pages
  <2>5. c.mark = d.mark /\ c.lastLoaded = d.lastLoaded /\ c.asked = d.asked /\ c.cache = d.cache
    BY <1>2, <2>3 DEF Pages
  <2>6. Alike(b, c)
    BY <1>3, <1>4, <2>2, <2>4, <2>5 DEF Alike
  <2>7. Bears(b, V, c, W)
    BY <2>1, <2>6, AlikeBears
  <2>8. Marking(b, V) => Marking(c, W)
    BY <2>1, <2>6 DEF Alike, Marking
  <2>9. c = Finished(b, r, as)
    BY <1>1, <1>c
  <2>10. c.cache = b.cache /\ Wished(c.asked) = Wished(b.asked) /\ c.rows = b.rows
    BY <1>3, <1>4, <2>4, <2>5
  <2> QED
    BY <2>1, <2>7, <2>8, <2>9, <2>10 DEF Ended
<1>6. CASE r.list # "preload"
  <2>p. PICK p \in Projects : p = r.list
    BY <1>6 DEF Requests
  <2>s. PICK sprint : sprint = r.scope.sprint
    OBVIOUS
  <2>1. V = W \cup {p} /\ busy = FALSE
    BY <1>6, <1>u, <2>p
  <2>2. ListLanded(d, c, p, as, sprint)
    BY <1>2, <1>c, <2>p, <2>s, LandedShape
  <2>3. BusyOk(b, V) => BusyOk(c, W)
    <3>1. c.asked = b.asked /\ ~c.busy /\ ~c.loading[p]
          /\ \A q \in Projects : q # p => c.loading[q] = b.loading[q]
      BY <1>3, <1>4, <2>1, <2>2 DEF ListLanded
    <3> QED
      BY <2>1, <3>1 DEF BusyOk
  <2>4. DoneOk(c)
    BY <2>2 DEF ListLanded, DoneOk
  <2>5. Coming(b, V) => Coming(c, W)
    <3>1. /\ c.asked = b.asked /\ c.fetched
          /\ \A q \in Projects : q # p => c.rows[q] = b.rows[q]
      BY <1>3, <1>4, <2>2 DEF ListLanded
    <3>0. c.rows[p].as # "blank"
      BY <2>2 DEF ListLanded
    <3>2. ASSUME Coming(b, V), NEW q \in Projects, c.rows[q].as = "blank"
          PROVE  q \in Waited(c.asked) \cup W
      <4>1. q # p /\ c.rows[q] = b.rows[q]
        BY <3>0, <3>1, <3>2
      <4>2. q \in Waited(b.asked) \cup V
        BY <3>2, <4>1 DEF Coming
      <4> QED
        BY <2>1, <3>1, <4>1, <4>2
    <3> QED
      BY <3>1, <3>2 DEF Coming
  <2>6. Bears(b, V, c, W) /\ c.cache = b.cache /\ c.asked = b.asked
    BY <1>3, <1>4, <2>2, <2>3, <2>4, <2>5 DEF ListLanded, Bears
  <2>7. HasRows(c.rows) => HasRows(b.rows) \/ as = "rows"
    <3>1. c.rows[p].as = as /\ \A q \in Projects : q # p => c.rows[q] = b.rows[q]
      BY <1>3, <2>2 DEF ListLanded
    <3>2. ASSUME NEW q \in Projects, c.rows[q].as = "rows"
          PROVE  HasRows(b.rows) \/ as = "rows"
      BY <3>1, <3>2 DEF HasRows
    <3> QED
      BY <3>2 DEF HasRows
  <2>8. r.scope.sprint = b.sprint => (Marking(b, V) => Marking(c, W))
    <3>1. ASSUME sprint = b.sprint, Marking(b, V), c.group \notin Teamless,
                 c.lastLoaded # c.sprint, NEW q \in Projects
          PROVE  q \in Waited(c.asked) \cup W \/ (c.mark.sprint = c.sprint /\ q \in c.mark.done)
      <4>1. /\ c.asked = b.asked /\ c.mark.sprint = sprint /\ p \in c.mark.done
            /\ c.sprint = b.sprint /\ c.group = b.group
            /\ b.mark.sprint = sprint => c.mark.done = b.mark.done \cup {p}
            /\ c.lastLoaded = sprint \/ c.lastLoaded = b.lastLoaded
        BY <1>3, <1>4, <2>2 DEF ListLanded
      <4>2. b.lastLoaded # b.sprint
        BY <3>1, <4>1
      <4>3. q \in Waited(b.asked) \cup V \/ (b.mark.sprint = b.sprint /\ q \in b.mark.done)
        BY <3>1, <4>1, <4>2 DEF Marking
      <4> QED
        BY <2>1, <3>1, <4>1, <4>3
    <3> QED
      BY <2>s, <3>1 DEF Marking
  <2>9. c = Finished(b, r, as)
    BY <1>1, <1>c
  <2> QED
    BY <2>p, <2>6, <2>7, <2>8, <2>9 DEF Ended
<1> QED
  BY <1>5, <1>6

\* A list is asked for, or stays empty for a group without teams.
TasksLoaded(b, c, p, scope) ==
    /\ Bears(b, {}, c, {}) /\ c.cache = b.cache
    /\ HasRows(c.rows) => HasRows(b.rows)
    /\ scope.group \in Teamless =>
           /\ c.fetched /\ c.rows[p].as = "empty"
           /\ \A q \in Projects : q # p => c.rows[q] = b.rows[q]
    /\ scope.group \notin Teamless =>
           Wished(c.asked) = Wished(b.asked) \cup {p}

LEMMA LoadTasksFeeds ==
  ASSUME NEW b, b \in Pages, NEW p \in Projects, NEW scope \in Scopes, NEW by \in {"page", "batch"}
  PROVE  TasksLoaded(b, LoadTasks(b, p, scope, by), p, scope)
<1>r. PICK r \in Requests : r = Request(p, scope, by)
  BY RequestTyped
<1>1. r.scope = scope /\ ~r.aborted /\ r.list = p
  BY <1>r, RequestTyped
<1>2. CASE scope.group \in Teamless
  <2>c. PICK c : c = Landed(b, r, "empty")
    OBVIOUS
  <2>1. c = LoadTasks(b, p, scope, by)
    BY <1>2, <1>r, <2>c DEF LoadTasks
  <2>s. PICK sprint : sprint = r.scope.sprint
    OBVIOUS
  <2>2. ListLanded(b, c, p, "empty", sprint)
    BY <1>1, <2>c, <2>s, LandedShape
  <2>3. c.asked = b.asked /\ c.fetched /\ c.rows[p].as = "empty"
        /\ (\A q \in Projects : q # p => c.rows[q] = b.rows[q])
    BY <2>2 DEF ListLanded
  <2>4. BusyOk(b, {}) => BusyOk(c, {})
    <3>1. c.busy = b.busy /\ ~c.loading[p] /\ \A q \in Projects : q # p => c.loading[q] = b.loading[q]
      BY <2>2 DEF ListLanded
    <3> QED
      BY <2>3, <3>1 DEF BusyOk
  <2>5. Coming(b, {}) => Coming(c, {})
    <3>1. c.rows[p].as # "blank"
      BY <2>3
    <3>2. ASSUME Coming(b, {}), NEW q \in Projects, c.rows[q].as = "blank"
          PROVE  q \in Waited(c.asked) \cup {}
      BY <2>3, <3>1, <3>2 DEF Coming
    <3> QED
      BY <2>3, <3>2 DEF Coming
  <2>6. DoneOk(c)
    BY <2>2 DEF ListLanded, DoneOk
  <2>7. Bears(b, {}, c, {}) /\ c.cache = b.cache
    BY <2>2, <2>3, <2>4, <2>5, <2>6 DEF ListLanded, Bears
  <2>8. HasRows(c.rows) => HasRows(b.rows)
    <3>1. c.rows[p].as # "rows"
      BY <2>3
    <3>2. ASSUME NEW q \in Projects, c.rows[q].as = "rows"
          PROVE  HasRows(b.rows)
      BY <2>3, <3>1, <3>2 DEF HasRows
    <3> QED
      BY <3>2 DEF HasRows
  <2> QED
    BY <1>2, <2>1, <2>3, <2>7, <2>8 DEF TasksLoaded
<1>3. CASE scope.group \notin Teamless
  <2>0. b.asked \in Seq(Requests) /\ b.loading \in [Projects -> BOOLEAN]
    BY DEF Pages
  <2>l. PICK loading : loading = [b.loading EXCEPT ![p] = TRUE]
    OBVIOUS
  <2>a. PICK asked : asked = Append(b.asked, r)
    OBVIOUS
  <2>c. PICK c : c = [b EXCEPT !.loading = loading, !.busy = TRUE, !.asked = asked]
    OBVIOUS
  <2>1. c = LoadTasks(b, p, scope, by)
    BY <1>3, <1>r, <2>l, <2>a, <2>c DEF LoadTasks, Pages
  <2>2. /\ c.sprint = b.sprint /\ c.group = b.group /\ c.epm = b.epm /\ c.statsOnly = b.statsOnly
        /\ c.rows = b.rows /\ c.fetched = b.fetched /\ c.loading = loading
    BY <2>c DEF Pages
  <2>3. c.mark = b.mark /\ c.lastLoaded = b.lastLoaded /\ c.asked = asked /\ c.cache = b.cache
    BY <2>c DEF Pages
  <2>4. {r.list} \cap Projects = {p}
    BY <1>1
  <2>5. /\ Waited(asked) = Waited(b.asked) \cup {p}
        /\ Wished(asked) = Wished(b.asked) \cup {p}
        /\ Teamed(b.asked) => Teamed(asked)
    <3>1. r.scope.group \notin Teamless
      BY <1>1, <1>3
    <3>2. /\ Waited(asked) = Waited(b.asked) \cup ({r.list} \cap Projects)
          /\ Wished(asked) = Wished(b.asked) \cup ({r.list} \cap Projects)
          /\ Teamed(b.asked) => Teamed(asked)
      BY <1>1, <3>1, <2>0, <2>a, AppendedLists
    <3> QED
      BY <2>4, <3>2
  <2>6. BusyOk(b, {}) => BusyOk(c, {})
    <3>1. \A q \in Projects : q # p => loading[q] = b.loading[q]
      BY <2>0, <2>l
    <3> QED
      BY <2>2, <2>3, <2>5, <3>1 DEF BusyOk
  <2>7. Coming(b, {}) => Coming(c, {})
    BY <2>2, <2>3, <2>5 DEF Coming
  <2>8. DoneOk(b) => DoneOk(c)
    BY <2>3 DEF DoneOk
  <2>9. Bears(b, {}, c, {})
    BY <2>2, <2>3, <2>5, <2>6, <2>7, <2>8 DEF Bears
  <2> QED
    BY <1>3, <2>1, <2>2, <2>3, <2>5, <2>9 DEF TasksLoaded
<1> QED
  BY <1>2, <1>3

LEMMA LoadBothFeeds ==
  ASSUME NEW b, Good(b), NEW scope \in Scopes,
         NEW by \in {"page", "batch"}, by = "page" => scope.sprint = b.sprint
  PROVE  LET c == LoadBoth(b, scope, by) IN
         /\ Bears(b, {}, c, {}) /\ c.cache = b.cache
         /\ HasRows(c.rows) => HasRows(b.rows)
         /\ scope.group \notin Teamless \/ b.group \in Teamless => Loaded(c)
<1>c. PICK c : c = LoadTasks(b, "product", scope, by)
  OBVIOUS
<1>1. "product" \in Projects /\ "tech" \in Projects /\ Projects = {"product", "tech"}
  BY DEF Projects
<1>0. b \in Pages
  BY DEF Good
<1>2. TasksLoaded(b, c, "product", scope)
  BY <1>0, <1>c, <1>1, LoadTasksFeeds
<1>3. c \in Pages
  <2>1. Works(b, c)
    BY <1>c, <1>1, LoadTasksWorks
  <2> QED
    BY <2>1 DEF Works, Good
<1>d. PICK d : d = LoadTasks(c, "tech", scope, by)
  OBVIOUS
<1>4. TasksLoaded(c, d, "tech", scope)
  BY <1>1, <1>3, <1>d, LoadTasksFeeds
<1>5. Bears(b, {}, d, {}) /\ d.cache = b.cache /\ (HasRows(d.rows) => HasRows(b.rows))
  BY <1>2, <1>4, BearsOn DEF TasksLoaded
<1>6. Coming(d, {})
  <2>1. CASE scope.group \in Teamless
    <3>1. d.fetched /\ d.rows["tech"].as = "empty" /\ d.rows["product"] = c.rows["product"]
          /\ c.rows["product"].as = "empty"
      BY <1>1, <1>2, <1>4, <2>1 DEF TasksLoaded
    <3>2. \A p \in Projects : d.rows[p].as # "blank"
      BY <1>1, <3>1
    <3> QED
      BY <3>1, <3>2 DEF Coming
  <2>2. CASE scope.group \notin Teamless
    <3>1. Projects \subseteq Wished(d.asked)
      BY <1>1, <1>2, <1>4, <2>2 DEF TasksLoaded
    <3>2. Projects \subseteq Waited(d.asked)
      BY <3>1, WishedWaited
    <3> QED
      BY <1>1, <3>2 DEF Coming
  <2> QED
    BY <2>1, <2>2
<1>7. scope.group \notin Teamless => Projects \subseteq Wished(d.asked)
  BY <1>1, <1>2, <1>4 DEF TasksLoaded
<1>8. d.group = b.group
  BY <1>5 DEF Bears
<1>9. LoadBoth(b, scope, by) = d
  BY <1>c, <1>d DEF LoadBoth
<1> QED
  BY <1>5, <1>6, <1>7, <1>8, <1>9 DEF Loaded

\* The lists of the requests after the first n, and what the first n wished for.
Rest(asked, n) == {p \in Projects : \E j \in DOMAIN asked : j > n /\ asked[j].list = p}

WishedSoFar(asked, n) ==
    {p \in Projects : \E j \in DOMAIN asked : j <= n /\ asked[j].list = p /\ ~asked[j].aborted}

\* A page on the way from b when n of its requests have been seen to.
StillBears(b, n, d) ==
    /\ Bears(b, {}, d, Rest(b.asked, n)) /\ d.cache = b.cache
    /\ Wished(d.asked) = WishedSoFar(b.asked, n)
    /\ HasRows(d.rows) => HasRows(b.rows)

LEMMA EmptiedBears ==
  ASSUME NEW b, b \in Pages
  PROVE  StillBears(b, 0, [b EXCEPT !.asked = <<>>])
<1>0. b.asked \in Seq(Requests) /\ DOMAIN b.asked \subseteq Nat \ {0}
  BY LenProperties DEF Pages
<1>1. Rest(b.asked, 0) = Waited(b.asked)
  BY <1>0 DEF Rest, Waited
<1>2. WishedSoFar(b.asked, 0) = {}
  BY <1>0 DEF WishedSoFar
<1>a. PICK asked : asked = <<>>
  OBVIOUS
<1>c. PICK c : c = [b EXCEPT !.asked = asked]
  OBVIOUS
<1>3. Waited(asked) = {} /\ Wished(asked) = {} /\ Teamed(asked)
  BY <1>a, NothingAsked
<1>4. /\ c.sprint = b.sprint /\ c.group = b.group /\ c.epm = b.epm /\ c.statsOnly = b.statsOnly
      /\ c.rows = b.rows /\ c.fetched = b.fetched /\ c.loading = b.loading /\ c.busy = b.busy
  BY <1>c DEF Pages
<1>5. c.mark = b.mark /\ c.lastLoaded = b.lastLoaded /\ c.asked = asked /\ c.cache = b.cache
  BY <1>c DEF Pages
<1>w. PICK W : W = Waited(b.asked)
  OBVIOUS
<1>6. BusyOk(b, {}) => BusyOk(c, W)
  BY <1>3, <1>4, <1>5, <1>w DEF BusyOk
<1>7. Coming(b, {}) => Coming(c, W)
  BY <1>3, <1>4, <1>5, <1>w DEF Coming
<1>8. DoneOk(b) => DoneOk(c)
  BY <1>5 DEF DoneOk
<1>9. Bears(b, {}, c, W)
  BY <1>3, <1>4, <1>5, <1>6, <1>7, <1>8 DEF Bears
<1>10. StillBears(b, 0, c)
  BY <1>1, <1>2, <1>3, <1>4, <1>5, <1>9, <1>w DEF StillBears
<1> QED
  BY <1>10, <1>a, <1>c

\* One more of them: it ends, or is waited for again.
LEMMA DroppedBears ==
  ASSUME NEW b, b \in Pages, NEW d, d \in Pages, NEW k \in Nat, k + 1 \in DOMAIN b.asked,
         Teamed(b.asked), StillBears(b, k, d)
  PROVE  StillBears(b, k + 1, Dropped(d, b.asked[k + 1]))
<1>0. b.asked \in Seq(Requests) /\ d.asked \in Seq(Requests)
  BY DEF Pages
<1>n. PICK n \in Nat : n = k + 1
  OBVIOUS
<1>r. PICK r \in Requests : r = b.asked[n] /\ r.scope.group \notin Teamless
  BY <1>0, <1>n, LenProperties, ElementOfSeq DEF Teamed
<1>1. DOMAIN b.asked \subseteq Nat /\ n \in DOMAIN b.asked
  BY <1>0, <1>n, LenProperties
<1>w. PICK V, W : V = Rest(b.asked, k) /\ W = Rest(b.asked, n)
  OBVIOUS
<1>2. V = W \cup ({r.list} \cap Projects)
  <2>1. \A j \in DOMAIN b.asked : j > k <=> (j > n \/ j = n)
    BY <1>1, <1>n
  <2> QED
    BY <1>1, <1>r, <1>w, <2>1 DEF Rest
<1>3. \A j \in DOMAIN b.asked : j <= n <=> (j <= k \/ j = n)
  BY <1>1, <1>n
<1>4. ~r.aborted => WishedSoFar(b.asked, n)
                      = WishedSoFar(b.asked, k) \cup ({r.list} \cap Projects)
  BY <1>1, <1>3, <1>r DEF WishedSoFar
<1>5. r.aborted => WishedSoFar(b.asked, n) = WishedSoFar(b.asked, k)
  BY <1>1, <1>3, <1>r DEF WishedSoFar
<1>6. Bears(b, {}, d, V) /\ d.cache = b.cache /\ (HasRows(d.rows) => HasRows(b.rows))
      /\ Wished(d.asked) = WishedSoFar(b.asked, k)
  BY <1>w DEF StillBears
<1>7. CASE Aborting(r)
  <2>c. PICK c : c = Finished(d, r, "dropped")
    OBVIOUS
  <2>1. c = Dropped(d, r) /\ r.aborted
    BY <1>7, <2>c DEF Dropped, Aborting
  <2>2. /\ Bears(d, V, c, W) /\ c.cache = d.cache
        /\ Wished(c.asked) = Wished(d.asked)
        /\ HasRows(c.rows) => HasRows(d.rows)
    BY <1>2, <2>c, FinishedFeeds DEF Ended
  <2>3. Bears(b, {}, c, W)
    BY <1>6, <2>2, BearsOn
  <2>4. StillBears(b, n, c)
    BY <1>5, <1>6, <1>w, <2>1, <2>2, <2>3 DEF StillBears
  <2> QED
    BY <1>n, <1>r, <2>1, <2>4
<1>8. CASE ~Aborting(r)
  <2>a. PICK asked : asked = Append(d.asked, r)
    OBVIOUS
  <2>c. PICK c : c = [d EXCEPT !.asked = asked]
    OBVIOUS
  <2>1. c = Dropped(d, r)
    BY <1>8, <2>a, <2>c DEF Dropped, Pages
  <2>2. /\ c.sprint = d.sprint /\ c.group = d.group /\ c.epm = d.epm /\ c.statsOnly = d.statsOnly
        /\ c.rows = d.rows /\ c.fetched = d.fetched /\ c.loading = d.loading /\ c.busy = d.busy
    BY <2>c DEF Pages
  <2>3. c.mark = d.mark /\ c.lastLoaded = d.lastLoaded /\ c.asked = asked /\ c.cache = d.cache
    BY <2>c DEF Pages
  <2>4. /\ Waited(asked) = Waited(d.asked) \cup ({r.list} \cap Projects)
        /\ ~r.aborted => Wished(asked) = Wished(d.asked) \cup ({r.list} \cap Projects)
        /\ r.aborted => Wished(asked) = Wished(d.asked)
        /\ Teamed(d.asked) => Teamed(asked)
    BY <1>0, <1>r, <2>a, AppendedLists
  <2>5. Waited(asked) \cup W = Waited(d.asked) \cup V
    BY <1>2, <2>4
  <2>6. BusyOk(d, V) => BusyOk(c, W)
    BY <2>2, <2>3, <2>5 DEF BusyOk
  <2>7. Coming(d, V) => Coming(c, W)
    BY <2>2, <2>3, <2>5 DEF Coming
  <2>8. DoneOk(d) => DoneOk(c)
    BY <2>3 DEF DoneOk
  <2>9. Bears(d, V, c, W)
    BY <2>2, <2>3, <2>4, <2>6, <2>7, <2>8 DEF Bears
  <2>10. Bears(b, {}, c, W)
    BY <1>6, <2>9, BearsOn
  <2>11. Wished(c.asked) = WishedSoFar(b.asked, n)
    BY <1>4, <1>5, <1>6, <2>3, <2>4
  <2>12. StillBears(b, n, c)
    BY <1>6, <1>w, <2>2, <2>3, <2>10, <2>11 DEF StillBears
  <2> QED
    BY <1>n, <1>r, <2>1, <2>12
<1> QED
  BY <1>7, <1>8

LEMMA LandingBears ==
  ASSUME NEW b, Good(b), Teamed(b.asked),
         NEW n \in Nat, n = Len(b.asked), NEW f, Landing(b, n, f)
  PROVE  \A i \in 0..n : StillBears(b, i, f[i])
<1>0. b \in Pages /\ b.asked \in Seq(Requests)
  BY DEF Good, Pages
<1>t. PICK T : T = {k \in 0..n : ~StillBears(b, k, f[k])}
  OBVIOUS
<1>1. SUFFICES ASSUME T # {} PROVE FALSE
  BY <1>t
<1>2. PICK m \in T : \A k \in T : m <= k
  <2>1. T \subseteq Nat
    BY <1>t
  <2> QED
    BY <1>1, <2>1, LeastOf
<1>3. m \in 0..n /\ ~StillBears(b, m, f[m])
  BY <1>2, <1>t
<1>4. f[m] = IF m = 0 THEN [b EXCEPT !.asked = <<>>] ELSE Dropped(f[m - 1], b.asked[m])
  BY <1>3 DEF Landing
<1>5. CASE m = 0
  <2>1. f[m] = [b EXCEPT !.asked = <<>>]
    BY <1>4, <1>5
  <2> QED
    BY <1>0, <1>3, <1>5, <2>1, EmptiedBears
<1>6. CASE m # 0
  <2>k. PICK k \in Nat : k = m - 1
    BY <1>3, <1>6
  <2>1. StillBears(b, k, f[k]) /\ k \in 0..n
    BY <1>2, <1>3, <1>t, <2>k
  <2>2. m \in DOMAIN b.asked /\ m = k + 1
    BY <1>0, <1>3, <1>6, <2>k, LenProperties
  <2>3. f[k] \in Pages
    <3>1. OnTheWay(b, f[k])
      BY <2>1, LandingOnTheWay
    <3> QED
      BY <3>1 DEF OnTheWay, Good
  <2>4. f[m] = Dropped(f[k], b.asked[k + 1])
    BY <1>4, <1>6, <2>k, <2>2
  <2>5. StillBears(b, k + 1, Dropped(f[k], b.asked[k + 1]))
    BY <1>0, <2>1, <2>2, <2>3, DroppedBears
  <2> QED
    BY <1>3, <2>2, <2>4, <2>5
<1> QED
  BY <1>5, <1>6

\* The aborted requests end, and nothing else is forgotten.
LEMMA LandAbortedBears ==
  ASSUME NEW b, Good(b), Teamed(b.asked)
  PROVE  LET d == LandAborted(b) IN
         /\ Bears(b, {}, d, {}) /\ d.cache = b.cache
         /\ Wished(d.asked) = Wished(b.asked)
         /\ HasRows(d.rows) => HasRows(b.rows)
<1>n. PICK n \in Nat : n = Len(b.asked)
  BY LenProperties DEF Good, Pages
<1>1. \E f : Landing(b, n, f)
  BY LandingExists
<1>f. PICK f : f = CHOOSE g : Landing(b, n, g)
  OBVIOUS
<1>2. Landing(b, n, f)
  BY <1>1, <1>f
<1>3. LandAborted(b) = f[n]
  BY <1>n, <1>f DEF LandAborted, Landing
<1>4. n \in 0..n
  OBVIOUS
<1>5. StillBears(b, n, f[n])
  BY <1>n, <1>2, <1>4, LandingBears
<1>6. DOMAIN b.asked = 1..n
  BY <1>n, LenProperties DEF Good, Pages
<1>7. Rest(b.asked, n) = {} /\ WishedSoFar(b.asked, n) = Wished(b.asked)
  BY <1>6 DEF Rest, WishedSoFar, Wished
<1> QED
  BY <1>3, <1>5, <1>7 DEF StillBears

\* What is aborted is still waited for, but wished for no more.
LEMMA AbortedLists ==
  ASSUME NEW b, b \in Pages, NEW asked, Aborted(b) = [b EXCEPT !.asked = asked]
  PROVE  /\ Waited(asked) = Waited(b.asked) /\ Wished(asked) = {}
         /\ Teamed(b.asked) => Teamed(asked)
<1>0. b.asked \in Seq(Requests)
  BY DEF Pages
<1>n. PICK n \in Nat : n = Len(b.asked)
  BY <1>0, LenProperties
<1>1. DOMAIN b.asked = 1..n /\ \A i \in 1..n : b.asked[i] \in Requests
  BY <1>0, <1>n, LenProperties, ElementOfSeq
<1>2. asked = [i \in 1..n |-> [b.asked[i] EXCEPT !.aborted = TRUE]]
  <2>a. PICK a : a = [i \in 1..n |-> [b.asked[i] EXCEPT !.aborted = TRUE]]
    OBVIOUS
  <2>1. Aborted(b) = [b EXCEPT !.asked = a]
    BY <1>1, <2>a DEF Aborted, Pages
  <2>2. [b EXCEPT !.asked = a].asked = a /\ [b EXCEPT !.asked = asked].asked = asked
    BY DEF Pages
  <2> QED
    BY <2>a, <2>1, <2>2
<1>3. DOMAIN asked = 1..n
  BY <1>2
<1>4. \A i \in 1..n : /\ asked[i].list = b.asked[i].list /\ asked[i].scope = b.asked[i].scope
                      /\ asked[i].aborted
  BY <1>1, <1>2 DEF Requests
<1> QED
  BY <1>1, <1>3, <1>4 DEF Waited, Wished, Teamed

\* abortSprintFetches and the answers it makes.
LEMMA AbortedBears ==
  ASSUME NEW b, Good(b), Teamed(b.asked)
  PROVE  LET d == LandAborted(Aborted(b)) IN
         /\ Bears(b, {}, d, {}) /\ Wished(d.asked) = {}
         /\ HasRows(d.rows) => HasRows(b.rows)
<1>0. b \in Pages
  BY DEF Good
<1>a. PICK asked \in Seq(Requests) :
            /\ Aborted(b) = [b EXCEPT !.asked = asked]
            /\ \A sprint : OfSprint(asked, sprint)
  BY <1>0, AbortedIs
<1>1. /\ Waited(asked) = Waited(b.asked) /\ Wished(asked) = {}
      /\ Teamed(asked)
  BY <1>0, <1>a, AbortedLists
<1>c. PICK c : c = [b EXCEPT !.asked = asked]
  OBVIOUS
<1>2. c \in Pages
  BY <1>0, <1>c DEF Pages
<1>3. /\ c.sprint = b.sprint /\ c.group = b.group /\ c.epm = b.epm /\ c.statsOnly = b.statsOnly
      /\ c.rows = b.rows /\ c.fetched = b.fetched /\ c.loading = b.loading /\ c.busy = b.busy
  BY <1>0, <1>c DEF Pages
<1>4. c.mark = b.mark /\ c.lastLoaded = b.lastLoaded /\ c.asked = asked /\ c.cache = b.cache
      /\ c.preload = b.preload
  BY <1>0, <1>c DEF Pages
<1>5. Good(c)
  <2>1. OfSprint(c.asked, c.sprint)
    BY <1>a, <1>4
  <2> QED
    BY <1>2, <1>3, <1>4, <2>1 DEF Good
<1>6. Bears(b, {}, c, {})
  <2>1. BusyOk(b, {}) => BusyOk(c, {})
    BY <1>1, <1>3, <1>4 DEF BusyOk
  <2>2. Coming(b, {}) => Coming(c, {})
    BY <1>1, <1>3, <1>4 DEF Coming
  <2>3. DoneOk(b) => DoneOk(c)
    BY <1>4 DEF DoneOk
  <2> QED
    BY <1>1, <1>3, <1>4, <2>1, <2>2, <2>3 DEF Bears
<1>d. PICK d : d = LandAborted(c)
  OBVIOUS
<1>7. Teamed(c.asked)
  BY <1>1, <1>4
<1>8. /\ Bears(c, {}, d, {})
      /\ Wished(d.asked) = Wished(c.asked)
      /\ HasRows(d.rows) => HasRows(c.rows)
  BY <1>5, <1>7, <1>d, LandAbortedBears
<1>9. Bears(b, {}, d, {})
  BY <1>6, <1>8, BearsOn
<1>10. d = LandAborted(Aborted(b))
  BY <1>a, <1>c, <1>d
<1> QED
  BY <1>1, <1>3, <1>4, <1>8, <1>9, <1>10

-----------------------------------------------------------------------------
(* The effects, again.                                                     *)

\* What is kept for the group of the page is what the page shows.
Kept(b) ==
    LET s == b.cache[b.group] IN s # None => s.rows = b.rows /\ s.fetched = b.fetched

LEMMA KeepsItselfKept ==
  ASSUME NEW b, b \in Pages, KeepsItself(b)
  PROVE  Kept(b)
BY SnapshotTyped DEF KeepsItself, Kept

\* The lists are asked for, unless the view has none or all are there.
LEMMA LoadEffectFeeds ==
  ASSUME NEW b, Good(b), NEW c, c \in Pages, SameScope(b, c), NEW force
  PROVE  LET d == LoadEffect(c, b, force) IN
         /\ Bears(b, {}, d, {}) /\ d.cache = b.cache
         /\ HasRows(d.rows) => HasRows(b.rows)
         /\ Loaded(d) \/ (d = b /\ (c.epm \/ c.statsOnly \/ Skips(c, b)))
<1>s. PICK scope \in Scopes : scope = Scope(c) /\ scope.sprint = b.sprint /\ scope.group = b.group
  BY ScopeTyped DEF SameScope
<1>1. CASE ~c.epm /\ ~c.statsOnly /\ (force \/ ~Skips(c, b))
  <2>d. PICK d : d = LoadBoth(b, scope, "page")
    OBVIOUS
  <2>1. LoadEffect(c, b, force) = d
    BY <1>1, <1>s, <2>d DEF LoadEffect
  <2>2. /\ Bears(b, {}, d, {}) /\ d.cache = b.cache
        /\ HasRows(d.rows) => HasRows(b.rows)
        /\ scope.group \notin Teamless \/ b.group \in Teamless => Loaded(d)
    BY <1>s, <2>d, LoadBothFeeds
  <2> QED
    BY <1>s, <2>1, <2>2
<1>2. CASE ~(~c.epm /\ ~c.statsOnly /\ (force \/ ~Skips(c, b)))
  <2>1. LoadEffect(c, b, force) = b
    BY <1>2 DEF LoadEffect
  <2>2. Bears(b, {}, b, {})
    BY AlikeSelf, AlikeBears
  <2> QED
    BY <1>2, <2>1, <2>2
<1> QED
  BY <1>1, <1>2

\* When the load is skipped, everything is there.
LEMMA SkipsFed ==
  ASSUME NEW b, b \in Pages, NEW c, SameScope(b, c), Kept(b), Steady(b), Skips(c, b)
  PROVE  Coming(b, {}) /\ Marking(b, {})
<1>1. b.cache[b.group] # None /\ HasRows(b.cache[b.group].rows) /\ b.lastLoaded = b.sprint
  BY DEF Skips, Fits, SameScope
<1>2. HasRows(b.rows)
  BY <1>1 DEF Kept
<1> QED
  BY <1>1, <1>2 DEF Steady, Wanted, Marking

LEMMA LoadEffectFed ==
  ASSUME NEW b, Good(b), NEW c, c \in Pages, SameScope(b, c), NEW force, Kept(b), Steady(b)
  PROVE  LET d == LoadEffect(c, b, force) IN
         /\ Steady(d)
         /\ ~c.epm /\ ~c.statsOnly => Coming(d, {}) /\ Marking(d, {})
<1>d. PICK d : d = LoadEffect(c, b, force)
  OBVIOUS
<1>0. b \in Pages
  BY DEF Good
<1>1. /\ Bears(b, {}, d, {})
      /\ HasRows(d.rows) => HasRows(b.rows)
      /\ Loaded(d) \/ (d = b /\ (c.epm \/ c.statsOnly \/ Skips(c, b)))
  BY <1>d, LoadEffectFeeds
<1>2. CASE Loaded(d)
  <2>1. Coming(d, {}) /\ Marking(d, {})
    BY <1>2, LoadedFeeds
  <2>2. d.group \in Teamless => ~HasRows(d.rows)
    BY <1>1 DEF Bears, Steady
  <2> QED
    BY <1>d, <2>1, <2>2 DEF Steady
<1>3. CASE d = b /\ (c.epm \/ c.statsOnly \/ Skips(c, b))
  <2>1. ~c.epm /\ ~c.statsOnly => Coming(b, {}) /\ Marking(b, {})
    BY <1>0, <1>3, SkipsFed
  <2> QED
    BY <1>3, <1>d, <2>1
<1> QED
  BY <1>1, <1>2, <1>3

\* The other effects of a scope change nothing of that.
LEMMA ScopeEffectsAlike ==
  ASSUME NEW b, Good(b), NEW c, c \in Pages, SameScope(b, c), NEW force
  PROVE  Alike(LoadEffect(c, b, force), ScopeEffects(c, b, force))
<1>e. PICK e : e = LoadEffect(c, b, force)
  OBVIOUS
<1>1. Works(b, e)
  BY <1>e, LoadEffectWorks
<1>2. Good(e) /\ e \in Pages /\ SameScope(e, c)
  BY <1>1 DEF Works, SameScope, Good
<1>f. PICK f : f = PreloadEffect(c, e)
  OBVIOUS
<1>3. Alike(e, f)
  BY <1>2, <1>f, PreloadEffectAlike
<1>4. f \in Pages
  <2>1. Works(e, f)
    BY <1>2, <1>f, PreloadEffectWorks
  <2> QED
    BY <2>1 DEF Works, Good
<1>5. Alike(f, BacklogEffect(c, f))
  BY <1>4, BacklogEffectAlike
<1>6. ScopeEffects(c, b, force) = BacklogEffect(c, f)
  BY <1>e, <1>f DEF ScopeEffects
<1> QED
  BY <1>3, <1>5, <1>6, <1>e, AlikeOn

LEMMA ScopeEffectsFed ==
  ASSUME NEW b, Good(b), NEW c, c \in Pages, SameScope(b, c), NEW force, Sound(b)
  PROVE  LET d == ScopeEffects(c, b, force) IN
         /\ Sound(d) /\ Bears(b, {}, d, {})
         /\ Kept(b) /\ Steady(b) =>
              /\ Steady(d)
              /\ ~c.epm /\ ~c.statsOnly => Coming(d, {}) /\ Marking(d, {})
<1>e. PICK e : e = LoadEffect(c, b, force)
  OBVIOUS
<1>d. PICK d : d = ScopeEffects(c, b, force)
  OBVIOUS
<1>1. Bears(b, {}, e, {})
  BY <1>e, LoadEffectFeeds
<1>2. Alike(e, d)
  BY <1>e, <1>d, ScopeEffectsAlike
<1>3. Bears(e, {}, d, {})
  BY <1>2, AlikeBears
<1>4. Bears(b, {}, d, {})
  BY <1>1, <1>3, BearsOn
<1>5. ASSUME Kept(b), Steady(b)
      PROVE  /\ Steady(d)
             /\ ~c.epm /\ ~c.statsOnly => Coming(d, {}) /\ Marking(d, {})
  <2>1. /\ Steady(e)
        /\ ~c.epm /\ ~c.statsOnly => Coming(e, {}) /\ Marking(e, {})
    BY <1>5, <1>e, LoadEffectFed
  <2>2. Coming(e, {}) => Coming(d, {})
    BY <1>3 DEF Bears
  <2> QED
    BY <1>2, <2>1, <2>2, AlikeFed
<1> QED
  BY <1>4, <1>5, <1>d, BearsSound

\* Entering and leaving a view that has its own source.
LEMMA StatsEffectsFed ==
  ASSUME NEW b, Good(b), NEW was \in BOOLEAN, Sound(b)
  PROVE  LET d == StatsEffects(was, b) IN
         /\ Sound(d) /\ Bears(b, {}, d, {})
         /\ /\ Steady(b)
            /\ ~b.epm /\ ~was => Coming(b, {}) /\ Marking(b, {})
            /\ ~b.epm
            => Fed(d)
<1>0. b \in Pages /\ b.statsOnly \in BOOLEAN
  BY DEF Good, Pages
<1>d. PICK d : d = StatsEffects(was, b)
  OBVIOUS
<1>1. CASE b.statsOnly = was
  <2>1. d = b
    BY <1>1, <1>d DEF StatsEffects
  <2>2. Bears(b, {}, b, {})
    BY AlikeSelf, AlikeBears
  <2>3. Steady(b) /\ (~b.epm /\ ~was => Coming(b, {}) /\ Marking(b, {})) => Fed(b)
    BY <1>1 DEF Fed
  <2> QED
    BY <1>d, <2>1, <2>2, <2>3
<1>2. CASE b.statsOnly /\ ~was
  <2>1. d = LandAborted(Aborted(b))
    BY <1>2, <1>d DEF StatsEffects
  <2>2. /\ Bears(b, {}, d, {}) /\ Wished(d.asked) = {}
        /\ HasRows(d.rows) => HasRows(b.rows)
    BY <2>1, AbortedBears DEF Sound
  <2>3. Sound(d)
    BY <2>2, BearsSound
  <2>4. ASSUME Steady(b), Coming(b, {})
        PROVE  Fed(d)
    <3>1. Coming(d, {}) /\ d.statsOnly /\ d.group = b.group
      BY <1>2, <2>2, <2>4 DEF Bears
    <3>2. Steady(d)
      BY <2>2, <2>4, <3>1 DEF Steady
    <3> QED
      BY <3>1, <3>2 DEF Fed
  <2> QED
    BY <1>2, <1>d, <2>2, <2>3, <2>4
<1>3. CASE ~b.statsOnly /\ was
  <2>c. PICK c : c = Remember(b)
    OBVIOUS
  <2>1. d = LoadEffect(b, c, FALSE)
    BY <1>3, <1>d, <2>c DEF StatsEffects
  <2>2. Works(b, c)
    BY <2>c, RememberWorks
  <2>3. Good(c) /\ SameScope(c, b) /\ c \in Pages
    BY <2>2 DEF Works, SameScope, Good
  <2>4. Alike(b, c) /\ KeepsItself(c)
    BY <1>0, <2>c, RememberAlike
  <2>5. Kept(c)
    BY <2>3, <2>4, KeepsItselfKept
  <2>6. Bears(c, {}, d, {})
    BY <1>0, <2>1, <2>3, LoadEffectFeeds
  <2>7. Bears(b, {}, d, {})
    BY <2>4, <2>6, AlikeBears, BearsOn
  <2>8. ASSUME Steady(b)
        PROVE  Fed(d)
    <3>1. Steady(c)
      BY <2>4, <2>8, AlikeFed
    <3>2. Steady(d) /\ (~b.epm /\ ~b.statsOnly => Coming(d, {}) /\ Marking(d, {}))
      BY <1>0, <2>1, <2>3, <2>5, <3>1, LoadEffectFed
    <3>3. d.epm = b.epm /\ d.statsOnly = b.statsOnly
      BY <2>7 DEF Bears
    <3> QED
      BY <3>2, <3>3 DEF Fed
  <2>9. Sound(d)
    BY <2>7, BearsSound
  <2> QED
    BY <1>d, <2>7, <2>8, <2>9
<1> QED
  BY <1>0, <1>1, <1>2, <1>3

\* A group is shown as it was left, or empty.
GroupShown(b, d) ==
    /\ d.sprint = b.sprint /\ d.group = b.group /\ d.epm = b.epm /\ d.asked = b.asked
    /\ d.loading = b.loading /\ ~d.busy /\ d.mark = b.mark /\ d.lastLoaded = b.lastLoaded
    /\ \A g \in Groups : g # b.group => d.cache[g] = b.cache[g]
    /\ Kept(d)
    /\ LET s == b.cache[b.group] IN
         \/ Fits(b, s) /\ d.rows = s.rows /\ d.fetched = s.fetched
         \/ ~Fits(b, s) /\ d.rows = BlankLists /\ d.statsOnly = b.statsOnly

LEMMA ShowGroupShape ==
  ASSUME NEW b, b \in Pages
  PROVE  GroupShown(b, ShowGroup(b))
<1>0. b.group \in Groups /\ b.cache \in [Groups -> Snapshots \cup {None}]
  BY DEF Pages
<1>o. PICK old : old = b.cache[b.group]
  OBVIOUS
<1>s. PICK s : s = IF Fits(b, old) THEN old ELSE DefaultState(b)
  OBVIOUS
<1>k. PICK cache : cache = [b.cache EXCEPT ![b.group] = s]
  OBVIOUS
<1>1. cache[b.group] = s /\ \A g \in Groups : g # b.group => cache[g] = b.cache[g]
  BY <1>0, <1>k
<1>c. PICK c : c = [b EXCEPT !.rows = s.rows, !.fetched = s.fetched, !.preload = s.preload,
                             !.statsOnly = s.statsOnly, !.busy = FALSE, !.cache = cache]
  OBVIOUS
<1>2. c = ShowGroup(b)
  BY <1>o, <1>s, <1>k, <1>c DEF ShowGroup, Apply, Pages
<1>3. /\ c.sprint = b.sprint /\ c.group = b.group /\ c.epm = b.epm /\ c.asked = b.asked
      /\ c.loading = b.loading /\ ~c.busy /\ c.mark = b.mark /\ c.lastLoaded = b.lastLoaded
  BY <1>c DEF Pages
<1>4. c.rows = s.rows /\ c.fetched = s.fetched /\ c.statsOnly = s.statsOnly /\ c.cache = cache
  BY <1>c DEF Pages
<1>5. Kept(c)
  BY <1>1, <1>3, <1>4 DEF Kept
<1>6. ~Fits(b, old) => s.rows = BlankLists /\ s.statsOnly = b.statsOnly
  <2>1. ASSUME ~Fits(b, old)
        PROVE  s.rows = BlankLists /\ s.statsOnly = b.statsOnly
    <3>k. PICK k \in Snapshots : k = Snapshot(b) /\ k.statsOnly = b.statsOnly
      BY SnapshotTyped
    <3>1. s = [k EXCEPT !.rows = BlankLists, !.fetched = FALSE, !.preload = Blank]
      BY <1>s, <2>1, <3>k DEF DefaultState
    <3> QED
      BY <3>k, <3>1 DEF Snapshots
  <2> QED
    BY <2>1
<1>7. Fits(b, old) => s = old
  BY <1>s
<1> QED
  BY <1>1, <1>2, <1>3, <1>4, <1>5, <1>6, <1>7, <1>o DEF GroupShown

LEMMA BlankWithoutRows ==
  ~HasRows(BlankLists)
<1>1. Blank.as # "rows"
  BY DEF Blank
<1> QED
  BY <1>1 DEF HasRows, BlankLists

\* A page that asked for nothing, and shows nothing, waits for nobody.
LEMMA EmptySteady ==
  ASSUME NEW b, b.rows = BlankLists, Wished(b.asked) = {}
  PROVE  Steady(b)
BY BlankWithoutRows DEF Steady, Wanted

LEMMA GroupShownSound ==
  ASSUME NEW b, NEW d, GroupShown(b, d), Sound(b)
  PROVE  Sound(d)
<1>1. BusyOk(d, {})
  BY DEF GroupShown, Sound, BusyOk
<1> QED
  BY <1>1 DEF GroupShown, Sound, DoneOk

LEMMA GroupShownOthers ==
  ASSUME NEW b, NEW d, GroupShown(b, d), Others(b)
  PROVE  Others(d)
BY DEF GroupShown, Others

\* What a whole turn of the event loop leaves.
Left(b) == Sound(b) /\ KeepsItself(b)

LEMMA RenderedLeft ==
  ASSUME NEW b, Good(b), Sound(b)
  PROVE  /\ Left(Rendered(b))
         /\ Fed(b) => Fed(Rendered(b))
         /\ Others(b) => Others(Rendered(b))
<1>1. Alike(b, Rendered(b)) /\ KeepsItself(Rendered(b))
  BY RenderedAlike
<1>2. Bears(b, {}, Rendered(b), {})
  BY <1>1, AlikeBears
<1> QED
  BY <1>1, <1>2, AlikeFed, BearsOthers DEF Left

\* The sprint entered is loaded for, whatever was under way.
LEMMA ToSprintLeft ==
  ASSUME NEW b, Settled(b), NEW s \in Sprints, s # b.sprint, Left(b)
  PROVE  /\ Left(ToSprint(b, s)) /\ Fed(ToSprint(b, s))
         /\ ToSprint(b, s).group = b.group
         /\ Others(b) => Others(ToSprint(b, s))
<1>0. b \in Pages /\ FreshCache(b.cache) /\ b.group \in Groups
  BY DEF Settled, Good, Pages
<1>c. PICK c : c = [b EXCEPT !.sprint = s]
  OBVIOUS
<1>1. /\ c \in Pages /\ c.cache = b.cache /\ c.sprint = s /\ c.teams = b.teams
      /\ c.group = b.group /\ c.asked = b.asked
  BY <1>0, <1>c DEF Pages
<1>2. /\ c.loading = b.loading /\ c.busy = b.busy /\ c.mark = b.mark
      /\ c.lastLoaded = b.lastLoaded
  BY <1>0, <1>c DEF Pages
<1>3. Sound(c)
  BY <1>1, <1>2 DEF Left, Sound, BusyOk, DoneOk
<1>d. PICK d : d = ShowGroup(c)
  OBVIOUS
<1>4. /\ d \in Pages /\ SameScope(c, d)
      /\ FreshLists(d.rows, d.preload, d.sprint, d.group) /\ FreshCache(d.cache)
  BY <1>0, <1>1, <1>d, ShowGroupFresh
<1>5. GroupShown(c, d)
  BY <1>1, <1>d, ShowGroupShape
<1>6. d.rows = BlankLists /\ d.statsOnly = c.statsOnly
  <2>1. c.cache[c.group] # None => c.cache[c.group].sprint = b.sprint
    BY <1>0, <1>1, SnapshotTyped DEF Left, KeepsItself
  <2>2. ~Fits(c, c.cache[c.group])
    BY <1>1, <2>1 DEF Fits
  <2> QED
    BY <1>5, <2>2 DEF GroupShown
<1>a. PICK asked \in Seq(Requests) :
            /\ Aborted(d) = [d EXCEPT !.asked = asked]
            /\ \A sprint : OfSprint(asked, sprint)
  BY <1>4, AbortedIs
<1>7. /\ Waited(asked) = Waited(d.asked) /\ Wished(asked) = {}
      /\ Teamed(d.asked) => Teamed(asked)
  BY <1>4, <1>a, AbortedLists
<1>e. PICK e : e = [d EXCEPT !.asked = asked, !.rows = BlankLists, !.fetched = FALSE,
                             !.backlog = None, !.mark = NothingMarked(s), !.lastLoaded = None]
  OBVIOUS
<1>8. NothingMarked(s) \in Marks /\ BlankLists \in [Projects -> Lists]
  BY BlankTyped DEF NothingMarked, Marks
<1>9. e \in Pages
  BY <1>4, <1>8, <1>e DEF Pages
<1>10. /\ e.sprint = d.sprint /\ e.group = d.group /\ e.teams = d.teams /\ e.epm = d.epm
       /\ e.rows = BlankLists /\ e.preload = d.preload /\ e.cache = d.cache /\ e.asked = asked
  BY <1>4, <1>e DEF Pages
<1>11. /\ e.fetched = FALSE /\ e.mark = NothingMarked(s) /\ e.statsOnly = d.statsOnly
       /\ e.loading = d.loading /\ e.busy = d.busy
  BY <1>4, <1>e DEF Pages
<1>12. FreshLists(e.rows, e.preload, e.sprint, e.group)
  BY <1>4, <1>10, BlankTyped DEF FreshLists
<1>13. OfSprint(e.asked, e.sprint)
  BY <1>10, <1>a
<1>14. Good(e) /\ SameScope(e, c)
  BY <1>4, <1>9, <1>10, <1>12, <1>13 DEF Good, SameScope
<1>15. Sound(e)
  <2>1. Sound(d)
    BY <1>3, <1>5, GroupShownSound
  <2>2. BusyOk(e, {})
    BY <1>7, <1>10, <1>11, <2>1 DEF Sound, BusyOk
  <2>3. DoneOk(e)
    BY <1>11 DEF DoneOk, NothingMarked, Projects
  <2> QED
    BY <1>7, <1>10, <2>1, <2>2, <2>3 DEF Sound
<1>16. Steady(e)
  BY <1>7, <1>10, EmptySteady
<1>f. PICK f : f = LoadEffect(c, e, FALSE)
  OBVIOUS
<1>17. /\ Bears(e, {}, f, {})
       /\ HasRows(f.rows) => HasRows(e.rows)
       /\ Loaded(f) \/ (f = e /\ (c.epm \/ c.statsOnly \/ Skips(c, e)))
  BY <1>1, <1>14, <1>f, LoadEffectFeeds
<1>18. ~Skips(c, e)
  <2>1. e.cache[c.group] # None => e.cache[c.group].rows = BlankLists
    BY <1>1, <1>5, <1>6, <1>10 DEF GroupShown, Kept
  <2> QED
    BY <2>1, BlankWithoutRows DEF Skips, Fits
<1>j. PICK j : j = ScopeEffects(c, e, FALSE)
  OBVIOUS
<1>19. Alike(f, j)
  BY <1>1, <1>14, <1>f, <1>j, ScopeEffectsAlike
<1>20. Good(j)
  BY <1>1, <1>14, <1>j, ScopeEffectsOk
<1>21. Bears(e, {}, j, {}) /\ (HasRows(j.rows) => HasRows(e.rows))
  BY <1>17, <1>19, AlikeBears, BearsOn DEF Alike
<1>22. Sound(j)
  BY <1>15, <1>21, BearsSound
<1>h. PICK h : h = LandAborted(j)
  OBVIOUS
<1>23. /\ Bears(j, {}, h, {})
       /\ Wished(h.asked) = Wished(j.asked)
       /\ HasRows(h.rows) => HasRows(j.rows)
  BY <1>20, <1>22, <1>h, LandAbortedBears DEF Sound
<1>24. ~HasRows(h.rows)
  BY <1>10, <1>21, <1>23, BlankWithoutRows
<1>25. Fed(h)
  <2>1. CASE Loaded(f)
    <3>1. Loaded(j)
      BY <1>19, <2>1, AlikeLoaded
    <3>2. Loaded(h)
      BY <1>23, <3>1 DEF Bears, Loaded
    <3>3. Coming(h, {}) /\ Marking(h, {})
      BY <3>2, LoadedFeeds
    <3> QED
      BY <1>24, <3>3 DEF Fed, Steady
  <2>2. CASE f = e /\ (c.epm \/ c.statsOnly)
    <3>1. Wished(h.asked) = {}
      BY <1>7, <1>10, <1>19, <1>23, <2>2 DEF Alike
    <3>2. h.epm = c.epm /\ h.statsOnly = c.statsOnly
      BY <1>4, <1>6, <1>10, <1>11, <1>21, <1>23 DEF Bears, SameScope
    <3> QED
      BY <1>24, <2>2, <3>1, <3>2 DEF Fed, Steady, Wanted
  <2> QED
    BY <1>17, <1>18, <2>1, <2>2
<1>26. Good(h) /\ Sound(h)
  <2>1. Good(h)
    BY <1>20, <1>h, LandAbortedOnTheWay DEF OnTheWay
  <2> QED
    BY <1>22, <1>23, <2>1, BearsSound
<1>27. ToSprint(b, s) = Rendered(h)
  <2>1. e = [Aborted(ShowGroup(c)) EXCEPT
                !.rows = BlankLists, !.fetched = FALSE, !.backlog = None,
                !.mark = NothingMarked(s), !.lastLoaded = None]
    BY <1>4, <1>a, <1>d, <1>e DEF Pages
  <2> QED
    BY <1>c, <1>j, <1>h, <2>1 DEF ToSprint
<1>28. h.group = b.group /\ (Others(b) => Others(h))
  <2>1. h.group = b.group
    BY <1>1, <1>4, <1>10, <1>21, <1>23 DEF Bears, SameScope
  <2>2. ASSUME Others(b) PROVE Others(h)
    <3>1. Others(c)
      BY <1>1, <2>2 DEF Others
    <3>2. Others(d)
      BY <1>5, <3>1, GroupShownOthers
    <3>3. Others(e)
      BY <1>10, <3>2 DEF Others
    <3> QED
      BY <1>21, <1>23, <3>3, BearsOthers
  <2> QED
    BY <2>1, <2>2
<1>29. Rendered(h).group = h.group
  BY <1>26, RenderedAlike DEF Alike
<1> QED
  BY <1>25, <1>26, <1>27, <1>28, <1>29, RenderedLeft

\* The group entered is shown as it was left, or loaded for.
LEMMA ToGroupLeft ==
  ASSUME NEW b, Settled(b), NEW g \in Groups, g # b.group, Left(b)
  PROVE  /\ Left(ToGroup(b, g))
         /\ ~b.epm /\ Waited(b.asked) = {} /\ Fed(b) /\ Others(b)
              => Fed(ToGroup(b, g)) /\ Others(ToGroup(b, g))
<1>0. b \in Pages /\ FreshCache(b.cache) /\ Dismissed(b.asked) /\ OfSprint(b.asked, b.sprint)
  BY DEF Settled, Good
<1>c. PICK c : c = [b EXCEPT !.group = g]
  OBVIOUS
<1>1. /\ c \in Pages /\ c.cache = b.cache /\ c.sprint = b.sprint /\ c.teams = b.teams
      /\ c.asked = b.asked /\ c.group = g
  BY <1>0, <1>c DEF Pages
<1>2. /\ c.loading = b.loading /\ c.busy = b.busy /\ c.mark = b.mark
      /\ c.lastLoaded = b.lastLoaded /\ c.statsOnly = b.statsOnly /\ c.epm = b.epm
      /\ c.statsOnly \in BOOLEAN
  BY <1>0, <1>c DEF Pages
<1>3. Sound(c)
  BY <1>1, <1>2 DEF Left, Sound, BusyOk, DoneOk
<1>d. PICK d : d = ShowGroup(c)
  OBVIOUS
<1>4. /\ d \in Pages /\ SameScope(c, d) /\ d.asked = c.asked
      /\ FreshLists(d.rows, d.preload, d.sprint, d.group) /\ FreshCache(d.cache)
  BY <1>0, <1>1, <1>d, ShowGroupFresh
<1>5. Good(d) /\ SameScope(d, c)
  BY <1>0, <1>1, <1>4 DEF Good, SameScope
<1>6. GroupShown(c, d)
  BY <1>1, <1>d, ShowGroupShape
<1>7. Sound(d)
  BY <1>3, <1>6, GroupShownSound
<1>e. PICK e : e = ScopeEffects(c, d, FALSE)
  OBVIOUS
<1>8. Good(e) /\ SameScope(d, e)
  BY <1>1, <1>5, <1>e, ScopeEffectsOk
<1>9. /\ Sound(e) /\ Bears(d, {}, e, {})
      /\ Kept(d) /\ Steady(d) =>
           /\ Steady(e)
           /\ ~c.epm /\ ~c.statsOnly => Coming(e, {}) /\ Marking(e, {})
  BY <1>1, <1>5, <1>7, <1>e, ScopeEffectsFed
<1>w. PICK was \in BOOLEAN : was = c.statsOnly
  BY <1>2
<1>f. PICK f : f = StatsEffects(was, e)
  OBVIOUS
<1>10. /\ Sound(f) /\ Bears(e, {}, f, {})
       /\ /\ Steady(e)
          /\ ~e.epm /\ ~was => Coming(e, {}) /\ Marking(e, {})
          /\ ~e.epm
          => Fed(f)
  BY <1>8, <1>9, <1>f, StatsEffectsFed
<1>11. Good(f)
  <2>1. Works(e, f)
    BY <1>8, <1>f, StatsEffectsWorks
  <2> QED
    BY <2>1 DEF Works
<1>12. ASSUME ~b.epm, Waited(b.asked) = {}, Fed(b), Others(b)
       PROVE  Fed(f) /\ Others(f)
  <2>1. Wished(d.asked) = {}
    BY <1>1, <1>4, <1>12, WishedWaited
  <2>2. ASSUME d.rows = BlankLists
        PROVE  Steady(d)
    BY <2>1, <2>2, EmptySteady
  <2>3. ASSUME Fits(c, c.cache[g]), d.rows = c.cache[g].rows, d.fetched = c.cache[g].fetched
        PROVE  Steady(d)
    <3>0. c.cache[g] # None /\ d.group = g
      BY <1>1, <1>6, <2>3 DEF Fits, GroupShown
    <3>1. HasRows(d.rows) => g \notin Teamless /\ d.fetched
                             /\ \A p \in Projects : d.rows[p].as # "blank"
      BY <1>1, <1>12, <2>3, <3>0 DEF Others
    <3> QED
      BY <2>1, <3>0, <3>1 DEF Steady, Wanted, Coming
  <2>4. Steady(d)
    BY <1>1, <1>6, <2>2, <2>3 DEF GroupShown
  <2>5. Kept(d) /\ e.epm = FALSE /\ c.epm = FALSE
    BY <1>2, <1>4, <1>6, <1>8, <1>12, <1>0 DEF GroupShown, SameScope, Pages
  <2>6. Fed(f)
    BY <1>9, <1>10, <1>w, <2>4, <2>5
  <2>7. Others(d)
    <3>1. ASSUME NEW h \in Groups, h # d.group, d.cache[h] # None, HasRows(d.cache[h].rows)
          PROVE  /\ h \notin Teamless /\ d.cache[h].fetched
                 /\ \A p \in Projects : d.cache[h].rows[p].as # "blank"
      <4>1. d.cache[h] = b.cache[h] /\ h # g
        BY <1>1, <1>4, <1>6, <3>1 DEF GroupShown, SameScope
      <4>2. CASE h = b.group
        <5>1. d.cache[h] = Snapshot(b)
          BY <3>1, <4>1, <4>2 DEF Left, KeepsItself
        <5>2. d.cache[h].rows = b.rows /\ d.cache[h].fetched = b.fetched
          BY <1>0, <5>1, SnapshotTyped
        <5>3. HasRows(b.rows) /\ Steady(b)
          BY <1>12, <3>1, <5>2 DEF Fed
        <5>4. Coming(b, {}) /\ b.group \notin Teamless
          BY <5>3 DEF Steady, Wanted
        <5> QED
          BY <1>12, <4>2, <5>2, <5>4 DEF Coming
      <4>3. CASE h # b.group
        BY <1>12, <3>1, <4>1, <4>3 DEF Others
      <4> QED
        BY <4>2, <4>3
    <3> QED
      BY <3>1 DEF Others
  <2> QED
    BY <1>9, <1>10, <2>6, <2>7, BearsOthers
<1>13. ToGroup(b, g) = Rendered(f)
  BY <1>c, <1>d, <1>e, <1>f, <1>w DEF ToGroup
<1> QED
  BY <1>10, <1>11, <1>12, <1>13, RenderedLeft

\* The page as it is opened.
LEMMA OpenedLeft ==
  Left(OpenedPage) /\ Fed(OpenedPage) /\ Others(OpenedPage)
<1>t. PICK teams \in [Groups -> 0..MaxEvents] : teams = [g \in Groups |-> 0]
  <2>1. 0 \in 0..MaxEvents
    BY BoardAssumption
  <2> QED
    BY <2>1
<1>l. PICK loading \in [Projects -> BOOLEAN] : loading = [p \in Projects |-> FALSE]
  OBVIOUS
<1>k. PICK cache \in [Groups -> Snapshots \cup {None}] : cache = [g \in Groups |-> None]
  OBVIOUS
<1>a. PICK asked \in Seq(Requests) : asked = <<>>
  BY EmptySeq
<1>b. PICK b : b = [sprint |-> PageSprint, group |-> FirstGroup,
              teams |-> teams, epm |-> FALSE, statsOnly |-> FALSE,
              rows |-> BlankLists, fetched |-> FALSE,
              loading |-> loading, busy |-> FALSE,
              mark |-> NothingMarked(PageSprint), lastLoaded |-> None,
              preload |-> Blank, preloadOf |-> None,
              backlog |-> None, backlogAsked |-> None,
              cache |-> cache, asked |-> asked]
  OBVIOUS
<1>1. /\ NothingMarked(PageSprint) \in Marks
      /\ BlankLists \in [Projects -> Lists] /\ Blank \in Lists
  BY BlankTyped, BoardAssumption DEF NothingMarked, Marks
<1>2. b \in Pages
  BY <1>b, <1>1, BoardAssumption DEF Pages
<1>3. /\ b.cache = cache /\ b.asked = asked /\ b.teams = teams /\ b.loading = loading
      /\ b.busy = FALSE /\ b.mark = NothingMarked(PageSprint) /\ b.statsOnly = FALSE
      /\ b.epm = FALSE /\ b.group = FirstGroup
  BY <1>b
<1>4. FreshCache(b.cache) /\ \A g \in Groups : b.cache[g] = None
  <2>1. \A g \in Groups : cache[g] = None
    BY <1>k
  <2> QED
    BY <1>3, <2>1 DEF FreshCache
<1>5. Waited(asked) = {} /\ Wished(asked) = {} /\ Teamed(asked)
  BY <1>a, NothingAsked
<1>6. Sound(b)
  <2>1. BusyOk(b, {})
    BY <1>3, <1>l DEF BusyOk
  <2>2. DoneOk(b)
    BY <1>3 DEF DoneOk, NothingMarked, Projects
  <2> QED
    BY <1>3, <1>5, <2>1, <2>2 DEF Sound
<1>d. PICK d : d = ShowGroup(b)
  OBVIOUS
<1>7. /\ d \in Pages /\ SameScope(b, d) /\ d.asked = b.asked
      /\ FreshLists(d.rows, d.preload, d.sprint, d.group) /\ FreshCache(d.cache)
  BY <1>2, <1>4, <1>d, ShowGroupFresh
<1>8. OfSprint(d.asked, d.sprint)
  BY <1>3, <1>7, <1>a DEF OfSprint
<1>9. Good(d) /\ SameScope(d, b)
  BY <1>7, <1>8 DEF Good, SameScope
<1>10. GroupShown(b, d)
  BY <1>2, <1>d, ShowGroupShape
<1>11. Sound(d) /\ Kept(d)
  BY <1>6, <1>10, GroupShownSound DEF GroupShown
<1>12. d.rows = BlankLists /\ d.statsOnly = FALSE
  <2>1. ~Fits(b, b.cache[b.group])
    BY <1>2, <1>4 DEF Fits, Pages
  <2> QED
    BY <1>3, <1>10, <2>1 DEF GroupShown
<1>13. Steady(d)
  BY <1>3, <1>5, <1>7, <1>12, EmptySteady
<1>e. PICK e : e = ScopeEffects(b, d, FALSE)
  OBVIOUS
<1>14. /\ Sound(e) /\ Bears(d, {}, e, {}) /\ Steady(e)
       /\ Coming(e, {}) /\ Marking(e, {})
  BY <1>2, <1>3, <1>9, <1>11, <1>13, <1>e, ScopeEffectsFed
<1>15. Good(e)
  BY <1>2, <1>9, <1>e, ScopeEffectsOk
<1>16. Others(e)
  <2>1. Others(d)
    BY <1>4, <1>7, <1>10 DEF Others, GroupShown, SameScope
  <2> QED
    BY <1>14, <2>1, BearsOthers
<1>17. Fed(e)
  BY <1>14 DEF Fed
<1>18. OpenedPage = Rendered(e)
  BY <1>t, <1>l, <1>k, <1>a, <1>b, <1>d, <1>e DEF OpenedPage
<1> QED
  BY <1>14, <1>15, <1>16, <1>17, <1>18, RenderedLeft

\* The teams of a group change.
LEMMA AdoptTeamsLeft ==
  ASSUME NEW b, Settled(b), NEW g \in Groups, b.teams[g] + 1 \in 0..MaxEvents, Left(b)
  PROVE  /\ Left(AdoptTeams(b, g))
         /\ Fed(b) /\ Others(b) => Fed(AdoptTeams(b, g)) /\ Others(AdoptTeams(b, g))
<1>0. b \in Pages /\ Good(b) /\ FreshCache(b.cache)
  BY DEF Settled, Good
<1>t. PICK teams \in [Groups -> 0..MaxEvents] : teams = [b.teams EXCEPT ![g] = b.teams[g] + 1]
  BY <1>0 DEF Pages
<1>c. PICK c : c = [b EXCEPT !.teams = teams]
  OBVIOUS
<1>1. c = [b EXCEPT !.teams[g] = @ + 1]
  BY <1>0, <1>t, <1>c DEF Pages
<1>2. c \in Pages
  BY <1>0, <1>c DEF Pages
<1>3. /\ c.sprint = b.sprint /\ c.group = b.group /\ c.teams = teams /\ c.epm = b.epm
      /\ c.rows = b.rows /\ c.preload = b.preload /\ c.cache = b.cache /\ c.asked = b.asked
  BY <1>0, <1>c DEF Pages
<1>4. /\ c.statsOnly = b.statsOnly /\ c.fetched = b.fetched /\ c.loading = b.loading
      /\ c.busy = b.busy /\ c.mark = b.mark /\ c.lastLoaded = b.lastLoaded
  BY <1>0, <1>c DEF Pages
<1>5. Good(c)
  <2>1. FreshCache(c.cache)
    BY <1>0, <1>3
  <2> QED
    BY <1>0, <1>2, <1>3, <2>1, AlteredGood
<1>6. Alike(b, c)
  BY <1>3, <1>4 DEF Alike
<1>7. Sound(c) /\ (Fed(b) => Fed(c)) /\ (Others(b) => Others(c))
  BY <1>6, AlikeFed, AlikeBears, BearsOthers DEF Left
<1>8. CASE g = b.group
  <2>d. PICK d : d = Remember(c)
    OBVIOUS
  <2>1. Works(c, d)
    BY <1>5, <2>d, RememberWorks
  <2>2. Good(d) /\ SameScope(d, c) /\ d \in Pages
    BY <2>1 DEF Works, SameScope, Good
  <2>3. Alike(c, d) /\ KeepsItself(d)
    BY <1>2, <2>d, RememberAlike
  <2>4. /\ Sound(d) /\ Kept(d)
        /\ Fed(c) => Fed(d)
        /\ Others(c) => Others(d)
    BY <1>7, <2>2, <2>3, AlikeFed, AlikeBears, BearsOthers, KeepsItselfKept
  <2>e. PICK e : e = ScopeEffects(c, d, FALSE)
    OBVIOUS
  <2>5. /\ Sound(e) /\ Bears(d, {}, e, {})
        /\ Steady(d) =>
             /\ Steady(e)
             /\ ~c.epm /\ ~c.statsOnly => Coming(e, {}) /\ Marking(e, {})
    BY <1>2, <2>2, <2>4, <2>e, ScopeEffectsFed
  <2>6. Good(e)
    BY <1>2, <2>2, <2>e, ScopeEffectsOk
  <2>7. e.epm = c.epm /\ e.statsOnly = c.statsOnly
    BY <2>3, <2>5 DEF Alike, Bears
  <2>8. Fed(d) => Fed(e)
    BY <2>5, <2>7 DEF Fed
  <2>9. Others(d) => Others(e)
    BY <2>5, BearsOthers
  <2>10. AdoptTeams(b, g) = Rendered(e)
    BY <1>1, <1>8, <2>d, <2>e DEF AdoptTeams
  <2> QED
    BY <1>7, <2>4, <2>5, <2>6, <2>8, <2>9, <2>10, RenderedLeft
<1>9. CASE g # b.group
  <2>1. AdoptTeams(b, g) = c
    BY <1>1, <1>9 DEF AdoptTeams
  <2>2. c.teams[c.group] = b.teams[b.group]
    BY <1>0, <1>3, <1>t, <1>9 DEF Pages
  <2>3. Snapshot(c) = Snapshot(b)
    BY <1>3, <1>4, <2>2 DEF Snapshot
  <2>4. KeepsItself(c)
    BY <1>3, <2>3 DEF Left, KeepsItself
  <2> QED
    BY <1>7, <2>1, <2>4 DEF Left
<1> QED
  BY <1>8, <1>9

-----------------------------------------------------------------------------
(* The end of a request, again.                                            *)

\* A request that is taken from the page leaves its list to be seen to.
LEMMA WithoutBears ==
  ASSUME NEW b, b \in Pages, NEW i \in DOMAIN b.asked, NEW V, V = {b.asked[i].list} \cap Projects
  PROVE  LET c == Without(b, i) IN
         /\ Bears(b, {}, c, V) /\ c.rows = b.rows
         /\ Wished(c.asked) \subseteq Wished(b.asked)
         /\ Marking(b, {}) => Marking(c, V)
<1>0. b.asked \in Seq(Requests)
  BY DEF Pages
<1>a. PICK asked \in Seq(Requests) :
            /\ asked = RemoveAt(b.asked, i)
            /\ \A j \in DOMAIN asked : \E k \in DOMAIN b.asked : asked[j] = b.asked[k]
            /\ \A k \in DOMAIN b.asked : k # i => \E j \in DOMAIN asked : asked[j] = b.asked[k]
  BY <1>0, RemovedOk
<1>c. PICK c : c = [b EXCEPT !.asked = asked]
  OBVIOUS
<1>1. c = Without(b, i)
  BY <1>a, <1>c DEF Without, Pages
<1>2. /\ c.sprint = b.sprint /\ c.group = b.group /\ c.epm = b.epm /\ c.statsOnly = b.statsOnly
      /\ c.rows = b.rows /\ c.fetched = b.fetched /\ c.loading = b.loading /\ c.busy = b.busy
  BY <1>c DEF Pages
<1>3. c.mark = b.mark /\ c.lastLoaded = b.lastLoaded /\ c.asked = asked /\ c.cache = b.cache
  BY <1>c DEF Pages
<1>4. Waited(asked) \cup V = Waited(b.asked)
  <2>1. Waited(asked) \subseteq Waited(b.asked)
    BY <1>a DEF Waited
  <2>2. Waited(b.asked) \subseteq Waited(asked) \cup V
    <3>1. ASSUME NEW p \in Projects, NEW k \in DOMAIN b.asked, b.asked[k].list = p, p \notin V
          PROVE  p \in Waited(asked)
      <4>1. k # i
        BY <3>1
      <4>2. PICK j \in DOMAIN asked : asked[j] = b.asked[k]
        BY <1>a, <4>1
      <4> QED
        BY <3>1, <4>2 DEF Waited
    <3> QED
      BY <3>1 DEF Waited
  <2>3. V \subseteq Waited(b.asked)
    BY DEF Waited
  <2> QED
    BY <2>1, <2>2, <2>3
<1>5. Wished(asked) \subseteq Wished(b.asked)
  BY <1>a DEF Wished
<1>6. Teamed(b.asked) => Teamed(asked)
  BY <1>a DEF Teamed
<1>7. BusyOk(b, {}) => BusyOk(c, V)
  BY <1>2, <1>3, <1>4 DEF BusyOk
<1>8. Coming(b, {}) => Coming(c, V)
  BY <1>2, <1>3, <1>4 DEF Coming
<1>9. DoneOk(b) => DoneOk(c)
  BY <1>3 DEF DoneOk
<1>10. Marking(b, {}) => Marking(c, V)
  BY <1>2, <1>3, <1>4 DEF Marking
<1>11. Bears(b, {}, c, V)
  BY <1>2, <1>3, <1>6, <1>7, <1>8, <1>9 DEF Bears
<1> QED
  BY <1>1, <1>2, <1>3, <1>5, <1>10, <1>11

\* One request of a page ends.
LEMMA AnsweredLeft ==
  ASSUME NEW b, Settled(b), Left(b), NEW i \in DOMAIN b.asked,
         NEW as \in {"rows", "none", "dropped"}, as = "rows" => b.asked[i].at = "jira"
  PROVE  LET d == Rendered(Finished(Without(b, i), b.asked[i], as)) IN
         /\ Left(d)
         /\ Others(b) => Others(d)
         /\ Fed(b) /\ (b.asked[i].list \in Projects => b.asked[i].scope = Scope(b)) => Fed(d)
<1>0. Good(b) /\ b \in Pages /\ b.asked \in Seq(Requests)
  BY DEF Settled, Good, Pages
<1>r. PICK r \in Requests : r = b.asked[i]
  BY <1>0, LenProperties, ElementOfSeq
<1>v. PICK V : V = {r.list} \cap Projects
  OBVIOUS
<1>c. PICK c : c = Without(b, i)
  OBVIOUS
<1>1. Works(b, c)
  BY <1>0, <1>c, WithoutWorks
<1>2. Good(c) /\ c.sprint = b.sprint /\ c \in Pages /\ c.group = b.group
  BY <1>1 DEF Works, SameScope, Good
<1>3. /\ Bears(b, {}, c, V) /\ c.rows = b.rows
      /\ Wished(c.asked) \subseteq Wished(b.asked)
      /\ Marking(b, {}) => Marking(c, V)
  BY <1>0, <1>r, <1>v, <1>c, WithoutBears
<1>4. as = "rows" => ~r.aborted
  BY <1>r DEF Settled, Dismissed, Aborting
<1>5. as = "rows" => r.by = "batch" \/ r.scope.sprint = c.sprint
  <2>1. r.by = "page" /\ ~r.aborted => r.scope.sprint = b.sprint
    BY <1>r DEF Settled, Good, OfSprint
  <2>2. r.by \in {"page", "batch"}
    BY DEF Requests
  <2> QED
    BY <1>2, <1>4, <2>1, <2>2
<1>d. PICK d : d = Finished(c, r, as)
  OBVIOUS
<1>6. Works(c, d)
  BY <1>2, <1>5, <1>d, FinishedWorks
<1>w. PICK W : W = {}
  OBVIOUS
<1>7. as # "blank" /\ V = W \cup ({r.list} \cap Projects)
  BY <1>v, <1>w
<1>8. Ended(c, V, r, as, d, W)
  BY <1>2, <1>7, <1>d, FinishedFeeds
<1>9. Bears(b, {}, d, {})
  BY <1>3, <1>8, <1>w, BearsOn DEF Ended
<1>10. Good(d) /\ Sound(d)
  BY <1>6, <1>9, BearsSound DEF Works, Left
<1>11. Others(b) => Others(d)
  BY <1>9, BearsOthers
<1>12. ASSUME Fed(b), r.list \in Projects => r.scope = Scope(b)
       PROVE  Fed(d)
  <2>1. d.group = b.group /\ d.epm = b.epm /\ d.statsOnly = b.statsOnly
    BY <1>9 DEF Bears
  <2>2. r.list \in Projects => r.scope.sprint = c.sprint /\ r.scope.group = b.group
    BY <1>0, <1>2, <1>12, ScopeTyped
  <2>3. Coming(b, {}) => Coming(d, {})
    BY <1>9 DEF Bears
  <2>4. Marking(b, {}) => Marking(d, {})
    BY <1>3, <1>8, <1>w, <2>2 DEF Ended
  <2>5. Wanted(d) => Wanted(b)
    <3>1. as = "rows" /\ r.list \in Projects => Wished(b.asked) # {}
      BY <1>r, <1>4 DEF Wished
    <3> QED
      BY <1>3, <1>8, <3>1 DEF Wanted, Ended
  <2>6. b.group \in Teamless => ~HasRows(d.rows)
    <3>1. r.list \in Projects => b.group \notin Teamless
      BY <1>r, <2>2 DEF Left, Sound, Teamed
    <3> QED
      BY <1>3, <1>8, <1>12, <3>1 DEF Fed, Steady, Ended
  <2>7. Steady(d)
    BY <1>12, <2>1, <2>3, <2>5, <2>6 DEF Fed, Steady
  <2> QED
    BY <1>12, <2>1, <2>3, <2>4, <2>7 DEF Fed
<1>13. /\ Left(Rendered(d))
       /\ Fed(d) => Fed(Rendered(d))
       /\ Others(d) => Others(Rendered(d))
  BY <1>10, RenderedLeft
<1> QED
  BY <1>r, <1>c, <1>d, <1>11, <1>12, <1>13

\* After settings are stored, the page is empty and asks for nothing.
LEMMA InvalidatedLeft ==
  ASSUME NEW b, Good(b), Sound(b)
  PROVE  LET c == Invalidated(b) IN
         /\ Sound(c) /\ Steady(c)
         /\ c.epm = b.epm /\ c.statsOnly = b.statsOnly
         /\ Others(b) => Others(c)
<1>0. b \in Pages /\ FreshCache(b.cache) /\ b.group \in Groups
  BY DEF Good, Pages
<1>a. PICK asked \in Seq(Requests) :
            /\ Aborted(b) = [b EXCEPT !.asked = asked]
            /\ \A sprint : OfSprint(asked, sprint)
  BY <1>0, AbortedIs
<1>k. PICK cache \in [Groups -> Snapshots \cup {None}] :
            cache = [b.cache EXCEPT ![b.group] = None] /\ FreshCache(cache)
  BY <1>0, ForgottenCache
<1>c. PICK c : c = [b EXCEPT !.asked = asked, !.cache = cache,
                      !.rows = BlankLists, !.fetched = FALSE, !.preload = Blank,
                      !.mark = NothingMarked(b.sprint), !.lastLoaded = None,
                      !.preloadOf = None, !.backlog = None]
  OBVIOUS
<1>1. /\ NothingMarked(b.sprint) \in Marks
      /\ BlankLists \in [Projects -> Lists] /\ Blank \in Lists
  BY <1>0, BlankTyped DEF NothingMarked, Marks, Pages
<1>2. c \in Pages
  BY <1>0, <1>1, <1>c DEF Pages
<1>3. /\ c.sprint = b.sprint /\ c.group = b.group /\ c.epm = b.epm /\ c.statsOnly = b.statsOnly
      /\ c.rows = BlankLists /\ c.loading = b.loading /\ c.busy = b.busy
  BY <1>0, <1>c DEF Pages
<1>4. /\ c.mark = NothingMarked(b.sprint) /\ c.cache = cache /\ c.asked = asked
      /\ c.preload = Blank
  BY <1>0, <1>c DEF Pages
<1>5. FreshLists(c.rows, c.preload, c.sprint, c.group)
  BY <1>3, <1>4, BlankTyped
<1>6. OfSprint(c.asked, c.sprint)
  BY <1>a, <1>4
<1>7. Good(c)
  BY <1>2, <1>4, <1>5, <1>6, <1>k DEF Good
<1>8. /\ Waited(asked) = Waited(b.asked) /\ Wished(asked) = {}
      /\ Teamed(b.asked) => Teamed(asked)
  BY <1>0, <1>a, AbortedLists
<1>9. Sound(c)
  <2>1. BusyOk(c, {})
    BY <1>3, <1>4, <1>8 DEF Sound, BusyOk
  <2>2. DoneOk(c)
    BY <1>4 DEF DoneOk, NothingMarked, Projects
  <2> QED
    BY <1>4, <1>8, <2>1, <2>2 DEF Sound
<1>d. PICK d : d = LandAborted(c)
  OBVIOUS
<1>10. /\ Bears(c, {}, d, {})
       /\ Wished(d.asked) = Wished(c.asked)
       /\ HasRows(d.rows) => HasRows(c.rows)
  BY <1>7, <1>9, <1>d, LandAbortedBears DEF Sound
<1>11. Steady(d)
  BY <1>3, <1>4, <1>8, <1>10, BlankWithoutRows DEF Steady, Wanted
<1>12. Sound(d)
  BY <1>9, <1>10, BearsSound
<1>13. d.epm = b.epm /\ d.statsOnly = b.statsOnly
  BY <1>3, <1>10 DEF Bears
<1>14. Others(b) => Others(d)
  <2>1. \A g \in Groups : g # b.group => cache[g] = b.cache[g]
    BY <1>0, <1>k DEF Pages
  <2>2. Others(b) => Others(c)
    BY <1>3, <1>4, <2>1 DEF Others
  <2> QED
    BY <1>10, <2>2, BearsOthers
<1>15. c = [Aborted(b) EXCEPT
        !.cache[b.group] = None,
        !.rows = BlankLists, !.fetched = FALSE, !.preload = Blank,
        !.mark = NothingMarked(b.sprint), !.lastLoaded = None,
        !.preloadOf = None, !.backlog = None]
  BY <1>0, <1>a, <1>k, <1>c DEF Pages
<1>16. Invalidated(b) = d
  BY <1>15, <1>d DEF Invalidated
<1> QED
  BY <1>11, <1>12, <1>13, <1>14, <1>16

-----------------------------------------------------------------------------
(* The actions, again.                                                     *)

\* What is left to show of an action.
LEMMA LInvKept ==
  ASSUME LInv, Left(page'), ~strayed' => ~strayed,
         Fed(page) /\ Others(page) /\ ~strayed' => Fed(page') /\ Others(page'),
         batch' = None \/ batch' = batch
  PROVE  LInv'
<1>1. ~strayed' => Fed(page') /\ Others(page')
  BY DEF LInv
<1>2. ~strayed' /\ batch' # None => batch'.group \notin Teamless
  <2>1. CASE batch' = None
    BY <2>1
  <2>2. CASE batch' = batch
    BY <2>2 DEF LInv
  <2> QED
    BY <2>1, <2>2
<1> QED
  BY <1>1, <1>2 DEF LInv, Left

LEMMA SelectSprintLInv ==
  ASSUME IInv, LInv, NEW s \in Sprints, SelectSprint(s)
  PROVE  LInv'
<1>0. Settled(page) /\ Left(page)
  BY DEF IInv, LInv, Left
<1>1. page' = ToSprint(page, s) /\ s # page.sprint
  BY DEF SelectSprint
<1>2. /\ Left(page') /\ Fed(page')
      /\ Others(page) => Others(page')
  BY <1>0, <1>1, ToSprintLeft
<1>3. strayed' = strayed /\ batch' = batch
  BY DEF SelectSprint
<1> QED
  BY <1>2, <1>3, LInvKept

LEMMA SprintsListedLInv ==
  ASSUME IInv, LInv, SprintsListed
  PROVE  LInv'
<1>0. Settled(page) /\ Left(page) /\ PageSprint \in Sprints
  BY BoardAssumption DEF IInv, LInv, Left
<1>1. strayed' = strayed /\ batch' = batch
  BY DEF SprintsListed
<1>2. CASE page.sprint = PageSprint
  <2>1. page' = page
    BY <1>2 DEF SprintsListed
  <2> QED
    BY <1>0, <1>1, <2>1, LInvKept
<1>3. CASE page.sprint # PageSprint
  <2>1. page' = ToSprint(page, PageSprint)
    BY <1>3 DEF SprintsListed
  <2>2. /\ Left(page') /\ Fed(page')
        /\ Others(page) => Others(page')
    BY <1>0, <1>3, <2>1, ToSprintLeft
  <2> QED
    BY <1>1, <2>2, LInvKept
<1> QED
  BY <1>2, <1>3

\* A change of the group, or of its teams, while lists are under way is noted.
LEMMA NothingWaited ==
  ASSUME ~ListsUnderWay
  PROVE  Waited(page.asked) = {}
BY DEF ListsUnderWay, Waited

LEMMA SelectGroupLInv ==
  ASSUME IInv, LInv, NEW g \in Groups, SelectGroup(g)
  PROVE  LInv'
<1>0. Settled(page) /\ Left(page)
  BY DEF IInv, LInv, Left
<1>1. page' = ToGroup(page, g) /\ g # page.group /\ ~page.epm
  BY DEF SelectGroup
<1>2. /\ Left(page')
      /\ Waited(page.asked) = {} /\ Fed(page) /\ Others(page) => Fed(page') /\ Others(page')
  BY <1>0, <1>1, ToGroupLeft
<1>3. (~strayed' => ~strayed /\ ~ListsUnderWay) /\ batch' = batch
  BY DEF SelectGroup
<1> QED
  BY <1>2, <1>3, NothingWaited, LInvKept

LEMMA SaveTeamsLInv ==
  ASSUME IInv, LInv, NEW g \in Groups, SaveTeams(g)
  PROVE  LInv'
<1>0. Settled(page) /\ Left(page) /\ page.teams \in [Groups -> 0..MaxEvents]
  BY DEF IInv, LInv, Left, Settled, Good, Pages
<1>1. page.teams[g] \in Nat /\ page.teams[g] <= events
  BY <1>0 DEF IInv
<1>2. events \in Nat /\ events' = events + 1 /\ events' \in 0..MaxEvents
  BY BoardAssumption DEF IInv, SaveTeams, Event
<1>3. page.teams[g] + 1 \in 0..MaxEvents
  BY <1>1, <1>2, BoardAssumption
<1>4. page' = AdoptTeams(page, g)
  BY DEF SaveTeams
<1>5. /\ Left(page')
      /\ Fed(page) /\ Others(page) => Fed(page') /\ Others(page')
  BY <1>0, <1>3, <1>4, AdoptTeamsLeft
<1>6. (~strayed' => ~strayed) /\ batch' = batch
  BY DEF SaveTeams
<1> QED
  BY <1>5, <1>6, LInvKept

LEMMA QuietLInv ==
  ASSUME LInv, RefuseBatch \/ SprintsNotListed \/ UNCHANGED vars
  PROVE  LInv'
<1>1. page' = page /\ strayed' = strayed /\ (batch' = None \/ batch' = batch)
  BY DEF RefuseBatch, SprintsNotListed, vars
<1>2. Left(page)
  BY DEF LInv, Left
<1> QED
  BY <1>1, <1>2, LInvKept

LEMMA AnswerLInv ==
  ASSUME IInv, LInv, NEW i \in DOMAIN page.asked, NEW as \in {"rows", "none"}, Answer(i, as)
  PROVE  LInv'
<1>0. Settled(page) /\ Left(page)
  BY DEF IInv, LInv, Left
<1>1. page.asked[i].at = "jira" /\ as \in {"rows", "none", "dropped"}
  BY DEF Answer
<1>2. page' = Rendered(Finished(Without(page, i), page.asked[i], as))
  BY DEF Answer
<1>3. /\ Left(page')
      /\ Others(page) => Others(page')
      /\ Fed(page) /\ (page.asked[i].list \in Projects => page.asked[i].scope = Scope(page))
           => Fed(page')
  BY <1>0, <1>1, <1>2, AnsweredLeft
<1>4. ~strayed' =>
        ~strayed /\ (page.asked[i].list \in Projects => page.asked[i].scope = Scope(page))
  BY DEF Answer, Stray
<1>5. batch' = batch
  BY DEF Answer
<1> QED
  BY <1>3, <1>4, <1>5, LInvKept

\* A page that is alike, and shows the same, keeps itself as well.
LEMMA AlikeLeft ==
  ASSUME NEW b, Left(b), NEW c, Alike(b, c), KeepsItself(c)
  PROVE  /\ Left(c)
         /\ Fed(b) /\ Others(b) => Fed(c) /\ Others(c)
<1>1. Bears(b, {}, c, {})
  BY AlikeBears
<1> QED
  BY <1>1, AlikeFed, BearsOthers DEF Left

\* A request that goes on asks for the same list.
LEMMA ChangedLeft ==
  ASSUME NEW b, b \in Pages, Left(b), NEW i \in DOMAIN b.asked, NEW r \in Requests,
         r.list = b.asked[i].list, r.aborted = b.asked[i].aborted, r.scope = b.asked[i].scope
  PROVE  LET c == [b EXCEPT !.asked = [b.asked EXCEPT ![i] = r]] IN
         /\ Left(c)
         /\ Fed(b) /\ Others(b) => Fed(c) /\ Others(c)
<1>0. b.asked \in Seq(Requests)
  BY DEF Pages
<1>n. PICK n \in Nat : n = Len(b.asked)
  BY <1>0, LenProperties
<1>a. PICK asked : asked = [b.asked EXCEPT ![i] = r]
  OBVIOUS
<1>1. DOMAIN b.asked = 1..n /\ i \in 1..n
  BY <1>0, <1>n, LenProperties
<1>2. asked \in Seq(Requests) /\ Len(asked) = n
      /\ \A j \in 1..n : asked[j] = IF j = i THEN r ELSE b.asked[j]
  BY <1>0, <1>n, <1>a, <1>1, ExceptSeq
<1>3. DOMAIN asked = 1..n
  BY <1>2, LenProperties
<1>4. \A j \in 1..n : /\ asked[j].list = b.asked[j].list /\ asked[j].scope = b.asked[j].scope
                      /\ asked[j].aborted = b.asked[j].aborted
  BY <1>2
<1>5. /\ Waited(asked) = Waited(b.asked) /\ Wished(asked) = Wished(b.asked)
      /\ Teamed(b.asked) => Teamed(asked)
  BY <1>1, <1>3, <1>4 DEF Waited, Wished, Teamed
<1>c. PICK c : c = [b EXCEPT !.asked = asked]
  OBVIOUS
<1>6. /\ c.sprint = b.sprint /\ c.group = b.group /\ c.epm = b.epm /\ c.statsOnly = b.statsOnly
      /\ c.rows = b.rows /\ c.fetched = b.fetched /\ c.loading = b.loading /\ c.busy = b.busy
  BY <1>c DEF Pages
<1>7. /\ c.mark = b.mark /\ c.lastLoaded = b.lastLoaded /\ c.asked = asked /\ c.cache = b.cache
      /\ c.teams = b.teams /\ c.preload = b.preload
  BY <1>c DEF Pages
<1>8. Alike(b, c)
  BY <1>5, <1>6, <1>7 DEF Alike
<1>9. Snapshot(c) = Snapshot(b)
  BY <1>6, <1>7 DEF Snapshot
<1>10. KeepsItself(c)
  BY <1>6, <1>7, <1>9 DEF Left, KeepsItself
<1>11. /\ Left(c)
       /\ Fed(b) /\ Others(b) => Fed(c) /\ Others(c)
  BY <1>8, <1>10, AlikeLeft
<1> QED
  BY <1>11, <1>a, <1>c

LEMMA SessionStaleLInv ==
  ASSUME IInv, LInv, NEW i \in DOMAIN page.asked, SessionStale(i)
  PROVE  LInv'
<1>0. page \in Pages /\ Left(page) /\ page.asked \in Seq(Requests)
  BY DEF IInv, LInv, Left, Settled, Good, Pages
<1>1. page.asked[i] \in Requests
  BY <1>0, LenProperties, ElementOfSeq
<1>r. PICK r : r = [page.asked[i] EXCEPT !.at = "session"]
  OBVIOUS
<1>2. /\ r \in Requests /\ r.list = page.asked[i].list
      /\ r.aborted = page.asked[i].aborted /\ r.scope = page.asked[i].scope
  BY <1>1, <1>r DEF Requests
<1>c. PICK c : c = [page EXCEPT !.asked = [page.asked EXCEPT ![i] = r]]
  OBVIOUS
<1>3. /\ Left(c)
      /\ Fed(page) /\ Others(page) => Fed(c) /\ Others(c)
  BY <1>0, <1>2, <1>c, ChangedLeft
<1>4. page' = c
  BY <1>0, <1>r, <1>c DEF SessionStale, Pages
<1>5. strayed' = strayed /\ batch' = batch
  BY DEF SessionStale
<1> QED
  BY <1>3, <1>4, <1>5, LInvKept

LEMMA SessionAnsweredLInv ==
  ASSUME IInv, LInv, NEW i \in DOMAIN page.asked, NEW ok \in BOOLEAN, SessionAnswered(i, ok)
  PROVE  LInv'
<1>0. page \in Pages /\ Settled(page) /\ Left(page) /\ page.asked \in Seq(Requests)
  BY DEF IInv, LInv, Left, Settled, Good, Pages
<1>p. PICK p \in Requests : p = page.asked[i] /\ p.at = "session"
  BY <1>0, LenProperties, ElementOfSeq DEF SessionAnswered
<1>b. batch' = batch
  BY DEF SessionAnswered
<1>1. CASE ok /\ ~p.aborted
  <2>r. PICK r : r = [p EXCEPT !.at = "jira", !.again = TRUE]
    OBVIOUS
  <2>1. /\ r \in Requests /\ r.list = p.list
        /\ r.aborted = p.aborted /\ r.scope = p.scope
    BY <1>1, <2>r DEF Requests
  <2>c. PICK c : c = [page EXCEPT !.asked = [page.asked EXCEPT ![i] = r]]
    OBVIOUS
  <2>2. /\ Left(c)
        /\ Fed(page) /\ Others(page) => Fed(c) /\ Others(c)
    BY <1>0, <1>p, <2>1, <2>c, ChangedLeft
  <2>3. page' = c
    BY <1>0, <1>1, <1>p, <2>r, <2>c DEF SessionAnswered, Pages
  <2>4. strayed' = strayed
    BY <1>1, <1>p DEF SessionAnswered
  <2> QED
    BY <1>b, <2>2, <2>3, <2>4, LInvKept
<1>2. CASE ~(ok /\ ~p.aborted)
  <2>as. PICK as \in {"none", "dropped"} : as = IF ok THEN "dropped" ELSE "none"
    OBVIOUS
  <2>1. page' = Rendered(Finished(Without(page, i), page.asked[i], as))
    BY <1>2, <1>p, <2>as DEF SessionAnswered
  <2>2. as \in {"rows", "none", "dropped"} /\ (as = "rows" => page.asked[i].at = "jira")
    BY <2>as
  <2>3. /\ Left(page')
        /\ Others(page) => Others(page')
        /\ Fed(page) /\ (page.asked[i].list \in Projects => page.asked[i].scope = Scope(page))
             => Fed(page')
    BY <1>0, <2>1, <2>2, AnsweredLeft
  <2>4. ~strayed' =>
          ~strayed /\ (page.asked[i].list \in Projects => page.asked[i].scope = Scope(page))
    BY <1>2, <1>p DEF SessionAnswered, Stray
  <2> QED
    BY <1>b, <2>3, <2>4, LInvKept
<1> QED
  BY <1>1, <1>2

LEMMA BacklogAnswerLInv ==
  ASSUME IInv, LInv, NEW ok \in BOOLEAN, BacklogAnswer(ok)
  PROVE  LInv'
<1>0. page \in Pages /\ Left(page)
  BY DEF IInv, LInv, Left, Settled, Good
<1>k. PICK backlog : backlog = IF ok THEN page.backlogAsked ELSE None
  OBVIOUS
<1>c. PICK c : c = [page EXCEPT !.backlogAsked = None, !.backlog = backlog]
  OBVIOUS
<1>1. /\ c.sprint = page.sprint /\ c.group = page.group /\ c.epm = page.epm
      /\ c.statsOnly = page.statsOnly /\ c.rows = page.rows /\ c.fetched = page.fetched
      /\ c.loading = page.loading /\ c.busy = page.busy
  BY <1>0, <1>c DEF Pages
<1>2. /\ c.mark = page.mark /\ c.lastLoaded = page.lastLoaded /\ c.asked = page.asked
      /\ c.cache = page.cache /\ c.teams = page.teams /\ c.preload = page.preload
  BY <1>0, <1>c DEF Pages
<1>3. Alike(page, c)
  BY <1>1, <1>2 DEF Alike
<1>4. Snapshot(c) = Snapshot(page)
  BY <1>1, <1>2 DEF Snapshot
<1>5. KeepsItself(c)
  BY <1>0, <1>1, <1>2, <1>4 DEF Left, KeepsItself
<1>6. /\ Left(c)
      /\ Fed(page) /\ Others(page) => Fed(c) /\ Others(c)
  BY <1>0, <1>3, <1>5, AlikeLeft
<1>7. page' = c /\ strayed' = strayed /\ batch' = batch
  BY <1>k, <1>c DEF BacklogAnswer
<1> QED
  BY <1>6, <1>7, LInvKept

\* A page that shows and asks the same in another view.
LEMMA ToggleStatsLInv ==
  ASSUME IInv, LInv, ToggleStats
  PROVE  LInv'
<1>0. page \in Pages /\ Good(page) /\ Left(page) /\ FreshCache(page.cache)
  BY DEF IInv, LInv, Left, Settled, Good
<1>w. PICK was \in BOOLEAN : was = page.statsOnly
  BY <1>0 DEF Pages
<1>c. PICK c : c = [page EXCEPT !.statsOnly = ~was]
  OBVIOUS
<1>1. c \in Pages
  BY <1>0, <1>c DEF Pages
<1>2. /\ c.sprint = page.sprint /\ c.group = page.group /\ c.teams = page.teams
      /\ c.epm = page.epm /\ c.rows = page.rows /\ c.preload = page.preload
      /\ c.cache = page.cache /\ c.asked = page.asked
  BY <1>0, <1>c DEF Pages
<1>3. /\ c.fetched = page.fetched /\ c.loading = page.loading /\ c.busy = page.busy
      /\ c.mark = page.mark /\ c.lastLoaded = page.lastLoaded
  BY <1>0, <1>c DEF Pages
<1>4. Good(c)
  <2>1. FreshCache(c.cache)
    BY <1>0, <1>2
  <2> QED
    BY <1>0, <1>1, <1>2, <2>1, AlteredGood
<1>5. Sound(c)
  BY <1>0, <1>2, <1>3 DEF Left, Sound, BusyOk, DoneOk
<1>6. Fed(page) => Steady(c) /\ (~c.epm /\ ~was => Coming(c, {}) /\ Marking(c, {}))
  <2>1. (Coming(page, {}) => Coming(c, {})) /\ (Marking(page, {}) => Marking(c, {}))
    BY <1>2, <1>3 DEF Coming, Marking
  <2>2. Steady(page) => Steady(c)
    BY <1>2, <2>1 DEF Steady, Wanted
  <2> QED
    BY <1>2, <1>w, <2>1, <2>2 DEF Fed
<1>7. Others(page) => Others(c)
  BY <1>2 DEF Others
<1>d. PICK d : d = StatsEffects(was, c)
  OBVIOUS
<1>8. ~c.epm
  BY <1>2 DEF ToggleStats
<1>9. /\ Sound(d) /\ Bears(c, {}, d, {})
      /\ /\ Steady(c)
         /\ ~c.epm /\ ~was => Coming(c, {}) /\ Marking(c, {})
         /\ ~c.epm
         => Fed(d)
  BY <1>4, <1>5, <1>d, StatsEffectsFed
<1>10. Good(d)
  <2>1. Works(c, d)
    BY <1>4, <1>d, StatsEffectsWorks
  <2> QED
    BY <2>1 DEF Works
<1>11. Others(c) => Others(d)
  BY <1>9, BearsOthers
<1>12. page' = Rendered(d)
  BY <1>w, <1>c, <1>d DEF ToggleStats
<1>13. /\ Left(page')
       /\ Fed(d) => Fed(page')
       /\ Others(d) => Others(page')
  BY <1>9, <1>10, <1>12, RenderedLeft
<1>14. strayed' = strayed /\ batch' = batch
  BY DEF ToggleStats
<1> QED
  BY <1>6, <1>7, <1>8, <1>9, <1>11, <1>13, <1>14, LInvKept

LEMMA ToggleEpmLInv ==
  ASSUME IInv, LInv, ToggleEpm
  PROVE  LInv'
<1>0. page \in Pages /\ Good(page) /\ Left(page) /\ FreshCache(page.cache)
  BY DEF IInv, LInv, Left, Settled, Good
<1>c. PICK c : c = [page EXCEPT !.epm = ~@]
  OBVIOUS
<1>1. c \in Pages
  BY <1>0, <1>c DEF Pages
<1>2. /\ c.sprint = page.sprint /\ c.group = page.group /\ c.teams = page.teams
      /\ c.statsOnly = page.statsOnly /\ c.rows = page.rows /\ c.preload = page.preload
      /\ c.cache = page.cache /\ c.asked = page.asked
  BY <1>0, <1>c DEF Pages
<1>3. /\ c.fetched = page.fetched /\ c.loading = page.loading /\ c.busy = page.busy
      /\ c.mark = page.mark /\ c.lastLoaded = page.lastLoaded
  BY <1>0, <1>c DEF Pages
<1>4. Good(c)
  <2>1. FreshCache(c.cache)
    BY <1>0, <1>2
  <2> QED
    BY <1>0, <1>1, <1>2, <2>1, AlteredGood
<1>5. Sound(c)
  BY <1>0, <1>2, <1>3 DEF Left, Sound, BusyOk, DoneOk
<1>6. Fed(page) => Steady(c)
  <2>1. Coming(page, {}) => Coming(c, {})
    BY <1>2, <1>3 DEF Coming
  <2>2. Steady(page) => Steady(c)
    BY <1>2, <2>1 DEF Steady, Wanted
  <2> QED
    BY <2>2 DEF Fed
<1>7. Others(page) => Others(c)
  BY <1>2 DEF Others
<1>8. Kept(c)
  <2>1. Kept(page)
    BY <1>0, KeepsItselfKept DEF Left
  <2> QED
    BY <1>2, <1>3, <2>1 DEF Kept
<1>9. SameScope(c, c)
  BY DEF SameScope
<1>d. PICK d : d = ScopeEffects(c, c, FALSE)
  OBVIOUS
<1>10. /\ Sound(d) /\ Bears(c, {}, d, {})
       /\ Steady(c) =>
            /\ Steady(d)
            /\ ~c.epm /\ ~c.statsOnly => Coming(d, {}) /\ Marking(d, {})
  BY <1>1, <1>4, <1>5, <1>8, <1>9, <1>d, ScopeEffectsFed
<1>11. Good(d)
  BY <1>1, <1>4, <1>9, <1>d, ScopeEffectsOk
<1>12. Steady(c) => Fed(d)
  BY <1>10 DEF Bears, Fed
<1>13. Others(c) => Others(d)
  BY <1>10, BearsOthers
<1>14. page' = Rendered(d)
  BY <1>c, <1>d DEF ToggleEpm
<1>15. /\ Left(page')
       /\ Fed(d) => Fed(page')
       /\ Others(d) => Others(page')
  BY <1>10, <1>11, <1>14, RenderedLeft
<1>16. strayed' = strayed /\ batch' = batch
  BY DEF ToggleEpm
<1> QED
  BY <1>6, <1>7, <1>12, <1>13, <1>15, <1>16, LInvKept

LEMMA SaveSettingsLInv ==
  ASSUME IInv, LInv, SaveSettings
  PROVE  LInv'
<1>0. page \in Pages /\ Left(page) /\ page.group \in Groups
  BY DEF IInv, LInv, Left, Settled, Good, Pages
<1>k. PICK cache : cache = [g \in Groups |-> None]
  OBVIOUS
<1>c. PICK c : c = [page EXCEPT !.cache = cache]
  OBVIOUS
<1>1. /\ c.sprint = page.sprint /\ c.group = page.group /\ c.epm = page.epm
      /\ c.statsOnly = page.statsOnly /\ c.rows = page.rows /\ c.fetched = page.fetched
      /\ c.loading = page.loading /\ c.busy = page.busy
  BY <1>0, <1>c DEF Pages
<1>2. /\ c.mark = page.mark /\ c.lastLoaded = page.lastLoaded /\ c.asked = page.asked
      /\ c.cache = cache
  BY <1>0, <1>c DEF Pages
<1>3. \A g \in Groups : cache[g] = None
  BY <1>k
<1>4. Left(c)
  BY <1>0, <1>1, <1>2, <1>3 DEF Left, Sound, BusyOk, DoneOk, KeepsItself
<1>5. Others(c)
  BY <1>2, <1>3 DEF Others
<1>6. Fed(page) => Fed(c)
  <2>1. (Coming(page, {}) => Coming(c, {})) /\ (Marking(page, {}) => Marking(c, {}))
    BY <1>1, <1>2 DEF Coming, Marking
  <2>2. Steady(page) => Steady(c)
    BY <1>1, <1>2, <2>1 DEF Steady, Wanted
  <2> QED
    BY <1>1, <2>1, <2>2 DEF Fed
<1>7. page' = c /\ strayed' = strayed /\ batch' = batch
  BY <1>k, <1>c DEF SaveSettings
<1> QED
  BY <1>4, <1>5, <1>6, <1>7, LInvKept

LEMMA FinishSaveLInv ==
  ASSUME IInv, LInv, FinishSave
  PROVE  LInv'
<1>0. Good(page) /\ Sound(page)
  BY DEF IInv, LInv, Settled
<1>c. PICK c : c = Invalidated(page)
  OBVIOUS
<1>1. Good(c) /\ c \in Pages
  BY <1>0, <1>c, InvalidatedGood DEF Good
<1>2. /\ Sound(c) /\ Steady(c)
      /\ Others(page) => Others(c)
  BY <1>0, <1>c, InvalidatedLeft
<1>d. PICK d : d = Remember(c)
  OBVIOUS
<1>3. Alike(c, d) /\ KeepsItself(d)
  BY <1>1, <1>d, RememberAlike
<1>4. Works(c, d)
  BY <1>1, <1>d, RememberWorks
<1>5. Good(d) /\ SameScope(d, c) /\ d \in Pages
  BY <1>4 DEF Works, SameScope, Good
<1>6. /\ Sound(d) /\ Steady(d) /\ Kept(d)
      /\ Others(c) => Others(d)
  BY <1>2, <1>3, <1>5, AlikeFed, AlikeBears, BearsOthers, KeepsItselfKept
<1>e. PICK e : e = ScopeEffects(c, d, TRUE)
  OBVIOUS
<1>7. /\ Sound(e) /\ Bears(d, {}, e, {}) /\ Steady(e)
      /\ ~c.epm /\ ~c.statsOnly => Coming(e, {}) /\ Marking(e, {})
  BY <1>1, <1>5, <1>6, <1>e, ScopeEffectsFed
<1>8. Good(e)
  BY <1>1, <1>5, <1>e, ScopeEffectsOk
<1>9. Fed(e)
  BY <1>3, <1>7 DEF Alike, Bears, Fed
<1>10. Others(d) => Others(e)
  BY <1>7, BearsOthers
<1>11. page' = Rendered(e)
  BY <1>c, <1>d, <1>e DEF FinishSave
<1>12. /\ Left(page') /\ Fed(page')
       /\ Others(e) => Others(page')
  BY <1>7, <1>8, <1>9, <1>11, RenderedLeft
<1>13. strayed' = strayed /\ batch' = batch
  BY DEF FinishSave
<1> QED
  BY <1>2, <1>6, <1>10, <1>12, <1>13, LInvKept

\* A group whose rows are shown has teams.
LEMMA SubmitBatchLInv ==
  ASSUME IInv, LInv, SubmitBatch
  PROVE  LInv'
<1>0. page \in Pages
  BY DEF IInv, Settled, Good
<1>1. page' = page /\ strayed' = strayed /\ batch' = Scope(page) /\ HasRows(page.rows)
  BY DEF SubmitBatch
<1>2. Sound(page') /\ KeepsItself(page') /\ (~strayed' => Fed(page') /\ Others(page'))
  BY <1>1 DEF LInv
<1>3. ~strayed' => page.group \notin Teamless
  BY <1>1 DEF LInv, Fed, Steady
<1>4. batch'.group = page.group
  BY <1>0, <1>1, ScopeTyped
<1> QED
  BY <1>2, <1>3, <1>4 DEF LInv

\* A page that has just asked for both lists.
LEMMA LoadedFed ==
  ASSUME NEW b, Loaded(b), b.group \in Teamless => ~HasRows(b.rows)
  PROVE  Fed(b)
BY LoadedFeeds DEF Fed, Steady

LEMMA RefreshLInv ==
  ASSUME IInv, LInv, Refresh
  PROVE  LInv'
<1>0. /\ page \in Pages /\ Good(page) /\ Left(page) /\ FreshCache(page.cache)
      /\ page.group \in Groups /\ page.cache \in [Groups -> Snapshots \cup {None}]
  BY DEF IInv, LInv, Left, Settled, Good, Pages
<1>k. PICK cache \in [Groups -> Snapshots \cup {None}] :
            cache = [page.cache EXCEPT ![page.group] = None] /\ FreshCache(cache)
  BY <1>0, ForgottenCache
<1>c. PICK c : c = [page EXCEPT !.cache = cache]
  OBVIOUS
<1>1. c \in Pages
  BY <1>0, <1>c DEF Pages
<1>2. /\ c.sprint = page.sprint /\ c.group = page.group /\ c.epm = page.epm
      /\ c.statsOnly = page.statsOnly /\ c.rows = page.rows /\ c.fetched = page.fetched
      /\ c.loading = page.loading /\ c.busy = page.busy
  BY <1>0, <1>c DEF Pages
<1>3. /\ c.mark = page.mark /\ c.lastLoaded = page.lastLoaded /\ c.asked = page.asked
      /\ c.teams = page.teams /\ c.preload = page.preload /\ c.cache = cache
  BY <1>0, <1>c DEF Pages
<1>4. cache[page.group] = None /\ \A g \in Groups : g # page.group => cache[g] = page.cache[g]
  BY <1>0, <1>k
<1>5. Alike(page, c) /\ KeepsItself(c)
  BY <1>2, <1>3, <1>4 DEF Alike, KeepsItself
<1>6. Good(c)
  <2>1. FreshCache(c.cache)
    BY <1>3, <1>k
  <2> QED
    BY <1>0, <1>1, <1>2, <1>3, <2>1, AlteredGood
<1>7. /\ Left(c)
      /\ Fed(page) /\ Others(page) => Fed(c) /\ Others(c)
  BY <1>0, <1>5, AlikeLeft
<1>s. PICK scope \in Scopes :
            scope = Scope(c) /\ scope.sprint = c.sprint /\ scope.group = c.group
  BY <1>1, ScopeTyped
<1>w. PICK w : w = HasRows(c.rows)
  OBVIOUS
<1>b. PICK b : b = LoadBoth(c, scope, "page")
  OBVIOUS
<1>8. /\ Bears(c, {}, b, {}) /\ b.cache = c.cache
      /\ HasRows(b.rows) => HasRows(c.rows)
      /\ Loaded(b)
  BY <1>6, <1>s, <1>b, LoadBothFeeds
<1>9. b \in Pages
  <2>1. Works(c, b)
    BY <1>6, <1>s, <1>b, LoadBothWorks
  <2> QED
    BY <2>1 DEF Works, Good
<1>d. PICK d : d = LoadPreload(b, scope, w, "page")
  OBVIOUS
<1>10. Alike(b, d) /\ d.cache = b.cache
  BY <1>9, <1>d, LoadPreloadAlike
<1>11. d \in Pages
  <2>1. Good(b) /\ scope.sprint = b.sprint
    <3>1. Works(c, b)
      BY <1>6, <1>s, <1>b, LoadBothWorks
    <3> QED
      BY <1>s, <3>1 DEF Works, SameScope
  <2>2. Works(b, d)
    BY <1>d, <2>1, LoadPreloadWorks
  <2> QED
    BY <2>2 DEF Works, Good
<1>12. Bears(c, {}, d, {})
  BY <1>8, <1>10, AlikeBears, BearsOn
<1>13. Sound(d) /\ (Others(page) => Others(d))
  <2>1. Bears(page, {}, d, {})
    BY <1>5, <1>12, AlikeBears, BearsOn
  <2> QED
    BY <1>0, <2>1, BearsSound, BearsOthers DEF Left
<1>14. Fed(page) => Fed(d)
  <2>1. Loaded(d)
    BY <1>8, <1>10, AlikeLoaded
  <2>2. d.group = page.group /\ (HasRows(d.rows) => HasRows(page.rows))
    BY <1>2, <1>8, <1>10 DEF Alike, Bears
  <2>3. Fed(page) => (d.group \in Teamless => ~HasRows(d.rows))
    BY <2>2 DEF Fed, Steady
  <2> QED
    BY <2>1, <2>3, LoadedFed
<1>15. KeepsItself(d)
  <2>1. d.group = page.group
    BY <1>2, <1>8, <1>10 DEF Alike, Bears
  <2>2. d.cache = cache
    BY <1>3, <1>8, <1>10
  <2> QED
    BY <1>4, <2>1, <2>2 DEF KeepsItself
<1>16. Left(d)
  BY <1>13, <1>15 DEF Left
<1>17. /\ Left(Remember(d))
       /\ Fed(d) /\ Others(d) => Fed(Remember(d)) /\ Others(Remember(d))
  <2>1. Alike(d, Remember(d)) /\ KeepsItself(Remember(d))
    BY <1>11, RememberAlike
  <2> QED
    BY <1>16, <2>1, AlikeLeft
<1>18. page' \in {c, Remember(d), d}
  <2>1. c = [page EXCEPT !.cache[page.group] = None]
    BY <1>0, <1>k, <1>c DEF Pages
  <2> QED
    BY <1>b, <1>d, <1>s, <1>w, <2>1 DEF Refresh
<1>19. strayed' = strayed /\ batch' = batch
  BY DEF Refresh
<1>20. /\ Left(page')
       /\ Fed(page) /\ Others(page) => Fed(page') /\ Others(page')
  BY <1>7, <1>13, <1>14, <1>16, <1>17, <1>18
<1> QED
  BY <1>19, <1>20, LInvKept

\* The lists of a batch are asked for of a group with teams.
LEMMA FinishBatchLInv ==
  ASSUME IInv, LInv, FinishBatch
  PROVE  LInv'
<1>0. page \in Pages /\ Good(page) /\ Left(page)
  BY DEF IInv, LInv, Left, Settled, Good
<1>s. PICK scope \in Scopes : scope = batch /\ batch # None
  BY DEF IInv, FinishBatch
<1>b. PICK b : b = LoadBoth(page, scope, "batch")
  OBVIOUS
<1>1. /\ Bears(page, {}, b, {}) /\ b.cache = page.cache
      /\ HasRows(b.rows) => HasRows(page.rows)
      /\ scope.group \notin Teamless => Loaded(b)
  BY <1>0, <1>b, LoadBothFeeds
<1>2. Works(page, b)
  BY <1>0, <1>b, LoadBothWorks
<1>3. Good(b) /\ b \in Pages
  BY <1>2 DEF Works, Good
<1>d. PICK d : d = LoadPreload(b, scope, TRUE, "batch")
  OBVIOUS
<1>4. Alike(b, d) /\ d.cache = b.cache
  BY <1>3, <1>d, LoadPreloadAlike
<1>5. Good(d)
  <2>1. Works(b, d)
    BY <1>3, <1>d, LoadPreloadWorks
  <2> QED
    BY <2>1 DEF Works
<1>6. Bears(page, {}, d, {})
  BY <1>1, <1>4, AlikeBears, BearsOn
<1>7. Sound(d) /\ (Others(page) => Others(d))
  BY <1>0, <1>6, BearsSound, BearsOthers DEF Left
<1>8. Fed(page) /\ scope.group \notin Teamless => Fed(d)
  <2>1. scope.group \notin Teamless => Loaded(d)
    BY <1>1, <1>4, AlikeLoaded
  <2>2. d.group = page.group /\ (HasRows(d.rows) => HasRows(page.rows))
    BY <1>1, <1>4 DEF Alike, Bears
  <2>3. Fed(page) => (d.group \in Teamless => ~HasRows(d.rows))
    BY <2>2 DEF Fed, Steady
  <2> QED
    BY <2>1, <2>3, LoadedFed
<1>9. strayed' = strayed /\ batch' = None
  BY DEF FinishBatch
<1>10. ~strayed => scope.group \notin Teamless
  BY <1>s DEF LInv
<1>11. page' = IF Snapshot(d) # Snapshot(page) THEN Rendered(d) ELSE d
  BY <1>s, <1>b, <1>d DEF FinishBatch
<1>12. /\ Left(page')
       /\ Fed(d) => Fed(page')
       /\ Others(d) => Others(page')
  <2>1. CASE Snapshot(d) # Snapshot(page)
    <3>1. page' = Rendered(d)
      BY <1>11, <2>1
    <3> QED
      BY <1>5, <1>7, <3>1, RenderedLeft
  <2>2. CASE Snapshot(d) = Snapshot(page)
    <3>1. page' = d
      BY <1>11, <2>2
    <3>2. d.cache = page.cache /\ d.group = page.group
      BY <1>1, <1>4, <1>6 DEF Bears
    <3>3. KeepsItself(d)
      BY <1>0, <2>2, <3>2 DEF Left, KeepsItself
    <3> QED
      BY <1>7, <3>1, <3>3 DEF Left
  <2> QED
    BY <2>1, <2>2
<1> QED
  BY <1>7, <1>8, <1>9, <1>10, <1>12, LInvKept

LEMMA InitLInv ==
  ASSUME Init
  PROVE  LInv
BY OpenedLeft DEF Init, LInv, Left

LEMMA NextLInv ==
  ASSUME IInv, LInv, [Next]_vars
  PROVE  LInv'
<1>1. CASE Network
  <2>1. CASE \E i \in DOMAIN page.asked : Answering(i)
    BY <2>1, AnswerLInv, SessionAnsweredLInv DEF Answering
  <2>2. CASE \E ok \in BOOLEAN : BacklogAnswer(ok)
    BY <2>2, BacklogAnswerLInv
  <2> QED
    BY <1>1, <2>1, <2>2, SprintsListedLInv, FinishSaveLInv, FinishBatchLInv, QuietLInv DEF Network
<1>2. CASE User
  <2>1. CASE \E s \in Sprints : SelectSprint(s)
    BY <2>1, SelectSprintLInv
  <2>2. CASE \E g \in Groups : SelectGroup(g) \/ SaveTeams(g)
    BY <2>2, SelectGroupLInv, SaveTeamsLInv
  <2>3. CASE \E i \in DOMAIN page.asked : SessionStale(i)
    BY <2>3, SessionStaleLInv
  <2> QED
    BY <1>2, <2>1, <2>2, <2>3, ToggleStatsLInv, ToggleEpmLInv, RefreshLInv, SaveSettingsLInv,
       SubmitBatchLInv DEF User
<1> QED
  BY <1>1, <1>2, QuietLInv DEF Next

LEMMA LInvComplete ==
  ASSUME IInv, LInv
  PROVE  LoadsComplete
<1>1. LoadingHasRequest
  <2>1. BusyOk(page, {})
    BY DEF LInv, Sound
  <2>2. \A p \in Projects : p # "preload"
    BY DEF Projects
  <2> QED
    BY <2>1, <2>2 DEF BusyOk, Waited, LoadingHasRequest
<1>2. ASSUME Quiet, ~strayed
      PROVE  /\ page.fetched
             /\ \A p \in Projects : page.rows[p].as # "blank"
             /\ page.group \notin Teamless => page.lastLoaded = page.sprint
  <2>1. Waited(page.asked) = {}
    BY <1>2, NothingAsked DEF Quiet
  <2>2. Coming(page, {}) /\ Marking(page, {}) /\ DoneOk(page)
    BY <1>2 DEF LInv, Fed, Sound, Quiet
  <2>3. page.fetched /\ \A p \in Projects : page.rows[p].as # "blank"
    BY <2>1, <2>2 DEF Coming
  <2>4. ASSUME page.group \notin Teamless, page.lastLoaded # page.sprint
        PROVE  FALSE
    <3>1. \A p \in Projects : page.mark.sprint = page.sprint /\ p \in page.mark.done
      BY <2>1, <2>2, <2>4 DEF Marking
    <3>2. "product" \in Projects
      BY DEF Projects
    <3>3. page.mark.sprint = page.sprint /\ Projects \subseteq page.mark.done
      BY <3>1, <3>2
    <3>4. page.mark.done \subseteq Projects
      BY DEF IInv, Settled, Good, Pages, Marks
    <3> QED
      BY <2>2, <2>4, <3>3, <3>4 DEF DoneOk
  <2> QED
    BY <2>3, <2>4
<1> QED
  BY <1>1, <1>2 DEF LoadsComplete, NothingForgotten

-----------------------------------------------------------------------------
\* Whatever is switched, saved, aborted or refreshed: a list with rows that is shown
\* or kept was loaded for its sprint, and for its group if it came while its scope was
\* selected, unless it is one that a Planning batch had loaded and that came when its
\* scope was no longer selected.  On the ENG view the backlog is that of the selected
\* scope or on its way.
THEOREM ShownListsAreOfTheSprint == Spec => []ShownOfSprint
<1>1. Init => IInv
  BY InitIInv
<1>2. IInv /\ [Next]_vars => IInv'
  BY NextIInv
<1>3. IInv => ShownOfSprint
  BY IInvShown
<1> QED
  BY <1>1, <1>2, <1>3, PTL DEF Spec

\* A page that says it is loading has a request under way.  Once no request is,
\* both lists have been answered for and the mark that lets the other requests
\* start names the selected sprint, as long as the group and its teams did not
\* change while lists were under way and no list came for another scope.
THEOREM NothingIsForgotten == Spec => []LoadsComplete
<1>1. Init => IInv /\ LInv
  BY InitIInv, InitLInv
<1>2. IInv /\ LInv /\ [Next]_vars => (IInv /\ LInv)'
  BY NextIInv, NextLInv
<1>3. IInv /\ LInv => LoadsComplete
  BY LInvComplete
<1> QED
  BY <1>1, <1>2, <1>3, PTL DEF Spec
==============================================================================
