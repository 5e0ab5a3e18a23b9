----------------------------- MODULE MCScheduler -----------------------------
(* Three issues of ten kinds under every graph of dependencies between    *)
(* them, in both lane modes, and some graphs with issues that are not     *)
(* scheduled: a team with two slots, one with one, two assignees.  Days   *)
(* of four ticks and issues of two, four and six.                         *)
EXTENDS Scheduler

MCKeys == {1, 2, 3}
MCOutside == {7}
MCTeams == {"t", "u"}
MCAssignees == {"a", "b"}
MCSlots == [x \in MCTeams |-> IF x = "t" THEN 2 ELSE 1]
MCIssue(team, assignee, points, rank, status) ==
    [team |-> team, assignee |-> assignee, points |-> points,
     rank |-> rank, status |-> status]
MCKinds ==
    {MCIssue("t", "-", 3, 1, "todo"), MCIssue("t", "-", 1, 0, "todo"),
     MCIssue("t", "a", 1, 0, "todo"), MCIssue("t", "a", 3, 1, "blocked"),
     MCIssue("u", "-", 1, 1, "todo"), MCIssue("t", "b", 1, 1, "todo"),
     MCIssue("t", "a", 5, 0, "active"), MCIssue("t", "a", 1, 0, "active"),
     MCIssue("u", "-", 1, 0, "done"), MCIssue("u", "a", 0, 0, "todo")}
MCGraphs ==
    SUBSET {e \in MCKeys \X MCKeys : e[1] # e[2]}
    \union {{<<1, 7>>, <<2, 1>>}, {<<7, 1>>}, {<<7, 1>>, <<7, 2>>, <<2, 3>>, <<3, 2>>}}
=============================================================================
