------------------------- MODULE MCPlanningSelection -------------------------
(* A sprint that runs and one of the future, two groups that share a team,  *)
(* and three tasks, each of them in either sprint at first.                 *)
EXTENDS PlanningSelection

CONSTANTS now, later, ga, gb, ta, tb, k1, k2, k3

MCSprints == {now, later}
MCFuture == {later}
MCGroups == {ga, gb}
MCTeams == {ta, tb}
MCTeamsOf == ga :> {ta, tb} @@ gb :> {tb}
MCTasks == {k1, k2, k3}
MCTeamOf == k1 :> ta @@ k2 :> ta @@ k3 :> tb
MCAccepted == {k1}
MCMatching == {k1, k3}
=============================================================================
