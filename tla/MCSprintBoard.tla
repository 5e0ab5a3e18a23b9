---------------------------- MODULE MCSprintBoard ----------------------------
(* Two sprints, one of them in the future, and three groups, one of them    *)
(* without teams.                                                           *)
EXTENDS SprintBoard

CONSTANTS now, next, ga, gb, gc

MCSprints == {now, next}
MCFuture == {next}
MCGroups == {ga, gb, gc}
MCTeamless == {gc}
=============================================================================
