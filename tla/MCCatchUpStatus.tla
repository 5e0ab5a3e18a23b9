--------------------------- MODULE MCCatchUpStatus ---------------------------
(* Three issues compete for two slots of the queue with up to three writes *)
(* of two fields.                                                          *)
EXTENDS CatchUpStatus, TLC

CONSTANTS i1, i2, i3

MCIssues == {i1, i2, i3}
MCFields == {"status", "priority"}
MCValues == {"a", "b"}

\* Keys only name issues: the queue orders jobs by arrival, not by key.
Symmetry == Permutations(MCIssues)
=============================================================================
