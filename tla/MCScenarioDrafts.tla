-------------------------- MODULE MCScenarioDrafts --------------------------
(* Four calls of the draft service on one scope, in every interleaving.    *)
EXTENDS ScenarioDrafts, TLC

CONSTANTS r1, r2, r3, r4

MCFourRequests == {r1, r2, r3, r4}

\* A call is identified only by what it does: the names are interchangeable.
Symmetry == Permutations(MCFourRequests)
=============================================================================
