----------------------------- MODULE MCDraftLocks -----------------------------
(* Two users, requests of either, three ticks with a lock of one or two.     *)
EXTENDS DraftLocks, TLC

Symmetry == Permutations(Users) \union Permutations(Requests)
=============================================================================
