---------------------------- MODULE MCDraftEditor ----------------------------
(* One browser tab, two scopes, and other users storing versions.          *)
EXTENDS DraftEditor, TLC

CONSTANTS A, B, edit1, edit2

MCScopes == {A, B}
MCEdits == {edit1, edit2}
MCOneEdit == {edit1, NoOverrides}

\* Scopes are interchangeable, and so are maps of edits.
Symmetry == Permutations(MCScopes) \union Permutations(MCEdits)
=============================================================================
