---------------------------- MODULE DraftHistory ----------------------------
(***************************************************************************)
(* What the scenario-draft service promises its clients, whatever its      *)
(* transactions do: the draft of a scope is an append-only history of      *)
(* versions, a write appends exactly one version and only if the writer    *)
(* had seen the last one, and every request is answered at most once.      *)
(* ScenarioDrafts.tla is shown to implement this module.                   *)
(***************************************************************************)
EXTENDS Naturals, Sequences

CONSTANTS Requests,  \* calls of the service
          Outcomes   \* what a call can be answered with, "none" and "saved" among it

VARIABLES history,   \* who wrote each version, and from which revision
          outcome    \* the answer each request got, "none" before it

vars == <<history, outcome>>

Init ==
    /\ history = <<>>
    /\ outcome = [r \in Requests |-> "none"]

\* The first version needs no base; any later one needs the last revision.
Write(r, base) ==
    /\ outcome[r] = "none"
    /\ history = <<>> \/ base = Len(history)
    /\ history' = Append(history, [by |-> r, base |-> base])
    /\ outcome' = [outcome EXCEPT ![r] = "saved"]

\* Refused, failed, or a call that writes no version: the history is kept.
Answer(r, result) ==
    /\ outcome[r] = "none"
    /\ outcome' = [outcome EXCEPT ![r] = result]
    /\ UNCHANGED history

Next ==
    \E r \in Requests :
        \/ \E base \in 0 .. Len(history) : Write(r, base)
        \/ \E result \in Outcomes \ {"none", "saved"} : Answer(r, result)

Spec == Init /\ [][Next]_vars
=============================================================================
