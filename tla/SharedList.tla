----------------------------- MODULE SharedList -----------------------------
(***************************************************************************)
(* What a two-way sync promises, however it is done and whatever goes      *)
(* wrong with it: a list changes when a user edits it, when items that     *)
(* have been on another list are copied to it, and when items that a user  *)
(* has deleted are withdrawn from it.  Edits are counted, so that nothing  *)
(* but a user's edit can bring in an item that was nowhere.  TwoWaySync    *)
(* and PairChain are shown to implement this                               *)
(* (cw_platform/orchestrator/_pairs_twoway.py).                            *)
(***************************************************************************)
EXTENDS Naturals

CONSTANTS Sites, Keys

VARIABLES
    items,    \* items[s]: the list at site s
    gone,     \* what some user has deleted, ever
    edits     \* how often a list was edited by a user

SharedInit ==
    /\ items \in [Sites -> SUBSET Keys]
    /\ gone = {} /\ edits = 0

\* A user adds D.
AddItems(s, D) ==
    /\ items' = [items EXCEPT ![s] = @ \cup D]
    /\ UNCHANGED gone /\ edits' = edits + 1

\* A user deletes k.
DeleteItem(s, k) ==
    /\ k \in items[s]
    /\ items' = [items EXCEPT ![s] = @ \ {k}]
    /\ gone' = gone \cup {k} /\ edits' = edits + 1

\* What is on another list, or was until somebody deleted it.
Elsewhere(s) == (UNION {items[t] : t \in Sites \ {s}}) \cup gone

\* Items are copied to s.
CopyTo(s) ==
    /\ \E D \in SUBSET Elsewhere(s) : items' = [items EXCEPT ![s] = @ \cup D]
    /\ UNCHANGED <<gone, edits>>

\* Items that were deleted are withdrawn from s.
WithdrawFrom(s) ==
    /\ \E D \in SUBSET gone : items' = [items EXCEPT ![s] = @ \ D]
    /\ UNCHANGED <<gone, edits>>

SharedNext ==
    \E s \in Sites :
        \/ \E D \in SUBSET Keys : AddItems(s, D)
        \/ \E k \in Keys : DeleteItem(s, k)
        \/ CopyTo(s)
        \/ WithdrawFrom(s)

SharedSpec == SharedInit /\ [][SharedNext]_<<items, gone, edits>>

InStep == \A s, t \in Sites : items[s] = items[t]

\* With users and faults coming to rest, the lists become and stay equal.
LiveSharedSpec == SharedSpec /\ <>[]InStep
=============================================================================
