----------------------------- MODULE TwoWaySync -----------------------------
(***************************************************************************)
(* A two-way pair syncing one presence feature, the watchlist              *)
(* (cw_platform/orchestrator/_pairs_twoway.py, _two_way_sync), between two *)
(* providers whose lists their users go on editing.                        *)
(*                                                                         *)
(* A run takes a snapshot of each side, compares it with the baseline the  *)
(* last run saved, plans removals and adds, applies them side by side      *)
(* through the providers and saves the new baselines.  Between any two of  *)
(* those steps a user may edit either list, the run may be cancelled or    *)
(* the process may die; every write may fail in part or raise.             *)
(*                                                                         *)
(* An item is its canonical key, the only token it has.  Not modelled      *)
(* here: matching of items that have different keys on the two sides,      *)
(* ratings, history and progress (items with a value or a time), manual    *)
(* adds and blocks, library and dropped-show filters, the drop guard       *)
(* (off by default), PhantomGuard (never on: it reads a top-level          *)
(* "blackbox" section), destinations that answer "accepted, not live", the *)
(* snapshot cache (it serves the further pairs of a run).                  *)
(***************************************************************************)
EXTENDS Applier

CONSTANTS
    Keys,               \* items that may be on the lists
    TTL,                \* life of a tombstone, in ticks of the model's clock
    AllowAdds,          \* feature flag "add"
    AllowRemovals,      \* feature flag "remove"
    IncludeObserved,    \* sync.include_observed_deletes
    VerifyAfterWrite,   \* sync.verify_after_write
    AllowMassDelete,    \* sync.allow_mass_delete
    MassPct,            \* runtime.suspect_shrink_ratio, as a percentage
    BlackboxEnabled,    \* sync.blackbox.enabled
    PromoteAfter,       \* sync.blackbox.promote_after
    ReportModes,        \* how the providers answer a batch, see Report
    Faults,             \* kinds of fault that may happen
    MaxFaults,          \* bound: number of faults in a behaviour
    MaxEdits            \* bound: number of user edits in a behaviour

FaultKinds == {"partial", "raise", "cancel", "crash", "down", "empty", "dry"}

ASSUME TTLAssumption == TTL \in Nat \ {0}
ASSUME FlagsAssumption ==
    /\ AllowAdds \in BOOLEAN /\ AllowRemovals \in BOOLEAN
    /\ IncludeObserved \in BOOLEAN /\ VerifyAfterWrite \in BOOLEAN
    /\ AllowMassDelete \in BOOLEAN /\ BlackboxEnabled \in BOOLEAN
ASSUME NumbersAssumption ==
    PromoteAfter \in Nat \ {0} /\ MassPct \in 1..100 /\ MaxFaults \in Nat /\ MaxEdits \in Nat
ASSUME KeysAssumption == IsFiniteSet(Keys)
ASSUME ModesAssumption == ReportModes \subseteq {"exact", "count", "errors"}
ASSUME FaultsAssumption == Faults \subseteq FaultKinds

Side == {"A", "B"}
Other(s) == IF s = "A" THEN "B" ELSE "A"

VARIABLES
    items,    \* items[s]: what is on the list of side s now
    \* files of the application
    base,     \* base[s]: the baseline of side s
    tomb,     \* tomb[k]: ticks the pair's tombstone of k still has, 0 when there is none
    pend,     \* pend[s][k]: the write of k on s recorded as unresolved
    flap,     \* flap[s][k]: consecutive failed adds of k on s (counted to PromoteAfter)
    bbox,     \* bbox[s]: the blackbox of side s
    \* locals of the run in progress
    pc,       \* the step it is at
    dry,      \* it is a dry run
    down,     \* sides its health check found down
    cancel,   \* cancellation has been requested
    taken,    \* sides whose snapshot is taken
    snap,     \* A_cur, B_cur
    eff,      \* A_eff, B_eff
    rem,      \* rem_from_A, rem_from_B
    add,      \* add_to_A, add_to_B
    \* history: not in the code, read by the properties only
    gone,     \* keys a user has ever deleted
    lost,     \* lost[s]: deleted by the user of s while it was in the baseline and
              \*   no newer add of it was under way, and not added since
    fresh,    \* fresh[s]: added by the user of s and not yet synchronised
    calm,     \* no fault and no edit since the run in progress began
    \* bounds
    edits, faults

files == <<base, tomb, pend, flap, bbox>>
locals == <<dry, down, cancel, taken, snap, eff, rem, add>>
history == <<gone, lost, fresh>>
vars == <<items, files, pc, locals, history, calm, edits, faults>>

Nothing == [s \in Side |-> {}]

Fault(kind) ==
    kind \in Faults /\ faults < MaxFaults /\ faults' = faults + 1

Init ==
    /\ items \in [Side -> SUBSET Keys]
    /\ base = Nothing
    /\ tomb = [k \in Keys |-> 0]
    /\ pend = [s \in Side |-> [k \in Keys |-> "none"]]
    /\ flap = [s \in Side |-> [k \in Keys |-> 0]]
    /\ bbox = Nothing
    /\ pc = "idle" /\ dry = FALSE /\ down = {} /\ cancel = FALSE
    /\ taken = {} /\ snap = Nothing /\ eff = Nothing /\ rem = Nothing /\ add = Nothing
    /\ gone = {} /\ lost = Nothing /\ fresh = Nothing /\ calm = FALSE
    /\ edits = 0 /\ faults = 0

-----------------------------------------------------------------------------
(* The users, who see only their own list, and the clock *)

UserAdd(s, k) ==
    /\ edits < MaxEdits /\ edits' = edits + 1
    /\ k \notin items[s]
    /\ items' = [items EXCEPT ![s] = @ \cup {k}]
    /\ lost' = [t \in Side |-> lost[t] \ {k}]
    /\ fresh' = [fresh EXCEPT ![s] = @ \cup {k}]
    /\ calm' = FALSE
    /\ UNCHANGED <<files, pc, locals, gone, faults>>

UserDelete(s, k) ==
    /\ edits < MaxEdits /\ edits' = edits + 1
    /\ k \in items[s]
    /\ items' = [items EXCEPT ![s] = @ \ {k}]
    /\ gone' = gone \cup {k}
    /\ lost' = [lost EXCEPT ![s] = IF k \in base[s] \ fresh[Other(s)] THEN @ \cup {k} ELSE @]
    /\ fresh' = [fresh EXCEPT ![s] = @ \ {k}]
    /\ calm' = FALSE
    /\ UNCHANGED <<files, pc, locals, faults>>

\* A tombstone lives days and a run minutes, so time passes between runs.
\* Every run begins by pruning the tombstones whose life is over; the model
\* drops them when they get there.
Tick ==
    /\ pc = "idle"
    /\ \E k \in Keys : tomb[k] > 0
    /\ tomb' = [k \in Keys |-> AtLeastZero(tomb[k] - 1)]
    /\ UNCHANGED <<items, base, pend, flap, bbox, pc, locals, history, calm, edits, faults>>

-----------------------------------------------------------------------------
(* A run up to its plan *)

\* The run begins: health of both sides, dry or not.
StartRun(isDry, D) ==
    /\ pc = "idle" /\ pc' = "snap"
    /\ dry' = isDry /\ down' = D
    /\ \/ ~isDry /\ D = {} /\ UNCHANGED faults
       \/ isDry /\ D = {} /\ Fault("dry")
       \/ ~isDry /\ D # {} /\ Fault("down")
    /\ calm' = (~isDry /\ D = {})
    /\ UNCHANGED <<items, files, cancel, taken, snap, eff, rem, add, history, edits>>

\* build_index of one side; SIMKL is read first wherever it stands in the
\* pair, so either order occurs.
TakeSnapshot(s) ==
    /\ pc = "snap" /\ s \notin taken /\ ~cancel
    /\ \/ snap' = [snap EXCEPT ![s] = items[s]] /\ UNCHANGED <<calm, faults>>
       \/ snap' = [snap EXCEPT ![s] = {}] /\ Fault("empty") /\ calm' = FALSE
    /\ taken' = taken \cup {s}
    /\ pc' = IF taken' = Side THEN "plan" ELSE "snap"
    /\ UNCHANGED <<items, files, dry, down, cancel, eff, rem, add, history, edits>>

\* The run is over: nothing of it remains but what it wrote.
RunOver ==
    /\ pc' = "idle" /\ dry' = FALSE /\ down' = {} /\ cancel' = FALSE
    /\ taken' = {} /\ snap' = Nothing /\ eff' = Nothing /\ rem' = Nothing /\ add' = Nothing
    /\ calm' = FALSE

\* prune_blackbox, at the end of every run, forgets the entries whose cooldown
\* is over: any of them here, the model keeping no age of an entry.
PruneBlackbox ==
    \E kept \in [Side -> SUBSET Keys] :
        (\A s \in Side : kept[s] \subseteq bbox[s]) /\ bbox' = kept

\* build_index raises, or raise_if_cancelled does: the feature is abandoned.
SnapshotFails ==
    /\ pc = "snap"
    /\ \/ cancel /\ UNCHANGED faults
       \/ ~cancel /\ Fault("raise")
    /\ PruneBlackbox
    /\ RunOver
    /\ UNCHANGED <<items, base, tomb, pend, flap, history, edits>>

\* run_two_way_feature and _two_way_sync switch it off when a side is down.
ObserveDeletes == IncludeObserved /\ down = {}

\* Keys with a live tombstone (tomb_map, as loaded before the run adds to it).
Tombs == {k \in Keys : tomb[k] > 0}

Bootstrap == base["A"] = {} /\ base["B"] = {} /\ Tombs = {}

\* shrinkA, shrinkB and obsA, obsB
Shrunk(s) == base[s] \ snap[s]
Observed(s) == IF ObserveDeletes /\ ~Bootstrap THEN Shrunk(s) ELSE {}

\* A_eff, B_eff when planning.  Every provider's watchlist index is of the
\* "present" kind, the whole list.
Effective(s) == snap[s] \ Observed(s)

\* _tomb_blocks_remove for an item of side s; the mutant forgets _prev_had.
TombBlocksRemoveMutant(s, k) == k \in Tombs
TombBlocksRemove(s, k) == k \in Tombs /\ k \in base[s]

\* The items of s that the other side lacks are to be removed from s or added
\* to the other side.
OnlyOn(s) == Effective(s) \ Effective(Other(s))

\* The mutant needs no baseline: what the other side lacks it has deleted.
DeletionWantedNoBaseline(s, k) ==
    AllowRemovals /\ (k \in Tombs \/ k \notin Effective(Other(s)))

DeletionWanted(s, k) ==
    /\ AllowRemovals
    /\ TombBlocksRemove(s, k) \/ k \in Observed(Other(s)) \/ k \in Shrunk(Other(s))
    /\ k \in base[Other(s)] \/ TombBlocksRemove(s, k)

PlannedRemovals(s) ==
    IF Bootstrap THEN {} ELSE {k \in OnlyOn(s) : DeletionWanted(s, k)}

\* Mutants: a tombstone blocks every add; so does an earlier failure.
PlannedAddsTombBlocks(s) ==
    {k \in OnlyOn(Other(s)) : ~DeletionWanted(Other(s), k) /\ k \notin Tombs}
PlannedAddsPendingBlocks(s) ==
    {k \in OnlyOn(Other(s)) : ~DeletionWanted(Other(s), k) /\ pend[s][k] # "add"}

PlannedAdds(s) ==
    IF AllowAdds THEN {k \in OnlyOn(Other(s)) : ~DeletionWanted(Other(s), k)} ELSE {}

\* _retry_pending_removes: removals that failed before are tried again, or
\* forgotten when the other side has the item or this side no longer does.
PendingRemovals(s) ==
    IF AllowRemovals THEN {k \in Keys : pend[s][k] = "remove"} ELSE {}
\* Mutants: failed removals are not retried; retried whatever the lists say.
RetriedNever(s) == {}
RetriedAlways(s) == PendingRemovals(s)
Retried(s) == PendingRemovals(s) \cap OnlyOn(s)
Stale(s) == PendingRemovals(s) \ OnlyOn(s)

Removals(s) == PlannedRemovals(s) \cup Retried(s)

\* maybe_block_mass_delete
MassDeleteBlocked(s) ==
    /\ ~AllowMassDelete
    /\ Cardinality(Removals(s)) > (Cardinality(Effective(s)) * MassPct) \div 100

Plan ==
    /\ pc = "plan" /\ pc' = "rem_a"
    /\ tomb' = Mark(tomb, (Observed("A") \cup Observed("B")) \ Tombs, TTL)
    /\ eff' = [s \in Side |-> Effective(s)]
    /\ pend' = IF dry THEN pend ELSE [s \in Side |-> Mark(pend[s], Stale(s), "none")]
    /\ rem' = [s \in Side |-> IF MassDeleteBlocked(s) THEN {} ELSE Removals(s)]
    /\ add' = [s \in Side |-> PlannedAdds(s) \ (Removals("A") \cup Removals("B"))]
    /\ taken' = {} /\ snap' = Nothing
    /\ UNCHANGED <<items, base, flap, bbox, dry, down, cancel, history, calm, edits, faults>>

-----------------------------------------------------------------------------
(* Applying the plan *)

\* apply_add / apply_remove: what the provider did and what is made of its
\* answer; once the run is cancelled no provider is called.
Outcomes(tag, W) ==
    IF cancel
    THEN {[done |-> {}, res |-> Cancelled]}
    ELSE {[done |-> D, res |-> Normalize(tag, Report(m, W, D), W)] :
             D \in SUBSET W, m \in ReportModes}

\* A write that is not complete is a fault, unless a cancellation explains it.
Complete(W, out) ==
    \/ (out.done = W \/ cancel) /\ UNCHANGED <<calm, faults>>
    \/ out.done # W /\ ~cancel /\ Fault("partial") /\ calm' = FALSE

RemoveOutcome(s, out) ==
    LET success == RemoveSuccess(rem[s], out.res)
    IN  /\ items' = [items EXCEPT ![s] = @ \ out.done]
        /\ eff' = [eff EXCEPT ![s] = @ \ success]
        /\ tomb' = Mark(tomb, success \ Tombs, TTL)
        /\ pend' = [pend EXCEPT ![s] =
                       Mark(Mark(@, success, "none"), rem[s] \ success, "remove")]
        /\ Complete(rem[s], out)

Remove(s, here, next) ==
    /\ pc = here /\ pc' = next
    /\ rem' = [rem EXCEPT ![s] = {}]
    /\ \/ /\ rem[s] = {} \/ (dry /\ s \notin down)
          /\ UNCHANGED <<items, eff, tomb, pend, calm, faults>>
       \/ /\ rem[s] # {} /\ s \in down
          /\ pend' = [pend EXCEPT ![s] = Mark(@, rem[s], "remove")]
          /\ UNCHANGED <<items, eff, tomb, calm, faults>>
       \/ /\ rem[s] # {} /\ s \notin down /\ ~dry
          /\ \E out \in Outcomes("apply:remove", rem[s]) : RemoveOutcome(s, out)
    /\ UNCHANGED <<base, flap, bbox, dry, down, cancel, taken, snap, add, history, edits>>

\* record_attempts: the keys that failed once too often
Promoted(s, failed) ==
    IF BlackboxEnabled
    THEN {k \in failed \ bbox[s] : flap[s][k] + 1 >= PromoteAfter}
    ELSE {}

CountFailures(s, success, failed) ==
    [k \in Keys |-> IF k \in success THEN 0
                    ELSE IF BlackboxEnabled /\ k \in failed
                         THEN Lesser(flap[s][k] + 1, PromoteAfter)
                         ELSE flap[s][k]]

\* record_unresolved for failed adds: the generic reason "apply:add:failed"
\* does not displace the reason of a pending removal, "unaccounted" does.
PendingAdds(s, success, failed, promoted, unaccounted) ==
    [k \in Keys |->
        IF k \in success \cup promoted THEN "none"
        ELSE IF k \in unaccounted THEN "add"
        ELSE IF k \in failed /\ pend[s][k] # "remove" THEN "add"
        ELSE pend[s][k]]

AddOutcome(s, out, success) ==
    LET failed == IF AmbiguousPartial(add[s], out.res) THEN {}
                  ELSE AddFailures(add[s], out.res, success)
        promoted == Promoted(s, failed)
    IN  /\ items' = [items EXCEPT ![s] = @ \cup out.done]
        /\ eff' = [eff EXCEPT ![s] = @ \cup success]
        /\ tomb' = Mark(tomb, success, 0)
        /\ flap' = [flap EXCEPT ![s] = CountFailures(s, success, failed)]
        /\ bbox' = [bbox EXCEPT ![s] = @ \cup promoted]
        /\ pend' = [pend EXCEPT ![s] =
                       PendingAdds(s, success, failed, promoted, out.res.ukeys)]
        /\ Complete(add[s], out)

Add(s, here, next) ==
    /\ pc = here /\ pc' = next
    /\ add' = [add EXCEPT ![s] = {}]
    /\ \/ /\ add[s] = {} \/ (dry /\ s \notin down)
          /\ UNCHANGED <<items, eff, tomb, pend, flap, bbox, calm, faults>>
       \/ /\ add[s] # {} /\ s \in down
          /\ pend' = [pend EXCEPT ![s] = Mark(@, add[s], "add")]
          /\ UNCHANGED <<items, eff, tomb, flap, bbox, calm, faults>>
       \/ /\ add[s] # {} /\ s \notin down /\ ~dry
          /\ \E out \in Outcomes("apply:add", add[s]) :
                \E success \in AddSuccesses(add[s], out.res, VerifyAfterWrite) :
                    AddOutcome(s, out, success)
    /\ UNCHANGED <<base, dry, down, cancel, taken, snap, rem, history, edits>>

\* The provider still raises at the third attempt, with part of the batch
\* done: the feature is abandoned and its baselines are not saved.
WriteRaises(s) ==
    LET work == IF pc = "rem_a" \/ pc = "rem_b" THEN rem[s] ELSE add[s]
    IN  /\ pc \in (IF s = "A" THEN {"rem_a", "add_a"} ELSE {"rem_b", "add_b"})
        /\ work # {} /\ s \notin down /\ ~cancel
        /\ Fault("raise")
        /\ \E done \in SUBSET (IF dry THEN {} ELSE work) :
              items' = [items EXCEPT ![s] =
                           IF pc \in {"rem_a", "rem_b"} THEN @ \ done ELSE @ \cup done]
        /\ PruneBlackbox
        /\ RunOver
        /\ UNCHANGED <<base, tomb, pend, flap, history, edits>>

-----------------------------------------------------------------------------
(* The end of a run *)

\* save_feature_blocks saves both baselines, in a dry run as well.
Commit ==
    /\ pc = "commit"
    /\ base' = eff
    /\ fresh' = [s \in Side |-> fresh[s] \ (eff["A"] \cap eff["B"])]
    /\ PruneBlackbox
    /\ RunOver
    /\ UNCHANGED <<items, tomb, pend, flap, gone, lost, edits, faults>>

\* A user presses cancel; the run notices where it looks at the flag.
RequestCancel ==
    /\ pc # "idle" /\ ~cancel
    /\ Fault("cancel")
    /\ cancel' = TRUE /\ calm' = FALSE
    /\ UNCHANGED <<items, files, pc, dry, down, taken, snap, eff, rem, add, history, edits>>

\* The process dies between two steps.
Crash ==
    /\ pc # "idle"
    /\ Fault("crash")
    /\ RunOver
    /\ UNCHANGED <<items, files, history, edits>>

RunStep ==
    \/ \E s \in Side : TakeSnapshot(s)
    \/ SnapshotFails
    \/ Plan
    \/ Remove("A", "rem_a", "rem_b")
    \/ Remove("B", "rem_b", "add_a")
    \/ Add("A", "add_a", "add_b")
    \/ Add("B", "add_b", "commit")
    \/ Commit

Next ==
    \/ \E s \in Side, k \in Keys : UserAdd(s, k)
    \/ \E s \in Side, k \in Keys : UserDelete(s, k)
    \/ Tick
    \/ \E isDry \in BOOLEAN, D \in SUBSET Side : StartRun(isDry, D)
    \/ RunStep
    \/ \E s \in Side : WriteRaises(s)
    \/ RequestCancel
    \/ Crash

Spec == Init /\ [][Next]_vars

\* The scheduler goes on starting runs and every run ends (provider calls have
\* timeouts); nothing is assumed of users, faults and the clock.
FairSpec == Spec /\ WF_vars(StartRun(FALSE, {})) /\ WF_vars(RunStep)

-----------------------------------------------------------------------------
(* Properties *)

\* Types of all variables: the files, the locals of a run, the history.
TypeOK ==
    /\ items \in [Side -> SUBSET Keys]
    /\ base \in [Side -> SUBSET Keys]
    /\ tomb \in [Keys -> 0..TTL]
    /\ pend \in [Side -> [Keys -> {"none", "add", "remove"}]]
    /\ flap \in [Side -> [Keys -> 0..PromoteAfter]]
    /\ bbox \in [Side -> SUBSET Keys]
    /\ pc \in {"idle", "snap", "plan", "rem_a", "rem_b", "add_a", "add_b", "commit"}
    /\ dry \in BOOLEAN /\ down \subseteq Side /\ cancel \in BOOLEAN
    /\ taken \subseteq Side
    /\ snap \in [Side -> SUBSET Keys]
    /\ eff \in [Side -> SUBSET Keys]
    /\ rem \in [Side -> SUBSET Keys]
    /\ add \in [Side -> SUBSET Keys]
    /\ gone \subseteq Keys
    /\ lost \in [Side -> SUBSET Keys]
    /\ fresh \in [Side -> SUBSET Keys]
    /\ calm \in BOOLEAN
    /\ edits \in 0..MaxEdits /\ faults \in 0..MaxFaults

\* The sync never removes an item from a list unless some user has deleted it
\* from one of the two: removals are copies of user deletions, whatever fails,
\* is cancelled, crashes or is retried (PlannedRemovals, Retried, Remove).
RemovalsWereAsked == [][\A s \in Side : items[s] \ items'[s] \subseteq gone']_vars

\* A baseline is evidence: every key it holds is on that list, or was until a
\* user deleted it.  What a next run takes for an "observed deletion" rests on
\* it, so a write that did not happen must not get into it (Add, Commit).
BaselineIsEvidence == \A s \in Side : base[s] \subseteq items[s] \cup gone

\* Why both hold.  Whatever a run can take for a reason to remove an item is
\* the trace of a user's deletion: a baseline key missing from a snapshot, a
\* tombstone, a removal recorded as unresolved; and the plan holds nothing
\* else.  Inductive when the providers report truthfully.
SnapshotsTellDeletions ==
    /\ \A s \in Side : snap[s] \subseteq items[s] \cup gone
    /\ \A s \in taken : base[s] \ snap[s] \subseteq gone
    /\ pc = "plan" => taken = Side
EffectiveIsEvidence == \A s \in Side : eff[s] \subseteq items[s] \cup gone
TombsTellDeletions == \A k \in Keys : tomb[k] > 0 => k \in gone
PendingTellsDeletions == \A s \in Side, k \in Keys : pend[s][k] = "remove" => k \in gone
PlanTellsDeletions == \A s \in Side : rem[s] \subseteq gone

DeletionEvidence ==
    /\ BaselineIsEvidence
    /\ SnapshotsTellDeletions
    /\ EffectiveIsEvidence
    /\ TombsTellDeletions
    /\ PendingTellsDeletions
    /\ PlanTellsDeletions

\* An item the user of one side deleted is not planned to be added back to
\* that side, unless it was added anew somewhere since; also when the removal
\* from the other side failed, was lost in a crash or is long ago.
NoResurrection ==
    [][pc = "plan" /\ pc' = "rem_a" => \A s \in Side : add'[s] \cap lost[s] = {}]_vars

\* As long as no write fails, an item its user added and which the baseline does
\* not know is never removed again before it has been synchronised, even if the
\* pair has a tombstone of it (_prev_had in _tomb_blocks_remove).
FreshAddsKept == faults = 0 => \A s \in Side : rem[s] \cap (fresh[s] \ base[s]) = {}

\* A run that nothing disturbs leaves both lists equal and its new baselines
\* the same as the lists, whatever earlier runs left behind.
CleanRunConverges ==
    pc = "commit" /\ calm => items["A"] = items["B"] /\ eff = items

\* Once the users and the faults come to rest, the lists become and stay
\* equal, whatever has happened: wrong answers, empty snapshots and dry runs
\* included.
EventuallyEqual == <>[](items["A"] = items["B"])

\* Once the users and the faults come to rest, the lists become and stay
\* equal, the baselines agree with them, and what a user deleted on one side
\* is gone on the other.
Settled ==
    /\ items["A"] = items["B"]
    /\ \A s \in Side : lost[s] \cap items[Other(s)] = {}
EventuallySettled == <>[]Settled

\* The whole of it: users and sync together do to the two lists what
\* SharedList allows.
Shared == INSTANCE SharedList WITH Sites <- Side
ImplementsSharedList == Shared!SharedSpec
=============================================================================
