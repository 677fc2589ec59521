----------------------------- MODULE OneWaySync -----------------------------
(***************************************************************************)
(* A one-way pair syncing a watchlist or ratings from a source to a        *)
(* destination (cw_platform/orchestrator/_pairs_oneway.py,                 *)
(* run_one_way_feature), while the users of both go on editing.            *)
(*                                                                         *)
(* A run reads both lists, plans updates, adds and removals for the        *)
(* destination, applies them in this order and saves what it knows of both *)
(* lists as baselines.  What is to be removed depends on the remove mode:  *)
(* "source_deletes" removes what has disappeared from the source since its *)
(* baseline, "mirror" what the source does not have.                       *)
(*                                                                         *)
(* A list is a function from keys to values, Absent where it has no entry. *)
(* On a watchlist there is one value, of ratings several.  Ratings also    *)
(* have the blocklist (_pairs_blocklist.py, apply_blocklist): tombstones   *)
(* and the blackbox keep items out of the adds.                            *)
(*                                                                         *)
(* Not modelled here: matching of items with different keys, history and   *)
(* progress, manual adds and blocks, library and dropped-show filters,     *)
(* anime mapping, the drop guard, PhantomGuard (never on), delta indexes,  *)
(* destinations that answer "accepted, not live", a source that is down    *)
(* (nothing is read or written then) and a disabled blackbox.              *)
(***************************************************************************)
EXTENDS Applier

CONSTANTS
    Keys,               \* items that may be on the lists
    Values,             \* values an entry may have: one for a watchlist
    FirstValues,        \* bound: values entries have before the first edit
    Feature,            \* "watchlist" or "ratings"
    RemoveModes,        \* the remove modes a pair may be set to
    TTL,                \* life of a tombstone, in ticks of the model's clock
    Cooldown,           \* stay in the blackbox, in ticks
    Dated,              \* the source reports when an item was rated
    AllowRemovals,      \* feature flag "remove"
    IncludeObserved,    \* sync.include_observed_deletes
    VerifyAfterWrite,   \* sync.verify_after_write
    AllowMassDelete,    \* sync.allow_mass_delete
    MassPct,            \* runtime.suspect_shrink_ratio, as a percentage
    PromoteAfter,       \* sync.blackbox.promote_after
    ChunkSize,          \* runtime.apply_chunk_size
    ReportModes,        \* how the destination answers a batch, see Report
    Faults,             \* kinds of fault that may happen
    MaxFaults,          \* bound: number of faults in a behaviour
    MaxEdits            \* bound: number of user edits in a behaviour

Absent == 0

ASSUME OneWayKeysAssumption == IsFiniteSet(Keys) /\ Cardinality(Keys) <= 2 * ChunkSize
ASSUME OneWayValuesAssumption == Values \subseteq Nat \ {Absent} /\ FirstValues \subseteq Values
ASSUME OneWayFlagsAssumption ==
    /\ Feature \in {"watchlist", "ratings"}
    /\ RemoveModes \subseteq {"source_deletes", "mirror"}
    /\ Dated \in BOOLEAN /\ AllowRemovals \in BOOLEAN /\ IncludeObserved \in BOOLEAN
    /\ VerifyAfterWrite \in BOOLEAN /\ AllowMassDelete \in BOOLEAN
ASSUME OneWayNumbersAssumption ==
    /\ TTL \in Nat \ {0} /\ Cooldown \in Nat \ {0} /\ PromoteAfter \in Nat \ {0}
    /\ ChunkSize \in Nat \ {0} /\ MassPct \in 1..100 /\ MaxFaults \in Nat /\ MaxEdits \in Nat
ASSUME OneWayModesAssumption == ReportModes \subseteq {"exact", "count", "errors"}
ASSUME OneWayFaultsAssumption ==
    Faults \subseteq {"partial", "raise", "cancel", "crash", "down", "dry"}

VARIABLES
    src, dst,      \* what is on the two lists now
    mode,          \* the remove mode of the pair
    \* files of the application
    baseSrc, baseDst,  \* the baselines
    tomb,          \* tomb[k]: ticks the pair's tombstone of k still has, 0 when there is none
    bbox,          \* bbox[k]: ticks k still stays in the blackbox, 0 when it is not there
    pend,          \* pend[k]: the write of k recorded as unresolved
    flap,          \* flap[k]: consecutive failed adds of k (counted to PromoteAfter)
    \* timestamps
    newer,         \* keys the source's user rated after the tombstone was marked
    \* locals of the run in progress
    pc, dry, down, cancel,
    srcIdx,        \* src_idx: the source as read
    newIdx,        \* the part of newer as read
    full,          \* dst_full: the destination as read and written
    upd, add, rem, \* the plan: keys to update, add and remove
    \* history: not in the code, read by the properties only
    gone,          \* keys the source's user has ever deleted
    own,           \* keys of the destination that nothing traces to the source
    owed,          \* deleted by the source's user and still to be removed
    calm,          \* no fault and no edit since the run in progress began
    \* bounds
    edits, faults

files == <<baseSrc, baseDst, tomb, bbox, pend, flap>>
plan == <<srcIdx, newIdx, full, upd, add, rem>>
locals == <<dry, down, cancel, plan>>
history == <<gone, own, owed>>
vars == <<src, dst, mode, files, newer, pc, locals, history, calm, edits, faults>>

Lists == [Keys -> Values \cup {Absent}]
Empty == [k \in Keys |-> Absent]
Has(list) == {k \in Keys : list[k] # Absent}

Fault(kind) == kind \in Faults /\ faults < MaxFaults /\ faults' = faults + 1
Edit == edits < MaxEdits /\ edits' = edits + 1 /\ calm' = FALSE /\ UNCHANGED faults

Init ==
    /\ src \in [Keys -> FirstValues \cup {Absent}] /\ dst \in [Keys -> FirstValues \cup {Absent}]
    /\ mode \in RemoveModes
    /\ baseSrc = Empty /\ baseDst = Empty
    /\ tomb = [k \in Keys |-> 0] /\ bbox = [k \in Keys |-> 0]
    /\ pend = [k \in Keys |-> "none"] /\ flap = [k \in Keys |-> 0]
    /\ newer = {}
    /\ pc = "idle" /\ dry = FALSE /\ down = FALSE /\ cancel = FALSE
    /\ srcIdx = Empty /\ newIdx = {} /\ full = Empty
    /\ upd = {} /\ add = {} /\ rem = {}
    /\ gone = {} /\ own = Has(dst) \ Has(src) /\ owed = {} /\ calm = FALSE
    /\ edits = 0 /\ faults = 0

-----------------------------------------------------------------------------
(* The users and the clock *)

\* The source's user adds k, or gives it another value.
SourceSet(k, v) ==
    /\ Edit
    /\ src[k] # v
    /\ src' = [src EXCEPT ![k] = v]
    /\ newer' = IF Dated /\ tomb[k] > 0 THEN newer \cup {k} ELSE newer
    /\ own' = own \ {k} /\ owed' = owed \ {k}
    /\ UNCHANGED <<dst, mode, files, pc, locals, gone>>

\* The deletion of what was synchronised before is owed to the destination; not
\* that of an item which came and went after the run in progress read the source.
SourceDelete(k) ==
    /\ Edit
    /\ src[k] # Absent
    /\ src' = [src EXCEPT ![k] = Absent]
    /\ newer' = newer \ {k}
    /\ gone' = gone \cup {k}
    /\ owed' = IF /\ mode = "source_deletes" /\ AllowRemovals
                  /\ baseSrc[k] # Absent /\ dst[k] # Absent
                  /\ pc \in {"idle", "source"} \/ srcIdx[k] # Absent
               THEN owed \cup {k} ELSE owed
    /\ UNCHANGED <<dst, mode, files, pc, locals, own>>

\* Nothing of the application or the source knows of k.
Untraced(k) ==
    src[k] = Absent /\ srcIdx[k] = Absent /\ baseSrc[k] = Absent
        /\ pend[k] # "remove" /\ k \notin rem

DestinationSet(k, v) ==
    /\ Edit
    /\ dst[k] # v
    /\ dst' = [dst EXCEPT ![k] = v]
    /\ own' = IF dst[k] = Absent /\ Untraced(k) THEN own \cup {k} ELSE own
    /\ UNCHANGED <<src, mode, files, newer, pc, locals, gone, owed>>

DestinationDelete(k) ==
    /\ Edit
    /\ dst[k] # Absent
    /\ dst' = [dst EXCEPT ![k] = Absent]
    /\ own' = own \ {k} /\ owed' = owed \ {k}
    /\ UNCHANGED <<src, mode, files, newer, pc, locals, gone>>

\* Time passes between runs; tombstones and blackbox entries whose time is
\* over are pruned at the beginning or the end of the next run, in the model
\* when they get there.
Tick ==
    /\ pc = "idle"
    /\ \E k \in Keys : tomb[k] > 0 \/ bbox[k] > 0
    /\ tomb' = [k \in Keys |-> AtLeastZero(tomb[k] - 1)]
    /\ bbox' = [k \in Keys |-> AtLeastZero(bbox[k] - 1)]
    /\ newer' = {k \in newer : tomb[k] > 1}
    /\ UNCHANGED <<src, dst, mode, baseSrc, baseDst, pend, flap, pc, locals, history,
                   calm, edits, faults>>

-----------------------------------------------------------------------------
(* A run up to its plan *)

StartRun(isDry, isDown) ==
    /\ pc = "idle" /\ pc' = "source"
    /\ dry' = isDry /\ down' = isDown
    /\ \/ ~isDry /\ ~isDown /\ UNCHANGED faults
       \/ isDry /\ ~isDown /\ Fault("dry")
       \/ ~isDry /\ isDown /\ Fault("down")
    /\ calm' = (~isDry /\ ~isDown)
    /\ UNCHANGED <<src, dst, mode, files, newer, cancel, plan, history, edits>>

\* The source is read first (build_order).
ReadSource ==
    /\ pc = "source" /\ pc' = "plan" /\ ~cancel
    /\ srcIdx' = src /\ newIdx' = newer
    /\ UNCHANGED <<src, dst, mode, files, newer, dry, down, cancel, full, upd, add, rem,
                   history, calm, edits, faults>>

\* The run is over: nothing of it remains but what it wrote.
RunOver ==
    /\ pc' = "idle" /\ dry' = FALSE /\ down' = FALSE /\ cancel' = FALSE
    /\ srcIdx' = Empty /\ newIdx' = {} /\ full' = Empty
    /\ upd' = {} /\ add' = {} /\ rem' = {}
    /\ calm' = FALSE

\* build_index raises, or raise_if_cancelled does: the feature is abandoned.
SnapshotFails ==
    /\ pc \in {"source", "plan"}
    /\ \/ cancel /\ UNCHANGED faults
       \/ ~cancel /\ Fault("raise")
    /\ RunOver
    /\ UNCHANGED <<src, dst, mode, files, newer, history, edits>>

\* diff, diff_ratings: what the destination lacks, and has with another value.
Missing == Has(srcIdx) \ Has(dst)
Differing == {k \in Has(srcIdx) \cap Has(dst) : srcIdx[k] # dst[k]}

\* apply_blocklist; adds of a watchlist do not pass it.  A tombstone does not
\* stop what has been rated since.  The mutant lets earlier failures block, too.
BlockedWhenPending ==
    {k \in Keys : Feature = "ratings" /\ (bbox[k] > 0 \/ pend[k] = "add")}
Blocked ==
    IF Feature = "ratings"
    THEN {k \in Keys : bbox[k] > 0 \/ (tomb[k] > 0 /\ k \notin newIdx)}
    ELSE {}

\* _observed_source_removes; the mutant believes a source that merely never
\* had the item.
ObservedMutant == IF IncludeObserved /\ ~down THEN Has(dst) \ Has(srcIdx) ELSE {}
Observed ==
    IF IncludeObserved /\ ~down THEN (Has(baseSrc) \ Has(srcIdx)) \cap Has(dst) ELSE {}

\* What the destination has and the source has not, as far as the destination
\* is known to have had it before; for ratings a missing baseline is no hurdle.
MirrorRemovals ==
    LET extra == Has(dst) \ Has(srcIdx)
    IN  IF Feature = "ratings" /\ Has(baseDst) = {} THEN extra ELSE extra \cap Has(baseDst)

PlannedRemovals == IF mode = "mirror" THEN MirrorRemovals ELSE Observed

\* Removals that failed before are tried again, or forgotten when the source
\* has the item or the destination no longer does.
PendingRemovals == IF AllowRemovals THEN {k \in Keys : pend[k] = "remove"} ELSE {}
RetriedNever == {}
Retried == PendingRemovals \cap (Has(dst) \ Has(srcIdx))
Stale == PendingRemovals \ Retried

Removals == IF AllowRemovals THEN PlannedRemovals \cup Retried ELSE {}

\* maybe_block_mass_delete
MassDeleteBlocked ==
    ~AllowMassDelete /\ Cardinality(Removals) > (Cardinality(Has(dst)) * MassPct) \div 100

\* Deletions that leave no trace if this run saves its baselines without
\* having tried to copy them.
Forgotten == {k \in Keys : srcIdx[k] = Absent /\ pend[k] # "remove"}

\* The destination is read and the plan made of it and the files as they are.
Plan ==
    /\ pc = "plan" /\ pc' = "update" /\ ~cancel
    /\ full' = dst
    /\ upd' = Differing
    /\ add' = Missing \ Blocked
    /\ rem' = IF MassDeleteBlocked THEN {} ELSE Removals
    /\ pend' = IF dry THEN pend ELSE Mark(pend, Stale, "none")
    /\ owed' = IF down \/ dry \/ MassDeleteBlocked \/ ~IncludeObserved
               THEN owed \ Forgotten ELSE owed
    /\ UNCHANGED <<src, dst, mode, baseSrc, baseDst, tomb, bbox, flap, newer, dry, down,
                   cancel, srcIdx, newIdx, gone, own, calm, edits, faults>>

-----------------------------------------------------------------------------
(* Applying the plan *)

\* A batch larger than a chunk is done chunk by chunk, in its own order; the
\* model's batches have at most two chunks.
FirstChunks(W) ==
    IF Cardinality(W) <= ChunkSize THEN {W} ELSE {C \in SUBSET W : Cardinality(C) = ChunkSize}

\* What an adapter that reports in this mode may do with the part C of a batch.
Answers(m, tag, C) ==
    {[done |-> D, res |-> Normalize(tag, Report(m, C, D), C)] : D \in SUBSET C}

\* What the destination did and what is made of its answers (_apply_chunked).
\* Once the run is cancelled the destination is not called; that may be after
\* the first chunk (cut).
Outcome(done, first, res, cut) == [done |-> done, first |-> first, res |-> res, cut |-> cut]
InChunks(m, tag, W, C) ==
    IF C = W
    THEN {Outcome(a.done, W, a.res, FALSE) : a \in Answers(m, tag, W)}
    ELSE UNION {{Outcome(a.done, C, a.res, TRUE)} \cup
                {Outcome(a.done \cup b.done, C, Together(a.res, b.res), FALSE) :
                    b \in Answers(m, tag, W \ C)} : a \in Answers(m, tag, C)}
Outcomes(tag, W) ==
    IF cancel
    THEN {Outcome({}, {}, Cancelled, FALSE)}
    ELSE UNION {InChunks(m, tag, W, C) : m \in ReportModes, C \in FirstChunks(W)}

\* A write that is not complete is a fault, unless a cancellation before it
\* explains it.
Complete(W, out) ==
    \/ /\ (out.done = W /\ ~out.cut) \/ cancel
       /\ UNCHANGED <<cancel, calm, faults>>
    \/ /\ out.done # W /\ ~out.cut /\ ~cancel
       /\ Fault("partial") /\ calm' = FALSE
       /\ UNCHANGED cancel
    \/ /\ out.cut
       /\ Fault("cancel") /\ calm' = FALSE
       /\ cancel' = TRUE

\* The list with the source's entries at the keys of X.
Written(list, X) == [k \in Keys |-> IF k \in X THEN srcIdx[k] ELSE list[k]]

\* Updates are confirmed key by key or all together; one that fails leaves no
\* trace but the difference itself.
UpdateSuccess(res) ==
    IF res.ckeys # {} THEN upd \cap res.ckeys
    ELSE IF res.confirmed >= Cardinality(upd) THEN upd ELSE {}

Update ==
    /\ pc = "update" /\ pc' = "add"
    /\ upd' = {}
    /\ \/ /\ upd = {} \/ (dry /\ ~down)
          /\ UNCHANGED <<dst, full, pend, cancel, calm, faults>>
       \/ /\ upd # {} /\ down
          /\ pend' = Mark(pend, upd, "add")
          /\ UNCHANGED <<dst, full, cancel, calm, faults>>
       \/ /\ upd # {} /\ ~down /\ ~dry
          /\ \E out \in Outcomes("apply:update", upd) :
                /\ dst' = Written(dst, out.done)
                /\ full' = Written(full, UpdateSuccess(out.res))
                /\ Complete(upd, out)
          /\ UNCHANGED pend
    /\ UNCHANGED <<src, mode, baseSrc, baseDst, tomb, bbox, flap, newer, dry, down,
                   srcIdx, newIdx, add, rem, history, edits>>

\* "no_confirmations_fallback": an answer that confirms nothing and names no
\* key makes the whole batch unresolved.
NothingConfirmed(res) == res.confirmed = 0 /\ ~HaveExactKeys(res) /\ res.ukeys = {}

\* record_attempts: the keys that failed once too often
Promoted(failed) == {k \in failed : bbox[k] = 0 /\ flap[k] + 1 >= PromoteAfter}

CountFailures(success, failed) ==
    [k \in Keys |-> IF k \in success THEN 0
                    ELSE IF k \in failed THEN Lesser(flap[k] + 1, PromoteAfter)
                    ELSE flap[k]]

\* record_unresolved and clear_unresolved after an add: the generic reason
\* "apply:add:failed" does not displace the reason of a pending removal, the
\* reasons "unaccounted" and "no_confirmations_fallback" do.
PendingAdds(success, failed, promoted, named) ==
    [k \in Keys |->
        IF k \in success \cup promoted THEN "none"
        ELSE IF k \in named THEN "add"
        ELSE IF k \in failed /\ pend[k] # "remove" THEN "add"
        ELSE pend[k]]

AddOutcome(out, success) ==
    LET none == NothingConfirmed(out.res)
        failed == IF none THEN add
                  ELSE IF AmbiguousPartial(add, out.res) THEN {}
                  ELSE AddFailures(add, out.res, success)
        promoted == Promoted(failed)
    IN  /\ dst' = Written(dst, out.done)
        /\ full' = Written(full, success)
        /\ tomb' = Mark(tomb, success, 0)
        /\ flap' = CountFailures(success, failed)
        /\ bbox' = Mark(bbox, promoted, Cooldown)
        /\ pend' = PendingAdds(success, failed, promoted,
                               IF none THEN add ELSE out.res.ukeys)
        /\ Complete(add, out)

Add ==
    /\ pc = "add" /\ pc' = "remove"
    /\ add' = {}
    /\ \/ /\ add = {} \/ (dry /\ ~down)
          /\ UNCHANGED <<dst, full, tomb, bbox, pend, flap, newer, cancel, calm, faults>>
       \/ /\ add # {} /\ down
          /\ pend' = Mark(pend, add, "add")
          /\ UNCHANGED <<dst, full, tomb, bbox, flap, newer, cancel, calm, faults>>
       \/ /\ add # {} /\ ~down /\ ~dry
          /\ \E out \in Outcomes("apply:add", add) :
                \E success \in
                   IF NothingConfirmed(out.res) THEN {{}}
                   ELSE AddSuccessesInOrder(out.first, add, out.res, VerifyAfterWrite) :
                    /\ AddOutcome(out, success)
                    /\ newer' = newer \ success
    /\ UNCHANGED <<src, mode, baseSrc, baseDst, dry, down, srcIdx, newIdx, upd, rem,
                   history, edits>>

\* Every rating there is now is older than the tombstones marked now.
RemoveOutcome(out) ==
    LET success == RemoveSuccess(rem, out.res)
        marked == {k \in success : tomb[k] = 0}
    IN  /\ dst' = [k \in Keys |-> IF k \in out.done THEN Absent ELSE dst[k]]
        /\ full' = [k \in Keys |-> IF k \in success THEN Absent ELSE full[k]]
        /\ tomb' = Mark(tomb, marked, TTL)
        /\ newer' = newer \ marked
        /\ pend' = Mark(Mark(pend, success, "none"), rem \ success, "remove")
        /\ own' = own \ out.done
        /\ owed' = owed \ out.done
        /\ Complete(rem, out)

Remove ==
    /\ pc = "remove" /\ pc' = "commit"
    /\ rem' = {}
    /\ \/ /\ rem = {} \/ (dry /\ ~down)
          /\ UNCHANGED <<dst, full, tomb, pend, newer, own, owed, cancel, calm, faults>>
       \/ /\ rem # {} /\ down
          /\ pend' = Mark(pend, rem, "remove")
          /\ UNCHANGED <<dst, full, tomb, newer, own, owed, cancel, calm, faults>>
       \/ /\ rem # {} /\ ~down /\ ~dry
          /\ \E out \in Outcomes("apply:remove", rem) : RemoveOutcome(out)
    /\ UNCHANGED <<src, mode, baseSrc, baseDst, bbox, flap, dry, down, srcIdx, newIdx,
                   upd, add, gone, edits>>

\* The destination still raises at the third attempt, with part of the batch
\* done: the feature is abandoned and its baselines are not saved.
WriteRaises ==
    /\ pc \in {"update", "add", "remove"}
    /\ ~down /\ ~cancel
    /\ LET work == CASE pc = "update" -> upd [] pc = "add" -> add [] OTHER -> rem
       IN  /\ work # {}
           /\ \E done \in SUBSET (IF dry THEN {} ELSE work) :
                 /\ dst' = IF pc = "remove"
                           THEN [k \in Keys |-> IF k \in done THEN Absent ELSE dst[k]]
                           ELSE Written(dst, done)
                 /\ own' = IF pc = "remove" THEN own \ done ELSE own
                 /\ owed' = IF pc = "remove" THEN owed \ done ELSE owed
    /\ Fault("raise")
    /\ RunOver
    /\ UNCHANGED <<src, mode, files, newer, gone, edits>>

-----------------------------------------------------------------------------
(* The end of a run *)

\* save_feature_blocks: both baselines, after a dry run as well.
Commit ==
    /\ pc = "commit"
    /\ baseSrc' = srcIdx /\ baseDst' = full
    /\ RunOver
    /\ UNCHANGED <<src, dst, mode, tomb, bbox, pend, flap, newer, history, edits, faults>>

\* A user presses cancel; the run notices where it looks at the flag.
RequestCancel ==
    /\ pc # "idle" /\ ~cancel
    /\ Fault("cancel")
    /\ cancel' = TRUE /\ calm' = FALSE
    /\ UNCHANGED <<src, dst, mode, files, newer, pc, dry, down, plan, history, edits>>

\* The process dies between two steps.
Crash ==
    /\ pc # "idle"
    /\ Fault("crash")
    /\ RunOver
    /\ UNCHANGED <<src, dst, mode, files, newer, history, edits>>

RunStep == ReadSource \/ SnapshotFails \/ Plan \/ Update \/ Add \/ Remove \/ Commit

Next ==
    \/ \E k \in Keys, v \in Values : SourceSet(k, v) \/ DestinationSet(k, v)
    \/ \E k \in Keys : SourceDelete(k) \/ DestinationDelete(k)
    \/ Tick
    \/ \E isDry, isDown \in BOOLEAN : StartRun(isDry, isDown)
    \/ RunStep
    \/ WriteRaises
    \/ RequestCancel
    \/ Crash

Spec == Init /\ [][Next]_vars

\* The scheduler goes on starting runs, every run ends (provider calls have
\* timeouts), and time passes between runs.
FairSpec ==
    /\ Spec
    /\ WF_vars(StartRun(FALSE, FALSE)) /\ WF_vars(RunStep)
    /\ SF_vars(Tick)

-----------------------------------------------------------------------------
(* Properties *)

\* Types of all variables.
OneWayTypeOK ==
    /\ src \in Lists /\ dst \in Lists /\ mode \in RemoveModes
    /\ baseSrc \in Lists /\ baseDst \in Lists
    /\ tomb \in [Keys -> 0..TTL] /\ bbox \in [Keys -> 0..Cooldown]
    /\ pend \in [Keys -> {"none", "add", "remove"}] /\ flap \in [Keys -> 0..PromoteAfter]
    /\ newer \subseteq Keys
    /\ pc \in {"idle", "source", "plan", "update", "add", "remove", "commit"}
    /\ dry \in BOOLEAN /\ down \in BOOLEAN /\ cancel \in BOOLEAN
    /\ srcIdx \in Lists /\ newIdx \subseteq Keys /\ full \in Lists
    /\ upd \subseteq Keys /\ add \subseteq Keys /\ rem \subseteq Keys
    /\ gone \subseteq Keys /\ own \subseteq Keys /\ owed \subseteq Keys
    /\ calm \in BOOLEAN
    /\ edits \in 0..MaxEdits /\ faults \in 0..MaxFaults

\* With remove mode "source_deletes" nothing is removed from the destination
\* that the source's user has not deleted, whatever fails, is cancelled,
\* crashes or is retried; what was on the destination alone stays.
SourceDeletesOnly ==
    [][mode = "source_deletes" =>
          \A k \in Keys : pc = "remove" /\ dst[k] # Absent /\ dst'[k] = Absent
                            /\ edits' = edits => k \in gone]_vars

\* What the destination's user added, and nothing has ever traced to the
\* source, is not removed in that mode: not even when the source's user had
\* deleted the same item once and its removal is long done.
OwnItemsKept == mode = "source_deletes" => rem \cap own = {}

\* Why: a baseline key the source lacks, a pending removal and a planned one
\* are traces of deletions on the source, and there is none of an own item.
RemovalEvidence ==
    mode = "source_deletes" =>
        \A k \in Keys :
            /\ baseSrc[k] # Absent => src[k] # Absent \/ k \in gone
            /\ srcIdx[k] # Absent => src[k] # Absent \/ k \in gone
            /\ pend[k] = "remove" \/ k \in rem => k \in gone
            /\ k \in own => Untraced(k)

\* A deletion that is owed to the destination is not forgotten: until it is
\* carried out the source's baseline or the list of unresolved writes tells of
\* it, also after writes that failed, raised, were cancelled or cut off by a
\* crash.  Only a run that saw it with the destination down, dry, or blocked
\* by the mass-delete guard loses it (owed in Plan).
DeletionRemembered ==
    \A k \in owed : baseSrc[k] # Absent \/ pend[k] = "remove"

\* A run that nothing disturbs leaves the destination with every entry of the
\* source that is not quarantined, and truthful baselines, whatever earlier
\* runs left behind.
CleanRunCopies ==
    pc = "commit" /\ calm =>
        /\ srcIdx = src /\ full = dst
        /\ \A k \in Has(src) : dst[k] = src[k] \/ bbox[k] > 0 \/ tomb[k] > 0

\* Once users and faults come to rest, the destination has and keeps every
\* entry of the source, owed deletions are carried out, and a mirror is equal
\* to its source.
Followed ==
    /\ \A k \in Has(src) : dst[k] = src[k]
    /\ \A k \in owed : dst[k] = Absent
    /\ mode = "mirror" /\ AllowRemovals => dst = src
EventuallyFollowed == <>[]Followed
=============================================================================
