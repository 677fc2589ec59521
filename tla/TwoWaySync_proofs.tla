-------------------------- MODULE TwoWaySync_proofs --------------------------
(* Proofs about TwoWaySync, for every set of keys, every setting and every   *)
(* number of edits and faults.                                               *)
EXTENDS TwoWaySync, Applier_proofs, FiniteSetTheorems, TLAPS

-----------------------------------------------------------------------------
(* The functions and numbers of the model stay in their types *)

LEMMA OtherSide == \A s \in Side : Other(s) \in Side
BY DEF Side, Other

LEMMA ToZero == \A n \in 0..TTL : AtLeastZero(n - 1) \in 0..TTL
BY TTLAssumption DEF AtLeastZero

LEMMA InitType == Init => TypeOK
<1> SUFFICES ASSUME Init PROVE TypeOK
  OBVIOUS
<1>1. Nothing \in [Side -> SUBSET Keys]
  BY DEF Nothing
<1>2. tomb \in [Keys -> 0..TTL] /\ flap \in [Side -> [Keys -> 0..PromoteAfter]]
  BY TTLAssumption, NumbersAssumption DEF Init
<1>3. edits \in 0..MaxEdits /\ faults \in 0..MaxFaults
  BY NumbersAssumption DEF Init
<1>4. pend \in [Side -> [Keys -> {"none", "add", "remove"}]]
  BY DEF Init
<1> QED BY <1>1, <1>2, <1>3, <1>4 DEF Init, TypeOK

LEMMA FaultType ==
    ASSUME faults \in 0..MaxFaults, NEW kind, Fault(kind)
    PROVE  faults' \in 0..MaxFaults
BY NumbersAssumption DEF Fault

LEMMA RunOverType ==
    ASSUME RunOver
    PROVE  /\ pc' \in {"idle", "snap", "plan", "rem_a", "rem_b", "add_a", "add_b", "commit"}
           /\ dry' \in BOOLEAN /\ down' \subseteq Side /\ cancel' \in BOOLEAN
           /\ taken' \subseteq Side /\ snap' \in [Side -> SUBSET Keys]
           /\ eff' \in [Side -> SUBSET Keys] /\ rem' \in [Side -> SUBSET Keys]
           /\ add' \in [Side -> SUBSET Keys] /\ calm' \in BOOLEAN
BY DEF RunOver, Nothing

LEMMA UserType ==
    ASSUME TypeOK, NEW s \in Side, NEW k \in Keys, UserAdd(s, k) \/ UserDelete(s, k)
    PROVE  TypeOK'
<1>1. edits' \in 0..MaxEdits
  BY NumbersAssumption DEF TypeOK, UserAdd, UserDelete
<1>2. CASE UserAdd(s, k)
  BY <1>1, <1>2 DEF TypeOK, UserAdd, files, locals
<1>3. CASE UserDelete(s, k)
  <2>1. items' \in [Side -> SUBSET Keys] /\ fresh' \in [Side -> SUBSET Keys]
    BY <1>3 DEF TypeOK, UserDelete
  <2>2. lost' \in [Side -> SUBSET Keys] /\ gone' \subseteq Keys
    BY <1>3 DEF TypeOK, UserDelete
  <2> QED BY <1>1, <1>3, <2>1, <2>2 DEF TypeOK, UserDelete, files, locals
<1> QED BY <1>2, <1>3

LEMMA TickType == TypeOK /\ Tick => TypeOK'
<1> SUFFICES ASSUME TypeOK, Tick PROVE TypeOK'
  OBVIOUS
<1>1. tomb' \in [Keys -> 0..TTL]
  BY ToZero DEF TypeOK, Tick
<1> QED BY <1>1 DEF TypeOK, Tick, locals, history

LEMMA StartRunType ==
    ASSUME TypeOK, NEW isDry \in BOOLEAN, NEW D \in SUBSET Side, StartRun(isDry, D)
    PROVE  TypeOK'
<1>1. faults' \in 0..MaxFaults
  BY FaultType DEF TypeOK, StartRun
<1> QED BY <1>1 DEF TypeOK, StartRun, files, history

LEMMA TakeSnapshotType ==
    ASSUME TypeOK, NEW s \in Side, TakeSnapshot(s)
    PROVE  TypeOK'
<1>1. faults' \in 0..MaxFaults /\ calm' \in BOOLEAN
  BY FaultType DEF TypeOK, TakeSnapshot
<1>2. snap' \in [Side -> SUBSET Keys]
  BY DEF TypeOK, TakeSnapshot
<1>3. taken' \subseteq Side /\ pc' \in {"snap", "plan"}
  BY DEF TypeOK, TakeSnapshot
<1> QED BY <1>1, <1>2, <1>3 DEF TypeOK, TakeSnapshot, files, history

LEMMA PruneBlackboxType ==
    ASSUME TypeOK, PruneBlackbox
    PROVE  bbox' \in [Side -> SUBSET Keys]
  BY DEF PruneBlackbox

LEMMA SnapshotFailsType == TypeOK /\ SnapshotFails => TypeOK'
<1> SUFFICES ASSUME TypeOK, SnapshotFails PROVE TypeOK'
  OBVIOUS
<1>1. faults' \in 0..MaxFaults
  BY FaultType DEF TypeOK, SnapshotFails
<1>2. RunOver
  BY DEF SnapshotFails
<1>3. bbox' \in [Side -> SUBSET Keys]
  BY PruneBlackboxType DEF SnapshotFails
<1> QED BY <1>1, <1>2, <1>3, RunOverType DEF TypeOK, SnapshotFails, history

LEMMA EffectiveType == TypeOK => \A s \in Side : Effective(s) \subseteq Keys
BY DEF TypeOK, Effective

LEMMA PlanType == TypeOK /\ Plan => TypeOK'
<1> SUFFICES ASSUME TypeOK, Plan PROVE TypeOK'
  OBVIOUS
<1>1. tomb' \in [Keys -> 0..TTL]
  <2>1. tomb \in [Keys -> 0..TTL] /\ TTL \in 0..TTL
    BY TTLAssumption DEF TypeOK
  <2> QED BY <2>1, MarkType DEF Plan
<1>2. eff' \in [Side -> SUBSET Keys]
  BY EffectiveType DEF Plan
<1>3. pend' \in [Side -> [Keys -> {"none", "add", "remove"}]]
  <2>1. \A s \in Side : Mark(pend[s], Stale(s), "none") \in [Keys -> {"none", "add", "remove"}]
    BY MarkType DEF TypeOK
  <2> QED BY <2>1 DEF TypeOK, Plan
<1>4. \A s \in Side : OnlyOn(s) \subseteq Keys
  BY EffectiveType DEF OnlyOn
<1>5. rem' \in [Side -> SUBSET Keys]
  <2>1. \A s \in Side : Removals(s) \subseteq Keys
    BY <1>4 DEF Removals, PlannedRemovals, Retried
  <2> QED BY <2>1 DEF Plan
<1>6. add' \in [Side -> SUBSET Keys]
  <2>1. \A s \in Side : PlannedAdds(s) \subseteq Keys
    BY <1>4, OtherSide DEF PlannedAdds
  <2> QED BY <2>1 DEF Plan
<1> QED BY <1>1, <1>2, <1>3, <1>5, <1>6 DEF TypeOK, Plan, Nothing, history

-----------------------------------------------------------------------------
(* What a batch of writes is credited with is part of the batch *)

LEMMA OutcomeDone ==
    ASSUME NEW tag, NEW W, NEW out \in Outcomes(tag, W)
    PROVE  out.done \subseteq W
BY DEF Outcomes

LEMMA CompleteType ==
    ASSUME faults \in 0..MaxFaults, calm \in BOOLEAN, NEW W, NEW out, Complete(W, out)
    PROVE  faults' \in 0..MaxFaults /\ calm' \in BOOLEAN
BY FaultType DEF Complete

LEMMA RemoveType ==
    ASSUME TypeOK, NEW s \in Side, NEW here,
           NEW next \in {"rem_b", "add_a"}, Remove(s, here, next)
    PROVE  TypeOK'
<1> DEFINE PendValues == {"none", "add", "remove"}
<1>1. rem[s] \subseteq Keys /\ rem' \in [Side -> SUBSET Keys]
  BY DEF TypeOK, Remove
<1> DEFINE WrittenTyped ==
        /\ items' \in [Side -> SUBSET Keys] /\ eff' \in [Side -> SUBSET Keys]
        /\ tomb' \in [Keys -> 0..TTL] /\ pend' \in [Side -> [Keys -> PendValues]]
        /\ calm' \in BOOLEAN /\ faults' \in 0..MaxFaults
<1>2. WrittenTyped
  <2>1. CASE UNCHANGED <<items, eff, tomb, pend, calm, faults>>
    BY <2>1 DEF TypeOK
  <2>2. CASE /\ pend' = [pend EXCEPT ![s] = Mark(@, rem[s], "remove")]
             /\ UNCHANGED <<items, eff, tomb, calm, faults>>
    <3>1. Mark(pend[s], rem[s], "remove") \in [Keys -> PendValues]
      BY MarkType DEF TypeOK
    <3> QED BY <2>2, <3>1 DEF TypeOK
  <2>3. ASSUME NEW out \in Outcomes("apply:remove", rem[s]), RemoveOutcome(s, out)
        PROVE  WrittenTyped
    <3> DEFINE success == RemoveSuccess(rem[s], out.res)
    <3>1. items' \in [Side -> SUBSET Keys] /\ eff' \in [Side -> SUBSET Keys]
      BY <2>3 DEF TypeOK, RemoveOutcome
    <3>2. tomb' \in [Keys -> 0..TTL]
      <4>1. TTL \in 0..TTL
        BY TTLAssumption
      <4> QED BY <2>3, <4>1, MarkType DEF TypeOK, RemoveOutcome
    <3>3. pend' \in [Side -> [Keys -> PendValues]]
      <4>1. Mark(pend[s], success, "none") \in [Keys -> PendValues]
        BY MarkType DEF TypeOK
      <4>2. Mark(Mark(pend[s], success, "none"), rem[s] \ success, "remove")
              \in [Keys -> PendValues]
        BY <4>1, MarkType
      <4> QED BY <2>3, <4>2 DEF TypeOK, RemoveOutcome
    <3>4. calm' \in BOOLEAN /\ faults' \in 0..MaxFaults
      BY <2>3, CompleteType DEF TypeOK, RemoveOutcome
    <3> QED BY <3>1, <3>2, <3>3, <3>4
  <2> QED BY <2>1, <2>2, <2>3 DEF Remove
<1> QED BY <1>1, <1>2 DEF TypeOK, Remove, history

LEMMA CountFailuresType ==
    ASSUME TypeOK, NEW s \in Side, NEW success, NEW failed
    PROVE  CountFailures(s, success, failed) \in [Keys -> 0..PromoteAfter]
<1>1. \A k \in Keys : flap[s][k] \in 0..PromoteAfter
  BY DEF TypeOK
<1>2. \A n \in 0..PromoteAfter : Lesser(n + 1, PromoteAfter) \in 0..PromoteAfter
  BY NumbersAssumption DEF Lesser
<1> QED BY <1>1, <1>2, NumbersAssumption DEF CountFailures

LEMMA AddType ==
    ASSUME TypeOK, NEW s \in Side, NEW here,
           NEW next \in {"add_b", "commit"}, Add(s, here, next)
    PROVE  TypeOK'
<1> DEFINE PendValues == {"none", "add", "remove"}
<1> DEFINE WrittenTyped ==
        /\ items' \in [Side -> SUBSET Keys] /\ eff' \in [Side -> SUBSET Keys]
        /\ tomb' \in [Keys -> 0..TTL] /\ pend' \in [Side -> [Keys -> PendValues]]
        /\ flap' \in [Side -> [Keys -> 0..PromoteAfter]]
        /\ bbox' \in [Side -> SUBSET Keys]
        /\ calm' \in BOOLEAN /\ faults' \in 0..MaxFaults
<1>1. add[s] \subseteq Keys /\ add' \in [Side -> SUBSET Keys]
  BY DEF TypeOK, Add
<1>2. WrittenTyped
  <2>1. CASE UNCHANGED <<items, eff, tomb, pend, flap, bbox, calm, faults>>
    BY <2>1 DEF TypeOK
  <2>2. CASE /\ pend' = [pend EXCEPT ![s] = Mark(@, add[s], "add")]
             /\ UNCHANGED <<items, eff, tomb, flap, bbox, calm, faults>>
    <3>1. Mark(pend[s], add[s], "add") \in [Keys -> PendValues]
      BY MarkType DEF TypeOK
    <3> QED BY <2>2, <3>1 DEF TypeOK
  <2>3. ASSUME NEW out \in Outcomes("apply:add", add[s]),
               NEW success \in AddSuccesses(add[s], out.res, VerifyAfterWrite),
               AddOutcome(s, out, success)
        PROVE  WrittenTyped
    <3> DEFINE failed == IF AmbiguousPartial(add[s], out.res) THEN {}
                         ELSE AddFailures(add[s], out.res, success)
    <3> DEFINE promoted == Promoted(s, failed)
    <3>1. success \subseteq Keys /\ failed \subseteq Keys /\ promoted \subseteq Keys
      <4>1. success \subseteq add[s]
        BY AddSuccessInBatch
      <4> QED BY <1>1, <4>1 DEF AddFailures, Promoted
    <3>2. items' \in [Side -> SUBSET Keys]
      BY <1>1, <2>3, OutcomeDone DEF TypeOK, AddOutcome
    <3>3. eff' \in [Side -> SUBSET Keys] /\ bbox' \in [Side -> SUBSET Keys]
      BY <2>3, <3>1 DEF TypeOK, AddOutcome
    <3>4. tomb' \in [Keys -> 0..TTL]
      <4>1. 0 \in 0..TTL
        BY TTLAssumption
      <4> QED BY <2>3, <4>1, MarkType DEF TypeOK, AddOutcome
    <3>5. flap' \in [Side -> [Keys -> 0..PromoteAfter]]
      BY <2>3, CountFailuresType DEF TypeOK, AddOutcome
    <3>6. pend' \in [Side -> [Keys -> PendValues]]
      <4>1. PendingAdds(s, success, failed, promoted, out.res.ukeys) \in [Keys -> PendValues]
        BY DEF TypeOK, PendingAdds
      <4> QED BY <2>3, <4>1 DEF TypeOK, AddOutcome
    <3>7. calm' \in BOOLEAN /\ faults' \in 0..MaxFaults
      BY <2>3, CompleteType DEF TypeOK, AddOutcome
    <3> QED BY <3>2, <3>3, <3>4, <3>5, <3>6, <3>7
  <2> QED BY <2>1, <2>2, <2>3 DEF Add
<1> QED BY <1>1, <1>2 DEF TypeOK, Add, history

LEMMA WriteRaisesType ==
    ASSUME TypeOK, NEW s \in Side, WriteRaises(s)
    PROVE  TypeOK'
<1>1. faults' \in 0..MaxFaults
  BY FaultType DEF TypeOK, WriteRaises
<1>2. items' \in [Side -> SUBSET Keys]
  BY DEF TypeOK, WriteRaises
<1>3. RunOver
  BY DEF WriteRaises
<1>4. bbox' \in [Side -> SUBSET Keys]
  BY PruneBlackboxType DEF WriteRaises
<1> QED BY <1>1, <1>2, <1>3, <1>4, RunOverType DEF TypeOK, WriteRaises, history

LEMMA CommitType == TypeOK /\ Commit => TypeOK'
<1> SUFFICES ASSUME TypeOK, Commit PROVE TypeOK'
  OBVIOUS
<1>1. RunOver
  BY DEF Commit
<1>2. base' \in [Side -> SUBSET Keys] /\ fresh' \in [Side -> SUBSET Keys]
  BY DEF TypeOK, Commit
<1>3. bbox' \in [Side -> SUBSET Keys]
  BY PruneBlackboxType DEF Commit
<1> QED BY <1>1, <1>2, <1>3, RunOverType DEF TypeOK, Commit

LEMMA CancelOrCrashType == TypeOK /\ (RequestCancel \/ Crash) => TypeOK'
<1> SUFFICES ASSUME TypeOK, RequestCancel \/ Crash PROVE TypeOK'
  OBVIOUS
<1>1. faults' \in 0..MaxFaults
  BY FaultType DEF TypeOK, RequestCancel, Crash
<1>2. CASE RequestCancel
  BY <1>1, <1>2 DEF TypeOK, RequestCancel, files, history
<1>3. CASE Crash
  BY <1>1, <1>3, RunOverType DEF TypeOK, Crash, files, history
<1> QED BY <1>2, <1>3

LEMMA StutterType == TypeOK /\ UNCHANGED vars => TypeOK'
BY DEF TypeOK, vars, files, locals, history

LEMMA NextType == TypeOK /\ [Next]_vars => TypeOK'
<1> SUFFICES ASSUME TypeOK, [Next]_vars PROVE TypeOK'
  OBVIOUS
<1>1. ASSUME NEW s \in Side, NEW k \in Keys, UserAdd(s, k) \/ UserDelete(s, k)
      PROVE  TypeOK'
  BY <1>1, UserType
<1>2. ASSUME NEW isDry \in BOOLEAN, NEW D \in SUBSET Side, StartRun(isDry, D)
      PROVE  TypeOK'
  BY <1>2, StartRunType
<1>3. ASSUME NEW s \in Side, TakeSnapshot(s) \/ WriteRaises(s)
      PROVE  TypeOK'
  BY <1>3, TakeSnapshotType, WriteRaisesType
<1>4. CASE Remove("A", "rem_a", "rem_b") \/ Remove("B", "rem_b", "add_a")
  BY <1>4, RemoveType DEF Side
<1>5. CASE Add("A", "add_a", "add_b") \/ Add("B", "add_b", "commit")
  BY <1>5, AddType DEF Side
<1>6. CASE Tick \/ SnapshotFails \/ Plan \/ Commit \/ RequestCancel \/ Crash
  BY <1>6, TickType, SnapshotFailsType, PlanType, CommitType, CancelOrCrashType
<1>7. CASE UNCHANGED vars
  BY <1>7, StutterType
<1> QED BY <1>1, <1>2, <1>3, <1>4, <1>5, <1>6, <1>7 DEF Next, RunStep

\* Every variable keeps its type in every behaviour of the model.
THEOREM TypeCorrect == Spec => []TypeOK
BY InitType, NextType, PTL DEF Spec

-----------------------------------------------------------------------------
(* Removals are copies of user deletions, as long as the sync is not told    *)
(* untruths: no report counts the undone part of a batch as errors, no       *)
(* snapshot is empty when the list is not, and verify_after_write is off.    *)

Truthful ==
    "errors" \notin ReportModes /\ "empty" \notin Faults /\ ~VerifyAfterWrite

\* A truthful provider's answer to a batch of adds, after _normalize: either
\* the keys done, or a number and the rest of the batch skipped.
LEMMA TruthfulAnswer ==
    ASSUME Truthful, NEW W, IsFiniteSet(W), NEW out \in Outcomes("apply:add", W)
    PROVE  /\ out.res.skeys = {} /\ out.done \subseteq W
           /\ \/ out.res.ckeys = out.done /\ out.done # {}
              \/ /\ out.res.ckeys = {} /\ out.res.ukeys = {}
                 /\ out.res.confirmed = Cardinality(out.done)
                 /\ out.done # W => out.res.skipped > 0 \/ out.res.confirmed = 0
<1>1. CASE cancel
  <2>1. out = [done |-> {}, res |-> Cancelled]
    BY <1>1 DEF Outcomes
  <2> QED BY <2>1, FS_EmptySet DEF Cancelled
<1>2. CASE ~cancel
  <2>1. PICK D \in SUBSET W, m \in ReportModes :
           out = [done |-> D, res |-> Normalize("apply:add", Report(m, W, D), W)]
    BY <1>2 DEF Outcomes
  <2>2. m \in {"exact", "count"}
    BY ModesAssumption DEF Truthful
  <2> DEFINE raw == Report(m, W, D)
  <2>3. /\ raw.keys = (IF m = "exact" THEN D ELSE {}) /\ raw.skeys = {}
        /\ raw.ukeys = {} /\ raw.unres = 0 /\ raw.count = Cardinality(D)
        /\ raw.errors = 0 /\ raw.ok /\ raw.skipped = NotReported
    BY <2>2 DEF Report
  <2>4. /\ Cardinality(D) \in Nat /\ Cardinality(W) \in Nat
        /\ Cardinality(D) <= Cardinality(W) /\ (Cardinality(D) = Cardinality(W) => D = W)
    BY FS_Subset, FS_CardinalityType
  <2>5. ListedUnresolved(raw) = 0 /\ ConfirmedKeys(raw) = raw.keys
    BY <2>3 DEF ListedUnresolved, ConfirmedKeys
  <2>6. /\ out.done = D /\ out.res.ckeys = raw.keys /\ out.res.skeys = {}
        /\ out.res.confirmed = ConfirmedCount(raw, W)
        /\ out.res.skipped = SkippedCount("apply:add", raw, W)
        /\ out.res.ukeys = Unaccounted("apply:add", raw, W)
    BY <2>1, <2>3, <2>5 DEF Normalize
  <2>7. CASE raw.keys = D /\ D # {}
    BY <2>6, <2>7
  <2>8. CASE raw.keys = {}
    <3>1. out.res.confirmed = Cardinality(D)
      BY <2>3, <2>5, <2>6, <2>8 DEF ConfirmedCount
    <3>2. ~ExactBasis("apply:add", raw)
      BY <2>3, <2>5, <2>8 DEF ExactBasis
    <3>3. out.res.ukeys = {}
      BY <2>6, <3>2 DEF Unaccounted
    <3>4. out.res.skipped = AtLeastZero(Cardinality(W) - Cardinality(D))
      <4>1. out.res.skipped = AtLeastZero(Cardinality(W) - ConfirmedCount(raw, W)
                                          - ListedUnresolved(raw) - raw.errors)
        BY <2>3, <2>6, <3>2, <2>4 DEF SkippedCount, ExactBasis
      <4> QED BY <4>1, <2>3, <2>4, <2>5, <2>6, <3>1
    <3>5. D # W => out.res.skipped > 0
      BY <2>4, <3>4 DEF AtLeastZero
    <3> QED BY <2>6, <2>8, <3>1, <3>3, <3>5
  <2> QED BY <2>2, <2>3, <2>7, <2>8
<1> QED BY <1>1, <1>2

\* So an add is credited with nothing it has not done.
LEMMA TruthfulAdd ==
    ASSUME Truthful, NEW W, IsFiniteSet(W), NEW out \in Outcomes("apply:add", W),
           NEW success \in AddSuccesses(W, out.res, VerifyAfterWrite)
    PROVE  success \subseteq out.done
<1> DEFINE res == out.res
<1>1. /\ res.skeys = {} /\ out.done \subseteq W
      /\ \/ res.ckeys = out.done /\ out.done # {}
         \/ /\ res.ckeys = {} /\ res.ukeys = {}
            /\ res.confirmed = Cardinality(out.done)
            /\ out.done # W => res.skipped > 0 \/ res.confirmed = 0
  BY TruthfulAnswer
<1>2. PICK X \in SUBSET Creditable(W, res) :
        /\ success = X \cup (W \cap res.skeys)
        /\ HaveExactKeys(res) \/ Cardinality(X) = EffectiveCount(W, res, VerifyAfterWrite)
  BY DEF AddSuccesses, Truthful
<1>3. success = X
  BY <1>1, <1>2
<1>4. CASE HaveExactKeys(res)
  <2>1. res.ckeys = out.done
    BY <1>1, <1>4 DEF HaveExactKeys
  <2> QED BY <1>3, <1>4, <2>1 DEF Creditable
<1>5. CASE ~HaveExactKeys(res)
  <2>1. /\ res.ckeys = {} /\ res.ukeys = {} /\ res.confirmed = Cardinality(out.done)
        /\ out.done # W => res.skipped > 0 \/ res.confirmed = 0
    BY <1>1, <1>5 DEF HaveExactKeys
  <2>2. CASE out.done = W
    BY <1>3, <2>2 DEF Creditable
  <2>3. CASE out.done # W
    <3>1. /\ Cardinality(out.done) \in Nat /\ Cardinality(W) \in Nat
          /\ Cardinality(out.done) < Cardinality(W)
      BY <1>1, <2>3, FS_Subset, FS_CardinalityType
    <3>2. Creditable(W, res) = W
      BY <1>1, <1>5, <2>1 DEF Creditable, StillUnresolved
    <3>3. EffectiveCount(W, res, VerifyAfterWrite) = 0
      <4>1. CASE res.confirmed = 0
        BY <1>5, <3>1, <3>2, <4>1 DEF EffectiveCount, Lesser, Truthful
      <4>2. CASE res.skipped > 0 /\ res.confirmed # 0
        <5>1. AmbiguousPartial(W, res)
          BY <1>5, <2>1, <3>1, <3>2, <4>2 DEF AmbiguousPartial
        <5> QED BY <5>1 DEF EffectiveCount
      <4> QED BY <2>1, <2>3, <4>1, <4>2
    <3>4. X = {}
      BY <1>2, <1>5, <3>2, <3>3, FS_Subset, FS_EmptySet
    <3> QED BY <1>3, <3>4
  <2> QED BY <2>2, <2>3
<1> QED BY <1>4, <1>5

-----------------------------------------------------------------------------
(* DeletionEvidence is inductive *)

LEMMA EvidenceInit == Init => DeletionEvidence
BY DEF Init, DeletionEvidence, BaselineIsEvidence, SnapshotsTellDeletions,
       EffectiveIsEvidence, TombsTellDeletions, PendingTellsDeletions,
       PlanTellsDeletions, Nothing

\* Whatever lists and deletions may become, what was evidence stays evidence
\* while nothing leaves a list but what a user has deleted.
LEMMA EvidenceKept ==
    ASSUME NEW X, NEW s \in Side, X \subseteq items[s] \cup gone,
           items[s] \ items'[s] \subseteq gone', gone \subseteq gone'
    PROVE  X \subseteq items'[s] \cup gone'
OBVIOUS

\* A run that ends leaves no locals behind.
LEMMA EvidenceRunOver ==
    ASSUME TypeOK, DeletionEvidence, RunOver, UNCHANGED <<base, tomb, pend, gone>>,
           \A s \in Side : items[s] \ items'[s] \subseteq gone
    PROVE  DeletionEvidence'
<1>1. BaselineIsEvidence'
  BY EvidenceKept DEF DeletionEvidence, BaselineIsEvidence
<1>2. SnapshotsTellDeletions' /\ EffectiveIsEvidence' /\ PlanTellsDeletions'
  BY DEF RunOver, SnapshotsTellDeletions, EffectiveIsEvidence, PlanTellsDeletions, Nothing
<1>3. TombsTellDeletions' /\ PendingTellsDeletions'
  BY DEF DeletionEvidence, TombsTellDeletions, PendingTellsDeletions
<1> QED BY <1>1, <1>2, <1>3 DEF DeletionEvidence

LEMMA EvidenceUser ==
    ASSUME TypeOK, DeletionEvidence,
           NEW s \in Side, NEW k \in Keys, UserAdd(s, k) \/ UserDelete(s, k)
    PROVE  DeletionEvidence'
<1>1. /\ UNCHANGED <<base, tomb, pend, pc, taken, snap, eff, rem>> /\ gone \subseteq gone'
      /\ \A t \in Side : items[t] \ items'[t] \subseteq gone'
  <2>1. CASE UserAdd(s, k)
    BY <2>1 DEF UserAdd, TypeOK, files, locals
  <2>2. CASE UserDelete(s, k)
    <3>1. \A t \in Side : items[t] \ items'[t] \subseteq {k}
      BY <2>2 DEF UserDelete, TypeOK
    <3> QED BY <2>2, <3>1 DEF UserDelete, files, locals
  <2> QED BY <2>1, <2>2
<1>2. BaselineIsEvidence' /\ EffectiveIsEvidence'
  BY <1>1, EvidenceKept DEF DeletionEvidence, BaselineIsEvidence, EffectiveIsEvidence
<1>3. SnapshotsTellDeletions'
  <2>1. \A t \in Side : snap'[t] \subseteq items'[t] \cup gone'
    BY <1>1, EvidenceKept DEF DeletionEvidence, SnapshotsTellDeletions
  <2> QED BY <1>1, <2>1 DEF DeletionEvidence, SnapshotsTellDeletions
<1>4. TombsTellDeletions' /\ PendingTellsDeletions' /\ PlanTellsDeletions'
  BY <1>1 DEF DeletionEvidence, TombsTellDeletions, PendingTellsDeletions, PlanTellsDeletions
<1> QED BY <1>2, <1>3, <1>4 DEF DeletionEvidence

LEMMA EvidenceTick == TypeOK /\ DeletionEvidence /\ Tick => DeletionEvidence'
<1> SUFFICES ASSUME TypeOK, DeletionEvidence, Tick PROVE DeletionEvidence'
  OBVIOUS
<1>1. \A k \in Keys : tomb'[k] > 0 => tomb[k] > 0
  BY TTLAssumption DEF TypeOK, Tick, AtLeastZero
<1>2. TombsTellDeletions'
  BY <1>1 DEF Tick, DeletionEvidence, TombsTellDeletions, history
<1> QED BY <1>2 DEF Tick, DeletionEvidence, BaselineIsEvidence, SnapshotsTellDeletions,
           EffectiveIsEvidence, PendingTellsDeletions, PlanTellsDeletions, locals, history

LEMMA EvidenceSnapshot ==
    ASSUME Truthful, TypeOK, DeletionEvidence, NEW s \in Side, TakeSnapshot(s)
    PROVE  DeletionEvidence'
<1>1. snap' = [snap EXCEPT ![s] = items[s]]
  BY DEF TakeSnapshot, Fault, Truthful
<1>2. base[s] \ snap'[s] \subseteq gone
  BY <1>1 DEF TypeOK, DeletionEvidence, BaselineIsEvidence
<1>3. /\ UNCHANGED <<items, base, tomb, pend, eff, rem, gone>>
      /\ taken' = taken \cup {s} /\ (pc' = "plan" => taken' = Side)
  BY DEF TakeSnapshot, files, history
<1>4. SnapshotsTellDeletions'
  BY <1>1, <1>2, <1>3 DEF TypeOK, DeletionEvidence, SnapshotsTellDeletions
<1> QED BY <1>3, <1>4 DEF DeletionEvidence, BaselineIsEvidence, EffectiveIsEvidence,
           TombsTellDeletions, PendingTellsDeletions, PlanTellsDeletions

\* Steps that touch none of the evidence.
LEMMA EvidenceUntouched ==
    ASSUME DeletionEvidence, UNCHANGED <<items, base, tomb, pend, taken, snap, eff, rem, gone>>,
           pc' = "plan" => taken = Side
    PROVE  DeletionEvidence'
BY DEF DeletionEvidence, BaselineIsEvidence, SnapshotsTellDeletions, EffectiveIsEvidence,
       TombsTellDeletions, PendingTellsDeletions, PlanTellsDeletions

\* Every reason the planner has to remove an item tells of a deletion.
LEMMA RemovalsTellDeletions ==
    ASSUME TypeOK, DeletionEvidence, pc = "plan", NEW s \in Side
    PROVE  Removals(s) \subseteq gone
<1>1. \A t \in Side : Shrunk(t) \subseteq gone
  BY DEF DeletionEvidence, SnapshotsTellDeletions, Shrunk
<1>2. \A t \in Side : Observed(t) \subseteq gone
  BY <1>1 DEF Observed
<1>3. Tombs \subseteq gone
  BY DEF DeletionEvidence, TombsTellDeletions, Tombs
<1>4. ASSUME NEW k \in Keys, DeletionWanted(s, k) PROVE k \in gone
  BY <1>1, <1>2, <1>3, <1>4, OtherSide DEF DeletionWanted, TombBlocksRemove
<1>5. Retried(s) \subseteq gone
  BY DEF DeletionEvidence, PendingTellsDeletions, Retried, PendingRemovals
<1>6. OnlyOn(s) \subseteq Keys
  BY EffectiveType DEF OnlyOn
<1> QED BY <1>4, <1>5, <1>6 DEF Removals, PlannedRemovals

LEMMA EvidencePlan == TypeOK /\ DeletionEvidence /\ Plan => DeletionEvidence'
<1> SUFFICES ASSUME TypeOK, DeletionEvidence, Plan PROVE DeletionEvidence'
  OBVIOUS
<1>1. UNCHANGED <<items, base, gone>> /\ pc = "plan"
  BY DEF Plan, history
<1>2. BaselineIsEvidence'
  BY <1>1 DEF DeletionEvidence, BaselineIsEvidence
<1>3. SnapshotsTellDeletions'
  BY DEF Plan, SnapshotsTellDeletions, Nothing
<1>4. EffectiveIsEvidence'
  <2>1. \A s \in Side : Effective(s) \subseteq items[s] \cup gone
    BY DEF Effective, DeletionEvidence, BaselineIsEvidence, SnapshotsTellDeletions
  <2> QED BY <1>1, <2>1 DEF Plan, EffectiveIsEvidence
<1>5. TombsTellDeletions'
  <2>1. Observed("A") \cup Observed("B") \subseteq gone
    BY <1>1 DEF Observed, Shrunk, DeletionEvidence, SnapshotsTellDeletions, Side
  <2>2. \A k \in Keys : tomb'[k] > 0 => tomb[k] > 0 \/ k \in Observed("A") \cup Observed("B")
    BY DEF Plan, Mark, TypeOK
  <2> QED BY <1>1, <2>1, <2>2 DEF DeletionEvidence, TombsTellDeletions
<1>6. PendingTellsDeletions'
  <2>1. \A s \in Side, k \in Keys : pend'[s][k] = "remove" => pend[s][k] = "remove"
    BY DEF Plan, Mark, TypeOK
  <2> QED BY <1>1, <2>1 DEF DeletionEvidence, PendingTellsDeletions
<1>7. PlanTellsDeletions'
  BY <1>1, RemovalsTellDeletions DEF Plan, PlanTellsDeletions
<1> QED BY <1>2, <1>3, <1>4, <1>5, <1>6, <1>7 DEF DeletionEvidence

LEMMA EvidenceRemove ==
    ASSUME TypeOK, DeletionEvidence, NEW s \in Side, NEW here,
           NEW next \in {"rem_b", "add_a"}, Remove(s, here, next)
    PROVE  DeletionEvidence'
<1>1. UNCHANGED <<base, taken, snap, gone>> /\ pc' # "plan" /\ rem' = [rem EXCEPT ![s] = {}]
  BY DEF Remove, history
<1>2. rem[s] \subseteq gone
  BY DEF DeletionEvidence, PlanTellsDeletions
<1> DEFINE OnlyDeleted ==
      /\ \A t \in Side : items[t] \ items'[t] \subseteq gone
      /\ \A t \in Side : eff'[t] \subseteq eff[t]
      /\ \A k \in Keys : tomb'[k] > 0 => tomb[k] > 0 \/ k \in gone
      /\ \A t \in Side, k \in Keys :
            pend'[t][k] = "remove" => pend[t][k] = "remove" \/ k \in gone
<1>3. OnlyDeleted
  <2>1. CASE UNCHANGED <<items, eff, tomb, pend, calm, faults>>
    BY <2>1
  <2>2. CASE /\ pend' = [pend EXCEPT ![s] = Mark(@, rem[s], "remove")]
             /\ UNCHANGED <<items, eff, tomb, calm, faults>>
    BY <1>2, <2>2 DEF TypeOK, Mark
  <2>3. ASSUME NEW out \in Outcomes("apply:remove", rem[s]), RemoveOutcome(s, out)
        PROVE  OnlyDeleted
    <3> DEFINE success == RemoveSuccess(rem[s], out.res)
    <3>1. out.done \subseteq gone /\ success \subseteq gone
      BY <1>2, OutcomeDone, RemoveSuccessInBatch
    <3>2. \A t \in Side : items[t] \ items'[t] \subseteq gone /\ eff'[t] \subseteq eff[t]
      BY <2>3, <3>1 DEF TypeOK, RemoveOutcome
    <3>3. \A k \in Keys : tomb'[k] > 0 => tomb[k] > 0 \/ k \in gone
      BY <2>3, <3>1 DEF TypeOK, RemoveOutcome, Mark
    <3>4. \A t \in Side, k \in Keys : pend'[t][k] = "remove" => pend[t][k] = "remove" \/ k \in gone
      BY <1>2, <2>3, <3>1 DEF TypeOK, RemoveOutcome, Mark
    <3> QED BY <3>2, <3>3, <3>4
  <2> QED BY <2>1, <2>2, <2>3 DEF Remove
<1>4. BaselineIsEvidence'
  BY <1>1, <1>3, EvidenceKept DEF DeletionEvidence, BaselineIsEvidence
<1>5. SnapshotsTellDeletions'
  <2>1. \A t \in Side : snap'[t] \subseteq items'[t] \cup gone'
    BY <1>1, <1>3, EvidenceKept DEF DeletionEvidence, SnapshotsTellDeletions
  <2> QED BY <1>1, <2>1 DEF DeletionEvidence, SnapshotsTellDeletions
<1>6. EffectiveIsEvidence'
  BY <1>1, <1>3, EvidenceKept DEF DeletionEvidence, EffectiveIsEvidence
<1>7. TombsTellDeletions' /\ PendingTellsDeletions'
  BY <1>1, <1>3 DEF DeletionEvidence, TombsTellDeletions, PendingTellsDeletions
<1>8. PlanTellsDeletions'
  BY <1>1 DEF TypeOK, DeletionEvidence, PlanTellsDeletions
<1> QED BY <1>4, <1>5, <1>6, <1>7, <1>8 DEF DeletionEvidence

LEMMA EvidenceAdd ==
    ASSUME Truthful, TypeOK, DeletionEvidence, NEW s \in Side, NEW here,
           NEW next \in {"add_b", "commit"}, Add(s, here, next)
    PROVE  DeletionEvidence'
<1> DEFINE OnlyAdded ==
      /\ \A t \in Side : items[t] \subseteq items'[t]
      /\ \A t \in Side : eff'[t] \subseteq eff[t] \cup items'[t]
      /\ \A k \in Keys : tomb'[k] > 0 => tomb[k] > 0
      /\ \A t \in Side, k \in Keys : pend'[t][k] = "remove" => pend[t][k] = "remove"
<1>1. UNCHANGED <<base, taken, snap, rem, gone>> /\ pc' # "plan"
  BY DEF Add, history
<1>2. OnlyAdded
  <2>1. CASE UNCHANGED <<items, eff, tomb, pend, flap, bbox, calm, faults>>
    BY <2>1
  <2>2. CASE /\ pend' = [pend EXCEPT ![s] = Mark(@, add[s], "add")]
             /\ UNCHANGED <<items, eff, tomb, flap, bbox, calm, faults>>
    BY <2>2 DEF TypeOK, Mark
  <2>3. ASSUME NEW out \in Outcomes("apply:add", add[s]),
               NEW success \in AddSuccesses(add[s], out.res, VerifyAfterWrite),
               AddOutcome(s, out, success)
        PROVE  OnlyAdded
    <3>1. IsFiniteSet(add[s])
      BY KeysAssumption, FS_Subset DEF TypeOK
    <3>2. success \subseteq out.done
      BY <3>1, TruthfulAdd
    <3>3. items' = [items EXCEPT ![s] = @ \cup out.done] /\ eff' = [eff EXCEPT ![s] = @ \cup success]
      BY <2>3 DEF AddOutcome
    <3>4. \A t \in Side : items[t] \subseteq items'[t] /\ eff'[t] \subseteq eff[t] \cup items'[t]
      BY <3>2, <3>3 DEF TypeOK
    <3>5. \A k \in Keys : tomb'[k] > 0 => tomb[k] > 0
      BY <2>3 DEF TypeOK, AddOutcome, Mark
    <3>6. \A t \in Side, k \in Keys : pend'[t][k] = "remove" => pend[t][k] = "remove"
      BY <2>3 DEF TypeOK, AddOutcome, PendingAdds
    <3> QED BY <3>4, <3>5, <3>6
  <2> QED BY <2>1, <2>2, <2>3 DEF Add
<1>3. BaselineIsEvidence' /\ EffectiveIsEvidence'
  BY <1>1, <1>2 DEF DeletionEvidence, BaselineIsEvidence, EffectiveIsEvidence
<1>4. SnapshotsTellDeletions'
  BY <1>1, <1>2 DEF DeletionEvidence, SnapshotsTellDeletions
<1>5. TombsTellDeletions' /\ PendingTellsDeletions' /\ PlanTellsDeletions'
  BY <1>1, <1>2 DEF DeletionEvidence, TombsTellDeletions, PendingTellsDeletions,
                    PlanTellsDeletions
<1> QED BY <1>3, <1>4, <1>5 DEF DeletionEvidence

\* Whatever a raising provider did of a removal was planned.
LEMMA RaisedRemovals ==
    ASSUME TypeOK, DeletionEvidence, NEW s \in Side, WriteRaises(s)
    PROVE  \A t \in Side : items[t] \ items'[t] \subseteq gone
<1>1. rem[s] \subseteq gone
  BY DEF DeletionEvidence, PlanTellsDeletions
<1>2. CASE pc \in {"rem_a", "rem_b"}
  BY <1>1, <1>2 DEF WriteRaises, TypeOK
<1>3. CASE pc \notin {"rem_a", "rem_b"}
  BY <1>3 DEF WriteRaises, TypeOK
<1> QED BY <1>2, <1>3

LEMMA EvidenceCommit == TypeOK /\ DeletionEvidence /\ Commit => DeletionEvidence'
<1> SUFFICES ASSUME TypeOK, DeletionEvidence, Commit PROVE DeletionEvidence'
  OBVIOUS
<1>1. BaselineIsEvidence'
  BY DEF Commit, DeletionEvidence, EffectiveIsEvidence, BaselineIsEvidence
<1>2. SnapshotsTellDeletions' /\ EffectiveIsEvidence' /\ PlanTellsDeletions'
  BY DEF Commit, RunOver, SnapshotsTellDeletions, EffectiveIsEvidence, PlanTellsDeletions, Nothing
<1>3. TombsTellDeletions' /\ PendingTellsDeletions'
  BY DEF Commit, DeletionEvidence, TombsTellDeletions, PendingTellsDeletions
<1> QED BY <1>1, <1>2, <1>3 DEF DeletionEvidence

LEMMA EvidenceNext ==
    ASSUME Truthful, TypeOK, DeletionEvidence, [Next]_vars
    PROVE  DeletionEvidence'
<1>1. ASSUME NEW s \in Side, NEW k \in Keys, UserAdd(s, k) \/ UserDelete(s, k)
      PROVE  DeletionEvidence'
  BY <1>1, EvidenceUser
<1>2. ASSUME NEW isDry \in BOOLEAN, NEW D \in SUBSET Side, StartRun(isDry, D)
      PROVE  DeletionEvidence'
  BY <1>2, EvidenceUntouched DEF StartRun, files, history
<1>3. ASSUME NEW s \in Side, TakeSnapshot(s) PROVE DeletionEvidence'
  BY <1>3, EvidenceSnapshot
<1>4. ASSUME NEW s \in Side, WriteRaises(s) PROVE DeletionEvidence'
  <2>1. RunOver /\ UNCHANGED <<base, tomb, pend, gone>>
    BY <1>4 DEF WriteRaises, files, history
  <2> QED BY <1>4, <2>1, RaisedRemovals, EvidenceRunOver
<1>5. CASE SnapshotFails \/ Crash
  <2>1. RunOver /\ UNCHANGED <<items, base, tomb, pend, gone>>
    BY <1>5 DEF SnapshotFails, Crash, files, history
  <2> QED BY <2>1, EvidenceRunOver
<1>6. CASE Remove("A", "rem_a", "rem_b") \/ Remove("B", "rem_b", "add_a")
  BY <1>6, EvidenceRemove DEF Side
<1>7. CASE Add("A", "add_a", "add_b") \/ Add("B", "add_b", "commit")
  BY <1>7, EvidenceAdd DEF Side
<1>8. CASE Tick \/ Plan \/ Commit
  BY <1>8, EvidenceTick, EvidencePlan, EvidenceCommit
<1>9. CASE RequestCancel \/ UNCHANGED vars
  <2>1. UNCHANGED <<items, base, tomb, pend, pc, taken, snap, eff, rem, gone>>
    BY <1>9 DEF RequestCancel, vars, files, locals, history
  <2>2. pc = "plan" => taken = Side
    BY DEF DeletionEvidence, SnapshotsTellDeletions
  <2> QED BY <2>1, <2>2, EvidenceUntouched
<1> QED BY <1>1, <1>2, <1>3, <1>4, <1>5, <1>6, <1>7, <1>8, <1>9 DEF Next, RunStep

\* All evidence for a removal, on file or in a run, is evidence of a deletion.
THEOREM EvidenceInvariant == Truthful => (Spec => []DeletionEvidence)
<1>1. Truthful /\ TypeOK /\ DeletionEvidence /\ [Next]_vars => DeletionEvidence'
  BY EvidenceNext
<1>2. Truthful => (Spec => []DeletionEvidence)
  <2> SUFFICES ASSUME Truthful PROVE Spec => []DeletionEvidence
    OBVIOUS
  <2>1. TypeOK /\ DeletionEvidence /\ [Next]_vars => DeletionEvidence'
    BY <1>1
  <2> QED BY <2>1, EvidenceInit, TypeCorrect, PTL DEF Spec
<1> QED BY <1>2

\* One step takes nothing off a list but what a user has deleted.
LEMMA StepRemovals ==
    ASSUME TypeOK, DeletionEvidence, Next
    PROVE  \A s \in Side : items[s] \ items'[s] \subseteq gone'
<1>1. ASSUME NEW s \in Side, NEW k \in Keys, UserAdd(s, k)
      PROVE  \A t \in Side : items[t] \ items'[t] \subseteq gone'
  BY <1>1 DEF UserAdd, TypeOK
<1>2. ASSUME NEW s \in Side, NEW k \in Keys, UserDelete(s, k)
      PROVE  \A t \in Side : items[t] \ items'[t] \subseteq gone'
  <2>1. \A t \in Side : items[t] \ items'[t] \subseteq {k}
    BY <1>2 DEF UserDelete, TypeOK
  <2> QED BY <1>2, <2>1 DEF UserDelete
<1>3. ASSUME NEW s \in Side, NEW here, NEW next, Remove(s, here, next)
      PROVE  \A t \in Side : items[t] \ items'[t] \subseteq gone'
  <2>1. rem[s] \subseteq gone /\ gone' = gone
    BY <1>3 DEF DeletionEvidence, PlanTellsDeletions, Remove, history
  <2>2. CASE UNCHANGED items
    BY <2>2
  <2>3. ASSUME NEW out \in Outcomes("apply:remove", rem[s]), RemoveOutcome(s, out)
        PROVE  \A t \in Side : items[t] \ items'[t] \subseteq gone'
    <3>1. out.done \subseteq gone
      BY <2>1, OutcomeDone
    <3> QED BY <2>1, <2>3, <3>1 DEF TypeOK, RemoveOutcome
  <2> QED BY <1>3, <2>2, <2>3 DEF Remove
<1>4. ASSUME NEW s \in Side, NEW here, NEW next, Add(s, here, next)
      PROVE  \A t \in Side : items[t] \ items'[t] \subseteq gone'
  <2>1. CASE UNCHANGED items
    BY <2>1
  <2>2. ASSUME NEW out, NEW success, AddOutcome(s, out, success)
        PROVE  \A t \in Side : items[t] \ items'[t] \subseteq gone'
    BY <2>2 DEF TypeOK, AddOutcome
  <2> QED BY <1>4, <2>1, <2>2 DEF Add
<1>5. ASSUME NEW s \in Side, WriteRaises(s)
      PROVE  \A t \in Side : items[t] \ items'[t] \subseteq gone'
  <2>1. gone' = gone
    BY <1>5 DEF WriteRaises, history
  <2> QED BY <1>5, <2>1, RaisedRemovals
<1>6. CASE \/ Tick \/ SnapshotFails \/ Plan \/ Commit \/ RequestCancel \/ Crash
           \/ \E isDry \in BOOLEAN, D \in SUBSET Side : StartRun(isDry, D)
           \/ \E s \in Side : TakeSnapshot(s)
  <2>1. CASE Tick \/ SnapshotFails \/ Plan
    BY <2>1 DEF Tick, SnapshotFails, Plan
  <2>2. CASE Commit \/ RequestCancel \/ Crash
    BY <2>2 DEF Commit, RequestCancel, Crash
  <2>3. ASSUME NEW isDry, NEW D, StartRun(isDry, D) PROVE UNCHANGED items
    BY <2>3 DEF StartRun
  <2>4. ASSUME NEW s, TakeSnapshot(s) PROVE UNCHANGED items
    BY <2>4 DEF TakeSnapshot
  <2>5. CASE UNCHANGED items
    BY <2>5
  <2> QED BY <1>6, <2>1, <2>2, <2>3, <2>4, <2>5
<1>7. CASE Remove("A", "rem_a", "rem_b") \/ Remove("B", "rem_b", "add_a")
  BY <1>3, <1>7 DEF Side
<1>8. CASE Add("A", "add_a", "add_b") \/ Add("B", "add_b", "commit")
  BY <1>4, <1>8 DEF Side
<1> QED BY <1>1, <1>2, <1>5, <1>6, <1>7, <1>8 DEF Next, RunStep

\* The sync takes nothing off a list that no user has deleted, for any number
\* of items, edits and faults and with every combination of settings but
\* verify_after_write, as long as it is told the truth.
THEOREM RemovalsAreCopies == Truthful => (Spec => RemovalsWereAsked)
<1> SUFFICES ASSUME Truthful PROVE Spec => RemovalsWereAsked
  OBVIOUS
<1>1. TypeOK /\ DeletionEvidence /\ [Next]_vars
        => [\A s \in Side : items[s] \ items'[s] \subseteq gone']_vars
  BY StepRemovals
<1>2. Spec => []DeletionEvidence
  BY EvidenceInvariant
<1> QED BY <1>1, <1>2, TypeCorrect, PTL DEF Spec, RemovalsWereAsked

\* Baselines hold nothing that was never on the list.
THEOREM BaselineEvidence == Truthful => (Spec => []BaselineIsEvidence)
<1> SUFFICES ASSUME Truthful PROVE Spec => []BaselineIsEvidence
  OBVIOUS
<1>1. DeletionEvidence => BaselineIsEvidence
  BY DEF DeletionEvidence
<1> QED BY <1>1, EvidenceInvariant, PTL

-----------------------------------------------------------------------------
(* TwoWaySync implements SharedList as long as the sync is told the truth.    *)
(* That removals copy deletions is the evidence invariant; here the same is   *)
(* done for adds.                                                             *)

\* A planned add copies something: the key is on the other list, or was there
\* until it was deleted.  This and DeletionEvidence are inductive together.
AddsAreCopies == \A s \in Side : add[s] \subseteq items[Other(s)] \cup gone

LEMMA OthersDiffer == \A s \in Side : Other(s) \in Side \ {s}
BY DEF Side, Other

LEMMA CopiesInit == Init => AddsAreCopies
BY DEF Init, AddsAreCopies, Nothing

\* A step that deletes nothing silently and plans nothing new.
LEMMA CopiesKept ==
    ASSUME AddsAreCopies, gone \subseteq gone',
           \A s \in Side : items[s] \ items'[s] \subseteq gone',
           \A s \in Side : add'[s] \subseteq add[s]
    PROVE  AddsAreCopies'
<1> SUFFICES ASSUME NEW s \in Side, NEW k \in add'[s]
             PROVE  k \in items'[Other(s)] \cup gone'
  BY DEF AddsAreCopies
<1>1. k \in items[Other(s)] \cup gone
  BY DEF AddsAreCopies
<1>2. items[Other(s)] \ items'[Other(s)] \subseteq gone'
  BY OtherSide
<1> QED BY <1>1, <1>2

\* What the planner adds to one side is in the other's snapshot.
LEMMA CopiesPlan == TypeOK /\ DeletionEvidence /\ Plan => AddsAreCopies'
<1> SUFFICES ASSUME TypeOK, DeletionEvidence, Plan, NEW s \in Side
             PROVE  add'[s] \subseteq items[Other(s)] \cup gone
  BY DEF AddsAreCopies, Plan, history
<1>1. add'[s] \subseteq PlannedAdds(s)
  BY DEF Plan
<1>2. PlannedAdds(s) \subseteq Effective(Other(s))
  BY DEF PlannedAdds, OnlyOn
<1>3. Effective(Other(s)) \subseteq snap[Other(s)]
  BY DEF Effective
<1>4. snap[Other(s)] \subseteq items[Other(s)] \cup gone
  BY OtherSide DEF DeletionEvidence, SnapshotsTellDeletions
<1> QED BY <1>1, <1>2, <1>3, <1>4

\* No step but Plan puts anything into add.
LEMMA AddsShrink ==
    ASSUME TypeOK, Next, ~Plan
    PROVE  \A s \in Side : add'[s] \subseteq add[s]
<1>1. ASSUME RunOver PROVE \A s \in Side : add'[s] \subseteq add[s]
  BY <1>1 DEF RunOver, Nothing
<1>2. ASSUME NEW s \in Side, WriteRaises(s)
      PROVE  \A t \in Side : add'[t] \subseteq add[t]
  BY <1>1, <1>2 DEF WriteRaises
<1>3. CASE SnapshotFails \/ Commit \/ Crash
  BY <1>1, <1>3 DEF SnapshotFails, Commit, Crash
<1>4. ASSUME NEW s \in Side, NEW here, NEW next, Add(s, here, next)
      PROVE  \A t \in Side : add'[t] \subseteq add[t]
  BY <1>4 DEF TypeOK, Add
<1>5. CASE Add("A", "add_a", "add_b") \/ Add("B", "add_b", "commit")
  BY <1>4, <1>5 DEF Side
<1>6. CASE UNCHANGED add
  BY <1>6
<1>7. ASSUME \/ Tick \/ RequestCancel
             \/ Remove("A", "rem_a", "rem_b") \/ Remove("B", "rem_b", "add_a")
      PROVE  UNCHANGED add
  BY <1>7 DEF Tick, RequestCancel, Remove, locals
<1>8. ASSUME NEW s \in Side, NEW k \in Keys, UserAdd(s, k) \/ UserDelete(s, k)
      PROVE  UNCHANGED add
  BY <1>8 DEF UserAdd, UserDelete, locals
<1>9. ASSUME NEW s \in Side, TakeSnapshot(s) PROVE UNCHANGED add
  BY <1>9 DEF TakeSnapshot
<1>10. ASSUME NEW isDry \in BOOLEAN, NEW D \in SUBSET Side, StartRun(isDry, D)
       PROVE  UNCHANGED add
  BY <1>10 DEF StartRun
<1> QED BY <1>2, <1>3, <1>5, <1>6, <1>7, <1>8, <1>9, <1>10 DEF Next, RunStep

LEMMA GoneGrows == TypeOK /\ Next => gone \subseteq gone'
<1> SUFFICES ASSUME TypeOK, Next PROVE gone \subseteq gone'
  OBVIOUS
<1>1. ASSUME NEW s \in Side, NEW k \in Keys, UserAdd(s, k) \/ UserDelete(s, k)
      PROVE  gone \subseteq gone'
  BY <1>1 DEF UserAdd, UserDelete
<1>2. ASSUME \/ \E s \in Side : WriteRaises(s) \/ TakeSnapshot(s)
             \/ \E isDry \in BOOLEAN, D \in SUBSET Side : StartRun(isDry, D)
      PROVE  UNCHANGED gone
  BY <1>2 DEF WriteRaises, TakeSnapshot, StartRun, history
<1>3. ASSUME Tick \/ SnapshotFails \/ Plan \/ Commit \/ RequestCancel \/ Crash
      PROVE  UNCHANGED gone
  BY <1>3 DEF Tick, SnapshotFails, Plan, Commit, RequestCancel, Crash, history
<1>4. ASSUME \/ Remove("A", "rem_a", "rem_b") \/ Remove("B", "rem_b", "add_a")
             \/ Add("A", "add_a", "add_b") \/ Add("B", "add_b", "commit")
      PROVE  UNCHANGED gone
  BY <1>4 DEF Remove, Add, history
<1> QED BY <1>1, <1>2, <1>3, <1>4 DEF Next, RunStep

LEMMA CopiesNext ==
    ASSUME TypeOK, DeletionEvidence, AddsAreCopies, [Next]_vars
    PROVE  AddsAreCopies'
<1>1. CASE Plan
  BY <1>1, CopiesPlan
<1>2. CASE Next /\ ~Plan
  BY <1>2, CopiesKept, AddsShrink, GoneGrows, StepRemovals
<1>3. CASE UNCHANGED vars
  BY <1>3 DEF AddsAreCopies, vars, locals, history
<1> QED BY <1>1, <1>2, <1>3

\* Every planned add is a copy, at every moment of a run.
THEOREM CopiesInvariant == Truthful => (Spec => []AddsAreCopies)
<1> SUFFICES ASSUME Truthful PROVE Spec => []AddsAreCopies
  OBVIOUS
<1>1. TypeOK /\ DeletionEvidence /\ AddsAreCopies /\ [Next]_vars => AddsAreCopies'
  BY CopiesNext
<1>2. Spec => []DeletionEvidence
  BY EvidenceInvariant
<1> QED BY <1>1, <1>2, CopiesInit, TypeCorrect, PTL DEF Spec

-----------------------------------------------------------------------------
(* Every step of the sync is a step of SharedList, or none *)

SharedStep == [Shared!SharedNext]_<<items, gone, edits>>

LEMMA UserStep ==
    ASSUME NEW s \in Side, NEW k \in Keys, UserAdd(s, k) \/ UserDelete(s, k)
    PROVE  SharedStep
<1>1. UserAdd(s, k) => Shared!AddItems(s, {k})
  BY DEF UserAdd, Shared!AddItems
<1>2. UserDelete(s, k) => Shared!DeleteItem(s, k)
  BY DEF UserDelete, Shared!DeleteItem
<1> QED BY <1>1, <1>2 DEF SharedStep, Shared!SharedNext

LEMMA WithdrawStep ==
    ASSUME NEW s \in Side, NEW D, D \subseteq gone,
           items' = [items EXCEPT ![s] = @ \ D], UNCHANGED <<gone, edits>>
    PROVE  SharedStep
BY DEF SharedStep, Shared!SharedNext, Shared!WithdrawFrom

LEMMA CopyStep ==
    ASSUME NEW s \in Side, NEW D, D \subseteq items[Other(s)] \cup gone,
           items' = [items EXCEPT ![s] = @ \cup D], UNCHANGED <<gone, edits>>
    PROVE  SharedStep
<1>1. D \subseteq Shared!Elsewhere(s)
  BY OthersDiffer DEF Shared!Elsewhere
<1>2. Shared!CopyTo(s)
  BY <1>1 DEF Shared!CopyTo
<1> QED BY <1>2 DEF SharedStep, Shared!SharedNext

LEMMA RemoveStep ==
    ASSUME DeletionEvidence, NEW s \in Side, NEW here, NEW next, Remove(s, here, next)
    PROVE  SharedStep
<1>1. rem[s] \subseteq gone /\ UNCHANGED <<gone, edits>>
  BY DEF DeletionEvidence, PlanTellsDeletions, Remove, history
<1>2. CASE UNCHANGED items
  BY <1>1, <1>2 DEF SharedStep
<1>3. ASSUME NEW out \in Outcomes("apply:remove", rem[s]), RemoveOutcome(s, out)
      PROVE  SharedStep
  <2>1. out.done \subseteq gone
    BY <1>1, OutcomeDone
  <2>2. items' = [items EXCEPT ![s] = @ \ out.done]
    BY <1>3 DEF RemoveOutcome
  <2> QED BY <1>1, <2>1, <2>2, WithdrawStep
<1> QED BY <1>2, <1>3 DEF Remove

LEMMA AddStep ==
    ASSUME AddsAreCopies, NEW s \in Side, NEW here, NEW next, Add(s, here, next)
    PROVE  SharedStep
<1>1. add[s] \subseteq items[Other(s)] \cup gone /\ UNCHANGED <<gone, edits>>
  BY DEF AddsAreCopies, Add, history
<1>2. CASE UNCHANGED items
  BY <1>1, <1>2 DEF SharedStep
<1>3. ASSUME NEW out \in Outcomes("apply:add", add[s]), NEW success,
             AddOutcome(s, out, success)
      PROVE  SharedStep
  <2>1. out.done \subseteq items[Other(s)] \cup gone
    BY <1>1, OutcomeDone
  <2>2. items' = [items EXCEPT ![s] = @ \cup out.done]
    BY <1>3 DEF AddOutcome
  <2> QED BY <1>1, <2>1, <2>2, CopyStep
<1> QED BY <1>2, <1>3 DEF Add

LEMMA RaiseStep ==
    ASSUME DeletionEvidence, AddsAreCopies, NEW s \in Side, WriteRaises(s)
    PROVE  SharedStep
<1>1. /\ rem[s] \subseteq gone /\ add[s] \subseteq items[Other(s)] \cup gone
      /\ UNCHANGED <<gone, edits>>
  BY DEF DeletionEvidence, PlanTellsDeletions, AddsAreCopies, WriteRaises, history
<1>2. CASE pc \in {"rem_a", "rem_b"}
  <2>1. PICK D : D \subseteq rem[s] /\ items' = [items EXCEPT ![s] = @ \ D]
    BY <1>2 DEF WriteRaises
  <2> QED BY <1>1, <2>1, WithdrawStep
<1>3. CASE pc \notin {"rem_a", "rem_b"}
  <2>1. PICK D : D \subseteq add[s] /\ items' = [items EXCEPT ![s] = @ \cup D]
    BY <1>3 DEF WriteRaises
  <2> QED BY <1>1, <2>1, CopyStep
<1> QED BY <1>2, <1>3

LEMMA StepSimulated ==
    ASSUME DeletionEvidence, AddsAreCopies, [Next]_vars
    PROVE  SharedStep
<1>1. ASSUME NEW s \in Side, NEW k \in Keys, UserAdd(s, k) \/ UserDelete(s, k)
      PROVE  SharedStep
  BY <1>1, UserStep
<1>2. CASE Remove("A", "rem_a", "rem_b") \/ Remove("B", "rem_b", "add_a")
  BY <1>2, RemoveStep DEF Side
<1>3. CASE Add("A", "add_a", "add_b") \/ Add("B", "add_b", "commit")
  BY <1>3, AddStep DEF Side
<1>4. ASSUME NEW s \in Side, WriteRaises(s) PROVE SharedStep
  BY <1>4, RaiseStep
<1>5. ASSUME \/ \E s \in Side : TakeSnapshot(s)
             \/ \E isDry \in BOOLEAN, D \in SUBSET Side : StartRun(isDry, D)
      PROVE  UNCHANGED <<items, gone, edits>>
  BY <1>5 DEF TakeSnapshot, StartRun, history
<1>6. ASSUME Tick \/ SnapshotFails \/ Plan \/ Commit \/ RequestCancel \/ Crash
      PROVE  UNCHANGED <<items, gone, edits>>
  BY <1>6 DEF Tick, SnapshotFails, Plan, Commit, RequestCancel, Crash, history
<1>7. CASE UNCHANGED vars
  BY <1>7 DEF SharedStep, vars, history
<1> QED BY <1>1, <1>2, <1>3, <1>4, <1>5, <1>6, <1>7 DEF SharedStep, Next, RunStep

\* Told the truth, the sync does to the two lists nothing but what SharedList
\* allows: copy what is or was on the other list, withdraw what was deleted.
THEOREM ListsAreShared == Truthful => (Spec => ImplementsSharedList)
<1> SUFFICES ASSUME Truthful PROVE Spec => ImplementsSharedList
  OBVIOUS
<1>1. Init => Shared!SharedInit
  BY DEF Init, Shared!SharedInit
<1>2. DeletionEvidence /\ AddsAreCopies /\ [Next]_vars
        => [Shared!SharedNext]_<<items, gone, edits>>
  BY StepSimulated DEF SharedStep
<1>3. Spec => []DeletionEvidence /\ []AddsAreCopies
  BY EvidenceInvariant, CopiesInvariant, PTL
<1> QED BY <1>1, <1>2, <1>3, PTL DEF Spec, ImplementsSharedList, Shared!SharedSpec

-----------------------------------------------------------------------------
(* What a run that nothing disturbs achieves.  The plan aims at one list for  *)
(* both sides, every write done in full brings a side nearer to its aim, and  *)
(* at the end of the run nothing of the plan is left.                         *)

\* What side s will hold, as the run sees it, once its planned writes are done.
Aim(s) == (eff[s] \ rem[s]) \cup add[s]

Applying == {"rem_a", "rem_b", "add_a", "add_b", "commit"}
AimsAgree == pc \in Applying => Aim("A") = Aim("B")

\* A run spends its plan batch by batch and leaves nothing when it is over.
PlanSpent ==
    /\ pc # "rem_a" => rem["A"] = {}
    /\ pc \notin {"rem_a", "rem_b"} => rem["B"] = {}
    /\ pc \notin {"rem_a", "rem_b", "add_a"} => add["A"] = {}
    /\ pc \notin Applying \ {"commit"} => add["B"] = {}
    /\ pc \notin {"snap", "plan"} => taken = {}
    /\ pc = "idle" => ~cancel
    /\ pc = "plan" => taken = Side

Undisturbed == ~dry /\ down = {} /\ ~cancel

LEMMA SpentInit == Init => PlanSpent
BY DEF Init, PlanSpent, Nothing, Side, Applying

LEMMA SpentNext ==
    ASSUME TypeOK, PlanSpent, [Next]_vars
    PROVE  PlanSpent'
<1>1. ASSUME RunOver PROVE PlanSpent'
  BY <1>1 DEF RunOver, PlanSpent, Nothing, Side, Applying
<1>2. CASE SnapshotFails \/ Commit \/ Crash
  BY <1>1, <1>2 DEF SnapshotFails, Commit, Crash
<1>3. ASSUME NEW s \in Side, WriteRaises(s) PROVE PlanSpent'
  BY <1>1, <1>3 DEF WriteRaises
<1>4. ASSUME UNCHANGED <<pc, taken, cancel, rem, add>> PROVE PlanSpent'
  BY <1>4 DEF PlanSpent
<1>5. ASSUME NEW s \in Side, NEW k \in Keys, UserAdd(s, k) \/ UserDelete(s, k)
      PROVE  PlanSpent'
  BY <1>4, <1>5 DEF UserAdd, UserDelete, locals
<1>6. CASE Tick \/ UNCHANGED vars
  BY <1>4, <1>6 DEF Tick, vars, locals
<1>7. CASE RequestCancel
  BY <1>7 DEF RequestCancel, PlanSpent
<1>8. ASSUME NEW isDry \in BOOLEAN, NEW D \in SUBSET Side, StartRun(isDry, D)
      PROVE  PlanSpent'
  BY <1>8 DEF StartRun, PlanSpent, Applying
<1>9. ASSUME NEW s \in Side, TakeSnapshot(s) PROVE PlanSpent'
  BY <1>9 DEF TakeSnapshot, PlanSpent, Applying
<1>10. CASE Plan
  BY <1>10 DEF Plan, PlanSpent, Applying
<1>11. CASE Remove("A", "rem_a", "rem_b")
  BY <1>11 DEF Remove, PlanSpent, Applying, TypeOK, Side
<1>12. CASE Remove("B", "rem_b", "add_a")
  BY <1>12 DEF Remove, PlanSpent, Applying, TypeOK, Side
<1>13. CASE Add("A", "add_a", "add_b")
  BY <1>13 DEF Add, PlanSpent, Applying, TypeOK, Side
<1>14. CASE Add("B", "add_b", "commit")
  BY <1>14 DEF Add, PlanSpent, Applying, TypeOK, Side
<1> QED BY <1>2, <1>3, <1>5, <1>6, <1>7, <1>8, <1>9, <1>10, <1>11, <1>12, <1>13, <1>14
           DEF Next, RunStep

\* A run spends its plan, with any settings, providers and faults.
THEOREM SpentInvariant == Spec => []PlanSpent
<1>1. TypeOK /\ PlanSpent /\ [Next]_vars => PlanSpent'
  BY SpentNext
<1> QED BY <1>1, SpentInit, TypeCorrect, PTL DEF Spec

\* Observed deletions are not in the snapshot anyway.
LEMMA EffectiveIsSnapshot == \A s \in Side : Effective(s) = snap[s]
BY DEF Effective, Observed, Shrunk

LEMMA RemovalsOnlyOn == \A s \in Side : Removals(s) \subseteq OnlyOn(s)
BY DEF Removals, PlannedRemovals, Retried

\* A first run, without a baseline and without tombstones, deletes nothing.
LEMMA BootstrapKeeps ==
    ASSUME Bootstrap, NEW s \in Side, NEW k
    PROVE  ~DeletionWanted(s, k)
<1>1. Shrunk(Other(s)) = {} /\ Observed(Other(s)) = {} /\ k \notin Tombs
  BY DEF Bootstrap, Shrunk, Observed, Other
<1> QED BY <1>1 DEF DeletionWanted, TombBlocksRemove

\* The plan treats every item that is on one side only: it is removed there or
\* added to the other side, and never both.
LEMMA PlanTreatsAll ==
    ASSUME TypeOK, AllowAdds, AllowMassDelete, Plan, NEW s \in Side
    PROVE  /\ eff'[s] = snap[s] /\ rem'[s] = Removals(s)
           /\ rem'[s] \subseteq snap[s] \ snap[Other(s)]
           /\ add'[s] \subseteq snap[Other(s)] \ snap[s]
           /\ add'[s] \cap rem'[Other(s)] = {}
           /\ (snap[s] \ snap[Other(s)]) \ rem'[s] \subseteq add'[Other(s)]
<1>1. \A t \in Side : OnlyOn(t) = snap[t] \ snap[Other(t)]
  BY EffectiveIsSnapshot, OtherSide DEF OnlyOn
<1>2. \A t \in Side : /\ eff'[t] = snap[t] /\ rem'[t] = Removals(t)
                      /\ add'[t] = PlannedAdds(t) \ (Removals("A") \cup Removals("B"))
  BY EffectiveIsSnapshot DEF Plan, MassDeleteBlocked
<1>3. Other(s) \in Side /\ Other(Other(s)) = s
  BY DEF Other, Side
<1>4. PlannedAdds(s) \subseteq OnlyOn(Other(s))
  BY DEF PlannedAdds
<1>5. add'[s] \cap rem'[Other(s)] = {}
  BY <1>2, <1>3 DEF Side
<1>6. ASSUME NEW k \in OnlyOn(s), k \notin rem'[s] PROVE k \in add'[Other(s)]
  <2>1. ~DeletionWanted(s, k)
    BY <1>2, <1>6, BootstrapKeeps DEF Removals, PlannedRemovals
  <2>2. k \in PlannedAdds(Other(s))
    BY <1>3, <1>6, <2>1 DEF PlannedAdds
  <2>3. k \notin Removals(Other(s))
    BY <1>1, <1>3, <1>6, RemovalsOnlyOn
  <2>4. k \notin Removals("A") \cup Removals("B")
    BY <1>2, <1>6, <2>3 DEF Side, Other
  <2> QED BY <1>2, <1>3, <2>2, <2>4
<1> QED BY <1>1, <1>2, <1>3, <1>4, <1>5, <1>6, RemovalsOnlyOn

LEMMA PlanAims ==
    ASSUME TypeOK, AllowAdds, AllowMassDelete, Plan
    PROVE  Aim("A")' = Aim("B")'
<1> DEFINE X == snap["A"]
           Y == snap["B"]
<1>1. /\ eff'["A"] = X /\ rem'["A"] \subseteq X \ Y /\ add'["A"] \subseteq Y \ X
      /\ add'["A"] \cap rem'["B"] = {} /\ (X \ Y) \ rem'["A"] \subseteq add'["B"]
  BY PlanTreatsAll DEF Side, Other
<1>2. /\ eff'["B"] = Y /\ rem'["B"] \subseteq Y \ X /\ add'["B"] \subseteq X \ Y
      /\ add'["B"] \cap rem'["A"] = {} /\ (Y \ X) \ rem'["B"] \subseteq add'["A"]
  BY PlanTreatsAll DEF Side, Other
<1> QED BY <1>1, <1>2 DEF Aim

\* A batch done in full is written and credited in full.
LEMMA RemoveWhole ==
    ASSUME TypeOK, Undisturbed, NEW s \in Side, NEW here, NEW next,
           Remove(s, here, next), faults' = faults
    PROVE  /\ items'[s] = items[s] \ rem[s] /\ items'[Other(s)] = items[Other(s)]
           /\ eff'[s] = eff[s] \ rem[s] /\ eff'[Other(s)] = eff[Other(s)]
           /\ \A t \in Side, k \in Keys : pend'[t][k] = "remove" => pend[t][k] = "remove"
<1>1. CASE UNCHANGED <<items, eff, tomb, pend, calm, faults>> /\ rem[s] = {}
  BY <1>1
<1>2. ASSUME NEW out \in Outcomes("apply:remove", rem[s]), RemoveOutcome(s, out)
      PROVE  /\ items'[s] = items[s] \ rem[s] /\ items'[Other(s)] = items[Other(s)]
             /\ eff'[s] = eff[s] \ rem[s] /\ eff'[Other(s)] = eff[Other(s)]
             /\ \A t \in Side, k \in Keys : pend'[t][k] = "remove" => pend[t][k] = "remove"
  <2>1. out.done = rem[s]
    BY <1>2, NumbersAssumption DEF RemoveOutcome, Complete, Fault, TypeOK, Undisturbed
  <2>2. PICK m \in ReportModes, D \in SUBSET rem[s] :
           out = [done |-> D, res |-> Normalize("apply:remove", Report(m, rem[s], D), rem[s])]
    BY DEF Outcomes, Undisturbed
  <2>3. IsFiniteSet(rem[s])
    BY KeysAssumption, FS_Subset DEF TypeOK
  <2>4. RemoveSuccess(rem[s], out.res) = rem[s]
    BY <2>1, <2>2, <2>3, CompleteRemoval, ModesAssumption
  <2>5. /\ items' = [items EXCEPT ![s] = @ \ rem[s]] /\ eff' = [eff EXCEPT ![s] = @ \ rem[s]]
        /\ pend' = [pend EXCEPT ![s] = Mark(Mark(@, rem[s], "none"), rem[s] \ rem[s], "remove")]
    BY <1>2, <2>1, <2>4 DEF RemoveOutcome
  <2>6. \A t \in Side, k \in Keys : pend'[t][k] = "remove" => pend[t][k] = "remove"
    BY <2>5 DEF TypeOK, Mark
  <2> QED BY <2>5, <2>6, OthersDiffer DEF TypeOK
<1> QED BY <1>1, <1>2 DEF Remove, Undisturbed

LEMMA AddWhole ==
    ASSUME TypeOK, Undisturbed, NEW s \in Side, NEW here, NEW next,
           Add(s, here, next), faults' = faults
    PROVE  /\ items'[s] = items[s] \cup add[s] /\ items'[Other(s)] = items[Other(s)]
           /\ eff'[s] = eff[s] \cup add[s] /\ eff'[Other(s)] = eff[Other(s)]
           /\ \A t \in Side, k \in Keys : pend'[t][k] = "remove" => pend[t][k] = "remove"
<1>1. CASE UNCHANGED <<items, eff, tomb, pend, flap, bbox, calm, faults>> /\ add[s] = {}
  BY <1>1
<1>2. ASSUME NEW out \in Outcomes("apply:add", add[s]),
             NEW success \in AddSuccesses(add[s], out.res, VerifyAfterWrite),
             AddOutcome(s, out, success)
      PROVE  /\ items'[s] = items[s] \cup add[s] /\ items'[Other(s)] = items[Other(s)]
             /\ eff'[s] = eff[s] \cup add[s] /\ eff'[Other(s)] = eff[Other(s)]
             /\ \A t \in Side, k \in Keys : pend'[t][k] = "remove" => pend[t][k] = "remove"
  <2>1. out.done = add[s]
    BY <1>2, NumbersAssumption DEF AddOutcome, Complete, Fault, TypeOK, Undisturbed
  <2>2. PICK m \in ReportModes, D \in SUBSET add[s] :
           out = [done |-> D, res |-> Normalize("apply:add", Report(m, add[s], D), add[s])]
    BY DEF Outcomes, Undisturbed
  <2>3. IsFiniteSet(add[s])
    BY KeysAssumption, FS_Subset DEF TypeOK
  <2>4. success = add[s]
    BY <2>1, <2>2, <2>3, CompleteAddition, ModesAssumption, FlagsAssumption
  <2>5. items' = [items EXCEPT ![s] = @ \cup add[s]] /\ eff' = [eff EXCEPT ![s] = @ \cup add[s]]
    BY <1>2, <2>1, <2>4 DEF AddOutcome
  <2>6. \A t \in Side, k \in Keys : pend'[t][k] = "remove" => pend[t][k] = "remove"
    BY <1>2 DEF TypeOK, AddOutcome, PendingAdds
  <2> QED BY <2>5, <2>6, OthersDiffer DEF TypeOK
<1> QED BY <1>1, <1>2 DEF Add, Undisturbed

\* The run in progress has met no fault and no edit: what it knows is what is
\* on the lists, and it aims at the same list on both sides.
CalmRun ==
    calm =>
        /\ Undisturbed
        /\ \A s \in taken : snap[s] = items[s]
        /\ pc \in Applying => eff = items
        /\ AimsAgree

LEMMA AppliedAims ==
    ASSUME TypeOK, PlanSpent, NEW s \in Side, NEW here, NEW next,
           \/ /\ Remove(s, here, next)
              /\ eff'[s] = eff[s] \ rem[s] /\ eff'[Other(s)] = eff[Other(s)]
           \/ /\ Add(s, here, next) /\ rem[s] = {}
              /\ eff'[s] = eff[s] \cup add[s] /\ eff'[Other(s)] = eff[Other(s)]
    PROVE  Aim("A")' = Aim("A") /\ Aim("B")' = Aim("B")
<1>1. \A t \in Side : t = s \/ t = Other(s)
  BY DEF Side, Other
<1>2. CASE /\ Remove(s, here, next)
           /\ eff'[s] = eff[s] \ rem[s] /\ eff'[Other(s)] = eff[Other(s)]
  <2>1. rem'[s] = {} /\ rem'[Other(s)] = rem[Other(s)] /\ add' = add
    BY <1>2, OthersDiffer DEF Remove, TypeOK
  <2>2. \A t \in Side : (eff'[t] \ rem'[t]) \cup add'[t] = (eff[t] \ rem[t]) \cup add[t]
    BY <1>1, <1>2, <2>1
  <2> QED BY <2>2 DEF Aim, Side
<1>3. CASE /\ Add(s, here, next) /\ rem[s] = {}
           /\ eff'[s] = eff[s] \cup add[s] /\ eff'[Other(s)] = eff[Other(s)]
  <2>1. add'[s] = {} /\ add'[Other(s)] = add[Other(s)] /\ rem' = rem
    BY <1>3, OthersDiffer DEF Add, TypeOK
  <2>2. \A t \in Side : (eff'[t] \ rem'[t]) \cup add'[t] = (eff[t] \ rem[t]) \cup add[t]
    BY <1>1, <1>3, <2>1
  <2> QED BY <2>2 DEF Aim, Side
<1> QED BY <1>2, <1>3

LEMMA CalmRemove ==
    ASSUME TypeOK, PlanSpent, CalmRun, NEW s \in Side, NEW here \in Applying,
           NEW next \in {"rem_b", "add_a"}, Remove(s, here, next)
    PROVE  CalmRun'
<1> SUFFICES ASSUME calm' PROVE CalmRun'
  BY DEF CalmRun
<1>1. calm /\ faults' = faults
  <2>1. CASE UNCHANGED <<calm, faults>>
    BY <2>1
  <2>2. ASSUME NEW out \in Outcomes("apply:remove", rem[s]), RemoveOutcome(s, out)
        PROVE  calm /\ faults' = faults
    BY <2>2 DEF RemoveOutcome, Complete
  <2> QED BY <2>1, <2>2 DEF Remove
<1>2. Undisturbed /\ eff = items /\ Aim("A") = Aim("B") /\ taken = {}
  BY <1>1 DEF CalmRun, AimsAgree, Remove, PlanSpent, Applying
<1>3. /\ items'[s] = items[s] \ rem[s] /\ items'[Other(s)] = items[Other(s)]
      /\ eff'[s] = eff[s] \ rem[s] /\ eff'[Other(s)] = eff[Other(s)]
  BY <1>1, <1>2, RemoveWhole
<1>4. items' \in [Side -> SUBSET Keys] /\ eff' \in [Side -> SUBSET Keys]
  BY RemoveType DEF TypeOK
<1>5. eff' = items'
  <2>1. \A t \in Side : eff'[t] = items'[t]
    BY <1>2, <1>3 DEF Side, Other
  <2> QED BY <1>4, <2>1
<1>6. Aim("A")' = Aim("B")'
  BY <1>2, <1>3, AppliedAims
<1>7. UNCHANGED <<dry, down, cancel, taken>>
  BY DEF Remove
<1> QED BY <1>2, <1>5, <1>6, <1>7 DEF CalmRun, AimsAgree, Undisturbed

LEMMA CalmAdd ==
    ASSUME TypeOK, PlanSpent, CalmRun, NEW s \in Side, NEW here \in {"add_a", "add_b"},
           NEW next \in {"add_b", "commit"}, Add(s, here, next)
    PROVE  CalmRun'
<1> SUFFICES ASSUME calm' PROVE CalmRun'
  BY DEF CalmRun
<1>1. calm /\ faults' = faults
  <2>1. CASE UNCHANGED <<calm, faults>>
    BY <2>1
  <2>2. ASSUME NEW out, NEW success, AddOutcome(s, out, success)
        PROVE  calm /\ faults' = faults
    BY <2>2 DEF AddOutcome, Complete
  <2> QED BY <2>1, <2>2 DEF Add
<1>2. Undisturbed /\ eff = items /\ Aim("A") = Aim("B") /\ taken = {} /\ rem[s] = {}
  BY <1>1 DEF CalmRun, AimsAgree, Add, PlanSpent, Applying, Side
<1>3. /\ items'[s] = items[s] \cup add[s] /\ items'[Other(s)] = items[Other(s)]
      /\ eff'[s] = eff[s] \cup add[s] /\ eff'[Other(s)] = eff[Other(s)]
  BY <1>1, <1>2, AddWhole
<1>4. items' \in [Side -> SUBSET Keys] /\ eff' \in [Side -> SUBSET Keys]
  BY AddType DEF TypeOK
<1>5. eff' = items'
  <2>1. \A t \in Side : eff'[t] = items'[t]
    BY <1>2, <1>3 DEF Side, Other
  <2> QED BY <1>4, <2>1
<1>6. Aim("A")' = Aim("B")'
  BY <1>2, <1>3, AppliedAims
<1>7. UNCHANGED <<dry, down, cancel, taken>>
  BY DEF Add
<1> QED BY <1>2, <1>5, <1>6, <1>7 DEF CalmRun, AimsAgree, Undisturbed

LEMMA CalmBeforePlan ==
    ASSUME TypeOK, PlanSpent, CalmRun,
           \/ \E isDry \in BOOLEAN, D \in SUBSET Side : StartRun(isDry, D)
           \/ \E s \in Side : TakeSnapshot(s)
    PROVE  CalmRun'
<1>1. ASSUME NEW isDry \in BOOLEAN, NEW D \in SUBSET Side, StartRun(isDry, D)
      PROVE  CalmRun'
  BY <1>1 DEF StartRun, PlanSpent, CalmRun, AimsAgree, Undisturbed, Applying
<1>2. ASSUME NEW s \in Side, TakeSnapshot(s) PROVE CalmRun'
  <2>1. CASE ~calm'
    BY <2>1 DEF CalmRun
  <2>2. CASE calm'
    <3>1. /\ calm /\ snap' = [snap EXCEPT ![s] = items[s]] /\ taken' = taken \cup {s}
          /\ UNCHANGED <<dry, down, cancel, items>> /\ pc' \notin Applying
      BY <1>2, <2>2 DEF TakeSnapshot, Applying
    <3>2. \A t \in taken' : snap'[t] = items'[t]
      BY <3>1 DEF CalmRun, TypeOK
    <3> QED BY <3>1, <3>2 DEF CalmRun, AimsAgree, Undisturbed
  <2> QED BY <2>1, <2>2
<1> QED BY <1>1, <1>2

LEMMA CalmPlan ==
    ASSUME TypeOK, PlanSpent, CalmRun, AllowAdds, AllowMassDelete, Plan
    PROVE  CalmRun'
<1> SUFFICES ASSUME calm' PROVE CalmRun'
  BY DEF CalmRun
<1>1. calm /\ taken = Side /\ taken' = {} /\ UNCHANGED <<items, dry, down, cancel>>
  BY DEF Plan, PlanSpent
<1>2. \A s \in Side : eff'[s] = items[s]
  BY <1>1, EffectiveIsSnapshot DEF Plan, CalmRun
<1>3. eff' = items'
  BY <1>1, <1>2 DEF Plan, TypeOK
<1> QED BY <1>1, <1>3, PlanAims DEF CalmRun, AimsAgree, Undisturbed

LEMMA CalmNext ==
    ASSUME TypeOK, PlanSpent, CalmRun, AllowAdds, AllowMassDelete, [Next]_vars
    PROVE  CalmRun'
<1>1. ASSUME ~calm' PROVE CalmRun'
  BY <1>1 DEF CalmRun
<1>2. ASSUME NEW s \in Side, NEW k \in Keys, UserAdd(s, k) \/ UserDelete(s, k)
      PROVE  CalmRun'
  BY <1>1, <1>2 DEF UserAdd, UserDelete
<1>3. ASSUME NEW s \in Side, WriteRaises(s) PROVE CalmRun'
  BY <1>1, <1>3 DEF WriteRaises, RunOver
<1>4. CASE SnapshotFails \/ Commit \/ Crash \/ RequestCancel
  BY <1>1, <1>4 DEF SnapshotFails, Commit, Crash, RequestCancel, RunOver
<1>5. CASE Tick \/ UNCHANGED vars
  <2>1. UNCHANGED <<calm, dry, down, cancel, taken, snap, items, pc, eff, rem, add>>
    BY <1>5 DEF Tick, vars, locals
  <2> QED BY <2>1 DEF CalmRun, AimsAgree, Aim, Undisturbed
<1>6. CASE \/ \E isDry \in BOOLEAN, D \in SUBSET Side : StartRun(isDry, D)
           \/ \E s \in Side : TakeSnapshot(s)
  BY <1>6, CalmBeforePlan
<1>7. CASE Plan
  BY <1>7, CalmPlan
<1>8. CASE Remove("A", "rem_a", "rem_b") \/ Remove("B", "rem_b", "add_a")
  BY <1>8, CalmRemove DEF Side, Applying
<1>9. CASE Add("A", "add_a", "add_b") \/ Add("B", "add_b", "commit")
  BY <1>9, CalmAdd DEF Side
<1> QED BY <1>2, <1>3, <1>4, <1>5, <1>6, <1>7, <1>8, <1>9 DEF Next, RunStep

\* A run that nothing disturbs makes the two lists equal and saves baselines
\* that are the lists, whatever tombstones, unresolved writes and baselines it
\* started from, as long as adds are allowed and the mass-delete guard is off.
THEOREM CleanRuns == AllowAdds /\ AllowMassDelete => (Spec => []CleanRunConverges)
<1> SUFFICES ASSUME AllowAdds, AllowMassDelete PROVE Spec => []CleanRunConverges
  OBVIOUS
<1>1. Init => CalmRun
  BY DEF Init, CalmRun
<1>2. TypeOK /\ PlanSpent /\ CalmRun /\ [Next]_vars => CalmRun'
  BY CalmNext
<1>3. TypeOK /\ PlanSpent /\ CalmRun => CleanRunConverges
  <2> SUFFICES ASSUME TypeOK, PlanSpent, CalmRun, pc = "commit", calm
               PROVE  items["A"] = items["B"] /\ eff = items
    BY DEF CleanRunConverges
  <2>1. eff = items /\ Aim("A") = Aim("B")
    BY DEF CalmRun, AimsAgree, Applying
  <2>2. rem["A"] = {} /\ rem["B"] = {} /\ add["A"] = {} /\ add["B"] = {}
    BY DEF PlanSpent, Applying
  <2> QED BY <2>1, <2>2 DEF Aim
<1> QED BY <1>1, <1>2, <1>3, TypeCorrect, SpentInvariant, PTL DEF Spec

-----------------------------------------------------------------------------
(* What no fault has disturbed yet: the baselines of the two sides are one    *)
(* list, no removal is left over from before, and a run removes nothing that  *)
(* the baseline does not hold.                                                *)

FaultlessRun ==
    faults = 0 =>
        /\ Undisturbed
        /\ base["A"] = base["B"]
        /\ \A s \in Side, k \in Keys : pend[s][k] # "remove"
        /\ \A s \in Side : rem[s] \subseteq base[s]
        /\ AimsAgree

LEMMA FaultlessInit == Init => FaultlessRun
BY DEF Init, FaultlessRun, Undisturbed, Nothing, Side, AimsAgree, Applying

LEMMA FaultlessRemove ==
    ASSUME TypeOK, PlanSpent, FaultlessRun, NEW s \in Side, NEW here \in Applying,
           NEW next \in Applying, Remove(s, here, next), faults = 0, faults' = 0
    PROVE  FaultlessRun'
<1>1. Undisturbed /\ AimsAgree /\ pc \in Applying
  BY DEF FaultlessRun, Remove
<1>2. /\ eff'[s] = eff[s] \ rem[s] /\ eff'[Other(s)] = eff[Other(s)]
      /\ \A t \in Side, k \in Keys : pend'[t][k] = "remove" => pend[t][k] = "remove"
  BY <1>1, RemoveWhole
<1>3. Aim("A")' = Aim("B")'
  BY <1>1, <1>2, AppliedAims DEF AimsAgree
<1>4. \A t \in Side : rem'[t] \subseteq rem[t]
  BY DEF Remove, TypeOK
<1>5. UNCHANGED <<dry, down, cancel, base>>
  BY DEF Remove
<1> QED BY <1>1, <1>2, <1>3, <1>4, <1>5 DEF FaultlessRun, AimsAgree, Undisturbed

LEMMA FaultlessAdd ==
    ASSUME TypeOK, PlanSpent, FaultlessRun, NEW s \in Side, NEW here \in {"add_a", "add_b"},
           NEW next, Add(s, here, next), faults = 0, faults' = 0
    PROVE  FaultlessRun'
<1>1. Undisturbed /\ AimsAgree /\ pc \in Applying /\ rem[s] = {}
  BY DEF FaultlessRun, Add, PlanSpent, Applying, Side
<1>2. /\ eff'[s] = eff[s] \cup add[s] /\ eff'[Other(s)] = eff[Other(s)]
      /\ \A t \in Side, k \in Keys : pend'[t][k] = "remove" => pend[t][k] = "remove"
  BY <1>1, AddWhole
<1>3. Aim("A")' = Aim("B")'
  BY <1>1, <1>2, AppliedAims DEF AimsAgree
<1>4. UNCHANGED <<dry, down, cancel, base, rem>>
  BY DEF Add
<1> QED BY <1>1, <1>2, <1>3, <1>4 DEF FaultlessRun, AimsAgree, Undisturbed

\* Without failures behind it, the planner removes only what both baselines hold.
LEMMA FaultlessPlan ==
    ASSUME TypeOK, FaultlessRun, AllowAdds, AllowMassDelete, Plan, faults = 0
    PROVE  FaultlessRun'
<1>1. base["A"] = base["B"] /\ UNCHANGED <<dry, down, cancel, base>> /\ Undisturbed
  BY DEF Plan, FaultlessRun
<1>2. \A s \in Side : base[Other(s)] = base[s]
  BY <1>1 DEF Side, Other
<1>3. \A s \in Side : Retried(s) = {}
  BY DEF FaultlessRun, Retried, PendingRemovals
<1>4. \A s \in Side, k \in Keys : DeletionWanted(s, k) => k \in base[s]
  BY <1>2 DEF DeletionWanted, TombBlocksRemove
<1>5. \A s \in Side : OnlyOn(s) \subseteq Keys
  BY EffectiveType DEF OnlyOn
<1>6. \A s \in Side : rem'[s] \subseteq base'[s]
  <2>1. \A s \in Side : Removals(s) \subseteq base[s]
    BY <1>3, <1>4, <1>5 DEF Removals, PlannedRemovals
  <2> QED BY <1>1, <2>1 DEF Plan
<1>7. \A s \in Side, k \in Keys : pend'[s][k] # "remove"
  BY DEF Plan, Mark, TypeOK, FaultlessRun
<1> QED BY <1>1, <1>6, <1>7, PlanAims DEF FaultlessRun, AimsAgree, Undisturbed

LEMMA FaultlessCommit ==
    ASSUME TypeOK, PlanSpent, FaultlessRun, Commit, faults = 0
    PROVE  FaultlessRun'
<1>1. eff["A"] = eff["B"]
  <2>1. Aim("A") = Aim("B")
    BY DEF FaultlessRun, AimsAgree, Commit, Applying
  <2>2. rem["A"] = {} /\ rem["B"] = {} /\ add["A"] = {} /\ add["B"] = {}
    BY DEF PlanSpent, Commit, Applying
  <2> QED BY <2>1, <2>2 DEF Aim
<1> QED BY <1>1 DEF FaultlessRun, Commit, RunOver, Nothing, AimsAgree, Undisturbed, Applying, Side

LEMMA FaultlessNext ==
    ASSUME TypeOK, PlanSpent, FaultlessRun, AllowAdds, AllowMassDelete, [Next]_vars
    PROVE  FaultlessRun'
<1> SUFFICES ASSUME faults' = 0 PROVE FaultlessRun'
  BY DEF FaultlessRun
<1> DEFINE Same == UNCHANGED <<dry, down, cancel, base, pend, rem, add, eff, pc>>
<1>1. ASSUME NEW kind PROVE ~Fault(kind)
  BY NumbersAssumption DEF Fault, TypeOK
<1>2. ASSUME faults = 0, Same PROVE FaultlessRun'
  BY <1>2 DEF FaultlessRun, AimsAgree, Aim, Undisturbed
<1>3. ASSUME NEW s \in Side, NEW k \in Keys, UserAdd(s, k) \/ UserDelete(s, k)
      PROVE  FaultlessRun'
  BY <1>2, <1>3 DEF UserAdd, UserDelete, files, locals
<1>4. CASE Tick \/ UNCHANGED vars
  BY <1>2, <1>4 DEF Tick, vars, files, locals
<1>5. CASE RequestCancel \/ Crash \/ \E s \in Side : WriteRaises(s)
  BY <1>1, <1>5 DEF RequestCancel, Crash, WriteRaises
<1>6. CASE SnapshotFails
  <2>1. cancel /\ faults = 0
    BY <1>1, <1>6 DEF SnapshotFails
  <2> QED BY <2>1 DEF FaultlessRun, Undisturbed
<1>7. ASSUME NEW isDry \in BOOLEAN, NEW D \in SUBSET Side, StartRun(isDry, D)
      PROVE  FaultlessRun'
  <2>1. dry' = FALSE /\ down' = {} /\ faults = 0 /\ pc' \notin Applying
    BY <1>1, <1>7 DEF StartRun, Applying
  <2> QED BY <1>7, <2>1 DEF StartRun, FaultlessRun, AimsAgree, Undisturbed, files
<1>8. ASSUME NEW s \in Side, TakeSnapshot(s) PROVE FaultlessRun'
  <2>1. faults = 0 /\ pc' \notin Applying /\ UNCHANGED <<dry, down, cancel, base, pend, rem>>
    BY <1>1, <1>8 DEF TakeSnapshot, Applying, files
  <2> QED BY <2>1 DEF FaultlessRun, AimsAgree, Undisturbed
<1>9. CASE Plan
  BY <1>9, FaultlessPlan DEF Plan
<1>10. CASE Commit
  BY <1>10, FaultlessCommit DEF Commit
<1>11. ASSUME NEW s \in Side, NEW here, NEW next, Remove(s, here, next)
       PROVE  faults = 0
  <2>1. ASSUME NEW out, RemoveOutcome(s, out) PROVE faults = 0
    BY <1>1, <2>1 DEF RemoveOutcome, Complete
  <2> QED BY <1>11, <2>1 DEF Remove
<1>12. ASSUME NEW s \in Side, NEW here, NEW next, Add(s, here, next)
       PROVE  faults = 0
  <2>1. ASSUME NEW out, NEW success, AddOutcome(s, out, success) PROVE faults = 0
    BY <1>1, <2>1 DEF AddOutcome, Complete
  <2> QED BY <1>12, <2>1 DEF Add
<1>13. CASE Remove("A", "rem_a", "rem_b") \/ Remove("B", "rem_b", "add_a")
  BY <1>11, <1>13, FaultlessRemove DEF Side, Applying
<1>14. CASE Add("A", "add_a", "add_b") \/ Add("B", "add_b", "commit")
  BY <1>12, <1>14, FaultlessAdd DEF Side
<1> QED BY <1>3, <1>4, <1>5, <1>6, <1>7, <1>8, <1>9, <1>10, <1>13, <1>14 DEF Next, RunStep

\* Until a write fails, no run removes an item that its side's baseline does not
\* hold; so none that a user has just added, whatever tombstone there is of it.
THEOREM FreshAddsSafe == AllowAdds /\ AllowMassDelete => (Spec => []FreshAddsKept)
<1> SUFFICES ASSUME AllowAdds, AllowMassDelete PROVE Spec => []FreshAddsKept
  OBVIOUS
<1>1. TypeOK /\ PlanSpent /\ FaultlessRun /\ [Next]_vars => FaultlessRun'
  BY FaultlessNext
<1>2. FaultlessRun => FreshAddsKept
  BY DEF FaultlessRun, FreshAddsKept
<1> QED BY <1>1, <1>2, FaultlessInit, TypeCorrect, SpentInvariant, PTL DEF Spec

-----------------------------------------------------------------------------
(* A deleted item stays known as deleted: a run that the snapshots do not     *)
(* mislead finds, for every deletion it has not yet carried over, a reason to *)
(* remove the item from the other side and none to add it back.               *)

Honest == "dry" \notin Faults /\ "empty" \notin Faults

\* What is known of the items lost[s].  Either the baseline of s still holds the
\* item, or its removal from the other side is recorded as unresolved, or the
\* other side does not have it (nor has the run's snapshot of that side).
LostKnown(s) ==
    /\ lost[s] \cap (items[s] \cup fresh[Other(s)]) = {}
    /\ \A k \in lost[s] :
          \/ k \in base[s]
          \/ pend[Other(s)][k] = "remove"
          \/ k \notin items[Other(s)] /\ (Other(s) \in taken => k \notin snap[Other(s)])
    /\ lost[s] \cap eff[s] \subseteq base[s]
    /\ s \in taken =>
          lost[s] \cap snap[s] \subseteq base[s] /\ items[s] \subseteq snap[s] \cup fresh[s]

\* What a run still has to do lets the next run know as much.
PlanKnows(s) ==
    /\ add[s] \cap (base[s] \cup lost[s]) = {}
    /\ add[Other(s)] \subseteq eff[s] \ rem[s]
    /\ rem[s] \cap items[Other(s)] \subseteq fresh[Other(s)]
    /\ \A k \in (base[s] \cup lost[s]) \ fresh[Other(s)] :
          \/ k \in eff[s] \/ k \notin items[Other(s)]
          \/ k \in rem[Other(s)] \/ pend[Other(s)][k] = "remove"

DeletionsKnown ==
    /\ ~dry
    /\ \A s \in Side : LostKnown(s)
    /\ pc \in Applying => \A s \in Side : PlanKnows(s)

LEMMA KnownInit == Init => DeletionsKnown
BY DEF Init, DeletionsKnown, LostKnown, Nothing, Applying

LEMMA KnownUserAdd ==
    ASSUME TypeOK, DeletionsKnown, NEW u \in Side, NEW k \in Keys, UserAdd(u, k)
    PROVE  DeletionsKnown'
<1>1. /\ UNCHANGED <<base, pend, pc, dry, taken, snap, eff, rem, add>>
      /\ \A t \in Side : lost'[t] = lost[t] \ {k}
      /\ items'[u] = items[u] \cup {k} /\ items'[Other(u)] = items[Other(u)]
      /\ fresh'[u] = fresh[u] \cup {k} /\ fresh'[Other(u)] = fresh[Other(u)]
  BY OthersDiffer DEF UserAdd, TypeOK, files, locals
<1>2. \A s \in Side : (s = u /\ Other(s) = Other(u)) \/ (s = Other(u) /\ Other(s) = u)
  BY DEF Side, Other
<1>3. ASSUME NEW s \in Side PROVE LostKnown(s)'
  <2>1. LostKnown(s)
    BY DEF DeletionsKnown
  <2> QED BY <1>1, <1>2, <2>1 DEF LostKnown
<1>4. ASSUME NEW s \in Side, PlanKnows(s) PROVE PlanKnows(s)'
  BY <1>1, <1>2, <1>4 DEF PlanKnows
<1> QED BY <1>1, <1>3, <1>4 DEF DeletionsKnown

LEMMA KnownUserDelete ==
    ASSUME TypeOK, PlanSpent, DeletionsKnown, NEW u \in Side, NEW k \in Keys, UserDelete(u, k)
    PROVE  DeletionsKnown'
<1>1. /\ UNCHANGED <<base, pend, pc, dry, taken, snap, eff, rem, add>>
      /\ lost'[u] = lost[u] \cup ({k} \cap (base[u] \ fresh[Other(u)]))
      /\ lost'[Other(u)] = lost[Other(u)]
      /\ items'[u] = items[u] \ {k} /\ items'[Other(u)] = items[Other(u)]
      /\ fresh'[u] = fresh[u] \ {k} /\ fresh'[Other(u)] = fresh[Other(u)]
  BY OthersDiffer DEF UserDelete, TypeOK, files, locals
<1>2. \A s \in Side : (s = u /\ Other(s) = Other(u)) \/ (s = Other(u) /\ Other(s) = u)
  BY DEF Side, Other
<1>3. ASSUME NEW s \in Side PROVE LostKnown(s)'
  <2>1. LostKnown(s)
    BY DEF DeletionsKnown
  <2> QED BY <1>1, <1>2, <2>1 DEF LostKnown
<1>4. ASSUME NEW s \in Side, PlanKnows(s) PROVE PlanKnows(s)'
  BY <1>1, <1>2, <1>4 DEF PlanKnows
<1> QED BY <1>1, <1>3, <1>4 DEF DeletionsKnown

LEMMA KnownSnapshot ==
    ASSUME TypeOK, Honest, DeletionsKnown, NEW u \in Side, TakeSnapshot(u)
    PROVE  DeletionsKnown'
<1>1. /\ UNCHANGED <<items, base, pend, dry, lost, fresh, eff>>
      /\ taken' = taken \cup {u} /\ snap'[u] = items[u]
      /\ \A t \in Side \ {u} : snap'[t] = snap[t]
      /\ pc' \notin Applying
  BY DEF TakeSnapshot, TypeOK, Honest, Fault, files, history, Applying
<1>2. ASSUME NEW s \in Side PROVE LostKnown(s)'
  <2>1. LostKnown(s) /\ LostKnown(Other(s))
    BY OtherSide DEF DeletionsKnown
  <2>2. Other(s) # u => snap'[Other(s)] = snap[Other(s)]
    BY <1>1, OtherSide
  <2> QED BY <1>1, <2>1, <2>2 DEF LostKnown
<1> QED BY <1>1, <1>2 DEF DeletionsKnown

\* The plan: a lost item that the other side has is removed there, because the
\* baseline holds it still or because its removal is tried again.
LEMMA LostIsRemoved ==
    ASSUME TypeOK, PlanSpent, DeletionsKnown, AllowRemovals, Plan, NEW s \in Side,
           NEW k \in base[s] \cup lost[s], k \in snap[Other(s)], k \notin snap[s]
    PROVE  k \in Removals(Other(s))
<1>1. taken = Side /\ Other(s) \in Side /\ Other(Other(s)) = s /\ k \in Keys
  BY DEF Plan, PlanSpent, Side, Other, TypeOK
<1>2. k \in OnlyOn(Other(s))
  BY <1>1, EffectiveIsSnapshot DEF OnlyOn
<1>3. CASE k \in base[s]
  <2>1. ~Bootstrap
    BY <1>3 DEF Bootstrap, Side
  <2>2. DeletionWanted(Other(s), k)
    BY <1>1, <1>3 DEF DeletionWanted, Shrunk
  <2> QED BY <1>2, <2>1, <2>2 DEF Removals, PlannedRemovals
<1>4. CASE k \in lost[s] /\ k \notin base[s]
  <2>1. pend[Other(s)][k] = "remove"
    BY <1>1, <1>4 DEF DeletionsKnown, LostKnown
  <2> QED BY <1>1, <1>2, <2>1 DEF Removals, Retried, PendingRemovals
<1> QED BY <1>3, <1>4

LEMMA PlanSparesLost ==
    ASSUME TypeOK, PlanSpent, DeletionsKnown, AllowRemovals, Plan, NEW s \in Side
    PROVE  add'[s] \cap (base[s] \cup lost[s]) = {}
<1> SUFFICES ASSUME NEW k \in base[s] \cup lost[s], k \in add'[s] PROVE FALSE
  OBVIOUS
<1>1. k \in PlannedAdds(s) /\ k \notin Removals("A") \cup Removals("B")
  BY DEF Plan
<1>2. k \in snap[Other(s)] /\ k \notin snap[s]
  <2>1. k \in OnlyOn(Other(s)) /\ Other(s) \in Side /\ Other(Other(s)) = s
    BY <1>1 DEF PlannedAdds, Side, Other
  <2> QED BY <2>1, EffectiveIsSnapshot DEF OnlyOn
<1>3. k \in Removals(Other(s))
  BY <1>2, LostIsRemoved
<1> QED BY <1>1, <1>3, OtherSide DEF Side

LEMMA KnownPlan ==
    ASSUME TypeOK, PlanSpent, DeletionsKnown, AllowRemovals, AllowMassDelete, Plan
    PROVE  DeletionsKnown'
<1>1. /\ taken = Side /\ taken' = {} /\ UNCHANGED <<items, base, lost, fresh, dry>>
      /\ \A s \in Side : /\ eff'[s] = snap[s] /\ rem'[s] = Removals(s)
                         /\ add'[s] = PlannedAdds(s) \ (Removals("A") \cup Removals("B"))
  BY EffectiveIsSnapshot DEF Plan, PlanSpent, MassDeleteBlocked, history
<1>2. \A s \in Side : Other(s) \in Side /\ Other(Other(s)) = s
  BY DEF Side, Other
<1>3. \A s \in Side : OnlyOn(s) = snap[s] \ snap[Other(s)]
  BY <1>2, EffectiveIsSnapshot DEF OnlyOn
<1>4. \A s \in Side : rem'[s] \subseteq snap[s] \ snap[Other(s)]
  BY <1>1, <1>3, RemovalsOnlyOn
<1>5. \A s \in Side : /\ add'[Other(s)] \subseteq snap[s] \ snap[Other(s)]
                      /\ add'[Other(s)] \cap rem'[s] = {}
  <2>1. \A s \in Side : add'[Other(s)] \subseteq OnlyOn(s)
    BY <1>1, <1>2 DEF PlannedAdds
  <2> QED BY <1>1, <1>2, <1>3, <2>1 DEF Side
<1>6. \A s \in Side, k \in Keys :
         pend[s][k] = "remove" => pend'[s][k] = "remove" \/ k \notin snap[s] \ snap[Other(s)]
  BY <1>3 DEF Plan, Mark, Stale, TypeOK
<1>7. \A s \in Side : lost[s] \subseteq Keys /\ base[s] \subseteq Keys
  BY DEF TypeOK
<1>8. ASSUME NEW s \in Side PROVE LostKnown(s)'
  <2>1. LostKnown(s) /\ LostKnown(Other(s))
    BY <1>2 DEF DeletionsKnown
  <2>2. lost'[s] \cap (items'[s] \cup fresh'[Other(s)]) = {}
    BY <1>1, <2>1 DEF LostKnown
  <2>3. ASSUME NEW k \in lost[s], k \notin base[s], pend'[Other(s)][k] # "remove"
        PROVE  k \notin items[Other(s)]
    <3>1. k \notin snap[Other(s)]
      <4>1. CASE pend[Other(s)][k] = "remove"
        <5>1. k \notin snap[Other(s)] \ snap[s]
          BY <1>2, <1>6, <1>7, <2>3, <4>1
        <5> QED BY <1>1, <2>1, <2>3, <5>1 DEF LostKnown
      <4>2. CASE pend[Other(s)][k] # "remove"
        BY <1>1, <1>2, <2>1, <2>3, <4>2 DEF LostKnown
      <4> QED BY <4>1, <4>2
    <3>2. items[Other(s)] \subseteq snap[Other(s)] \cup fresh[Other(s)]
      BY <1>1, <1>2, <2>1 DEF LostKnown
    <3> QED BY <2>1, <3>1, <3>2 DEF LostKnown
  <2>4. lost'[s] \cap eff'[s] \subseteq base'[s]
    BY <1>1, <2>1 DEF LostKnown
  <2> QED BY <1>1, <2>2, <2>3, <2>4 DEF LostKnown
<1>9. ASSUME NEW s \in Side PROVE PlanKnows(s)'
  <2>1. items[Other(s)] \subseteq snap[Other(s)] \cup fresh[Other(s)]
    BY <1>1, <1>2 DEF DeletionsKnown, LostKnown
  <2>2. add'[s] \cap (base'[s] \cup lost'[s]) = {}
    BY <1>1, PlanSparesLost
  <2>3. add'[Other(s)] \subseteq eff'[s] \ rem'[s]
    BY <1>1, <1>5
  <2>4. rem'[s] \cap items'[Other(s)] \subseteq fresh'[Other(s)]
    BY <1>1, <1>4, <2>1
  <2>5. ASSUME NEW k \in base[s] \cup lost[s], k \notin fresh[Other(s)],
               k \notin snap[s], k \in items[Other(s)]
        PROVE  k \in rem'[Other(s)]
    BY <1>1, <1>2, <2>1, <2>5, LostIsRemoved
  <2> QED BY <1>1, <2>2, <2>3, <2>4, <2>5 DEF PlanKnows
<1> QED BY <1>1, <1>8, <1>9 DEF DeletionsKnown

\* What a batch does to the two sides, however it goes.
RemoveDid(s, done, success) ==
    /\ success \subseteq done
    /\ items' = [items EXCEPT ![s] = @ \ done]
    /\ eff' = [eff EXCEPT ![s] = @ \ success]
    /\ pend'[Other(s)] = pend[Other(s)]
    /\ \A k \in Keys :
          /\ k \in rem[s] \ success => pend'[s][k] = "remove"
          /\ k \notin rem[s] => pend'[s][k] = pend[s][k]

AddDid(s, done, success) ==
    /\ items' = [items EXCEPT ![s] = @ \cup done]
    /\ eff' = [eff EXCEPT ![s] = @ \cup success]
    /\ pend'[Other(s)] = pend[Other(s)]
    /\ \A k \in Keys \ add[s] : pend'[s][k] = pend[s][k]

LEMMA RemoveEffect ==
    ASSUME TypeOK, ~dry, NEW s \in Side, NEW here, NEW next, Remove(s, here, next)
    PROVE  \E done, success \in SUBSET rem[s] : RemoveDid(s, done, success)
<1>1. CASE UNCHANGED <<items, eff, tomb, pend, calm, faults>> /\ rem[s] = {}
  <2>1. items' = [items EXCEPT ![s] = @ \ {}] /\ eff' = [eff EXCEPT ![s] = @ \ {}]
    BY <1>1 DEF TypeOK
  <2>2. RemoveDid(s, {}, {})
    BY <1>1, <2>1 DEF RemoveDid
  <2> QED BY <2>2
<1>2. CASE /\ pend' = [pend EXCEPT ![s] = Mark(@, rem[s], "remove")]
           /\ UNCHANGED <<items, eff, tomb, calm, faults>>
  <2>1. items' = [items EXCEPT ![s] = @ \ {}] /\ eff' = [eff EXCEPT ![s] = @ \ {}]
    BY <1>2 DEF TypeOK
  <2>2. /\ pend'[Other(s)] = pend[Other(s)]
        /\ \A k \in Keys : /\ k \in rem[s] => pend'[s][k] = "remove"
                           /\ k \notin rem[s] => pend'[s][k] = pend[s][k]
    BY <1>2, OthersDiffer DEF TypeOK, Mark
  <2>3. RemoveDid(s, {}, {})
    BY <2>1, <2>2 DEF RemoveDid
  <2> QED BY <2>3
<1>3. ASSUME NEW out \in Outcomes("apply:remove", rem[s]), RemoveOutcome(s, out)
      PROVE  \E done, success \in SUBSET rem[s] : RemoveDid(s, done, success)
  <2> DEFINE success == RemoveSuccess(rem[s], out.res)
  <2>1. out.done \subseteq rem[s]
    BY OutcomeDone
  <2>2. success \subseteq out.done
    <3>1. IsFiniteSet(rem[s])
      BY KeysAssumption, FS_Subset DEF TypeOK
    <3>2. CASE cancel
      <4>1. out = [done |-> {}, res |-> Cancelled]
        BY <3>2 DEF Outcomes
      <4>2. success = {}
        BY <3>1, <4>1, FS_EmptySet DEF RemoveSuccess, Cancelled
      <4> QED BY <4>2
    <3>3. CASE ~cancel
      <4>1. PICK m \in ReportModes, D \in SUBSET rem[s] :
               out = [done |-> D, res |-> Normalize("apply:remove", Report(m, rem[s], D), rem[s])]
        BY <3>3 DEF Outcomes
      <4>2. RemoveSuccess(rem[s], Normalize("apply:remove", Report(m, rem[s], D), rem[s]))
               \subseteq D
        BY <3>1, RemovalTold, ModesAssumption
      <4> QED BY <4>1, <4>2
    <3> QED BY <3>2, <3>3
  <2>3. /\ items' = [items EXCEPT ![s] = @ \ out.done]
        /\ eff' = [eff EXCEPT ![s] = @ \ success]
        /\ pend' = [pend EXCEPT ![s] =
                       Mark(Mark(@, success, "none"), rem[s] \ success, "remove")]
    BY <1>3 DEF RemoveOutcome
  <2> HIDE DEF success
  <2>4. /\ pend'[Other(s)] = pend[Other(s)]
        /\ \A k \in Keys : /\ k \in rem[s] \ success => pend'[s][k] = "remove"
                           /\ k \notin rem[s] => pend'[s][k] = pend[s][k]
    BY <2>1, <2>2, <2>3, OthersDiffer DEF TypeOK, Mark
  <2>5. RemoveDid(s, out.done, success)
    BY <2>2, <2>3, <2>4 DEF RemoveDid
  <2> QED BY <2>1, <2>2, <2>5
<1> QED BY <1>1, <1>2, <1>3 DEF Remove

LEMMA KnownRemove ==
    ASSUME TypeOK, PlanSpent, DeletionsKnown, NEW u \in Side, NEW here \in Applying,
           NEW next \in Applying, Remove(u, here, next)
    PROVE  DeletionsKnown'
<1>1. PICK done \in SUBSET rem[u], success \in SUBSET rem[u] : RemoveDid(u, done, success)
  BY RemoveEffect DEF DeletionsKnown
<1>2. /\ items'[u] = items[u] \ done /\ items'[Other(u)] = items[Other(u)]
      /\ eff'[u] = eff[u] \ success /\ eff'[Other(u)] = eff[Other(u)]
      /\ success \subseteq done /\ done \subseteq rem[u]
  BY <1>1, OthersDiffer DEF TypeOK, RemoveDid
<1>3. /\ rem'[u] = {} /\ rem'[Other(u)] = rem[Other(u)]
      /\ UNCHANGED <<base, dry, taken, snap, add, lost, fresh>>
      /\ taken = {} /\ pc \in Applying
  BY OthersDiffer DEF Remove, TypeOK, history, PlanSpent, Applying
<1>4. \A s \in Side : (s = u /\ Other(s) = Other(u)) \/ (s = Other(u) /\ Other(s) = u)
  BY DEF Side, Other
<1>5. \A s \in Side : lost[s] \subseteq Keys /\ base[s] \subseteq Keys /\ Other(s) \in Side
  BY OtherSide DEF TypeOK
<1>6. ASSUME NEW s \in Side PROVE LostKnown(s)'
  <2>1. LostKnown(s)
    BY DEF DeletionsKnown
  <2>2. CASE s = u
    BY <1>1, <1>2, <1>3, <2>1, <2>2 DEF RemoveDid, LostKnown
  <2>3. CASE s = Other(u) /\ Other(s) = u
    <3>1. \A k \in lost[s] : pend[u][k] = "remove" => pend'[u][k] = "remove" \/ k \in success
      BY <1>1, <1>5 DEF RemoveDid
    <3> QED BY <1>2, <1>3, <2>1, <2>3, <3>1 DEF LostKnown
  <2> QED BY <1>4, <2>2, <2>3
<1>7. ASSUME NEW s \in Side PROVE PlanKnows(s)'
  <2>1. PlanKnows(s)
    BY <1>3 DEF DeletionsKnown
  <2>2. CASE s = u
    BY <1>1, <1>2, <1>3, <2>1, <2>2 DEF RemoveDid, PlanKnows
  <2>3. CASE s = Other(u) /\ Other(s) = u
    <3>1. \A k \in base[s] \cup lost[s] :
             pend[u][k] = "remove" \/ k \in rem[u] => pend'[u][k] = "remove" \/ k \in success
      BY <1>1, <1>5 DEF RemoveDid
    <3> QED BY <1>2, <1>3, <2>1, <2>3, <3>1 DEF PlanKnows
  <2> QED BY <1>4, <2>2, <2>3
<1> QED BY <1>3, <1>6, <1>7 DEF DeletionsKnown

LEMMA AddEffect ==
    ASSUME TypeOK, NEW s \in Side, NEW here, NEW next, Add(s, here, next)
    PROVE  \E done, credited \in SUBSET add[s] : AddDid(s, done, credited)
<1>1. CASE UNCHANGED <<items, eff, tomb, pend, flap, bbox, calm, faults>>
  <2>1. items' = [items EXCEPT ![s] = @ \cup {}] /\ eff' = [eff EXCEPT ![s] = @ \cup {}]
    BY <1>1 DEF TypeOK
  <2>2. AddDid(s, {}, {})
    BY <1>1, <2>1 DEF AddDid
  <2> QED BY <2>2
<1>2. CASE /\ pend' = [pend EXCEPT ![s] = Mark(@, add[s], "add")]
           /\ UNCHANGED <<items, eff, tomb, flap, bbox, calm, faults>>
  <2>1. items' = [items EXCEPT ![s] = @ \cup {}] /\ eff' = [eff EXCEPT ![s] = @ \cup {}]
    BY <1>2 DEF TypeOK
  <2>2. /\ pend'[Other(s)] = pend[Other(s)]
        /\ \A k \in Keys \ add[s] : pend'[s][k] = pend[s][k]
    BY <1>2, OthersDiffer DEF TypeOK, Mark
  <2>3. AddDid(s, {}, {})
    BY <2>1, <2>2 DEF AddDid
  <2> QED BY <2>3
<1>3. ASSUME NEW out \in Outcomes("apply:add", add[s]),
             NEW success \in AddSuccesses(add[s], out.res, VerifyAfterWrite),
             AddOutcome(s, out, success)
      PROVE  \E done, credited \in SUBSET add[s] : AddDid(s, done, credited)
  <2> DEFINE failed == IF AmbiguousPartial(add[s], out.res) THEN {}
                       ELSE AddFailures(add[s], out.res, success)
             promoted == Promoted(s, failed)
  <2>1. out.done \subseteq add[s] /\ success \subseteq add[s]
    BY OutcomeDone, AddSuccessInBatch
  <2>2. failed \subseteq add[s] /\ promoted \subseteq add[s]
    BY DEF AddFailures, Promoted
  <2>3. out.res.ukeys \subseteq add[s]
    <3>1. CASE cancel
      BY <3>1 DEF Outcomes, Cancelled
    <3>2. CASE ~cancel
      <4>1. PICK m \in ReportModes, D \in SUBSET add[s] :
               out = [done |-> D, res |-> Normalize("apply:add", Report(m, add[s], D), add[s])]
        BY <3>2 DEF Outcomes
      <4>2. Report(m, add[s], D).ukeys = {}
        BY DEF Report
      <4>3. out.res.ukeys = Report(m, add[s], D).ukeys
                              \cup Unaccounted("apply:add", Report(m, add[s], D), add[s])
        BY <4>1 DEF Normalize
      <4> QED BY <4>2, <4>3, UnaccountedInBatch
    <3> QED BY <3>1, <3>2
  <2>4. /\ items' = [items EXCEPT ![s] = @ \cup out.done]
        /\ eff' = [eff EXCEPT ![s] = @ \cup success]
        /\ pend' = [pend EXCEPT ![s] =
                       PendingAdds(s, success, failed, promoted, out.res.ukeys)]
    BY <1>3 DEF AddOutcome
  <2> HIDE DEF failed, promoted
  <2>5. \A k \in Keys \ add[s] : pend'[s][k] = pend[s][k]
    BY <2>1, <2>2, <2>3, <2>4 DEF TypeOK, PendingAdds
  <2>6. pend'[Other(s)] = pend[Other(s)]
    BY <2>4, OthersDiffer DEF TypeOK
  <2>7. AddDid(s, out.done, success)
    BY <2>4, <2>5, <2>6 DEF AddDid
  <2> QED BY <2>1, <2>7
<1> QED BY <1>1, <1>2, <1>3 DEF Add

LEMMA KnownAdd ==
    ASSUME TypeOK, PlanSpent, DeletionsKnown, NEW u \in Side, NEW here \in Applying,
           NEW next \in Applying, Add(u, here, next)
    PROVE  DeletionsKnown'
<1>1. PICK done \in SUBSET add[u], success \in SUBSET add[u] : AddDid(u, done, success)
  BY AddEffect
<1>2. /\ items'[u] = items[u] \cup done /\ items'[Other(u)] = items[Other(u)]
      /\ eff'[u] = eff[u] \cup success /\ eff'[Other(u)] = eff[Other(u)]
      /\ done \subseteq add[u] /\ success \subseteq add[u]
  BY <1>1, OthersDiffer DEF TypeOK, AddDid
<1>3. /\ add'[u] = {} /\ add'[Other(u)] = add[Other(u)]
      /\ UNCHANGED <<base, dry, taken, snap, rem, lost, fresh>>
      /\ taken = {} /\ pc \in Applying
  BY OthersDiffer DEF Add, TypeOK, history, PlanSpent, Applying
<1>4. \A s \in Side : (s = u /\ Other(s) = Other(u)) \/ (s = Other(u) /\ Other(s) = u)
  BY DEF Side, Other
<1>5. \A s \in Side : lost[s] \subseteq Keys /\ base[s] \subseteq Keys /\ Other(s) \in Side
  BY OtherSide DEF TypeOK
<1>6. ASSUME NEW s \in Side PROVE LostKnown(s)'
  <2>1. LostKnown(s) /\ PlanKnows(s)
    BY <1>3 DEF DeletionsKnown
  <2>2. CASE s = u
    BY <1>1, <1>2, <1>3, <2>1, <2>2 DEF AddDid, LostKnown, PlanKnows
  <2>3. CASE s = Other(u) /\ Other(s) = u
    <3>1. add[u] \subseteq eff[s]
      BY <2>1, <2>3 DEF AddDid, PlanKnows
    <3>2. \A k \in lost[s] : pend[u][k] = "remove" => pend'[u][k] = "remove" \/ k \in base[s]
      BY <1>1, <1>5, <2>1, <3>1 DEF AddDid, LostKnown
    <3> QED BY <1>2, <1>3, <2>1, <2>3, <3>1, <3>2 DEF AddDid, LostKnown
  <2> QED BY <1>4, <2>2, <2>3
<1>7. ASSUME NEW s \in Side PROVE PlanKnows(s)'
  <2>1. PlanKnows(s)
    BY <1>3 DEF DeletionsKnown
  <2>2. CASE s = u
    <3>1. \A k \in base[s] \cup lost[s] : pend'[Other(s)][k] = pend[Other(s)][k]
      BY <1>1, <2>2 DEF AddDid
    <3>2. rem[s] \cap add[Other(s)] = {}
      BY <2>1 DEF AddDid, PlanKnows
    <3> QED BY <1>1, <1>2, <1>3, <2>1, <2>2, <3>1, <3>2 DEF AddDid, PlanKnows
  <2>3. CASE s = Other(u) /\ Other(s) = u
    <3>1. \A k \in base[s] \cup lost[s] :
             pend[u][k] = "remove" => pend'[u][k] = "remove" \/ k \in eff[s]
      BY <1>1, <1>5, <2>1, <2>3 DEF AddDid, PlanKnows
    <3> QED BY <1>1, <1>2, <1>3, <2>1, <2>3, <3>1 DEF AddDid, PlanKnows
  <2> QED BY <1>4, <2>2, <2>3
<1> QED BY <1>3, <1>6, <1>7 DEF DeletionsKnown

\* A run that ends early: what it has done leaves the lost items known.
LEMMA KnownRunOver ==
    ASSUME TypeOK, PlanSpent, DeletionsKnown, RunOver, UNCHANGED <<base, pend, lost, fresh>>,
           NEW u \in Side, NEW done,
           \/ items' = items
           \/ items' = [items EXCEPT ![u] = @ \ done]
           \/ /\ pc \in Applying /\ done \subseteq add[u]
              /\ items' = [items EXCEPT ![u] = @ \cup done]
    PROVE  DeletionsKnown'
<1>1. /\ taken' = {} /\ ~dry' /\ pc' \notin Applying /\ \A s \in Side : eff'[s] = {}
  BY DEF RunOver, Nothing, Applying
<1>2. ASSUME NEW s \in Side PROVE LostKnown(s)'
  <2>1. LostKnown(s) /\ Other(s) \in Side
    BY OtherSide DEF DeletionsKnown
  <2>2. CASE \A t \in Side : items'[t] \subseteq items[t]
    BY <1>1, <2>1, <2>2 DEF LostKnown
  <2>3. CASE /\ pc \in Applying /\ done \subseteq add[u]
             /\ items' = [items EXCEPT ![u] = @ \cup done]
    <3>1. PlanKnows(s)
      BY <2>3 DEF DeletionsKnown
    <3>2. \A t \in Side : items'[t] \subseteq items[t] \cup add[t]
      BY <2>3 DEF TypeOK
    <3>3. items'[s] \cap lost[s] = {}
      BY <2>1, <3>1, <3>2 DEF LostKnown, PlanKnows
    <3>4. \A k \in lost[s] : k \in items'[Other(s)] => k \in items[Other(s)] \/ k \in base[s]
      BY <2>1, <3>1, <3>2 DEF LostKnown, PlanKnows
    <3> QED BY <1>1, <2>1, <3>3, <3>4 DEF LostKnown
  <2>4. CASE items' = [items EXCEPT ![u] = @ \ done]
    <3>1. \A t \in Side : items'[t] \subseteq items[t]
      BY <2>4 DEF TypeOK
    <3> QED BY <2>2, <3>1
  <2>5. CASE items' = items
    BY <2>2, <2>5
  <2> QED BY <2>3, <2>4, <2>5
<1> QED BY <1>1, <1>2 DEF DeletionsKnown

LEMMA KnownRaises ==
    ASSUME TypeOK, PlanSpent, DeletionsKnown, NEW s \in Side, WriteRaises(s)
    PROVE  DeletionsKnown'
<1>1. RunOver /\ UNCHANGED <<base, pend, lost, fresh>> /\ pc \in Applying
  BY DEF WriteRaises, history, Applying
<1>2. CASE pc \in {"rem_a", "rem_b"}
  <2>1. PICK done : items' = [items EXCEPT ![s] = @ \ done]
    BY <1>2 DEF WriteRaises
  <2> QED BY <1>1, <2>1, KnownRunOver
<1>3. CASE pc \notin {"rem_a", "rem_b"}
  <2>1. PICK done : done \subseteq add[s] /\ items' = [items EXCEPT ![s] = @ \cup done]
    BY <1>3 DEF WriteRaises
  <2> QED BY <1>1, <2>1, KnownRunOver
<1> QED BY <1>2, <1>3

LEMMA KnownCommit ==
    ASSUME TypeOK, PlanSpent, DeletionsKnown, Commit
    PROVE  DeletionsKnown'
<1>1. /\ base' = eff /\ UNCHANGED <<items, pend, lost>> /\ taken' = {} /\ ~dry'
      /\ pc' \notin Applying /\ \A s \in Side : eff'[s] = {} /\ fresh'[s] \subseteq fresh[s]
  BY DEF Commit, RunOver, Nothing, Applying
<1>2. ASSUME NEW s \in Side PROVE LostKnown(s)'
  <2>1. LostKnown(s) /\ PlanKnows(s) /\ Other(s) \in Side
    BY OtherSide DEF DeletionsKnown, Commit, Applying
  <2>2. rem[Other(s)] = {}
    BY OtherSide DEF Commit, PlanSpent, Side
  <2> QED BY <1>1, <2>1, <2>2 DEF LostKnown, PlanKnows
<1> QED BY <1>1, <1>2 DEF DeletionsKnown

LEMMA KnownNext ==
    ASSUME TypeOK, PlanSpent, DeletionsKnown, Honest, AllowRemovals, AllowMassDelete, [Next]_vars
    PROVE  DeletionsKnown'
<1>1. ASSUME NEW s \in Side, NEW k \in Keys, UserAdd(s, k) \/ UserDelete(s, k)
      PROVE  DeletionsKnown'
  BY <1>1, KnownUserAdd, KnownUserDelete
<1>2. CASE Tick \/ RequestCancel \/ UNCHANGED vars
  <2>1. UNCHANGED <<items, base, pend, pc, dry, taken, snap, eff, rem, add, lost, fresh>>
    BY <1>2 DEF Tick, RequestCancel, vars, files, locals, history
  <2> QED BY <2>1 DEF DeletionsKnown, LostKnown, PlanKnows
<1>3. ASSUME NEW isDry \in BOOLEAN, NEW D \in SUBSET Side, StartRun(isDry, D)
      PROVE  DeletionsKnown'
  <2>1. /\ UNCHANGED <<items, base, pend, taken, snap, eff, lost, fresh>>
        /\ ~dry' /\ pc' \notin Applying
    BY <1>3 DEF StartRun, Honest, Fault, files, history, Applying
  <2> QED BY <2>1 DEF DeletionsKnown, LostKnown
<1>4. ASSUME NEW s \in Side, TakeSnapshot(s) PROVE DeletionsKnown'
  BY <1>4, KnownSnapshot
<1>5. CASE SnapshotFails \/ Crash
  <2>1. RunOver /\ UNCHANGED <<items, base, pend, lost, fresh>> /\ "A" \in Side
    BY <1>5 DEF SnapshotFails, Crash, files, history, Side
  <2> QED BY <2>1, KnownRunOver
<1>6. CASE Plan \/ Commit
  BY <1>6, KnownPlan, KnownCommit
<1>7. ASSUME NEW s \in Side, WriteRaises(s) PROVE DeletionsKnown'
  BY <1>7, KnownRaises
<1>8. CASE Remove("A", "rem_a", "rem_b") \/ Remove("B", "rem_b", "add_a")
  BY <1>8, KnownRemove DEF Side, Applying
<1>9. CASE Add("A", "add_a", "add_b") \/ Add("B", "add_b", "commit")
  BY <1>9, KnownAdd DEF Side, Applying
<1> QED BY <1>1, <1>2, <1>3, <1>4, <1>5, <1>6, <1>7, <1>8, <1>9 DEF Next, RunStep

\* No run plans to add back to a side what its user has deleted there, however
\* the writes of earlier runs went and whatever the providers answered, unless
\* a snapshot came back empty, a dry run saved its plan as a baseline, removals
\* are switched off or the mass-delete guard may drop them.
THEOREM NothingResurrected ==
    Honest /\ AllowRemovals /\ AllowMassDelete => (Spec => NoResurrection)
<1> SUFFICES ASSUME Honest, AllowRemovals, AllowMassDelete PROVE Spec => NoResurrection
  OBVIOUS
<1>1. TypeOK /\ PlanSpent /\ DeletionsKnown /\ [Next]_vars => DeletionsKnown'
  BY KnownNext
<1>2. TypeOK /\ PlanSpent /\ DeletionsKnown /\ [Next]_vars
        => [pc = "plan" /\ pc' = "rem_a" => \A s \in Side : add'[s] \cap lost[s] = {}]_vars
  <2> SUFFICES ASSUME TypeOK, PlanSpent, DeletionsKnown, Next, pc = "plan", pc' = "rem_a"
               PROVE  \A s \in Side : add'[s] \cap lost[s] = {}
    OBVIOUS
  <2>1. Plan
    <3>1. ~RunOver
      BY DEF RunOver
    <3>2. pc' # pc
      OBVIOUS
    <3> QED BY <3>1, <3>2 DEF Next, RunStep, UserAdd, UserDelete, Tick, StartRun, TakeSnapshot,
               SnapshotFails, Remove, Add, Commit, WriteRaises, RequestCancel, Crash
  <2> QED BY <2>1, PlanSparesLost
<1> QED BY <1>1, <1>2, KnownInit, TypeCorrect, SpentInvariant, PTL DEF Spec, NoResurrection
=============================================================================
