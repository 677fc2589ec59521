-------------------------- MODULE OneWaySync_proofs --------------------------
(* Proofs about OneWaySync, for every set of keys and values, every setting  *)
(* and every number of edits and faults.  Nothing is assumed of the answers  *)
(* of the destination: removals rest on what was read from the source.       *)
EXTENDS OneWaySync, Applier_proofs

LEMMA EmptyType == Empty \in Lists
BY DEF Empty, Lists

LEMMA OneWayFaultType ==
    ASSUME faults \in 0..MaxFaults, NEW kind, Fault(kind)
    PROVE  faults' \in 0..MaxFaults
BY OneWayNumbersAssumption DEF Fault

LEMMA EditType ==
    ASSUME edits \in 0..MaxEdits, faults \in 0..MaxFaults, Edit
    PROVE  edits' \in 0..MaxEdits /\ faults' \in 0..MaxFaults /\ calm' \in BOOLEAN
<1>1. edits' \in 0..MaxEdits
  BY OneWayNumbersAssumption DEF Edit
<1>2. faults' \in 0..MaxFaults /\ calm' \in BOOLEAN
  BY DEF Edit
<1> QED BY <1>1, <1>2

LEMMA WrittenType ==
    ASSUME srcIdx \in Lists, NEW list \in Lists, NEW X
    PROVE  Written(list, X) \in Lists
BY DEF Written, Lists

LEMMA ChunkInBatch ==
    ASSUME NEW W, NEW C \in FirstChunks(W)
    PROVE  C \subseteq W
BY DEF FirstChunks

\* Chunk by chunk or not, the destination does part of the batch.
LEMMA OutcomeInBatch ==
    ASSUME NEW tag, NEW W, NEW out \in Outcomes(tag, W)
    PROVE  out.done \subseteq W
<1>1. CASE cancel
  BY <1>1 DEF Outcomes, Outcome
<1>2. CASE ~cancel
  <2>1. PICK m \in ReportModes, C \in FirstChunks(W) : out \in InChunks(m, tag, W, C)
    BY <1>2 DEF Outcomes
  <2>2. \A X : \A a \in Answers(m, tag, X) : a.done \subseteq X
    BY DEF Answers
  <2>3. CASE C = W
    <3>1. InChunks(m, tag, W, C) = {Outcome(a.done, W, a.res, FALSE) : a \in Answers(m, tag, W)}
      BY <2>3 DEF InChunks
    <3>2. PICK a \in Answers(m, tag, W) : out = Outcome(a.done, W, a.res, FALSE)
      BY <2>1, <3>1
    <3>3. out.done = a.done
      BY <3>2 DEF Outcome
    <3> QED BY <2>2, <3>3
  <2>4. CASE C # W
    <3>1. PICK a \in Answers(m, tag, C) :
             out \in {Outcome(a.done, C, a.res, TRUE)} \cup
                     {Outcome(a.done \cup b.done, C, Together(a.res, b.res), FALSE) :
                         b \in Answers(m, tag, W \ C)}
      BY <2>1, <2>4 DEF InChunks
    <3>2. a.done \subseteq C
      BY <2>2
    <3>3. CASE out = Outcome(a.done, C, a.res, TRUE)
      BY <3>2, <3>3, ChunkInBatch DEF Outcome
    <3>4. ASSUME NEW b \in Answers(m, tag, W \ C),
                 out = Outcome(a.done \cup b.done, C, Together(a.res, b.res), FALSE)
          PROVE  out.done \subseteq W
      <4>1. b.done \subseteq W \ C
        BY <2>2
      <4>2. out.done = a.done \cup b.done
        BY <3>4 DEF Outcome
      <4> QED BY <3>2, <4>1, <4>2, ChunkInBatch
    <3> QED BY <3>1, <3>3, <3>4
  <2> QED BY <2>3, <2>4
<1> QED BY <1>1, <1>2

LEMMA OneWayCompleteType ==
    ASSUME faults \in 0..MaxFaults, calm \in BOOLEAN, cancel \in BOOLEAN,
           NEW W, NEW out, Complete(W, out)
    PROVE  faults' \in 0..MaxFaults /\ calm' \in BOOLEAN /\ cancel' \in BOOLEAN
BY OneWayFaultType DEF Complete

-----------------------------------------------------------------------------
(* Types *)

LEMMA InitOneWayType == Init => OneWayTypeOK
<1> SUFFICES ASSUME Init PROVE OneWayTypeOK
  OBVIOUS
<1>1. src \in Lists /\ dst \in Lists
  BY OneWayValuesAssumption DEF Init, Lists
<1>2. tomb \in [Keys -> 0..TTL] /\ bbox \in [Keys -> 0..Cooldown]
  BY OneWayNumbersAssumption DEF Init
<1>3. flap \in [Keys -> 0..PromoteAfter] /\ edits \in 0..MaxEdits /\ faults \in 0..MaxFaults
  BY OneWayNumbersAssumption DEF Init
<1>4. own \subseteq Keys
  BY DEF Init, Has
<1> QED BY <1>1, <1>2, <1>3, <1>4, EmptyType DEF Init, OneWayTypeOK

LEMMA RunOverTypes ==
    ASSUME RunOver
    PROVE  /\ pc' = "idle" /\ dry' \in BOOLEAN /\ down' \in BOOLEAN /\ cancel' \in BOOLEAN
           /\ srcIdx' \in Lists /\ newIdx' \subseteq Keys /\ full' \in Lists
           /\ upd' \subseteq Keys /\ add' \subseteq Keys /\ rem' \subseteq Keys
           /\ calm' \in BOOLEAN
BY EmptyType DEF RunOver

LEMMA SourceSetType ==
    ASSUME OneWayTypeOK, NEW k \in Keys, NEW v \in Values, SourceSet(k, v)
    PROVE  OneWayTypeOK'
<1>1. edits' \in 0..MaxEdits /\ faults' \in 0..MaxFaults /\ calm' \in BOOLEAN
  BY EditType DEF OneWayTypeOK, SourceSet
<1>2. src' \in Lists
  BY DEF OneWayTypeOK, SourceSet, Lists
<1>3. newer' \subseteq Keys /\ own' \subseteq Keys /\ owed' \subseteq Keys
  BY DEF OneWayTypeOK, SourceSet
<1> QED BY <1>1, <1>2, <1>3 DEF OneWayTypeOK, SourceSet, files, locals, plan

LEMMA SourceDeleteType ==
    ASSUME OneWayTypeOK, NEW k \in Keys, SourceDelete(k)
    PROVE  OneWayTypeOK'
<1>1. edits' \in 0..MaxEdits /\ faults' \in 0..MaxFaults /\ calm' \in BOOLEAN
  BY EditType DEF OneWayTypeOK, SourceDelete
<1>2. src' \in Lists
  BY DEF OneWayTypeOK, SourceDelete, Lists
<1>3. newer' \subseteq Keys /\ gone' \subseteq Keys /\ owed' \subseteq Keys
  BY DEF OneWayTypeOK, SourceDelete
<1> QED BY <1>1, <1>2, <1>3 DEF OneWayTypeOK, SourceDelete, files, locals, plan

LEMMA DestinationType ==
    ASSUME OneWayTypeOK, NEW k \in Keys,
           DestinationDelete(k) \/ \E v \in Values : DestinationSet(k, v)
    PROVE  OneWayTypeOK'
<1>1. CASE DestinationDelete(k)
  <2>1. edits' \in 0..MaxEdits /\ faults' \in 0..MaxFaults /\ calm' \in BOOLEAN
    BY <1>1, EditType DEF OneWayTypeOK, DestinationDelete
  <2>2. dst' \in Lists /\ own' \subseteq Keys /\ owed' \subseteq Keys
    BY <1>1 DEF OneWayTypeOK, DestinationDelete, Lists
  <2> QED BY <1>1, <2>1, <2>2 DEF OneWayTypeOK, DestinationDelete, files, locals, plan
<1>2. ASSUME NEW v \in Values, DestinationSet(k, v) PROVE OneWayTypeOK'
  <2>1. edits' \in 0..MaxEdits /\ faults' \in 0..MaxFaults /\ calm' \in BOOLEAN
    BY <1>2, EditType DEF OneWayTypeOK, DestinationSet
  <2>2. dst' \in Lists /\ own' \subseteq Keys
    BY <1>2 DEF OneWayTypeOK, DestinationSet, Lists
  <2> QED BY <1>2, <2>1, <2>2 DEF OneWayTypeOK, DestinationSet, files, locals, plan
<1> QED BY <1>1, <1>2

LEMMA OneWayTickType == OneWayTypeOK /\ Tick => OneWayTypeOK'
<1> SUFFICES ASSUME OneWayTypeOK, Tick PROVE OneWayTypeOK'
  OBVIOUS
<1>1. \A m \in Nat : \A n \in 0..m : AtLeastZero(n - 1) \in 0..m
  BY DEF AtLeastZero
<1>2. tomb' \in [Keys -> 0..TTL]
  BY <1>1, OneWayNumbersAssumption DEF OneWayTypeOK, Tick
<1>3. bbox' \in [Keys -> 0..Cooldown]
  BY <1>1, OneWayNumbersAssumption DEF OneWayTypeOK, Tick
<1>4. newer' \subseteq Keys
  BY DEF OneWayTypeOK, Tick
<1> QED BY <1>2, <1>3, <1>4 DEF OneWayTypeOK, Tick, locals, plan, history

LEMMA OneWayStartType ==
    ASSUME OneWayTypeOK, NEW isDry \in BOOLEAN, NEW isDown \in BOOLEAN, StartRun(isDry, isDown)
    PROVE  OneWayTypeOK'
<1>1. faults' \in 0..MaxFaults
  BY OneWayFaultType DEF OneWayTypeOK, StartRun
<1>2. calm' \in BOOLEAN /\ dry' \in BOOLEAN /\ down' \in BOOLEAN
  BY DEF StartRun
<1> QED BY <1>1, <1>2 DEF OneWayTypeOK, StartRun, files, plan, history

LEMMA RemovalsType == OneWayTypeOK => Removals \subseteq Keys
BY DEF OneWayTypeOK, Removals, PlannedRemovals, MirrorRemovals, Observed, Retried,
       PendingRemovals, Has

LEMMA OneWayPlanType == OneWayTypeOK /\ Plan => OneWayTypeOK'
<1> SUFFICES ASSUME OneWayTypeOK, Plan PROVE OneWayTypeOK'
  OBVIOUS
<1>1. upd' \subseteq Keys /\ add' \subseteq Keys
  BY DEF Plan, Differing, Missing, Has
<1>2. rem' \subseteq Keys
  BY RemovalsType DEF Plan
<1>3. pend' \in [Keys -> {"none", "add", "remove"}]
  BY MarkType DEF OneWayTypeOK, Plan
<1>4. owed' \subseteq Keys /\ full' \in Lists
  BY DEF OneWayTypeOK, Plan
<1> QED BY <1>1, <1>2, <1>3, <1>4 DEF OneWayTypeOK, Plan

LEMMA OneWayUpdateType == OneWayTypeOK /\ Update => OneWayTypeOK'
<1> SUFFICES ASSUME OneWayTypeOK, Update PROVE OneWayTypeOK'
  OBVIOUS
<1> DEFINE WrittenTyped ==
        /\ dst' \in Lists /\ full' \in Lists /\ pend' \in [Keys -> {"none", "add", "remove"}]
        /\ cancel' \in BOOLEAN /\ calm' \in BOOLEAN /\ faults' \in 0..MaxFaults
<1>1. WrittenTyped
  <2>1. CASE UNCHANGED <<dst, full, pend, cancel, calm, faults>>
    BY <2>1 DEF OneWayTypeOK
  <2>2. CASE pend' = Mark(pend, upd, "add") /\ UNCHANGED <<dst, full, cancel, calm, faults>>
    BY <2>2, MarkType DEF OneWayTypeOK
  <2>3. ASSUME NEW out, dst' = Written(dst, out.done),
               full' = Written(full, UpdateSuccess(out.res)), Complete(upd, out), UNCHANGED pend
        PROVE  WrittenTyped
    BY <2>3, WrittenType, OneWayCompleteType DEF OneWayTypeOK
  <2> QED BY <2>1, <2>2, <2>3 DEF Update
<1> QED BY <1>1 DEF OneWayTypeOK, Update, history

LEMMA OneWayCountType ==
    ASSUME OneWayTypeOK, NEW success, NEW failed
    PROVE  CountFailures(success, failed) \in [Keys -> 0..PromoteAfter]
<1>1. \A k \in Keys : flap[k] \in 0..PromoteAfter
  BY DEF OneWayTypeOK
<1>2. \A n \in 0..PromoteAfter : Lesser(n + 1, PromoteAfter) \in 0..PromoteAfter
  BY OneWayNumbersAssumption DEF Lesser
<1> QED BY <1>1, <1>2, OneWayNumbersAssumption DEF CountFailures

LEMMA OneWayAddType == OneWayTypeOK /\ Add => OneWayTypeOK'
<1> SUFFICES ASSUME OneWayTypeOK, Add PROVE OneWayTypeOK'
  OBVIOUS
<1> DEFINE WrittenTyped ==
        /\ dst' \in Lists /\ full' \in Lists /\ tomb' \in [Keys -> 0..TTL]
        /\ bbox' \in [Keys -> 0..Cooldown] /\ flap' \in [Keys -> 0..PromoteAfter]
        /\ pend' \in [Keys -> {"none", "add", "remove"}] /\ newer' \subseteq Keys
        /\ cancel' \in BOOLEAN /\ calm' \in BOOLEAN /\ faults' \in 0..MaxFaults
<1>1. WrittenTyped
  <2>1. CASE UNCHANGED <<dst, full, tomb, bbox, pend, flap, newer, cancel, calm, faults>>
    BY <2>1 DEF OneWayTypeOK
  <2>2. CASE /\ pend' = Mark(pend, add, "add")
             /\ UNCHANGED <<dst, full, tomb, bbox, flap, newer, cancel, calm, faults>>
    BY <2>2, MarkType DEF OneWayTypeOK
  <2>3. ASSUME NEW out, NEW success, AddOutcome(out, success), newer' = newer \ success
        PROVE  WrittenTyped
    <3>1. dst' \in Lists /\ full' \in Lists
      BY <2>3, WrittenType DEF OneWayTypeOK, AddOutcome
    <3>2. tomb' \in [Keys -> 0..TTL]
      <4>1. 0 \in 0..TTL
        BY OneWayNumbersAssumption
      <4> QED BY <2>3, <4>1, MarkType DEF OneWayTypeOK, AddOutcome
    <3>3. bbox' \in [Keys -> 0..Cooldown]
      <4>1. Cooldown \in 0..Cooldown
        BY OneWayNumbersAssumption
      <4> QED BY <2>3, <4>1, MarkType DEF OneWayTypeOK, AddOutcome
    <3>4. flap' \in [Keys -> 0..PromoteAfter]
      BY <2>3, OneWayCountType DEF AddOutcome
    <3>5. pend' \in [Keys -> {"none", "add", "remove"}]
      BY <2>3 DEF OneWayTypeOK, AddOutcome, PendingAdds
    <3>6. cancel' \in BOOLEAN /\ calm' \in BOOLEAN /\ faults' \in 0..MaxFaults
      BY <2>3, OneWayCompleteType DEF OneWayTypeOK, AddOutcome
    <3>7. newer' \subseteq Keys
      BY <2>3 DEF OneWayTypeOK
    <3> QED BY <3>1, <3>2, <3>3, <3>4, <3>5, <3>6, <3>7
  <2> QED BY <2>1, <2>2, <2>3 DEF Add
<1> QED BY <1>1 DEF OneWayTypeOK, Add, history

LEMMA OneWayRemoveType == OneWayTypeOK /\ Remove => OneWayTypeOK'
<1> SUFFICES ASSUME OneWayTypeOK, Remove PROVE OneWayTypeOK'
  OBVIOUS
<1> DEFINE PendValues == {"none", "add", "remove"}
<1> DEFINE WrittenTyped ==
        /\ dst' \in Lists /\ full' \in Lists /\ tomb' \in [Keys -> 0..TTL]
        /\ pend' \in [Keys -> PendValues] /\ newer' \subseteq Keys
        /\ own' \subseteq Keys /\ owed' \subseteq Keys
        /\ cancel' \in BOOLEAN /\ calm' \in BOOLEAN /\ faults' \in 0..MaxFaults
<1>1. WrittenTyped
  <2>1. CASE UNCHANGED <<dst, full, tomb, pend, newer, own, owed, cancel, calm, faults>>
    BY <2>1 DEF OneWayTypeOK
  <2>2. CASE /\ pend' = Mark(pend, rem, "remove")
             /\ UNCHANGED <<dst, full, tomb, newer, own, owed, cancel, calm, faults>>
    BY <2>2, MarkType DEF OneWayTypeOK
  <2>3. ASSUME NEW out, RemoveOutcome(out)
        PROVE  WrittenTyped
    <3> DEFINE success == RemoveSuccess(rem, out.res)
    <3>1. dst' \in Lists /\ full' \in Lists
      BY <2>3 DEF OneWayTypeOK, RemoveOutcome, Lists
    <3>2. tomb' \in [Keys -> 0..TTL]
      <4>1. TTL \in 0..TTL
        BY OneWayNumbersAssumption
      <4> QED BY <2>3, <4>1, MarkType DEF OneWayTypeOK, RemoveOutcome
    <3>3. pend' \in [Keys -> PendValues]
      <4>1. Mark(pend, success, "none") \in [Keys -> PendValues]
        BY MarkType DEF OneWayTypeOK
      <4>2. Mark(Mark(pend, success, "none"), rem \ success, "remove") \in [Keys -> PendValues]
        BY <4>1, MarkType
      <4> QED BY <2>3, <4>2 DEF RemoveOutcome
    <3>4. cancel' \in BOOLEAN /\ calm' \in BOOLEAN /\ faults' \in 0..MaxFaults
      BY <2>3, OneWayCompleteType DEF OneWayTypeOK, RemoveOutcome
    <3>5. newer' \subseteq Keys /\ own' \subseteq Keys /\ owed' \subseteq Keys
      BY <2>3 DEF OneWayTypeOK, RemoveOutcome
    <3> QED BY <3>1, <3>2, <3>3, <3>4, <3>5
  <2> QED BY <2>1, <2>2, <2>3 DEF Remove
<1> QED BY <1>1 DEF OneWayTypeOK, Remove

LEMMA OneWayRaisesType == OneWayTypeOK /\ WriteRaises => OneWayTypeOK'
<1> SUFFICES ASSUME OneWayTypeOK, WriteRaises PROVE OneWayTypeOK'
  OBVIOUS
<1>1. faults' \in 0..MaxFaults /\ RunOver
  BY OneWayFaultType DEF OneWayTypeOK, WriteRaises
<1>2. PICK done :
        /\ dst' = IF pc = "remove" THEN [k \in Keys |-> IF k \in done THEN Absent ELSE dst[k]]
                                   ELSE Written(dst, done)
        /\ own' = IF pc = "remove" THEN own \ done ELSE own
        /\ owed' = IF pc = "remove" THEN owed \ done ELSE owed
  BY DEF WriteRaises
<1>3. [k \in Keys |-> IF k \in done THEN Absent ELSE dst[k]] \in Lists
  BY DEF OneWayTypeOK, Lists
<1>4. dst' \in Lists /\ own' \subseteq Keys /\ owed' \subseteq Keys
  BY <1>2, <1>3, WrittenType DEF OneWayTypeOK
<1> QED BY <1>1, <1>4, RunOverTypes DEF OneWayTypeOK, WriteRaises, files

LEMMA OneWayEndType ==
    OneWayTypeOK /\ (SnapshotFails \/ Commit \/ RequestCancel \/ Crash) => OneWayTypeOK'
<1> SUFFICES ASSUME OneWayTypeOK, SnapshotFails \/ Commit \/ RequestCancel \/ Crash
             PROVE  OneWayTypeOK'
  OBVIOUS
<1>1. faults' \in 0..MaxFaults
  BY OneWayFaultType DEF OneWayTypeOK, SnapshotFails, Commit, RequestCancel, Crash
<1>2. CASE SnapshotFails
  BY <1>1, <1>2, RunOverTypes DEF OneWayTypeOK, SnapshotFails, files, history
<1>3. CASE Commit
  BY <1>1, <1>3, RunOverTypes DEF OneWayTypeOK, Commit, history
<1>4. CASE RequestCancel
  BY <1>1, <1>4 DEF OneWayTypeOK, RequestCancel, files, plan, history
<1>5. CASE Crash
  BY <1>1, <1>5, RunOverTypes DEF OneWayTypeOK, Crash, files, history
<1> QED BY <1>2, <1>3, <1>4, <1>5

LEMMA NextOneWayType == OneWayTypeOK /\ [Next]_vars => OneWayTypeOK'
<1> SUFFICES ASSUME OneWayTypeOK, [Next]_vars PROVE OneWayTypeOK'
  OBVIOUS
<1>1. ASSUME NEW k \in Keys, NEW v \in Values, SourceSet(k, v) \/ DestinationSet(k, v)
      PROVE  OneWayTypeOK'
  BY <1>1, SourceSetType, DestinationType
<1>2. ASSUME NEW k \in Keys, SourceDelete(k) \/ DestinationDelete(k)
      PROVE  OneWayTypeOK'
  BY <1>2, SourceDeleteType, DestinationType
<1>3. ASSUME NEW isDry \in BOOLEAN, NEW isDown \in BOOLEAN, StartRun(isDry, isDown)
      PROVE  OneWayTypeOK'
  BY <1>3, OneWayStartType
<1>4. CASE ReadSource
  BY <1>4 DEF OneWayTypeOK, ReadSource, files, history
<1>5. CASE Tick \/ Plan \/ Update \/ Add \/ Remove \/ WriteRaises
  BY <1>5, OneWayTickType, OneWayPlanType, OneWayUpdateType, OneWayAddType, OneWayRemoveType,
     OneWayRaisesType
<1>6. CASE SnapshotFails \/ Commit \/ RequestCancel \/ Crash
  BY <1>6, OneWayEndType
<1>7. CASE UNCHANGED vars
  BY <1>7 DEF OneWayTypeOK, vars, files, locals, plan, history
<1> QED BY <1>1, <1>2, <1>3, <1>4, <1>5, <1>6, <1>7 DEF Next, RunStep

\* Every variable keeps its type in every behaviour of the model.
THEOREM OneWayTypeCorrect == Spec => []OneWayTypeOK
BY InitOneWayType, NextOneWayType, PTL DEF Spec

-----------------------------------------------------------------------------
(* Removal mode "source_deletes": every removal copies a deletion on the     *)
(* source, and no own item of the destination is removed.                    *)

\* Between reading the source and committing, a baseline key that the source
\* did not have when it was read has been deleted.  With RemovalEvidence this
\* is inductive; RemovalEvidence alone is not, as it allows a key that is on
\* the source and in its baseline to have been missing when it was read
\* without ever having been deleted.
ReadTellsDeletions ==
    mode = "source_deletes" /\ pc \notin {"idle", "source"} =>
        \A k \in Keys : baseSrc[k] # Absent /\ srcIdx[k] = Absent => k \in gone

SourceEvidence == RemovalEvidence /\ ReadTellsDeletions

\* The same, for a pair in this mode, without quantifiers over modes.
SourceTraces ==
    \A k \in Keys :
        /\ baseSrc[k] # Absent => src[k] # Absent \/ k \in gone
        /\ srcIdx[k] # Absent => src[k] # Absent \/ k \in gone
        /\ pend[k] = "remove" \/ k \in rem => k \in gone
        /\ k \in own => Untraced(k)
        /\ pc \notin {"idle", "source"} =>
              (baseSrc[k] # Absent /\ srcIdx[k] = Absent => k \in gone)

LEMMA TracesAreEvidence == mode = "source_deletes" => (SourceEvidence <=> SourceTraces)
BY DEF SourceEvidence, RemovalEvidence, ReadTellsDeletions, SourceTraces

LEMMA TracesInit == Init => SourceTraces
BY DEF Init, SourceTraces, Untraced, Empty, Has, Lists

LEMMA TracesSource ==
    ASSUME OneWayTypeOK, SourceTraces, NEW k \in Keys,
           SourceDelete(k) \/ \E v \in Values : SourceSet(k, v)
    PROVE  SourceTraces'
<1>1. UNCHANGED <<baseSrc, pend, rem, srcIdx, pc>>
  BY DEF SourceDelete, SourceSet, files, locals, plan
<1>2. CASE SourceDelete(k)
  <2>1. src' = [src EXCEPT ![k] = Absent] /\ gone' = gone \cup {k} /\ own' = own
    BY <1>2 DEF SourceDelete
  <2> QED BY <1>1, <2>1 DEF OneWayTypeOK, Lists, SourceTraces, Untraced
<1>3. ASSUME NEW v \in Values, SourceSet(k, v) PROVE SourceTraces'
  <2>1. src' = [src EXCEPT ![k] = v] /\ gone' = gone /\ own' = own \ {k} /\ v # Absent
    BY <1>3, OneWayValuesAssumption DEF SourceSet
  <2> QED BY <1>1, <2>1 DEF OneWayTypeOK, Lists, SourceTraces, Untraced
<1> QED BY <1>2, <1>3

LEMMA TracesDestination ==
    ASSUME OneWayTypeOK, SourceTraces, NEW k \in Keys,
           DestinationDelete(k) \/ \E v \in Values : DestinationSet(k, v)
    PROVE  SourceTraces'
<1>1. UNCHANGED <<src, baseSrc, pend, rem, srcIdx, pc, gone>>
  BY DEF DestinationDelete, DestinationSet, files, locals, plan
<1>2. \A j \in own' : j \in own \/ (j = k /\ Untraced(k))
  BY DEF DestinationDelete, DestinationSet
<1> QED BY <1>1, <1>2 DEF SourceTraces, Untraced

\* The run is over, with or without having written its baselines.
LEMMA TracesRunOver ==
    ASSUME OneWayTypeOK, SourceTraces, RunOver, UNCHANGED <<src, pend, gone>>,
           own' \subseteq own, baseSrc' \in {baseSrc, srcIdx}
    PROVE  SourceTraces'
<1>1. /\ pc' = "idle" /\ rem' = {} /\ \A k \in Keys : srcIdx'[k] = Absent
  BY DEF RunOver, Empty
<1>2. \A k \in Keys : k \in own => baseSrc[k] = Absent /\ srcIdx[k] = Absent
  BY DEF SourceTraces, Untraced
<1> QED BY <1>1, <1>2 DEF SourceTraces, Untraced

\* Every reason to remove an item in this mode is a deletion on the source,
\* and not an own item of the destination.
LEMMA RemovalsAreTraced ==
    ASSUME OneWayTypeOK, SourceTraces, mode = "source_deletes", pc = "plan"
    PROVE  Removals \subseteq gone \ own
<1> SUFFICES ASSUME NEW k \in Removals PROVE k \in gone \ own
  OBVIOUS
<1>1. k \in Keys
  BY RemovalsType
<1>2. CASE k \in Observed
  <2>1. baseSrc[k] # Absent /\ srcIdx[k] = Absent
    BY <1>2 DEF Observed, Has
  <2> QED BY <1>1, <2>1 DEF SourceTraces, Untraced
<1>3. CASE k \in Retried
  <2>1. pend[k] = "remove"
    BY <1>3 DEF Retried, PendingRemovals
  <2> QED BY <1>1, <2>1 DEF SourceTraces, Untraced
<1> QED BY <1>2, <1>3 DEF Removals, PlannedRemovals

LEMMA TracesPlan ==
    OneWayTypeOK /\ SourceTraces /\ mode = "source_deletes" /\ Plan => SourceTraces'
<1> SUFFICES ASSUME OneWayTypeOK, SourceTraces, mode = "source_deletes", Plan
             PROVE  SourceTraces'
  OBVIOUS
<1>1. UNCHANGED <<src, baseSrc, srcIdx, gone, own>> /\ pc = "plan" /\ pc' = "update"
  BY DEF Plan
<1>2. rem' \subseteq gone \ own
  BY <1>1, RemovalsAreTraced DEF Plan
<1>3. \A k \in Keys : pend'[k] = "remove" => pend[k] = "remove"
  BY DEF OneWayTypeOK, Plan, Mark
<1> QED BY <1>1, <1>2, <1>3 DEF SourceTraces, Untraced

LEMMA TracesUpdateAdd ==
    ASSUME OneWayTypeOK, SourceTraces, Update \/ Add
    PROVE  SourceTraces'
<1>1. /\ UNCHANGED <<src, baseSrc, srcIdx, rem, gone, own>>
      /\ pc \notin {"idle", "source"} /\ pc' \notin {"idle", "source"}
  BY DEF Update, Add, history
<1>2. \A k \in Keys : pend'[k] = "remove" => pend[k] = "remove"
  <2>1. CASE Update
    BY <2>1 DEF OneWayTypeOK, Update, Mark
  <2>2. CASE Add /\ (UNCHANGED pend \/ pend' = Mark(pend, add, "add"))
    BY <2>2 DEF OneWayTypeOK, Mark
  <2>3. ASSUME NEW out, NEW success, AddOutcome(out, success)
        PROVE  \A k \in Keys : pend'[k] = "remove" => pend[k] = "remove"
    BY <2>3 DEF AddOutcome, PendingAdds
  <2> QED BY <2>1, <2>2, <2>3 DEF Add
<1> QED BY <1>1, <1>2 DEF SourceTraces, Untraced

LEMMA TracesRemove ==
    ASSUME OneWayTypeOK, SourceTraces, Remove
    PROVE  SourceTraces'
<1>1. /\ UNCHANGED <<src, baseSrc, srcIdx, gone>> /\ rem' = {}
      /\ pc \notin {"idle", "source"}
  BY DEF Remove
<1>2. own' \subseteq own
  BY DEF Remove, RemoveOutcome
<1>3. \A k \in Keys : pend'[k] = "remove" => pend[k] = "remove" \/ k \in rem
  <2>1. CASE UNCHANGED pend
    BY <2>1
  <2>2. CASE pend' = Mark(pend, rem, "remove")
    BY <2>2 DEF OneWayTypeOK, Mark
  <2>3. ASSUME NEW out, RemoveOutcome(out)
        PROVE  \A k \in Keys : pend'[k] = "remove" => pend[k] = "remove" \/ k \in rem
    BY <2>3 DEF OneWayTypeOK, RemoveOutcome, Mark
  <2> QED BY <2>1, <2>2, <2>3 DEF Remove
<1> QED BY <1>1, <1>2, <1>3 DEF SourceTraces, Untraced

\* Steps that touch none of the traces.
LEMMA TracesUntouched ==
    ASSUME SourceTraces, UNCHANGED <<src, baseSrc, srcIdx, pend, rem, gone, own>>,
           pc' \in {"idle", "source"} \/ pc' = pc
    PROVE  SourceTraces'
BY DEF SourceTraces, Untraced

LEMMA TracesNext ==
    ASSUME OneWayTypeOK, SourceTraces, mode = "source_deletes", [Next]_vars
    PROVE  SourceTraces'
<1>1. ASSUME NEW k \in Keys, NEW v \in Values, SourceSet(k, v) \/ DestinationSet(k, v)
      PROVE  SourceTraces'
  BY <1>1, TracesSource, TracesDestination
<1>2. ASSUME NEW k \in Keys, SourceDelete(k) \/ DestinationDelete(k)
      PROVE  SourceTraces'
  BY <1>2, TracesSource, TracesDestination
<1>3. ASSUME \/ \E isDry, isDown \in BOOLEAN : StartRun(isDry, isDown)
             \/ Tick \/ RequestCancel \/ UNCHANGED vars
      PROVE  SourceTraces'
  <2>1. UNCHANGED <<src, baseSrc, srcIdx, pend, rem, gone, own>>
    BY <1>3 DEF StartRun, Tick, RequestCancel, vars, files, locals, plan, history
  <2>2. pc' \in {"idle", "source"} \/ pc' = pc
    BY <1>3 DEF StartRun, Tick, RequestCancel, vars
  <2> QED BY <2>1, <2>2, TracesUntouched
<1>4. CASE ReadSource
  <2>1. UNCHANGED <<src, baseSrc, pend, rem, gone, own>> /\ srcIdx' = src
    BY <1>4 DEF ReadSource, files, history
  <2> QED BY <2>1 DEF SourceTraces, Untraced
<1>5. CASE SnapshotFails \/ WriteRaises \/ Commit \/ Crash
  <2>1. RunOver /\ UNCHANGED <<src, pend, gone>>
    BY <1>5 DEF SnapshotFails, WriteRaises, Commit, Crash, files, history
  <2>2. own' \subseteq own
    BY <1>5 DEF SnapshotFails, WriteRaises, Commit, Crash, history
  <2>3. baseSrc' \in {baseSrc, srcIdx}
    BY <1>5 DEF SnapshotFails, WriteRaises, Commit, Crash, files
  <2> QED BY <2>1, <2>2, <2>3, TracesRunOver
<1>6. CASE Plan \/ Update \/ Add \/ Remove
  BY <1>6, TracesPlan, TracesUpdateAdd, TracesRemove
<1> QED BY <1>1, <1>2, <1>3, <1>4, <1>5, <1>6 DEF Next, RunStep

LEMMA ModeKept == [Next]_vars => mode' = mode
BY DEF Next, SourceSet, DestinationSet, SourceDelete, DestinationDelete, Tick, StartRun,
       RunStep, ReadSource, SnapshotFails, Plan, Update, Add, Remove, Commit, WriteRaises,
       RequestCancel, Crash, vars

\* All evidence for a removal, in the files or in a run, is evidence of a
\* deletion on the source; of the destination's own items there is none.
THEOREM SourceEvidenceInvariant == Spec => []SourceEvidence
<1>1. Init => SourceEvidence
  BY TracesInit, TracesAreEvidence DEF SourceEvidence, RemovalEvidence, ReadTellsDeletions
<1>2. OneWayTypeOK /\ SourceEvidence /\ [Next]_vars => SourceEvidence'
  <2> SUFFICES ASSUME OneWayTypeOK, SourceEvidence, [Next]_vars PROVE SourceEvidence'
    OBVIOUS
  <2>1. mode' = mode
    BY ModeKept
  <2>2. CASE mode = "source_deletes"
    <3>1. SourceTraces'
      BY <2>2, TracesAreEvidence, TracesNext
    <3> QED BY <2>1, <2>2, <3>1
         DEF SourceEvidence, RemovalEvidence, ReadTellsDeletions, SourceTraces
  <2>3. CASE mode # "source_deletes"
    BY <2>1, <2>3 DEF SourceEvidence, RemovalEvidence, ReadTellsDeletions
  <2> QED BY <2>2, <2>3
<1> QED BY <1>1, <1>2, OneWayTypeCorrect, PTL DEF Spec

\* Evidence for removals comes from the source alone (RemovalEvidence).
THEOREM OneWayEvidence == Spec => []RemovalEvidence
<1>1. SourceEvidence => RemovalEvidence
  BY DEF SourceEvidence
<1> QED BY <1>1, SourceEvidenceInvariant, PTL

\* What the destination's user added for himself is never planned to be removed.
THEOREM OwnItemsStay == Spec => []OwnItemsKept
<1>1. OneWayTypeOK /\ SourceEvidence => OwnItemsKept
  BY DEF SourceEvidence, RemovalEvidence, OwnItemsKept, OneWayTypeOK, Untraced
<1> QED BY <1>1, OneWayTypeCorrect, SourceEvidenceInvariant, PTL

\* One step removes from the destination nothing but what is planned.
LEMMA StepRemoves ==
    ASSUME OneWayTypeOK, SourceEvidence, Next, mode = "source_deletes",
           NEW k \in Keys, pc = "remove", dst[k] # Absent, dst'[k] = Absent, edits' = edits
    PROVE  k \in gone
<1>1. rem \subseteq gone
  BY DEF SourceEvidence, RemovalEvidence, OneWayTypeOK
<1>2. CASE Remove
  <2>1. ~UNCHANGED dst
    OBVIOUS
  <2>2. PICK out \in Outcomes("apply:remove", rem) : RemoveOutcome(out)
    BY <1>2, <2>1 DEF Remove
  <2>3. k \in out.done
    BY <2>2 DEF RemoveOutcome
  <2> QED BY <1>1, <2>3, OutcomeInBatch
<1>3. CASE WriteRaises
  <2>1. PICK done \in SUBSET rem : dst' = [j \in Keys |-> IF j \in done THEN Absent ELSE dst[j]]
    BY <1>3 DEF WriteRaises
  <2> QED BY <1>1, <2>1
<1>4. CASE \E j \in Keys, v \in Values : SourceSet(j, v) \/ DestinationSet(j, v)
  BY <1>4 DEF OneWayTypeOK, SourceSet, DestinationSet, Edit
<1>5. CASE \E j \in Keys : SourceDelete(j) \/ DestinationDelete(j)
  BY <1>5 DEF OneWayTypeOK, SourceDelete, DestinationDelete, Edit
<1>6. CASE \/ \E isDry, isDown \in BOOLEAN : StartRun(isDry, isDown)
           \/ Tick \/ ReadSource \/ SnapshotFails \/ Commit \/ RequestCancel \/ Crash
  BY <1>6 DEF StartRun, Tick, ReadSource, SnapshotFails, Commit, RequestCancel, Crash
<1>7. CASE Plan \/ Update \/ Add
  BY <1>7 DEF Plan, Update, Add
<1> QED BY <1>2, <1>3, <1>4, <1>5, <1>6, <1>7 DEF Next, RunStep

\* In mode "source_deletes" a run takes nothing off the destination that the
\* source's user has not deleted.
THEOREM OnlySourceDeletions == Spec => SourceDeletesOnly
<1> DEFINE Asked ==
      mode = "source_deletes" =>
          \A k \in Keys : pc = "remove" /\ dst[k] # Absent /\ dst'[k] = Absent
                            /\ edits' = edits => k \in gone
<1>1. OneWayTypeOK /\ SourceEvidence /\ [Next]_vars => [Asked]_vars
  BY StepRemoves
<1> QED BY <1>1, OneWayTypeCorrect, SourceEvidenceInvariant, PTL DEF Spec, SourceDeletesOnly

-----------------------------------------------------------------------------
(* What a batch is taken to have achieved, in one chunk or two               *)

LEMMA OutcomeAccount ==
    ASSUME NEW tag, NEW W, IsFiniteSet(W), NEW out \in Outcomes(tag, W)
    PROVE  /\ out.done \subseteq W /\ Told(W, out.done, out.res)
           /\ ~cancel /\ ~out.cut /\ out.done = W => Whole(W, out.res)
<1>1. CASE cancel
  <2>1. out.done = {} /\ out.res = Cancelled
    BY <1>1 DEF Outcomes, Outcome
  <2>2. Told(W, {}, Cancelled)
    BY FS_EmptySet DEF Told, Cancelled
  <2> QED BY <1>1, <2>1, <2>2
<1>2. CASE ~cancel
  <2>1. PICK m \in ReportModes, C \in FirstChunks(W) : out \in InChunks(m, tag, W, C)
    BY <1>2 DEF Outcomes
  <2>2. m \in {"exact", "count", "errors"} /\ C \subseteq W
    BY OneWayModesAssumption, ChunkInBatch
  <2>3. IsFiniteSet(C) /\ IsFiniteSet(W \ C)
    BY <2>2, FS_Subset
  <2>4. ASSUME NEW X, IsFiniteSet(X), NEW a \in Answers(m, tag, X)
        PROVE  /\ a.done \subseteq X /\ Told(X, a.done, a.res)
               /\ a.res.ckeys = IF m = "exact" THEN a.done ELSE {}
               /\ a.done = X => Whole(X, a.res)
    <3>1. PICK D \in SUBSET X : a = [done |-> D, res |-> Normalize(tag, Report(m, X, D), X)]
      BY DEF Answers
    <3>2. a.done = D /\ a.res = Normalize(tag, Report(m, X, D), X)
      BY <3>1
    <3> DEFINE res == a.res
    <3>3. res = Normalize(tag, Report(m, X, D), X)
      BY <3>2
    <3> HIDE DEF res
    <3>4. Told(X, D, res) /\ (D = X => Whole(X, res))
      BY <2>2, <2>4, <3>3, ReportTold
    <3>5. CASE m = "exact"
      <4>1. res.ckeys = D
        BY <2>4, <3>3, <3>5, ReportTold
      <4> QED BY <3>2, <3>4, <3>5, <4>1 DEF res
    <3>6. CASE m # "exact"
      <4>1. res.ckeys = {}
        BY <2>2, <2>4, <3>3, <3>6, ReportTold
      <4> QED BY <3>2, <3>4, <3>6, <4>1 DEF res
    <3> QED BY <3>5, <3>6
  <2>5. CASE C = W
    <3>1. InChunks(m, tag, W, C) = {Outcome(a.done, W, a.res, FALSE) : a \in Answers(m, tag, W)}
      BY <2>5 DEF InChunks
    <3>2. PICK a \in Answers(m, tag, W) : out = Outcome(a.done, W, a.res, FALSE)
      BY <2>1, <3>1
    <3>3. out.done = a.done /\ out.res = a.res
      BY <3>2 DEF Outcome
    <3> QED BY <2>4, <3>3
  <2>6. CASE C # W
    <3>1. PICK a \in Answers(m, tag, C) :
             out \in {Outcome(a.done, C, a.res, TRUE)} \cup
                     {Outcome(a.done \cup b.done, C, Together(a.res, b.res), FALSE) :
                         b \in Answers(m, tag, W \ C)}
      BY <2>1, <2>6 DEF InChunks
    <3>2. /\ a.done \subseteq C /\ Told(C, a.done, a.res)
          /\ a.res.ckeys = IF m = "exact" THEN a.done ELSE {}
          /\ a.done = C => Whole(C, a.res)
      BY <2>3, <2>4
    <3>3. CASE out = Outcome(a.done, C, a.res, TRUE)
      <4>1. out.done = a.done /\ out.res = a.res /\ out.cut
        BY <3>3 DEF Outcome
      <4> QED BY <2>2, <3>2, <4>1 DEF Told
    <3>4. ASSUME NEW b \in Answers(m, tag, W \ C),
                 out = Outcome(a.done \cup b.done, C, Together(a.res, b.res), FALSE)
          PROVE  /\ out.done \subseteq W /\ Told(W, out.done, out.res)
                 /\ out.done = W => Whole(W, out.res)
      <4>1. /\ b.done \subseteq W \ C /\ Told(W \ C, b.done, b.res)
            /\ b.res.ckeys = IF m = "exact" THEN b.done ELSE {}
            /\ b.done = W \ C => Whole(W \ C, b.res)
        BY <2>3, <2>4
      <4>2. out.done = a.done \cup b.done /\ out.res = Together(a.res, b.res)
        BY <3>4 DEF Outcome
      <4>3. \/ a.res.ckeys = a.done /\ b.res.ckeys = b.done
            \/ a.res.ckeys = {} /\ b.res.ckeys = {}
        BY <3>2, <4>1
      <4>4. /\ Told(W, a.done \cup b.done, Together(a.res, b.res))
            /\ Whole(C, a.res) /\ Whole(W \ C, b.res) => Whole(W, Together(a.res, b.res))
        BY <2>2, <3>2, <4>1, <4>3, ToldTogether
      <4>5. out.done = W => a.done = C /\ b.done = W \ C
        BY <2>2, <3>2, <4>1, <4>2
      <4> QED BY <2>2, <3>2, <4>1, <4>2, <4>4, <4>5
    <3> QED BY <3>1, <3>3, <3>4
  <2> QED BY <2>5, <2>6
<1> QED BY <1>1, <1>2

LEMMA KeysFinite == ASSUME NEW W \in SUBSET Keys PROVE IsFiniteSet(W)
BY OneWayKeysAssumption, FS_Subset

\* A batch that was not disturbed has been done in full.
LEMMA CalmBatch ==
    ASSUME NEW W, ~cancel, calm', NEW out, Complete(W, out)
    PROVE  out.done = W /\ ~out.cut /\ UNCHANGED <<cancel, calm>>
BY DEF Complete

-----------------------------------------------------------------------------
(* The plan of a run                                                         *)

\* Nothing is written that the source does not have, nothing removed that it
\* has, and the plan is gone through batch by batch.
Planned == {"update", "add", "remove", "commit"}
PlanFits ==
    /\ pc \notin Planned => add = {} /\ rem = {}
    /\ pc # "update" => upd = {}
    /\ pc \in {"remove", "commit"} => add = {}
    /\ pc = "commit" => rem = {}
    /\ \A k \in upd \cup add : srcIdx[k] # Absent
    /\ \A k \in rem : srcIdx[k] = Absent

LEMMA PlanFitsInit == Init => PlanFits
BY DEF Init, PlanFits, Planned

LEMMA PlanFitsNext ==
    ASSUME OneWayTypeOK, PlanFits, [Next]_vars
    PROVE  PlanFits'
<1>1. CASE UNCHANGED <<pc, plan>>
  BY <1>1 DEF PlanFits, plan
<1>2. CASE \/ \E k \in Keys, v \in Values : SourceSet(k, v) \/ DestinationSet(k, v)
           \/ \E k \in Keys : SourceDelete(k) \/ DestinationDelete(k)
           \/ Tick \/ RequestCancel \/ UNCHANGED vars
  BY <1>1, <1>2 DEF SourceSet, DestinationSet, SourceDelete, DestinationDelete, Tick,
                    RequestCancel, vars, locals
<1>3. CASE \E isDry, isDown \in BOOLEAN : StartRun(isDry, isDown)
  BY <1>3 DEF StartRun, PlanFits, plan, Planned
<1>4. CASE ReadSource
  BY <1>4 DEF ReadSource, PlanFits, Planned
<1>5. CASE RunOver
  BY <1>5 DEF RunOver, PlanFits, Planned
<1>6. CASE Plan
  <2>1. pc' = "update" /\ UNCHANGED srcIdx
    BY <1>6 DEF Plan
  <2>2. \A k \in upd' \cup add' : srcIdx[k] # Absent
    BY <1>6 DEF Plan, Differing, Missing, Has
  <2>3. \A k \in Removals : srcIdx[k] = Absent
    BY DEF Removals, PlannedRemovals, MirrorRemovals, Observed, Retried, PendingRemovals, Has
  <2>4. \A k \in rem' : srcIdx[k] = Absent
    BY <1>6, <2>3 DEF Plan
  <2> QED BY <2>1, <2>2, <2>4 DEF PlanFits, Planned
<1>7. CASE Update
  BY <1>7 DEF Update, PlanFits, Planned
<1>8. CASE Add
  BY <1>8 DEF Add, PlanFits, Planned
<1>9. CASE Remove
  BY <1>9 DEF Remove, PlanFits, Planned
<1>10. SnapshotFails \/ Commit \/ Crash \/ WriteRaises => RunOver
  BY DEF SnapshotFails, Commit, Crash, WriteRaises
<1> QED BY <1>2, <1>3, <1>4, <1>5, <1>6, <1>7, <1>8, <1>9, <1>10 DEF Next, RunStep

-----------------------------------------------------------------------------
(* Deletions that are owed to the destination are not forgotten.             *)

\* Where the deletion of k is written down: in the source's baseline as long as
\* no run has seen it, as a pending removal when one has; and in the plan of
\* the run that is about to carry it out.
OwedTraced ==
    \A k \in owed :
        /\ src[k] = Absent /\ dst[k] # Absent /\ mode = "source_deletes" /\ AllowRemovals
        /\ baseSrc[k] # Absent \/ pend[k] = "remove"
        /\ pc \notin {"idle", "source"} /\ srcIdx[k] # Absent => baseSrc[k] # Absent
        /\ pc \in Planned /\ srcIdx[k] = Absent => pend[k] = "remove" \/ (k \in rem /\ ~dry)
OwedInv == PlanFits /\ OwedTraced

LEMMA OwedUsers ==
    ASSUME OneWayTypeOK, OwedTraced,
           \/ \E k \in Keys, v \in Values : SourceSet(k, v) \/ DestinationSet(k, v)
           \/ \E k \in Keys : SourceDelete(k) \/ DestinationDelete(k)
    PROVE  OwedTraced'
<1>1. UNCHANGED <<mode, baseSrc, pend, pc, srcIdx, rem, dry>>
  BY DEF SourceSet, DestinationSet, SourceDelete, DestinationDelete, files, locals, plan
<1>2. ASSUME NEW k \in Keys, NEW v \in Values, SourceSet(k, v) PROVE OwedTraced'
  <2>1. src' = [src EXCEPT ![k] = v] /\ dst' = dst /\ owed' = owed \ {k}
    BY <1>2 DEF SourceSet
  <2> QED BY <1>1, <2>1 DEF OwedTraced, OneWayTypeOK, Lists
<1>3. ASSUME NEW k \in Keys, NEW v \in Values, DestinationSet(k, v) PROVE OwedTraced'
  <2>1. dst' = [dst EXCEPT ![k] = v] /\ src' = src /\ owed' = owed /\ v # Absent
    BY <1>3, OneWayValuesAssumption DEF DestinationSet
  <2> QED BY <1>1, <2>1 DEF OwedTraced, OneWayTypeOK, Lists
<1>4. ASSUME NEW k \in Keys, DestinationDelete(k) PROVE OwedTraced'
  <2>1. dst' = [dst EXCEPT ![k] = Absent] /\ src' = src /\ owed' = owed \ {k}
    BY <1>4 DEF DestinationDelete
  <2> QED BY <1>1, <2>1 DEF OwedTraced, OneWayTypeOK, Lists
<1>5. ASSUME NEW k \in Keys, SourceDelete(k) PROVE OwedTraced'
  <2>1. src' = [src EXCEPT ![k] = Absent] /\ dst' = dst
    BY <1>5 DEF SourceDelete
  <2>2. \A j \in owed' : \/ j \in owed
                         \/ /\ j = k /\ mode = "source_deletes" /\ AllowRemovals
                            /\ baseSrc[k] # Absent /\ dst[k] # Absent
                            /\ pc \in {"idle", "source"} \/ srcIdx[k] # Absent
    BY <1>5 DEF SourceDelete
  <2>3. pc \in {"idle", "source"} => pc \notin Planned
    BY DEF Planned
  <2> QED BY <1>1, <2>1, <2>2, <2>3 DEF OwedTraced, OneWayTypeOK, Lists
<1> QED BY <1>2, <1>3, <1>4, <1>5

\* The plan of a run that has seen a deletion removes the item, unless the
\* removal is pending or the deletion is forgotten with leave.
LEMMA OwedPlan == OneWayTypeOK /\ OwedTraced /\ Plan => OwedTraced'
<1> SUFFICES ASSUME OneWayTypeOK, OwedTraced, Plan, NEW k \in owed'
             PROVE  /\ (src[k] = Absent /\ dst[k] # Absent)'
                    /\ (mode = "source_deletes")' /\ AllowRemovals
                    /\ (baseSrc[k] # Absent \/ pend[k] = "remove")'
                    /\ (srcIdx[k] # Absent => baseSrc[k] # Absent)'
                    /\ (srcIdx[k] = Absent => pend[k] = "remove" \/ (k \in rem /\ ~dry))'
  BY DEF OwedTraced
<1>1. /\ pc = "plan" /\ pc' = "update" /\ UNCHANGED <<src, dst, mode, baseSrc, dry, srcIdx>>
      /\ rem' = IF MassDeleteBlocked THEN {} ELSE Removals
      /\ pend' = IF dry THEN pend ELSE Mark(pend, Stale, "none")
      /\ owed' = IF down \/ dry \/ MassDeleteBlocked \/ ~IncludeObserved
                 THEN owed \ Forgotten ELSE owed
  BY DEF Plan
<1>2. k \in owed /\ k \in Keys
  BY <1>1 DEF OneWayTypeOK
<1>3. /\ src[k] = Absent /\ dst[k] # Absent /\ mode = "source_deletes" /\ AllowRemovals
      /\ baseSrc[k] # Absent \/ pend[k] = "remove"
      /\ srcIdx[k] # Absent => baseSrc[k] # Absent
  BY <1>1, <1>2 DEF OwedTraced
<1>4. ASSUME srcIdx[k] = Absent
      PROVE  pend'[k] = "remove" \/ (k \in rem' /\ ~dry)
  <2>1. pend[k] = "remove" => pend'[k] = "remove"
    <3>1. pend[k] = "remove" => k \notin Stale
      BY <1>2, <1>3, <1>4 DEF Stale, Retried, PendingRemovals, Has
    <3> QED BY <1>1, <1>2, <3>1 DEF Mark, OneWayTypeOK
  <2>2. CASE down \/ dry \/ MassDeleteBlocked \/ ~IncludeObserved
    <3>1. k \notin Forgotten
      BY <1>1, <2>2
    <3>2. pend[k] = "remove"
      BY <1>2, <1>4, <3>1 DEF Forgotten
    <3> QED BY <2>1, <3>2
  <2>3. CASE ~(down \/ dry \/ MassDeleteBlocked \/ ~IncludeObserved) /\ baseSrc[k] # Absent
    <3>1. k \in Observed
      BY <1>2, <1>3, <1>4, <2>3 DEF Observed, Has
    <3>2. k \in Removals
      BY <1>3, <3>1 DEF Removals, PlannedRemovals
    <3> QED BY <1>1, <2>3, <3>2
  <2> QED BY <1>3, <2>1, <2>2, <2>3
<1>5. (baseSrc[k] # Absent \/ pend[k] = "remove")'
  <2>1. CASE srcIdx[k] # Absent
    BY <1>1, <1>3, <2>1
  <2>2. CASE srcIdx[k] = Absent /\ baseSrc[k] = Absent
    <3>1. k \notin Stale
      BY <1>2, <1>3, <2>2 DEF Stale, Retried, PendingRemovals, Has
    <3> QED BY <1>1, <1>2, <1>3, <2>2, <3>1 DEF Mark, OneWayTypeOK
  <2> QED BY <1>1, <2>1, <2>2
<1> QED BY <1>1, <1>3, <1>4, <1>5

\* Updates and adds leave the removals that are pending alone, but for items
\* that the source has had since.
LEMMA OwedUpdateAdd ==
    ASSUME OneWayTypeOK, PlanFits, OwedTraced, Update \/ Add
    PROVE  OwedTraced'
<1>1. /\ UNCHANGED <<src, mode, baseSrc, srcIdx, rem, dry, owed>>
      /\ pc \in Planned /\ pc' \in Planned
  BY DEF Update, Add, history, Planned
<1>2. IsFiniteSet(upd) /\ IsFiniteSet(add)
  BY KeysFinite DEF OneWayTypeOK
<1>3. \A k \in Keys : srcIdx[k] = Absent => pend'[k] = pend[k] /\ dst'[k] = dst[k]
  <2>1. \A k \in upd \cup add : srcIdx[k] # Absent
    BY DEF PlanFits
  <2>2. CASE UNCHANGED <<dst, pend>>
    BY <2>2
  <2>3. CASE UNCHANGED dst /\ (pend' = Mark(pend, upd, "add") \/ pend' = Mark(pend, add, "add"))
    BY <2>1, <2>3 DEF OneWayTypeOK, Mark
  <2>4. ASSUME NEW out \in Outcomes("apply:update", upd), dst' = Written(dst, out.done),
               UNCHANGED pend
        PROVE  \A k \in Keys : srcIdx[k] = Absent => pend'[k] = pend[k] /\ dst'[k] = dst[k]
    <3>1. out.done \subseteq upd
      BY OutcomeInBatch
    <3> QED BY <2>1, <2>4, <3>1 DEF Written
  <2>5. ASSUME NEW out \in Outcomes("apply:add", add), NEW success, success \subseteq add,
               AddOutcome(out, success)
        PROVE  \A k \in Keys : srcIdx[k] = Absent => pend'[k] = pend[k] /\ dst'[k] = dst[k]
    <3>1. out.done \subseteq add /\ out.res.ukeys \subseteq add
      BY <1>2, OutcomeAccount DEF Told
    <3> DEFINE none == NothingConfirmed(out.res)
               failed == IF none THEN add
                         ELSE IF AmbiguousPartial(add, out.res) THEN {}
                         ELSE AddFailures(add, out.res, success)
               promoted == Promoted(failed)
               named == IF none THEN add ELSE out.res.ukeys
    <3>2. failed \subseteq add /\ promoted \subseteq add /\ named \subseteq add
      BY <3>1 DEF AddFailures, Promoted
    <3>3. pend' = PendingAdds(success, failed, promoted, named) /\ dst' = Written(dst, out.done)
      BY <2>5 DEF AddOutcome
    <3> HIDE DEF none, failed, promoted, named
    <3>4. \A k \in Keys : k \notin add => pend'[k] = pend[k]
      BY <2>5, <3>2, <3>3 DEF PendingAdds
    <3> QED BY <2>1, <3>1, <3>3, <3>4 DEF Written
  <2>6. CASE Update
    BY <2>2, <2>3, <2>4, <2>6 DEF Update
  <2>7. CASE Add
    <3>1. \/ UNCHANGED <<dst, pend>>
          \/ UNCHANGED dst /\ pend' = Mark(pend, add, "add")
          \/ \E out \in Outcomes("apply:add", add) :
                \E success \in
                   IF NothingConfirmed(out.res) THEN {{}}
                   ELSE AddSuccessesInOrder(out.first, add, out.res, VerifyAfterWrite) :
                    AddOutcome(out, success)
      BY <2>7 DEF Add
    <3>2. ASSUME NEW out \in Outcomes("apply:add", add),
                 NEW success \in
                   IF NothingConfirmed(out.res) THEN {{}}
                   ELSE AddSuccessesInOrder(out.first, add, out.res, VerifyAfterWrite)
          PROVE  success \subseteq add
      BY <3>2, AddSuccessInBatch DEF AddSuccessesInOrder
    <3> QED BY <2>2, <2>3, <2>5, <3>1, <3>2
  <2> QED BY <2>6, <2>7
<1>4. \A k \in owed : k \in Keys
  BY DEF OneWayTypeOK
<1>5. \A k \in owed : dst'[k] # Absent
  <2> SUFFICES ASSUME NEW k \in owed PROVE dst'[k] # Absent
    OBVIOUS
  <2>1. dst'[k] = dst[k] \/ dst'[k] = srcIdx[k]
    BY <1>4 DEF Update, Add, AddOutcome, Written
  <2> QED BY <1>3, <1>4, <2>1 DEF OwedTraced
<1>6. pc \notin {"idle", "source"} /\ pc' \notin {"idle", "source"}
  BY <1>1 DEF Planned
<1> QED BY <1>1, <1>3, <1>4, <1>5, <1>6 DEF OwedTraced

\* What is to be removed is removed, or pending.
LEMMA OwedRemove == OneWayTypeOK /\ OwedTraced /\ Remove => OwedTraced'
<1> SUFFICES ASSUME OneWayTypeOK, OwedTraced, Remove PROVE OwedTraced'
  OBVIOUS
<1>1. /\ UNCHANGED <<src, mode, baseSrc, srcIdx, dry>> /\ rem' = {}
      /\ pc = "remove" /\ pc' = "commit"
  BY DEF Remove
<1>2. \A k \in owed : k \in Keys
  BY DEF OneWayTypeOK
<1>3. /\ owed' \subseteq owed
      /\ \A k \in owed' : /\ dst'[k] = dst[k]
                          /\ pend[k] = "remove" \/ (k \in rem /\ ~dry) => pend'[k] = "remove"
  <2>1. CASE UNCHANGED <<dst, pend, owed>> /\ (rem = {} \/ dry)
    BY <2>1
  <2>2. CASE UNCHANGED <<dst, owed>> /\ pend' = Mark(pend, rem, "remove")
    BY <1>2, <2>2 DEF OneWayTypeOK, Mark
  <2>3. ASSUME NEW out \in Outcomes("apply:remove", rem), RemoveOutcome(out)
        PROVE  /\ owed' \subseteq owed
               /\ \A k \in owed' : /\ dst'[k] = dst[k]
                                   /\ pend[k] = "remove" \/ (k \in rem /\ ~dry)
                                         => pend'[k] = "remove"
    <3> DEFINE success == RemoveSuccess(rem, out.res)
    <3>1. success \subseteq out.done
      <4>1. IsFiniteSet(rem)
        BY KeysFinite DEF OneWayTypeOK
      <4>2. out.done \subseteq rem /\ Told(rem, out.done, out.res)
        BY <4>1, OutcomeAccount
      <4> QED BY <4>1, <4>2, ToldRemoval
    <3>2. /\ dst' = [k \in Keys |-> IF k \in out.done THEN Absent ELSE dst[k]]
          /\ pend' = Mark(Mark(pend, success, "none"), rem \ success, "remove")
          /\ owed' = owed \ out.done
      BY <2>3 DEF RemoveOutcome
    <3> HIDE DEF success
    <3> QED BY <1>2, <3>1, <3>2 DEF OneWayTypeOK, Mark
  <2> QED BY <2>1, <2>2, <2>3 DEF Remove
<1> QED BY <1>1, <1>2, <1>3 DEF OwedTraced, Planned

\* A run ends, with or without baselines.
LEMMA OwedRunOver ==
    ASSUME OneWayTypeOK, PlanFits, OwedTraced, SnapshotFails \/ WriteRaises \/ Commit \/ Crash
    PROVE  OwedTraced'
<1>1. /\ RunOver /\ pc' = "idle" /\ UNCHANGED <<src, mode, pend>>
      /\ pc' \notin Planned /\ owed' \subseteq owed
  BY DEF SnapshotFails, WriteRaises, Commit, Crash, RunOver, files, history, Planned
<1>2. \A k \in owed : k \in Keys
  BY DEF OneWayTypeOK
<1>3. \A k \in owed' : dst'[k] # Absent
  <2>1. CASE UNCHANGED dst
    BY <1>1, <2>1 DEF OwedTraced
  <2>2. CASE WriteRaises
    <3>1. PICK done \in SUBSET (CASE pc = "update" -> upd [] pc = "add" -> add [] OTHER -> rem) :
             /\ dst' = IF pc = "remove"
                       THEN [k \in Keys |-> IF k \in done THEN Absent ELSE dst[k]]
                       ELSE Written(dst, done)
             /\ owed' = IF pc = "remove" THEN owed \ done ELSE owed
      BY <2>2 DEF WriteRaises
    <3>2. pc \in {"update", "add", "remove"}
      BY <2>2 DEF WriteRaises
    <3>3. CASE pc = "remove"
      BY <1>2, <3>1, <3>3 DEF OwedTraced
    <3>4. CASE pc # "remove"
      <4>1. \A k \in done : srcIdx[k] # Absent
        BY <3>1, <3>2, <3>4 DEF PlanFits
      <4> QED BY <1>2, <3>1, <3>4, <4>1 DEF OwedTraced, Written
    <3> QED BY <3>3, <3>4
  <2>3. ~WriteRaises => UNCHANGED dst
    BY DEF SnapshotFails, Commit, Crash
  <2> QED BY <2>1, <2>2, <2>3
<1>4. \A k \in owed' : baseSrc'[k] # Absent \/ pend'[k] = "remove"
  <2>1. CASE UNCHANGED baseSrc
    BY <1>1, <2>1 DEF OwedTraced
  <2>2. CASE Commit
    <3>1. pc = "commit" /\ baseSrc' = srcIdx /\ rem = {} /\ pc \in Planned
      BY <2>2 DEF Commit, PlanFits, Planned
    <3> QED BY <1>1, <3>1 DEF OwedTraced
  <2>3. ~Commit => UNCHANGED baseSrc
    BY DEF SnapshotFails, WriteRaises, Crash, files
  <2> QED BY <2>1, <2>2, <2>3
<1> QED BY <1>1, <1>3, <1>4 DEF OwedTraced

LEMMA OwedNext == ASSUME OneWayTypeOK, OwedInv, [Next]_vars PROVE OwedInv'
<1>1. PlanFits'
  BY PlanFitsNext DEF OwedInv
<1>2. CASE \/ \E k \in Keys, v \in Values : SourceSet(k, v) \/ DestinationSet(k, v)
           \/ \E k \in Keys : SourceDelete(k) \/ DestinationDelete(k)
  BY <1>1, <1>2, OwedUsers DEF OwedInv
<1>3. CASE Tick \/ RequestCancel \/ UNCHANGED vars
  <2>1. UNCHANGED <<src, dst, mode, baseSrc, pend, owed, pc, srcIdx, rem, dry>>
    BY <1>3 DEF Tick, RequestCancel, vars, files, locals, plan, history
  <2> QED BY <1>1, <2>1 DEF OwedInv, OwedTraced
<1>4. CASE ReadSource \/ \E isDry, isDown \in BOOLEAN : StartRun(isDry, isDown)
  <2>1. /\ UNCHANGED <<src, dst, mode, baseSrc, pend, owed, rem>>
        /\ pc' = "source" \/ (pc' = "plan" /\ srcIdx' = src)
    BY <1>4 DEF ReadSource, StartRun, files, plan, history
  <2> QED BY <1>1, <2>1 DEF OwedInv, OwedTraced, Planned
<1>5. CASE Plan
  BY <1>1, <1>5, OwedPlan DEF OwedInv
<1>6. CASE Update \/ Add
  BY <1>1, <1>6, OwedUpdateAdd DEF OwedInv
<1>7. CASE Remove
  BY <1>1, <1>7, OwedRemove DEF OwedInv
<1>8. CASE SnapshotFails \/ WriteRaises \/ Commit \/ Crash
  BY <1>1, <1>8, OwedRunOver DEF OwedInv
<1> QED BY <1>2, <1>3, <1>4, <1>5, <1>6, <1>7, <1>8 DEF Next, RunStep

\* A deletion on the source of what was synchronised is told by the source's
\* baseline or by a pending removal until it is carried out: through failed,
\* partial and cancelled writes and crashes, however the destination answers.
THEOREM OwedDeletionsRemembered == Spec => []DeletionRemembered
<1>1. Init => OwedInv
  <2>1. Init => OwedTraced
    BY DEF Init, OwedTraced
  <2> QED BY <2>1, PlanFitsInit DEF OwedInv
<1>2. OneWayTypeOK /\ OwedInv /\ [Next]_vars => OwedInv'
  BY OwedNext
<1>3. OwedInv => DeletionRemembered
  BY DEF OwedInv, OwedTraced, DeletionRemembered
<1> QED BY <1>1, <1>2, <1>3, OneWayTypeCorrect, PTL DEF Spec

-----------------------------------------------------------------------------
(* A run that nothing disturbs copies the source.                            *)

Quarantined(k) == bbox[k] > 0 \/ tomb[k] > 0

\* What an undisturbed run has read is still so, and what it has not copied yet
\* is still in its plan.
CalmRun ==
    calm =>
      /\ ~dry /\ ~down /\ ~cancel /\ pc # "idle"
      /\ pc # "source" => srcIdx = src
      /\ pc \in Planned =>
          /\ full = dst
          /\ \A k \in Has(src) : dst[k] = src[k] \/ k \in upd \cup add \/ Quarantined(k)
\* Nothing is cancelled between two runs.
NothingToCancel == pc = "idle" => ~cancel
CalmInv == PlanFits /\ NothingToCancel /\ CalmRun

LEMMA NothingToCancelNext ==
    NothingToCancel /\ [Next]_vars => NothingToCancel'
<1> SUFFICES ASSUME NothingToCancel, [Next]_vars PROVE NothingToCancel'
  OBVIOUS
<1>1. CASE \/ \E k \in Keys, v \in Values : SourceSet(k, v) \/ DestinationSet(k, v)
           \/ \E k \in Keys : SourceDelete(k) \/ DestinationDelete(k)
           \/ Tick \/ UNCHANGED vars
  BY <1>1 DEF SourceSet, DestinationSet, SourceDelete, DestinationDelete, Tick, vars, locals,
              NothingToCancel
<1>2. CASE \/ \E isDry, isDown \in BOOLEAN : StartRun(isDry, isDown)
           \/ ReadSource \/ Plan \/ Update \/ Add \/ Remove \/ RequestCancel
  BY <1>2 DEF StartRun, ReadSource, Plan, Update, Add, Remove, RequestCancel, NothingToCancel
<1>3. CASE SnapshotFails \/ Commit \/ Crash \/ WriteRaises
  BY <1>3 DEF SnapshotFails, Commit, Crash, WriteRaises, RunOver, NothingToCancel
<1> QED BY <1>1, <1>2, <1>3 DEF Next, RunStep

LEMMA CalmPlan == OneWayTypeOK /\ CalmRun /\ Plan => CalmRun'
<1> SUFFICES ASSUME OneWayTypeOK, CalmRun, Plan, calm'
             PROVE  /\ (~dry /\ ~down /\ ~cancel /\ pc # "idle")'
                    /\ (srcIdx = src /\ full = dst)'
                    /\ \A k \in Has(src)' :
                          (dst[k] = src[k] \/ k \in upd \cup add \/ Quarantined(k))'
  BY DEF CalmRun
<1>1. /\ pc = "plan" /\ pc' = "update" /\ full' = dst /\ upd' = Differing /\ add' = Missing \ Blocked
      /\ UNCHANGED <<src, dst, tomb, bbox, dry, down, cancel, srcIdx, calm>>
  BY DEF Plan
<1>2. ~dry /\ ~down /\ ~cancel /\ srcIdx = src
  BY <1>1 DEF CalmRun
<1>3. ASSUME NEW k \in Has(src)
      PROVE  dst[k] = src[k] \/ k \in upd' \cup add' \/ Quarantined(k)
  <2>1. CASE dst[k] # Absent
    BY <1>1, <1>2, <1>3, <2>1 DEF Differing, Has
  <2>2. CASE dst[k] = Absent
    <3>1. k \in Missing
      BY <1>2, <1>3, <2>2 DEF Missing, Has
    <3>2. k \in Blocked => Quarantined(k)
      BY DEF Blocked, Quarantined
    <3> QED BY <1>1, <3>1, <3>2
  <2> QED BY <2>1, <2>2
<1> QED BY <1>1, <1>2, <1>3 DEF Has, Quarantined

\* A batch of updates is confirmed altogether.
LEMMA CalmUpdate == OneWayTypeOK /\ PlanFits /\ CalmRun /\ Update => CalmRun'
<1> SUFFICES ASSUME OneWayTypeOK, PlanFits, CalmRun, Update, calm' PROVE CalmRun'
  BY DEF CalmRun
<1>1. /\ pc = "update" /\ pc' = "add" /\ upd' = {}
      /\ UNCHANGED <<src, tomb, bbox, dry, down, srcIdx, add>>
  BY DEF Update
<1>2. calm /\ UNCHANGED <<calm, cancel>>
  BY DEF Update, Complete
<1>3. /\ ~dry /\ ~down /\ ~cancel /\ srcIdx = src /\ full = dst
      /\ \A k \in Has(src) : dst[k] = src[k] \/ k \in upd \cup add \/ Quarantined(k)
  BY <1>1, <1>2 DEF CalmRun, Planned
<1>4. dst' = Written(dst, upd) /\ full' = Written(dst, upd)
  <2>1. CASE upd = {} /\ UNCHANGED <<dst, full>>
    BY <1>3, <2>1 DEF Written, OneWayTypeOK, Lists
  <2>2. ASSUME NEW out \in Outcomes("apply:update", upd), dst' = Written(dst, out.done),
               full' = Written(full, UpdateSuccess(out.res)), Complete(upd, out)
        PROVE  dst' = Written(dst, upd) /\ full' = Written(dst, upd)
    <3>1. out.done = upd /\ ~out.cut
      BY <1>2, <1>3, <2>2, CalmBatch
    <3>2. IsFiniteSet(upd)
      BY KeysFinite DEF OneWayTypeOK
    <3>3. Whole(upd, out.res)
      BY <1>3, <3>1, <3>2, OutcomeAccount
    <3>4. Cardinality(upd) \in Nat
      BY <3>2, FS_CardinalityType
    <3>5. UpdateSuccess(out.res) = upd
      BY <3>3, <3>4 DEF UpdateSuccess, Whole
    <3> QED BY <1>3, <2>2, <3>1, <3>5
  <2> QED BY <1>3, <2>1, <2>2 DEF Update
<1>5. \A k \in Has(src) : dst'[k] = src[k] \/ k \in add \/ Quarantined(k)
  BY <1>3, <1>4 DEF Written, Has
<1> QED BY <1>1, <1>2, <1>3, <1>4, <1>5 DEF CalmRun, Has, Quarantined, Planned

LEMMA CalmAdd == OneWayTypeOK /\ PlanFits /\ CalmRun /\ Add => CalmRun'
<1> SUFFICES ASSUME OneWayTypeOK, PlanFits, CalmRun, Add, calm' PROVE CalmRun'
  BY DEF CalmRun
<1>1. /\ pc = "add" /\ pc' = "remove" /\ add' = {}
      /\ UNCHANGED <<src, dry, down, srcIdx, upd>>
  BY DEF Add
<1>2. calm /\ UNCHANGED <<calm, cancel>>
  BY DEF Add, AddOutcome, Complete
<1>3. /\ ~dry /\ ~down /\ ~cancel /\ srcIdx = src /\ full = dst /\ upd = {}
      /\ \A k \in Has(src) : dst[k] = src[k] \/ k \in add \/ Quarantined(k)
  BY <1>1, <1>2 DEF CalmRun, PlanFits, Planned
<1>4. /\ dst' = Written(dst, add) /\ full' = Written(dst, add)
      /\ \A k \in Keys \ add : Quarantined(k) => Quarantined(k)'
  <2>1. CASE add = {} /\ UNCHANGED <<dst, full, tomb, bbox>>
    BY <1>3, <2>1 DEF Written, OneWayTypeOK, Lists, Quarantined
  <2>2. ASSUME NEW out \in Outcomes("apply:add", add), add # {},
               NEW success \in
                   IF NothingConfirmed(out.res) THEN {{}}
                   ELSE AddSuccessesInOrder(out.first, add, out.res, VerifyAfterWrite),
               AddOutcome(out, success)
        PROVE  /\ dst' = Written(dst, add) /\ full' = Written(dst, add)
               /\ \A k \in Keys \ add : Quarantined(k) => Quarantined(k)'
    <3>1. Complete(add, out)
      BY <2>2 DEF AddOutcome
    <3>2. out.done = add /\ ~out.cut
      BY <1>2, <1>3, <3>1, CalmBatch
    <3>3. IsFiniteSet(add)
      BY KeysFinite DEF OneWayTypeOK
    <3>4. Whole(add, out.res)
      BY <1>3, <3>2, <3>3, OutcomeAccount
    <3>5. ~NothingConfirmed(out.res)
      BY <2>2, <3>3, <3>4, FS_EmptySet DEF NothingConfirmed, Whole
    <3>6. success \in AddSuccesses(add, out.res, VerifyAfterWrite)
      BY <2>2, <3>5 DEF AddSuccessesInOrder
    <3>7. success = add
      BY <3>3, <3>4, <3>6, WholeAddition, OneWayFlagsAssumption
    <3>8. dst' = Written(dst, out.done) /\ full' = Written(full, success) /\ tomb' = Mark(tomb, success, 0)
      BY <2>2 DEF AddOutcome
    <3>9. \E X : bbox' = Mark(bbox, X, Cooldown)
      BY <2>2 DEF AddOutcome
    <3>10. \A k \in Keys : bbox[k] > 0 => bbox'[k] > 0
      BY <3>9, OneWayNumbersAssumption DEF Mark, OneWayTypeOK
    <3>11. \A k \in Keys \ add : tomb'[k] = tomb[k]
      BY <3>7, <3>8 DEF Mark, OneWayTypeOK
    <3> QED BY <1>3, <3>2, <3>7, <3>8, <3>10, <3>11 DEF Quarantined
  <2> QED BY <1>3, <2>1, <2>2 DEF Add
<1>5. \A k \in Has(src) : dst'[k] = src[k] \/ Quarantined(k)'
  BY <1>3, <1>4 DEF Written, Has
<1> QED BY <1>1, <1>2, <1>3, <1>4, <1>5 DEF CalmRun, Has, Planned

\* Removals do not touch what the source has.
LEMMA CalmRemove == OneWayTypeOK /\ PlanFits /\ CalmRun /\ Remove => CalmRun'
<1> SUFFICES ASSUME OneWayTypeOK, PlanFits, CalmRun, Remove, calm' PROVE CalmRun'
  BY DEF CalmRun
<1>1. /\ pc = "remove" /\ pc' = "commit"
      /\ UNCHANGED <<src, dry, down, srcIdx, upd, add, bbox>>
  BY DEF Remove
<1>2. calm /\ UNCHANGED <<calm, cancel>>
  BY DEF Remove, RemoveOutcome, Complete
<1>3. /\ ~dry /\ ~down /\ ~cancel /\ srcIdx = src /\ full = dst /\ upd = {} /\ add = {}
      /\ \A k \in Has(src) : dst[k] = src[k] \/ Quarantined(k)
  BY <1>1, <1>2 DEF CalmRun, PlanFits, Planned
<1>4. \A k \in Has(src) : k \notin rem
  BY <1>3 DEF PlanFits, Has
<1>5. /\ dst' = full' /\ \A k \in Has(src) : dst'[k] = dst[k]
      /\ \A k \in Keys : Quarantined(k) => Quarantined(k)'
  <2>1. CASE UNCHANGED <<dst, full, tomb>>
    BY <1>1, <1>3, <2>1 DEF Quarantined
  <2>2. ASSUME NEW out \in Outcomes("apply:remove", rem), RemoveOutcome(out)
        PROVE  /\ dst' = full' /\ \A k \in Has(src) : dst'[k] = dst[k]
               /\ \A k \in Keys : Quarantined(k) => Quarantined(k)'
    <3>1. Complete(rem, out)
      BY <2>2 DEF RemoveOutcome
    <3>2. out.done = rem /\ ~out.cut
      BY <1>2, <1>3, <3>1, CalmBatch
    <3>3. IsFiniteSet(rem)
      BY KeysFinite DEF OneWayTypeOK
    <3>4. RemoveSuccess(rem, out.res) = rem
      BY <1>3, <3>2, <3>3, OutcomeAccount, WholeRemoval
    <3>5. /\ dst' = [k \in Keys |-> IF k \in out.done THEN Absent ELSE dst[k]]
          /\ full' = [k \in Keys |-> IF k \in RemoveSuccess(rem, out.res) THEN Absent ELSE full[k]]
          /\ \E X : tomb' = Mark(tomb, X, TTL)
      BY <2>2 DEF RemoveOutcome
    <3>6. \A k \in Keys : tomb[k] > 0 => tomb'[k] > 0
      BY <3>5, OneWayNumbersAssumption DEF Mark, OneWayTypeOK
    <3>7. dst' = full' /\ \A k \in Has(src) : dst'[k] = dst[k]
      BY <1>3, <1>4, <3>2, <3>4, <3>5 DEF Has
    <3> QED BY <1>1, <3>6, <3>7 DEF Quarantined
  <2> QED BY <1>3, <2>1, <2>2 DEF Remove
<1>6. \A k \in Has(src) : dst'[k] = src[k] \/ Quarantined(k)'
  BY <1>3, <1>5 DEF Has
<1> QED BY <1>1, <1>2, <1>3, <1>5, <1>6 DEF CalmRun, Has, Planned

LEMMA CalmNext == ASSUME OneWayTypeOK, CalmInv, [Next]_vars PROVE CalmInv'
<1>1. PlanFits' /\ NothingToCancel'
  BY PlanFitsNext, NothingToCancelNext DEF CalmInv
<1>2. CASE ~calm'
  BY <1>1, <1>2 DEF CalmInv, CalmRun
<1>3. CASE \/ \E k \in Keys, v \in Values : SourceSet(k, v) \/ DestinationSet(k, v)
           \/ \E k \in Keys : SourceDelete(k) \/ DestinationDelete(k)
           \/ RequestCancel \/ SnapshotFails \/ Commit \/ Crash \/ WriteRaises
  <2>1. ~calm'
    BY <1>3 DEF SourceSet, DestinationSet, SourceDelete, DestinationDelete, Edit, RequestCancel,
                SnapshotFails, Commit, Crash, WriteRaises, RunOver
  <2> QED BY <1>2, <2>1
<1>4. CASE Tick
  BY <1>1, <1>4 DEF CalmInv, CalmRun, Tick
<1>5. ASSUME NEW isDry \in BOOLEAN, NEW isDown \in BOOLEAN, StartRun(isDry, isDown)
      PROVE  CalmInv'
  <2>1. calm' => pc' = "source" /\ ~dry' /\ ~down' /\ UNCHANGED cancel
    BY <1>5 DEF StartRun
  <2>2. pc = "idle" /\ ~cancel
    BY <1>5 DEF StartRun, CalmInv, NothingToCancel
  <2> QED BY <1>1, <2>1, <2>2 DEF CalmInv, CalmRun, Planned
<1>6. CASE ReadSource
  BY <1>1, <1>6 DEF CalmInv, CalmRun, ReadSource, Planned
<1>7. CASE Plan \/ Update \/ Add \/ Remove
  BY <1>1, <1>7, CalmPlan, CalmUpdate, CalmAdd, CalmRemove DEF CalmInv
<1>8. CASE UNCHANGED vars
  BY <1>1, <1>8 DEF CalmInv, CalmRun, vars, files, locals, plan, Has, Quarantined
<1> QED BY <1>3, <1>4, <1>5, <1>6, <1>7, <1>8 DEF Next, RunStep

\* A run without a fault and without edits while it works leaves on the
\* destination every entry of the source that is not quarantined, and saves
\* truthful baselines, whatever earlier runs left behind.
THEOREM CleanRunsCopy == Spec => []CleanRunCopies
<1>1. Init => CalmInv
  <2>1. Init => CalmRun /\ NothingToCancel
    BY DEF Init, CalmRun, NothingToCancel
  <2> QED BY <2>1, PlanFitsInit DEF CalmInv
<1>2. OneWayTypeOK /\ CalmInv /\ [Next]_vars => CalmInv'
  BY CalmNext
<1>3. CalmInv => CleanRunCopies
  BY DEF CalmInv, CalmRun, CleanRunCopies, PlanFits, Planned, Quarantined
<1> QED BY <1>1, <1>2, <1>3, OneWayTypeCorrect, PTL DEF Spec
=============================================================================
