----------------------- MODULE PlaylistMappings_proofs -----------------------
(* Proofs about PlaylistMappings, for every number of playlists, mappings    *)
(* and threads, every configuration of the mappings and every number of      *)
(* edits, faults and calls.                                                  *)
EXTENDS PlaylistMappings, TLAPS

-----------------------------------------------------------------------------
(* Types *)

LEMMA FirstMapping == 1 \in 1..Len(Order) /\ Order[1] \in Mappings
BY PlaylistsAssumption

LEMMA MappingType == PlaylistsTypeOK => \A t \in Threads : Mapping(t) \in Mappings
<1> SUFFICES ASSUME PlaylistsTypeOK, NEW t \in Threads PROVE Mapping(t) \in Mappings
  OBVIOUS
<1>1. CASE t = Sync
  BY <1>1, PlaylistsAssumption DEF PlaylistsTypeOK, Mapping
<1>2. CASE t # Sync
  BY <1>2 DEF PlaylistsTypeOK, Mapping, Threads
<1> QED BY <1>1, <1>2

LEMMA SetupType ==
    ASSUME PlaylistsTypeOK, NEW t \in Threads
    PROVE  To(t) \in Lists /\ From(t) \in Lists /\ How(t) \in Memberships
<1>1. setup \in [Mappings -> [from : Lists, to : Lists, how : Memberships, allow : BOOLEAN]]
  BY PlaylistsAssumption DEF PlaylistsTypeOK
<1> QED BY <1>1, MappingType DEF To, From, How

LEMMA NobodyType == Nobody \in [Mappings -> SUBSET Keys]
BY DEF Nobody

LEMMA PlaylistFaultType ==
    ASSUME faults \in 0..MaxFaults, NEW kind, Fault(kind)
    PROVE  faults' \in 0..MaxFaults
BY PlaylistsAssumption DEF Fault

LEMMA DoesType ==
    ASSUME faults \in 0..MaxFaults, NEW work, NEW done, Does(work, done)
    PROVE  done \subseteq work /\ faults' \in 0..MaxFaults
BY PlaylistFaultType DEF Does

LEMMA WorkType ==
    ASSUME PlaylistsTypeOK, NEW t \in Threads
    PROVE  ToAdd(t) \subseteq Keys /\ ToRemove(t) \subseteq Keys
<1>1. /\ source[t] \subseteq Keys /\ target[t] \subseteq Keys /\ keep[t] \subseteq Keys
      /\ How(t) \in Memberships
  BY SetupType DEF PlaylistsTypeOK
<1>2. Removals(How(t), source[t], target[t], keep[t]) \subseteq target[t]
  BY <1>1 DEF Removals, Memberships
<1> QED BY <1>1, <1>2 DEF ToAdd, ToRemove, Additions, Guarded

LEMMA InitPlaylistsType == Init => PlaylistsTypeOK
<1> SUFFICES ASSUME Init PROVE PlaylistsTypeOK
  OBVIOUS
<1>1. edits \in 0..MaxEdits /\ faults \in 0..MaxFaults /\ calls \in 0..MaxCalls
  BY PlaylistsAssumption DEF Init
<1>2. pos \in 1..Len(Order) /\ call \in [Callers -> Mappings]
  BY FirstMapping DEF Init
<1>3. data \in [Threads -> [Mappings -> SUBSET Keys]]
  BY NobodyType DEF Init
<1> QED BY <1>1, <1>2, <1>3, NobodyType DEF Init, PlaylistsTypeOK

LEMMA MappingOverType ==
    ASSUME PlaylistsTypeOK, NEW t \in Threads, MappingOver(t)
    PROVE  /\ pos' \in 1..Len(Order) /\ call' \in [Callers -> Mappings]
           /\ at' \in [Threads -> {"idle", "source", "target", "managed", "add", "remove",
                                   "load", "save", "reload", "store"}]
           /\ source' \in [Threads -> SUBSET Keys] /\ target' \in [Threads -> SUBSET Keys]
           /\ keep' \in [Threads -> SUBSET Keys] /\ added' \in [Threads -> SUBSET Keys]
           /\ data' \in [Threads -> [Mappings -> SUBSET Keys]]
<1>1. pos' \in 1..Len(Order)
  BY PlaylistsAssumption, FirstMapping DEF PlaylistsTypeOK, MappingOver, HasNext
<1>2. call' \in [Callers -> Mappings]
  BY FirstMapping DEF PlaylistsTypeOK, MappingOver
<1>3. at' \in [Threads -> {"idle", "source", "target", "managed", "add", "remove", "load",
                           "save", "reload", "store"}]
  BY DEF PlaylistsTypeOK, MappingOver
<1>4. data' \in [Threads -> [Mappings -> SUBSET Keys]]
  BY NobodyType DEF PlaylistsTypeOK, MappingOver
<1> QED BY <1>1, <1>2, <1>3, <1>4 DEF PlaylistsTypeOK, MappingOver

LEMMA UsersType ==
    ASSUME PlaylistsTypeOK, NEW l \in Lists, NEW k \in Keys, UserAdds(l, k) \/ UserRemoves(l, k)
    PROVE  PlaylistsTypeOK'
<1>1. edits' \in 0..MaxEdits
  BY PlaylistsAssumption DEF PlaylistsTypeOK, UserAdds, UserRemoves
<1>2. lists' \in [Lists -> SUBSET Keys]
  <2>1. CASE UserAdds(l, k)
    BY <2>1 DEF PlaylistsTypeOK, UserAdds
  <2>2. CASE UserRemoves(l, k)
    BY <2>2 DEF PlaylistsTypeOK, UserRemoves
  <2> QED BY <2>1, <2>2
<1> QED BY <1>1, <1>2 DEF PlaylistsTypeOK, UserAdds, UserRemoves, frames, history

LEMMA StartsType ==
    ASSUME PlaylistsTypeOK,
           SyncStarts \/ \E t \in Callers, m \in Mappings : UserStarts(t, m)
    PROVE  PlaylistsTypeOK'
<1>1. CASE SyncStarts
  <2>1. whole' \in BOOLEAN
    BY <1>1 DEF PlaylistsTypeOK, SyncStarts
  <2> QED BY <1>1, <2>1 DEF PlaylistsTypeOK, SyncStarts, frames
<1>2. ASSUME NEW t \in Callers, NEW m \in Mappings, UserStarts(t, m)
      PROVE  PlaylistsTypeOK'
  <2>1. calls' \in 0..MaxCalls
    BY <1>2, PlaylistsAssumption DEF PlaylistsTypeOK, UserStarts
  <2>2. whole' \in BOOLEAN
    BY <1>2 DEF PlaylistsTypeOK, UserStarts
  <2> QED BY <1>2, <2>1, <2>2 DEF PlaylistsTypeOK, UserStarts, frames
<1> QED BY <1>1, <1>2

LEMMA ReadsType ==
    ASSUME PlaylistsTypeOK, NEW t \in Threads,
           ReadSource(t) \/ ReadTarget(t) \/ LoadBaseline(t) \/ Load(t) \/ Reload(t)
    PROVE  PlaylistsTypeOK'
<1>1. lists[From(t)] \subseteq Keys /\ lists[To(t)] \subseteq Keys
      /\ file[Mapping(t)] \subseteq Keys
  BY SetupType, MappingType DEF PlaylistsTypeOK
<1>2. CASE ReadSource(t) \/ ReadTarget(t) \/ LoadBaseline(t)
  BY <1>1, <1>2 DEF PlaylistsTypeOK, ReadSource, ReadTarget, LoadBaseline, Goes, history
<1>3. CASE Load(t) \/ Reload(t)
  <2>1. data' \in [Threads -> [Mappings -> SUBSET Keys]]
    BY <1>3, NobodyType DEF PlaylistsTypeOK, Load, Reload
  <2> QED BY <1>3, <2>1 DEF PlaylistsTypeOK, Load, Reload, Goes, history
<1> QED BY <1>2, <1>3

LEMMA PutsType ==
    ASSUME PlaylistsTypeOK, NEW t \in Threads, NEW done \in SUBSET Keys,
           Puts(t, done) \/ TakesOff(t, done)
    PROVE  /\ lists' \in [Lists -> SUBSET Keys]
           /\ ever' \in [Mappings -> SUBSET Keys] /\ put' \in [Mappings -> SUBSET Keys]
<1>1. CASE Puts(t, done)
  BY <1>1 DEF PlaylistsTypeOK, Puts
<1>2. CASE TakesOff(t, done)
  BY <1>2 DEF PlaylistsTypeOK, TakesOff
<1> QED BY <1>1, <1>2

LEMMA PlaylistAddType ==
    ASSUME PlaylistsTypeOK, NEW t \in Threads, Add(t)
    PROVE  PlaylistsTypeOK'
<1>1. PICK done \in SUBSET ToAdd(t) :
         Does(ToAdd(t), done) /\ Puts(t, done) /\ added' = [added EXCEPT ![t] = done]
  BY DEF Add
<1>2. done \subseteq Keys /\ faults' \in 0..MaxFaults
  BY <1>1, WorkType, DoesType DEF PlaylistsTypeOK
<1> QED BY <1>1, <1>2, PutsType DEF PlaylistsTypeOK, Add, Goes

LEMMA PlaylistRemoveType ==
    ASSUME PlaylistsTypeOK, NEW t \in Threads, Remove(t)
    PROVE  PlaylistsTypeOK'
<1>1. PICK done \in SUBSET ToRemove(t) :
         /\ Does(ToRemove(t), done) /\ TakesOff(t, done)
         /\ keep' = [keep EXCEPT ![t] = NewManaged(t, done)]
  BY DEF Remove
<1>2. done \subseteq Keys /\ faults' \in 0..MaxFaults
  BY <1>1, WorkType, DoesType DEF PlaylistsTypeOK
<1>3. NewManaged(t, done) \subseteq Keys
  BY DEF PlaylistsTypeOK, NewManaged
<1>4. /\ keep' \in [Threads -> SUBSET Keys] /\ source' \in [Threads -> SUBSET Keys]
      /\ target' \in [Threads -> SUBSET Keys] /\ added' \in [Threads -> SUBSET Keys]
  BY <1>1, <1>3 DEF PlaylistsTypeOK, Remove
<1>5. /\ lists' \in [Lists -> SUBSET Keys]
      /\ ever' \in [Mappings -> SUBSET Keys] /\ put' \in [Mappings -> SUBSET Keys]
  BY <1>1, <1>2, PutsType
<1> QED BY <1>2, <1>4, <1>5 DEF PlaylistsTypeOK, Remove, Goes

LEMMA SavesType ==
    ASSUME PlaylistsTypeOK, NEW t \in Threads, SaveBaseline(t) \/ StoreResult(t) \/ DryRunOver(t)
    PROVE  PlaylistsTypeOK'
<1>1. data[t] \in [Mappings -> SUBSET Keys] /\ keep[t] \subseteq Keys /\ Mapping(t) \in Mappings
  BY MappingType DEF PlaylistsTypeOK
<1>2. CASE SaveBaseline(t)
  <2>1. file' \in [Mappings -> SUBSET Keys]
    BY <1>1, <1>2 DEF SaveBaseline
  <2>2. data' \in [Threads -> [Mappings -> SUBSET Keys]] /\ keep' \in [Threads -> SUBSET Keys]
    BY <1>2, NobodyType DEF PlaylistsTypeOK, SaveBaseline
  <2> QED BY <1>2, <2>1, <2>2 DEF PlaylistsTypeOK, SaveBaseline, Goes, history
<1>3. CASE StoreResult(t)
  BY <1>1, <1>3, MappingOverType DEF PlaylistsTypeOK, StoreResult, history
<1>4. CASE DryRunOver(t)
  BY <1>4, MappingOverType DEF PlaylistsTypeOK, DryRunOver, history
<1> QED BY <1>2, <1>3, <1>4

LEMMA RunRaisesType ==
    ASSUME PlaylistsTypeOK, NEW t \in Threads, RunRaises(t)
    PROVE  PlaylistsTypeOK'
<1>1. faults' \in 0..MaxFaults /\ MappingOver(t)
  BY PlaylistFaultType DEF PlaylistsTypeOK, RunRaises
<1>2. /\ lists' \in [Lists -> SUBSET Keys]
      /\ ever' \in [Mappings -> SUBSET Keys] /\ put' \in [Mappings -> SUBSET Keys]
  <2>1. CASE UNCHANGED <<lists, ever, put>>
    BY <2>1 DEF PlaylistsTypeOK
  <2>2. ASSUME NEW done \in SUBSET (ToAdd(t) \cup ToRemove(t)), Puts(t, done) \/ TakesOff(t, done)
        PROVE  /\ lists' \in [Lists -> SUBSET Keys]
               /\ ever' \in [Mappings -> SUBSET Keys] /\ put' \in [Mappings -> SUBSET Keys]
    BY <2>2, WorkType, PutsType
  <2>3. CASE at[t] = "add"
    BY <2>2, <2>3 DEF RunRaises
  <2>4. CASE at[t] = "remove"
    BY <2>2, <2>4 DEF RunRaises
  <2> QED BY <2>1, <2>3, <2>4 DEF RunRaises
<1> QED BY <1>1, <1>2, MappingOverType DEF PlaylistsTypeOK, RunRaises

LEMMA PlaylistCrashType == PlaylistsTypeOK /\ Crash => PlaylistsTypeOK'
<1> SUFFICES ASSUME PlaylistsTypeOK, Crash PROVE PlaylistsTypeOK'
  OBVIOUS
<1>1. faults' \in 0..MaxFaults
  BY PlaylistFaultType DEF PlaylistsTypeOK, Crash
<1>2. pos' \in 1..Len(Order) /\ call' \in [Callers -> Mappings]
  BY FirstMapping DEF Crash
<1>3. data' \in [Threads -> [Mappings -> SUBSET Keys]]
  BY NobodyType DEF Crash
<1> QED BY <1>1, <1>2, <1>3 DEF PlaylistsTypeOK, Crash

LEMMA NextPlaylistsType == PlaylistsTypeOK /\ [Next]_vars => PlaylistsTypeOK'
<1> SUFFICES ASSUME PlaylistsTypeOK, [Next]_vars PROVE PlaylistsTypeOK'
  OBVIOUS
<1>1. ASSUME NEW l \in Lists, NEW k \in Keys, UserAdds(l, k) \/ UserRemoves(l, k)
      PROVE  PlaylistsTypeOK'
  BY <1>1, UsersType
<1>2. CASE SyncStarts \/ \E t \in Callers, m \in Mappings : UserStarts(t, m)
  BY <1>2, StartsType
<1>3. ASSUME NEW t \in Callers, DryRunOver(t) PROVE PlaylistsTypeOK'
  BY <1>3, SavesType DEF Threads
<1>4. ASSUME NEW t \in Threads, Step(t) \/ RunRaises(t) PROVE PlaylistsTypeOK'
  BY <1>4, ReadsType, PlaylistAddType, PlaylistRemoveType, SavesType, RunRaisesType DEF Step
<1>5. CASE Crash
  BY <1>5, PlaylistCrashType
<1>6. CASE UNCHANGED vars
  BY <1>6 DEF PlaylistsTypeOK, vars, frames, history
<1> QED BY <1>1, <1>2, <1>3, <1>4, <1>5, <1>6 DEF Next

\* Every variable keeps its type in every behaviour of the model.
THEOREM PlaylistsTypeCorrect == Spec => []PlaylistsTypeOK
BY InitPlaylistsType, NextPlaylistsType, PTL DEF Spec

-----------------------------------------------------------------------------
(* What a mapping manages it has put there itself.  Old copies of the file   *)
(* do no harm to this: all they hold was put there once.  A thread changes   *)
(* its mapping only with empty hands, which makes the invariant inductive.   *)

FilesAreOwn ==
    \A m \in Mappings :
        setup[m].how # "mirror" =>
           file[m] \subseteq ever[m] /\ \A t \in Threads : data[t][m] \subseteq ever[m]
FramesAreOwn ==
    \A t \in Threads : How(t) # "mirror" => keep[t] \cup added[t] \subseteq ever[Mapping(t)]
IdleHoldsNothing == \A t \in Threads : at[t] = "idle" => keep[t] = {} /\ added[t] = {}

OwnEvidence == FilesAreOwn /\ FramesAreOwn /\ IdleHoldsNothing

LEMMA OwnInit == Init => OwnEvidence
BY DEF Init, OwnEvidence, FilesAreOwn, FramesAreOwn, IdleHoldsNothing, Nobody

\* What a mapping that is not a mirror is about to remove, it manages.
LEMMA RemovesManaged ==
    ASSUME PlaylistsTypeOK, NEW t \in Threads, How(t) # "mirror"
    PROVE  ToRemove(t) \subseteq keep[t]
BY SetupType DEF ToRemove, Guarded, Removals, Memberships

LEMMA OwnEnough == PlaylistsTypeOK /\ OwnEvidence => OwnItemsOnly
BY RemovesManaged DEF OwnEvidence, FilesAreOwn, FramesAreOwn, OwnItemsOnly

LEMMA EverGrows ==
    ASSUME PlaylistsTypeOK, NEW t \in Threads, NEW done, Puts(t, done) \/ TakesOff(t, done)
    PROVE  \A m \in Mappings : ever[m] \subseteq ever'[m]
<1>1. CASE Puts(t, done)
  BY <1>1 DEF PlaylistsTypeOK, Puts
<1>2. CASE TakesOff(t, done)
  BY <1>2 DEF TakesOff
<1> QED BY <1>1, <1>2

\* Steps after which every frame is as it was or empty.
LEMMA FramesKept ==
    ASSUME PlaylistsTypeOK, OwnEvidence, \A m \in Mappings : ever[m] \subseteq ever'[m],
           UNCHANGED setup,
           \A t \in Threads : \/ keep'[t] = {} /\ added'[t] = {}
                              \/ /\ keep'[t] \subseteq keep[t] /\ added'[t] \subseteq added[t]
                                 /\ Mapping(t)' = Mapping(t)
    PROVE  FramesAreOwn'
<1> SUFFICES ASSUME NEW t \in Threads, How(t)' # "mirror"
             PROVE  keep'[t] \cup added'[t] \subseteq ever'[Mapping(t)']
  BY DEF FramesAreOwn
<1>1. CASE keep'[t] = {} /\ added'[t] = {}
  BY <1>1
<1>2. CASE /\ keep'[t] \subseteq keep[t] /\ added'[t] \subseteq added[t]
           /\ Mapping(t)' = Mapping(t)
  <2>1. How(t)' = How(t)
    BY <1>2 DEF How
  <2>2. keep[t] \cup added[t] \subseteq ever[Mapping(t)]
    BY <2>1 DEF OwnEvidence, FramesAreOwn
  <2> QED BY <1>2, <2>2, MappingType
<1> QED BY <1>1, <1>2

LEMMA FilesKept ==
    ASSUME PlaylistsTypeOK, OwnEvidence, \A m \in Mappings : ever[m] \subseteq ever'[m],
           UNCHANGED <<setup, file>>,
           \A t \in Threads : data'[t] \in {data[t], Nobody, file}
    PROVE  FilesAreOwn'
<1> SUFFICES ASSUME NEW m \in Mappings, setup[m].how # "mirror"
             PROVE  /\ file[m] \subseteq ever'[m]
                    /\ \A t \in Threads : data'[t][m] \subseteq ever'[m]
  BY DEF FilesAreOwn
<1>1. file[m] \subseteq ever[m] /\ \A t \in Threads : data[t][m] \subseteq ever[m]
  BY DEF OwnEvidence, FilesAreOwn
<1> QED BY <1>1 DEF Nobody

\* The thread that ends its run, and the others.
LEMMA OverFrames ==
    ASSUME PlaylistsTypeOK, IdleHoldsNothing, NEW t \in Threads, MappingOver(t)
    PROVE  /\ \A u \in Threads : \/ keep'[u] = {} /\ added'[u] = {}
                                 \/ /\ keep'[u] = keep[u] /\ added'[u] = added[u]
                                    /\ Mapping(u)' = Mapping(u)
           /\ \A u \in Threads : data'[u] \in {data[u], Nobody}
           /\ IdleHoldsNothing'
<1>1. keep'[t] = {} /\ added'[t] = {} /\ data'[t] = Nobody
  BY DEF PlaylistsTypeOK, MappingOver
<1>2. \A u \in Threads \ {t} :
         /\ keep'[u] = keep[u] /\ added'[u] = added[u] /\ data'[u] = data[u]
         /\ at'[u] = at[u]
  BY DEF PlaylistsTypeOK, MappingOver
<1>3. \A u \in Threads \ {t} : Mapping(u)' = Mapping(u)
  <2> SUFFICES ASSUME NEW u \in Threads \ {t} PROVE Mapping(u)' = Mapping(u)
    OBVIOUS
  <2>1. CASE u = Sync
    BY <2>1 DEF MappingOver, Mapping
  <2>2. CASE u # Sync
    BY <2>2 DEF PlaylistsTypeOK, MappingOver, Mapping, Threads
  <2> QED BY <2>1, <2>2
<1> QED BY <1>1, <1>2, <1>3 DEF IdleHoldsNothing

LEMMA OwnReads ==
    ASSUME PlaylistsTypeOK, OwnEvidence, NEW t \in Threads,
           ReadSource(t) \/ ReadTarget(t) \/ Load(t) \/ Reload(t)
    PROVE  OwnEvidence'
<1>1. UNCHANGED <<setup, file, pos, call, keep, added, ever>>
  BY DEF ReadSource, ReadTarget, Load, Reload, history
<1>2. \A u \in Threads : data'[u] \in {data[u], Nobody, file}
  BY DEF PlaylistsTypeOK, ReadSource, ReadTarget, Load, Reload
<1>3. \A u \in Threads : Mapping(u)' = Mapping(u)
  BY <1>1 DEF Mapping
<1>4. \A u \in Threads : at'[u] = "idle" => at[u] = "idle"
  BY DEF PlaylistsTypeOK, ReadSource, ReadTarget, Load, Reload, Goes
<1>5. IdleHoldsNothing'
  BY <1>1, <1>4 DEF OwnEvidence, IdleHoldsNothing
<1> QED BY <1>1, <1>2, <1>3, <1>5, FramesKept, FilesKept DEF OwnEvidence

LEMMA OwnLoadBaseline ==
    ASSUME PlaylistsTypeOK, OwnEvidence, NEW t \in Threads, LoadBaseline(t)
    PROVE  OwnEvidence'
<1>1. UNCHANGED <<setup, file, pos, call, added, data, ever>>
  BY DEF LoadBaseline, history
<1>2. \A u \in Threads : Mapping(u)' = Mapping(u) /\ How(u)' = How(u)
  BY <1>1 DEF Mapping, How
<1>3. FilesAreOwn'
  BY <1>1 DEF OwnEvidence, FilesAreOwn
<1>4. FramesAreOwn'
  <2> SUFFICES ASSUME NEW u \in Threads, How(u) # "mirror"
               PROVE  keep'[u] \cup added[u] \subseteq ever[Mapping(u)]
    BY <1>1, <1>2 DEF FramesAreOwn
  <2>1. keep[u] \cup added[u] \subseteq ever[Mapping(u)]
    BY DEF OwnEvidence, FramesAreOwn
  <2>2. file[Mapping(u)] \subseteq ever[Mapping(u)]
    BY MappingType DEF OwnEvidence, FilesAreOwn, How
  <2>3. keep'[u] = keep[u] \/ keep'[u] = file[Mapping(u)]
    BY DEF PlaylistsTypeOK, LoadBaseline
  <2> QED BY <2>1, <2>2, <2>3
<1>5. IdleHoldsNothing'
  BY DEF PlaylistsTypeOK, LoadBaseline, Goes, OwnEvidence, IdleHoldsNothing
<1> QED BY <1>3, <1>4, <1>5 DEF OwnEvidence

LEMMA OwnAdd ==
    ASSUME PlaylistsTypeOK, OwnEvidence, NEW t \in Threads, Add(t)
    PROVE  OwnEvidence'
<1>1. PICK done \in SUBSET ToAdd(t) : Puts(t, done) /\ added' = [added EXCEPT ![t] = done]
  BY DEF Add
<1>2. UNCHANGED <<setup, file, pos, call, keep, data>>
  BY DEF Add
<1>3. \A m \in Mappings : ever[m] \subseteq ever'[m]
  BY <1>1, EverGrows
<1>4. \A u \in Threads : Mapping(u)' = Mapping(u) /\ How(u)' = How(u)
  BY <1>2 DEF Mapping, How
<1>5. FilesAreOwn'
  BY <1>2, <1>3, FilesKept
<1>6. FramesAreOwn'
  <2> SUFFICES ASSUME NEW u \in Threads, How(u) # "mirror"
               PROVE  keep[u] \cup added'[u] \subseteq ever'[Mapping(u)]
    BY <1>2, <1>4 DEF FramesAreOwn
  <2>1. keep[u] \cup added[u] \subseteq ever'[Mapping(u)]
    BY <1>3, MappingType DEF OwnEvidence, FramesAreOwn
  <2>2. CASE u = t
    <3>1. done \subseteq ever'[Mapping(t)]
      BY <1>1, MappingType DEF PlaylistsTypeOK, Puts
    <3>2. added'[t] = done
      BY <1>1 DEF PlaylistsTypeOK
    <3> QED BY <2>1, <2>2, <3>1, <3>2
  <2>3. CASE u # t
    BY <1>1, <2>1, <2>3 DEF PlaylistsTypeOK
  <2> QED BY <2>2, <2>3
<1>7. IdleHoldsNothing'
  BY DEF PlaylistsTypeOK, Add, Goes, OwnEvidence, IdleHoldsNothing
<1> QED BY <1>5, <1>6, <1>7 DEF OwnEvidence

LEMMA OwnRemove ==
    ASSUME PlaylistsTypeOK, OwnEvidence, NEW t \in Threads, Remove(t)
    PROVE  OwnEvidence'
<1>1. PICK done \in SUBSET ToRemove(t) :
         TakesOff(t, done) /\ keep' = [keep EXCEPT ![t] = NewManaged(t, done)]
  BY DEF Remove
<1>2. UNCHANGED <<setup, file, pos, call, data, ever>> /\ added' = [added EXCEPT ![t] = {}]
  BY <1>1 DEF Remove, TakesOff
<1>3. \A u \in Threads : Mapping(u)' = Mapping(u) /\ How(u)' = How(u)
  BY <1>2 DEF Mapping, How
<1>4. FilesAreOwn'
  BY <1>2, FilesKept
<1>5. FramesAreOwn'
  <2> SUFFICES ASSUME NEW u \in Threads, How(u) # "mirror"
               PROVE  keep'[u] \cup added'[u] \subseteq ever[Mapping(u)]
    BY <1>2, <1>3 DEF FramesAreOwn
  <2>1. keep[u] \cup added[u] \subseteq ever[Mapping(u)]
    BY DEF OwnEvidence, FramesAreOwn
  <2>2. CASE u = t
    <3>1. NewManaged(t, done) \subseteq keep[t] \cup added[t]
      BY <2>2 DEF NewManaged
    <3>2. keep'[t] = NewManaged(t, done) /\ added'[t] = {}
      BY <1>1, <1>2 DEF PlaylistsTypeOK
    <3> QED BY <2>1, <2>2, <3>1, <3>2
  <2>3. CASE u # t
    BY <1>1, <1>2, <2>1, <2>3 DEF PlaylistsTypeOK
  <2> QED BY <2>2, <2>3
<1>6. IdleHoldsNothing'
  BY DEF PlaylistsTypeOK, Remove, Goes, OwnEvidence, IdleHoldsNothing
<1> QED BY <1>4, <1>5, <1>6 DEF OwnEvidence

LEMMA OwnSaveBaseline ==
    ASSUME PlaylistsTypeOK, OwnEvidence, NEW t \in Threads, SaveBaseline(t)
    PROVE  OwnEvidence'
<1>1. UNCHANGED <<setup, pos, call, added, ever>>
  BY DEF SaveBaseline, history
<1>2. \A u \in Threads : Mapping(u)' = Mapping(u)
  BY <1>1 DEF Mapping
<1>3. FramesAreOwn'
  <2>1. \A u \in Threads : keep'[u] \subseteq keep[u]
    BY DEF PlaylistsTypeOK, SaveBaseline
  <2> QED BY <1>1, <1>2, <2>1, FramesKept
<1>4. FilesAreOwn'
  <2> SUFFICES ASSUME NEW m \in Mappings, setup[m].how # "mirror"
               PROVE  /\ file'[m] \subseteq ever[m]
                      /\ \A u \in Threads : data'[u][m] \subseteq ever[m]
    BY <1>1 DEF FilesAreOwn
  <2>1. \A u \in Threads : data[u][m] \subseteq ever[m]
    BY DEF OwnEvidence, FilesAreOwn
  <2>2. \A u \in Threads : data'[u] \in {data[u], Nobody}
    BY DEF PlaylistsTypeOK, SaveBaseline
  <2>3. file'[m] = (IF m = Mapping(t) THEN keep[t] ELSE data[t][m])
    BY DEF PlaylistsTypeOK, SaveBaseline
  <2>4. m = Mapping(t) => keep[t] \subseteq ever[m]
    BY DEF OwnEvidence, FramesAreOwn, How
  <2> QED BY <2>1, <2>2, <2>3, <2>4 DEF Nobody
<1>5. IdleHoldsNothing'
  BY DEF PlaylistsTypeOK, SaveBaseline, Goes, OwnEvidence, IdleHoldsNothing
<1> QED BY <1>3, <1>4, <1>5 DEF OwnEvidence

\* The runs that end: with their result stored, with the plan, by an exception.
LEMMA OwnOver ==
    ASSUME PlaylistsTypeOK, OwnEvidence, NEW t \in Threads, MappingOver(t),
           \A m \in Mappings : ever[m] \subseteq ever'[m],
           UNCHANGED setup, file' \in {file, data[t]}
    PROVE  OwnEvidence'
<1>1. FramesAreOwn' /\ IdleHoldsNothing'
  BY OverFrames, FramesKept DEF OwnEvidence
<1>2. \A u \in Threads : data'[u] \in {data[u], Nobody}
  BY OverFrames DEF OwnEvidence
<1>3. FilesAreOwn'
  <2> SUFFICES ASSUME NEW m \in Mappings, setup[m].how # "mirror"
               PROVE  /\ file'[m] \subseteq ever'[m]
                      /\ \A u \in Threads : data'[u][m] \subseteq ever'[m]
    BY DEF FilesAreOwn
  <2>1. file[m] \subseteq ever'[m] /\ \A u \in Threads : data[u][m] \subseteq ever'[m]
    BY DEF OwnEvidence, FilesAreOwn
  <2> QED BY <1>2, <2>1 DEF Nobody
<1> QED BY <1>1, <1>3 DEF OwnEvidence

LEMMA OwnRaises ==
    ASSUME PlaylistsTypeOK, OwnEvidence, NEW t \in Threads, RunRaises(t)
    PROVE  OwnEvidence'
<1>1. MappingOver(t) /\ UNCHANGED <<setup, file>>
  BY DEF RunRaises
<1>2. \A m \in Mappings : ever[m] \subseteq ever'[m]
  <2>1. CASE at[t] = "add"
    BY <2>1, EverGrows DEF RunRaises
  <2>2. CASE at[t] = "remove"
    BY <2>2, EverGrows DEF RunRaises
  <2>3. CASE at[t] \notin {"add", "remove"}
    BY <2>3 DEF RunRaises
  <2> QED BY <2>1, <2>2, <2>3
<1> QED BY <1>1, <1>2, OwnOver

LEMMA OwnStarts ==
    ASSUME PlaylistsTypeOK, OwnEvidence,
           SyncStarts \/ \E t \in Callers, m \in Mappings : UserStarts(t, m)
    PROVE  OwnEvidence'
<1>1. UNCHANGED <<setup, file, pos, keep, added, data, ever>>
  BY DEF SyncStarts, UserStarts, frames
<1>2. \A u \in Threads : Mapping(u)' = Mapping(u) \/ (keep[u] = {} /\ added[u] = {})
  <2>1. CASE SyncStarts
    BY <2>1 DEF SyncStarts, Mapping
  <2>2. ASSUME NEW t \in Callers, NEW m \in Mappings, UserStarts(t, m), NEW u \in Threads
        PROVE  Mapping(u)' = Mapping(u) \/ (keep[u] = {} /\ added[u] = {})
    <3>1. CASE u = t
      BY <2>2, <3>1 DEF UserStarts, OwnEvidence, IdleHoldsNothing
    <3>2. CASE u # t
      BY <2>2, <3>2 DEF PlaylistsTypeOK, UserStarts, Mapping, Threads
    <3> QED BY <3>1, <3>2
  <2> QED BY <2>1, <2>2
<1>3. \A u \in Threads : at'[u] = "idle" => at[u] = "idle"
  <2>1. CASE SyncStarts
    BY <2>1 DEF PlaylistsTypeOK, SyncStarts
  <2>2. ASSUME NEW t \in Callers, NEW m \in Mappings, UserStarts(t, m)
        PROVE  \A u \in Threads : at'[u] = "idle" => at[u] = "idle"
    BY <2>2 DEF PlaylistsTypeOK, UserStarts
  <2> QED BY <2>1, <2>2
<1>4. IdleHoldsNothing'
  BY <1>1, <1>3 DEF OwnEvidence, IdleHoldsNothing
<1> QED BY <1>1, <1>2, <1>4, FramesKept, FilesKept DEF OwnEvidence

LEMMA OwnCrash == PlaylistsTypeOK /\ OwnEvidence /\ Crash => OwnEvidence'
<1> SUFFICES ASSUME PlaylistsTypeOK, OwnEvidence, Crash PROVE OwnEvidence'
  OBVIOUS
<1>1. UNCHANGED <<setup, file, ever>>
  BY DEF Crash
<1>2. \A u \in Threads : keep'[u] = {} /\ added'[u] = {} /\ data'[u] = Nobody
  BY DEF Crash
<1> QED BY <1>1, <1>2, FramesKept, FilesKept DEF OwnEvidence, IdleHoldsNothing

LEMMA OwnNext == PlaylistsTypeOK /\ OwnEvidence /\ [Next]_vars => OwnEvidence'
<1> SUFFICES ASSUME PlaylistsTypeOK, OwnEvidence, [Next]_vars PROVE OwnEvidence'
  OBVIOUS
<1>1. ASSUME \/ \E l \in Lists, k \in Keys : UserAdds(l, k) \/ UserRemoves(l, k)
             \/ UNCHANGED vars
      PROVE  OwnEvidence'
  <2>1. UNCHANGED <<setup, file, at, pos, call, keep, added, data, ever>>
    BY <1>1 DEF UserAdds, UserRemoves, vars, frames, history
  <2> QED BY <2>1 DEF OwnEvidence, FilesAreOwn, FramesAreOwn, IdleHoldsNothing, How, Mapping
<1>2. CASE SyncStarts \/ \E t \in Callers, m \in Mappings : UserStarts(t, m)
  BY <1>2, OwnStarts
<1>3. ASSUME NEW t \in Threads, DryRunOver(t) \/ StoreResult(t) PROVE OwnEvidence'
  <2>1. MappingOver(t) /\ UNCHANGED <<setup, ever>> /\ file' \in {file, data[t]}
    BY <1>3 DEF DryRunOver, StoreResult, history
  <2> QED BY <2>1, OwnOver
<1>4. ASSUME NEW t \in Threads, Step(t) \/ RunRaises(t) PROVE OwnEvidence'
  BY <1>3, <1>4, OwnReads, OwnLoadBaseline, OwnAdd, OwnRemove, OwnSaveBaseline, OwnRaises
     DEF Step
<1>5. ASSUME NEW t \in Callers, DryRunOver(t) PROVE OwnEvidence'
  BY <1>3, <1>5 DEF Threads
<1>6. CASE Crash
  BY <1>6, OwnCrash
<1> QED BY <1>1, <1>2, <1>4, <1>5, <1>6 DEF Next

\* However syncs and users' runs of any mappings interleave, fail or die while
\* they read and write the one state file, a mapping that is no mirror never
\* manages, nor is about to remove, what it has not put on its target itself.
THEOREM MappingsRemoveTheirOwn == Spec => []OwnItemsOnly
<1>1. Spec => []OwnEvidence
  BY OwnInit, OwnNext, PlaylistsTypeCorrect, PTL DEF Spec
<1> QED BY <1>1, OwnEnough, PlaylistsTypeCorrect, PTL

-----------------------------------------------------------------------------
(* The state file tells what each mapping has put on its target.  While one  *)
(* run is at work the account is spread over the file and what the run holds *)
(* in hand: the invariant says, for every step of the run, where it is.      *)

AllIdle == \A t \in Threads : at[t] = "idle"
OneAtATime == \A t, u \in Threads : at[t] # "idle" /\ at[u] # "idle" => t = u
NotMirrors == {m \in Mappings : setup[m].how # "mirror"}

\* Where the run t, the only one at work, has the account of mapping m.
Accounted(t, m) ==
    /\ at[t] \in {"add", "remove", "load", "save"} /\ Mapping(t) = m =>
          keep[t] \cup added[t] = put[m]
    /\ at[t] = "save" /\ Mapping(t) # m => data[t][m] = put[m]
    /\ at[t] = "store" => data[t][m] = put[m]
    /\ ~(at[t] \in {"remove", "load", "save"} /\ Mapping(t) = m) => file[m] = put[m]
AddedInHand == \A t \in Threads : at[t] # "remove" => added[t] = {}
WholeAccount ==
    whole =>
        /\ OneAtATime
        /\ AllIdle => \A m \in NotMirrors : file[m] = put[m]
        /\ \A t \in Threads : at[t] # "idle" => \A m \in NotMirrors : Accounted(t, m)
Account == AddedInHand /\ WholeAccount

LEMMA AccountInit == Init => Account
BY DEF Init, Account, AddedInHand, WholeAccount, OneAtATime, AllIdle, Nobody

LEMMA AddedInHandNext ==
    ASSUME PlaylistsTypeOK, AddedInHand, [Next]_vars
    PROVE  AddedInHand'
<1>1. ASSUME NEW t \in Threads, MappingOver(t) PROVE AddedInHand'
  BY <1>1 DEF PlaylistsTypeOK, AddedInHand, MappingOver
<1>2. ASSUME NEW t \in Threads, Step(t) PROVE AddedInHand'
  <2>1. CASE StoreResult(t)
    BY <1>1, <2>1 DEF StoreResult
  <2>2. CASE Add(t)
    <3>1. PICK done \in SUBSET ToAdd(t) : added' = [added EXCEPT ![t] = done]
      BY <2>2 DEF Add
    <3>2. at' = [at EXCEPT ![t] = "remove"]
      BY <2>2 DEF Add, Goes
    <3> QED BY <3>1, <3>2 DEF PlaylistsTypeOK, AddedInHand
  <2>3. CASE Remove(t)
    BY <2>3 DEF PlaylistsTypeOK, AddedInHand, Remove, Goes
  <2>4. CASE \/ ReadSource(t) \/ ReadTarget(t) \/ LoadBaseline(t)
             \/ Load(t) \/ SaveBaseline(t) \/ Reload(t)
    <3>1. added' = added
      BY <2>4 DEF ReadSource, ReadTarget, LoadBaseline, Load, SaveBaseline, Reload
    <3>2. at[t] # "remove" /\ \A u \in Threads \ {t} : at'[u] = at[u]
      BY <2>4 DEF PlaylistsTypeOK, ReadSource, ReadTarget, LoadBaseline, Load, SaveBaseline,
                  Reload, Goes
    <3> QED BY <3>1, <3>2 DEF AddedInHand
  <2> QED BY <1>2, <2>1, <2>2, <2>3, <2>4 DEF Step
<1>3. ASSUME \/ \E l \in Lists, k \in Keys : UserAdds(l, k) \/ UserRemoves(l, k)
             \/ UNCHANGED vars
      PROVE  AddedInHand'
  <2>1. UNCHANGED <<at, added>>
    BY <1>3 DEF UserAdds, UserRemoves, vars, frames
  <2> QED BY <2>1 DEF AddedInHand
<1>4. CASE SyncStarts
  BY <1>4 DEF PlaylistsTypeOK, AddedInHand, SyncStarts, frames
<1>5. ASSUME NEW t \in Callers, NEW m \in Mappings, UserStarts(t, m) PROVE AddedInHand'
  BY <1>5 DEF PlaylistsTypeOK, AddedInHand, UserStarts, frames
<1>6. ASSUME NEW t \in Threads, DryRunOver(t) \/ RunRaises(t) PROVE AddedInHand'
  BY <1>1, <1>6 DEF DryRunOver, RunRaises
<1>7. ASSUME NEW t \in Callers, DryRunOver(t) PROVE AddedInHand'
  BY <1>6, <1>7 DEF Threads
<1>8. CASE Crash
  BY <1>8 DEF AddedInHand, Crash
<1> QED BY <1>2, <1>3, <1>4, <1>5, <1>6, <1>7, <1>8 DEF Next

\* While one run is at work, what it does is all that changes the account: it
\* is enough to follow its own steps.
LEMMA AccountOfStep ==
    ASSUME PlaylistsTypeOK, WholeAccount, NEW t \in Threads, at[t] # "idle",
           NEW next, next # "idle", at' = [at EXCEPT ![t] = next],
           UNCHANGED <<setup, whole>>,
           whole => \A m \in NotMirrors : Accounted(t, m)'
    PROVE  WholeAccount'
<1> SUFFICES ASSUME whole
             PROVE  /\ OneAtATime' /\ ~AllIdle'
                    /\ \A u \in Threads : at'[u] # "idle" =>
                          \A m \in NotMirrors : Accounted(u, m)'
  BY DEF WholeAccount, NotMirrors
<1>1. \A u \in Threads : u # t => at[u] = "idle"
  BY DEF WholeAccount, OneAtATime
<1>2. at'[t] = next /\ \A u \in Threads : u # t => at'[u] = "idle"
  BY <1>1 DEF PlaylistsTypeOK
<1> QED BY <1>2 DEF OneAtATime, AllIdle

LEMMA AccountReads ==
    ASSUME PlaylistsTypeOK, Account, NEW t \in Threads,
           ReadSource(t) \/ ReadTarget(t) \/ LoadBaseline(t)
    PROVE  WholeAccount'
<1>1. UNCHANGED <<setup, file, pos, call, added, data, put, whole>>
  BY DEF ReadSource, ReadTarget, LoadBaseline, history
<1>2. PICK next \in {"target", "managed", "add"} :
         /\ at' = [at EXCEPT ![t] = next] /\ at[t] \in {"source", "target", "managed"}
         /\ next = "add" => keep'[t] = file[Mapping(t)]
  BY DEF PlaylistsTypeOK, ReadSource, ReadTarget, LoadBaseline, Goes
<1>3. ASSUME whole, NEW m \in NotMirrors PROVE Accounted(t, m)'
  <2>1. Accounted(t, m) /\ added[t] = {}
    BY <1>2, <1>3 DEF Account, WholeAccount, AddedInHand
  <2>2. Mapping(t)' = Mapping(t) /\ file[m] = put[m] /\ at'[t] = next
    BY <1>1, <1>2, <2>1 DEF PlaylistsTypeOK, Accounted, Mapping
  <2> QED BY <1>1, <1>2, <2>1, <2>2 DEF Accounted
<1> QED BY <1>1, <1>2, <1>3, AccountOfStep DEF Account

LEMMA AccountAdd ==
    ASSUME PlaylistsTypeOK, Account, NEW t \in Threads, Add(t)
    PROVE  WholeAccount'
<1>1. PICK done \in SUBSET ToAdd(t) : Puts(t, done) /\ added' = [added EXCEPT ![t] = done]
  BY DEF Add
<1>2. UNCHANGED <<setup, file, pos, call, keep, data, whole>>
      /\ at[t] = "add" /\ at' = [at EXCEPT ![t] = "remove"]
  BY DEF Add, Goes
<1>3. ASSUME whole, NEW m \in NotMirrors PROVE Accounted(t, m)'
  <2>1. Accounted(t, m) /\ added[t] = {}
    BY <1>2, <1>3 DEF Account, WholeAccount, AddedInHand
  <2>2. Mapping(t)' = Mapping(t) /\ file[m] = put[m] /\ at'[t] = "remove" /\ added'[t] = done
    BY <1>1, <1>2, <2>1 DEF PlaylistsTypeOK, Accounted, Mapping
  <2>3. put'[m] = IF m = Mapping(t) THEN put[m] \cup done ELSE put[m]
    BY <1>1 DEF PlaylistsTypeOK, Puts, NotMirrors
  <2>4. Mapping(t) = m => keep[t] = put[m]
    BY <1>2, <2>1 DEF Accounted
  <2> QED BY <1>2, <2>2, <2>3, <2>4 DEF Accounted
<1> QED BY <1>2, <1>3, AccountOfStep DEF Account

LEMMA AccountRemove ==
    ASSUME PlaylistsTypeOK, Account, NEW t \in Threads, Remove(t)
    PROVE  WholeAccount'
<1>1. PICK done \in SUBSET ToRemove(t) :
         TakesOff(t, done) /\ keep' = [keep EXCEPT ![t] = NewManaged(t, done)]
  BY DEF Remove
<1>2. UNCHANGED <<setup, file, pos, call, data, whole>> /\ added' = [added EXCEPT ![t] = {}]
      /\ at[t] = "remove" /\ at' = [at EXCEPT ![t] = "load"]
  BY DEF Remove, Goes
<1>3. ASSUME whole, NEW m \in NotMirrors PROVE Accounted(t, m)'
  <2>1. Accounted(t, m)
    BY <1>2, <1>3 DEF Account, WholeAccount
  <2>2. Mapping(t)' = Mapping(t) /\ at'[t] = "load" /\ added'[t] = {}
        /\ keep'[t] = NewManaged(t, done)
    BY <1>1, <1>2 DEF PlaylistsTypeOK, Mapping
  <2>3. put'[m] = IF m = Mapping(t) THEN put[m] \ done ELSE put[m]
    BY <1>1 DEF PlaylistsTypeOK, TakesOff, NotMirrors
  <2>4. Mapping(t) = m => NewManaged(t, done) = put[m] \ done
    BY <1>2, <2>1 DEF Accounted, NewManaged, How, NotMirrors
  <2> QED BY <1>2, <2>1, <2>2, <2>3, <2>4 DEF Accounted
<1> QED BY <1>2, <1>3, AccountOfStep DEF Account

\* No other run writes: what is read again is the file in full.
LEMMA AccountLoad ==
    ASSUME PlaylistsTypeOK, Account, NEW t \in Threads, Load(t) \/ Reload(t)
    PROVE  WholeAccount'
<1>1. UNCHANGED <<setup, file, pos, call, keep, added, put, whole>>
  BY DEF Load, Reload, history
<1>2. PICK next \in {"save", "store"} :
         /\ at' = [at EXCEPT ![t] = next]
         /\ next = "save" => at[t] = "load"
         /\ next = "store" => at[t] = "reload"
  BY DEF Load, Reload, Goes
<1>3. at[t] \in {"load", "reload"}
  BY <1>2
<1>4. ASSUME whole PROVE data'[t] = file
  <2>1. \A u \in Threads \ {t} : at[u] = "idle"
    BY <1>3, <1>4 DEF Account, WholeAccount, OneAtATime
  <2> QED BY <2>1 DEF PlaylistsTypeOK, Load, Reload
<1>5. ASSUME whole, NEW m \in NotMirrors PROVE Accounted(t, m)'
  <2>1. Accounted(t, m)
    BY <1>3, <1>5 DEF Account, WholeAccount
  <2>2. Mapping(t)' = Mapping(t) /\ at'[t] = next
    BY <1>1, <1>2 DEF PlaylistsTypeOK, Mapping
  <2> QED BY <1>1, <1>2, <1>4, <1>5, <2>1, <2>2 DEF Accounted
<1> QED BY <1>1, <1>2, <1>3, <1>5, AccountOfStep DEF Account

LEMMA AccountSave ==
    ASSUME PlaylistsTypeOK, Account, NEW t \in Threads, SaveBaseline(t)
    PROVE  WholeAccount'
<1>1. UNCHANGED <<setup, pos, call, added, put, whole>>
      /\ at[t] = "save" /\ at' = [at EXCEPT ![t] = "reload"]
  BY DEF SaveBaseline, history, Goes
<1>2. ASSUME whole, NEW m \in NotMirrors PROVE Accounted(t, m)'
  <2>1. Accounted(t, m) /\ added[t] = {}
    BY <1>1, <1>2 DEF Account, WholeAccount, AddedInHand
  <2>2. Mapping(t)' = Mapping(t) /\ at'[t] = "reload"
    BY <1>1 DEF PlaylistsTypeOK, Mapping
  <2>3. file'[m] = IF m = Mapping(t) THEN keep[t] ELSE data[t][m]
    BY DEF PlaylistsTypeOK, SaveBaseline, NotMirrors
  <2>4. file'[m] = put[m]
    BY <1>1, <2>1, <2>3 DEF Accounted
  <2> QED BY <1>1, <2>2, <2>4 DEF Accounted
<1> QED BY <1>1, <1>2, AccountOfStep DEF Account

\* When a run is over, and the next mapping of the sync begins or nobody is at
\* work, the account is in the file.
LEMMA AccountOver ==
    ASSUME PlaylistsTypeOK, Account, NEW t \in Threads, DryRunOver(t) \/ StoreResult(t)
    PROVE  WholeAccount'
<1> SUFFICES ASSUME whole'
             PROVE  /\ OneAtATime' /\ \A m \in NotMirrors : file'[m] = put'[m]
                    /\ \A u \in Threads : at'[u] \in {"idle", "source"}
  BY DEF WholeAccount, Accounted, NotMirrors, DryRunOver, StoreResult
<1>1. whole /\ UNCHANGED <<setup, put>> /\ MappingOver(t) /\ at[t] \in {"add", "store"}
  BY DEF DryRunOver, StoreResult, history
<1>2. \A u \in Threads : u # t => at[u] = "idle"
  BY <1>1 DEF Account, WholeAccount, OneAtATime
<1>3. at'[t] \in {"idle", "source"} /\ \A u \in Threads : u # t => at'[u] = "idle"
  BY <1>1, <1>2 DEF PlaylistsTypeOK, MappingOver
<1>4. \A m \in NotMirrors : Accounted(t, m)
  BY <1>1 DEF Account, WholeAccount
<1>5. \A m \in NotMirrors : file'[m] = put[m]
  <2>1. CASE DryRunOver(t)
    BY <2>1, <1>4 DEF DryRunOver, Accounted
  <2>2. CASE StoreResult(t)
    BY <2>2, <1>4 DEF StoreResult, Accounted
  <2> QED BY <2>1, <2>2
<1> QED BY <1>1, <1>3, <1>5 DEF OneAtATime

LEMMA AccountStarts ==
    ASSUME PlaylistsTypeOK, Account, NEW t \in Threads, at[t] = "idle",
           at' = [at EXCEPT ![t] = "source"], whole' = (whole /\ Alone(t)),
           UNCHANGED <<setup, file, put>>
    PROVE  WholeAccount'
<1> SUFFICES ASSUME whole'
             PROVE  /\ OneAtATime' /\ \A m \in NotMirrors : file[m] = put[m]
                    /\ \A u \in Threads : at'[u] \in {"idle", "source"}
  BY DEF WholeAccount, Accounted, NotMirrors
<1>1. whole /\ AllIdle
  BY DEF Alone, AllIdle
<1>2. at'[t] = "source" /\ \A u \in Threads : u # t => at'[u] = "idle"
  BY <1>1 DEF PlaylistsTypeOK, AllIdle
<1> QED BY <1>1, <1>2 DEF Account, WholeAccount, OneAtATime

LEMMA AccountNext == PlaylistsTypeOK /\ Account /\ [Next]_vars => Account'
<1> SUFFICES ASSUME PlaylistsTypeOK, Account, [Next]_vars PROVE WholeAccount'
  BY AddedInHandNext DEF Account
<1>1. ASSUME \/ \E l \in Lists, k \in Keys : UserAdds(l, k) \/ UserRemoves(l, k)
             \/ UNCHANGED vars
      PROVE  WholeAccount'
  <2>1. UNCHANGED <<setup, file, at, pos, call, keep, added, data, put, whole>>
    BY <1>1 DEF UserAdds, UserRemoves, vars, frames, history
  <2> QED BY <2>1 DEF Account, WholeAccount, OneAtATime, AllIdle, NotMirrors, Accounted, Mapping
<1>2. CASE SyncStarts
  BY <1>2, AccountStarts DEF SyncStarts, Threads
<1>3. ASSUME NEW t \in Callers, NEW m \in Mappings, UserStarts(t, m) PROVE WholeAccount'
  BY <1>3, AccountStarts DEF UserStarts, Threads
<1>4. ASSUME NEW t \in Threads, Step(t) PROVE WholeAccount'
  BY <1>4, AccountReads, AccountAdd, AccountRemove, AccountLoad, AccountSave, AccountOver DEF Step
<1>5. ASSUME NEW t \in Callers, DryRunOver(t) PROVE WholeAccount'
  BY <1>5, AccountOver DEF Threads
<1>6. CASE Crash \/ \E t \in Threads : RunRaises(t)
  BY <1>6 DEF Crash, RunRaises, WholeAccount
<1> QED BY <1>1, <1>2, <1>3, <1>4, <1>5, <1>6 DEF Next

\* As long as no two runs overlap and none is cut short, the state file, when
\* nobody is at work, tells of every mapping that is no mirror exactly what it
\* has put on its target and not taken off since: however many mappings share
\* the file and the playlists, and whatever part of a batch a provider does.
THEOREM StateFileIsTrue == Spec => []ManagedIsPut
<1>1. Account => ManagedIsPut
  BY DEF Account, WholeAccount, AllIdle, NotMirrors, ManagedIsPut
<1> QED BY <1>1, AccountInit, AccountNext, PlaylistsTypeCorrect, PTL DEF Spec
=============================================================================
