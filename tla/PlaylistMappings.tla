-------------------------- MODULE PlaylistMappings --------------------------
(***************************************************************************)
(* Playlist mappings (cw_platform/playlists_runner.py and                  *)
(* orchestrator/_pairs_playlists.py).  A mapping copies a source playlist  *)
(* to a target playlist.  For each mapping the state file keeps the items  *)
(* it manages: those it has put on the target and may take off again.      *)
(*                                                                         *)
(* The sync runs the mappings of a pair one after the other; a user may    *)
(* run any of them from the browser meanwhile, in a thread of its own and  *)
(* without a lock.  All share one state file, which each of them reads     *)
(* and writes as a whole, twice per run.                                   *)
(*                                                                         *)
(* Not modelled: the order of the items (reordering changes no             *)
(* membership), mappings with rulesets (several targets), items with       *)
(* different keys on both sides, smart and read-only playlists.            *)
(***************************************************************************)
EXTENDS Integers, Sequences, FiniteSets

CONSTANTS
    Lists,          \* playlists
    Keys,           \* items that may be on them
    Mappings,
    Setups,         \* what the mappings may be configured to, see setup
    Order,          \* the mappings selected for the pair, in order
    Callers,        \* threads that run a mapping for a user
    MinPrev,        \* runtime.suspect_min_prev
    MassPct,        \* runtime.suspect_shrink_ratio, as a percentage
    Faults,         \* kinds of fault that may happen
    MaxFaults,      \* bound: number of faults in a behaviour
    MaxEdits,       \* bound: number of user edits in a behaviour
    MaxCalls        \* bound: number of runs started by users

Sync == "sync"
Threads == Callers \cup {Sync}
Memberships == {"add_only", "managed_only", "mirror"}

ASSUME PlaylistsAssumption ==
    /\ IsFiniteSet(Keys)
    /\ Setups \subseteq [Mappings -> [from : Lists, to : Lists, how : Memberships,
                              allow : BOOLEAN]]
    /\ Order \in Seq(Mappings) /\ Order # <<>> /\ Sync \notin Callers
    /\ MinPrev \in Nat /\ MassPct \in 1..100
    /\ Faults \subseteq {"partial", "raise", "crash"}
    /\ MaxFaults \in Nat /\ MaxEdits \in Nat /\ MaxCalls \in Nat

VARIABLES
    lists,      \* lists[l]: what is on playlist l now
    setup,      \* setup[m]: source, target, membership, allow_mass_delete of m
    file,       \* the state file: file[m] is what m manages
    \* the threads
    at,         \* at[t]: the step t is at
    pos,        \* the sync's position in Order
    call,       \* call[t]: the mapping run by the thread t for a user
    source, target,     \* by thread: the playlists as read
    keep,       \* by thread: the managed items as loaded, and to be saved
    added,      \* by thread: applied_add_keys
    data,       \* by thread: the state file as read to be written again
    \* history: not in the code, read by the properties only
    ever,       \* ever[m]: what m has ever put on its target
    put,        \* put[m]: what m has put there and not taken off since
    whole,      \* no two runs have overlapped, and none was cut short
    \* bounds
    edits, faults, calls

frames == <<source, target, keep, added, data>>
history == <<ever, put, whole>>
vars == <<lists, setup, file, at, pos, call, frames, history, edits, faults, calls>>

Nobody == [m \in Mappings |-> {}]
Fault(kind) == kind \in Faults /\ faults < MaxFaults /\ faults' = faults + 1

Init ==
    /\ setup \in Setups
    /\ lists \in [Lists -> SUBSET Keys]
    /\ file = Nobody
    /\ at = [t \in Threads |-> "idle"] /\ pos = 1
    /\ call = [t \in Callers |-> Order[1]]
    /\ source = [t \in Threads |-> {}] /\ target = [t \in Threads |-> {}]
    /\ keep = [t \in Threads |-> {}] /\ added = [t \in Threads |-> {}]
    /\ data = [t \in Threads |-> Nobody]
    /\ ever = Nobody /\ put = Nobody /\ whole = TRUE
    /\ edits = 0 /\ faults = 0 /\ calls = 0

\* The mapping a thread is at.
Mapping(t) == IF t = Sync THEN Order[pos] ELSE call[t]
From(t) == setup[Mapping(t)].from
To(t) == setup[Mapping(t)].to
How(t) == setup[Mapping(t)].how

-----------------------------------------------------------------------------
(* The users *)

UserAdds(l, k) ==
    /\ edits < MaxEdits /\ edits' = edits + 1
    /\ k \notin lists[l]
    /\ lists' = [lists EXCEPT ![l] = @ \cup {k}]
    /\ UNCHANGED <<setup, file, at, pos, call, frames, history, faults, calls>>

UserRemoves(l, k) ==
    /\ edits < MaxEdits /\ edits' = edits + 1
    /\ k \in lists[l]
    /\ lists' = [lists EXCEPT ![l] = @ \ {k}]
    /\ UNCHANGED <<setup, file, at, pos, call, frames, history, faults, calls>>

-----------------------------------------------------------------------------
(* One run of a mapping *)

\* No other thread is at work.
Alone(t) == \A u \in Threads \ {t} : at[u] = "idle"

\* run_playlist_mappings
SyncStarts ==
    /\ at[Sync] = "idle"
    /\ at' = [at EXCEPT ![Sync] = "source"]
    /\ whole' = (whole /\ Alone(Sync))
    /\ UNCHANGED <<lists, setup, file, pos, call, frames, ever, put, edits, faults, calls>>

\* api_playlist_mapping_run
UserStarts(t, m) ==
    /\ at[t] = "idle"
    /\ calls < MaxCalls /\ calls' = calls + 1
    /\ at' = [at EXCEPT ![t] = "source"]
    /\ call' = [call EXCEPT ![t] = m]
    /\ whole' = (whole /\ Alone(t))
    /\ UNCHANGED <<lists, setup, file, pos, frames, ever, put, edits, faults>>

\* The run of the mapping is over; the sync goes on with the next one.
HasNextMutant == pos <= Len(Order)
HasNext == pos < Len(Order)
MappingOver(t) ==
    /\ IF t = Sync /\ HasNext
       THEN pos' = pos + 1 /\ at' = [at EXCEPT ![t] = "source"]
       ELSE at' = [at EXCEPT ![t] = "idle"] /\ pos' = IF t = Sync THEN 1 ELSE pos
    /\ source' = [source EXCEPT ![t] = {}] /\ target' = [target EXCEPT ![t] = {}]
    /\ keep' = [keep EXCEPT ![t] = {}] /\ added' = [added EXCEPT ![t] = {}]
    /\ data' = [data EXCEPT ![t] = Nobody]
    /\ call' = IF t = Sync THEN call ELSE [call EXCEPT ![t] = Order[1]]

Goes(t, here, next) == at[t] = here /\ at' = [at EXCEPT ![t] = next]

\* build_plan reads source, target and the state file, in this order.
ReadSource(t) ==
    /\ Goes(t, "source", "target")
    /\ source' = [source EXCEPT ![t] = lists[From(t)]]
    /\ UNCHANGED <<lists, setup, file, pos, call, target, keep, added, data, history,
                   edits, faults, calls>>

ReadTarget(t) ==
    /\ Goes(t, "target", "managed")
    /\ target' = [target EXCEPT ![t] = lists[To(t)]]
    /\ UNCHANGED <<lists, setup, file, pos, call, source, keep, added, data, history,
                   edits, faults, calls>>

LoadBaseline(t) ==
    /\ Goes(t, "managed", "add")
    /\ keep' = [keep EXCEPT ![t] = file[Mapping(t)]]
    /\ UNCHANGED <<lists, setup, file, pos, call, source, target, added, data, history,
                   edits, faults, calls>>

\* The plan, of a mapping with this membership that has read these sets.  The
\* mutants remove, like a mirror, whatever the source lacks, and do not add
\* again what was added once.
AdditionsMutant(src, dst, managed) == src \ (dst \cup managed)
Additions(src, dst, managed) == src \ dst
RemovalsMutant(how, src, dst, managed) == IF how = "add_only" THEN {} ELSE dst \ src
Removals(how, src, dst, managed) ==
    CASE how = "managed_only" -> (managed \cap dst) \ src
      [] how = "mirror" -> dst \ src
      [] OTHER -> {}

\* maybe_block_mass_delete, for playlists of a certain size
Guarded(m, rem, dst) ==
    IF /\ Cardinality(dst) >= MinPrev /\ ~setup[m].allow
       /\ Cardinality(rem) > (Cardinality(dst) * MassPct) \div 100
    THEN {}
    ELSE rem

ToAdd(t) == Additions(source[t], target[t], keep[t])
ToRemove(t) ==
    Guarded(Mapping(t), Removals(How(t), source[t], target[t], keep[t]), target[t])

\* A dry run ends with its plan.
DryRunOver(t) ==
    /\ at[t] = "add"
    /\ MappingOver(t)
    /\ UNCHANGED <<lists, setup, file, history, edits, faults, calls>>

\* The part of the work that the provider does; it names the items done.
Does(work, done) ==
    \/ done = work /\ UNCHANGED faults
    \/ done \in SUBSET work \ {work} /\ Fault("partial")

Puts(t, done) ==
    /\ lists' = [lists EXCEPT ![To(t)] = @ \cup done]
    /\ ever' = [ever EXCEPT ![Mapping(t)] = @ \cup done]
    /\ put' = [put EXCEPT ![Mapping(t)] = @ \cup done]
TakesOff(t, done) ==
    /\ lists' = [lists EXCEPT ![To(t)] = @ \ done]
    /\ put' = [put EXCEPT ![Mapping(t)] = @ \ done]
    /\ UNCHANGED ever

Add(t) ==
    /\ Goes(t, "add", "remove")
    /\ \E done \in SUBSET ToAdd(t) :
          /\ Does(ToAdd(t), done)
          /\ Puts(t, done)
          /\ added' = [added EXCEPT ![t] = done]
    /\ UNCHANGED <<setup, file, pos, call, source, target, keep, data, whole, edits, calls>>

\* The items managed from now on; the mutant starts anew with each run.
NewManagedMutant(t, removed) == added[t] \ removed
NewManaged(t, removed) ==
    IF How(t) = "mirror"
    THEN source[t] \cap ((target[t] \cup added[t]) \ removed)
    ELSE (keep[t] \cup added[t]) \ removed

Remove(t) ==
    /\ Goes(t, "remove", "load")
    /\ \E done \in SUBSET ToRemove(t) :
          /\ Does(ToRemove(t), done)
          /\ TakesOff(t, done)
          /\ keep' = [keep EXCEPT ![t] = NewManaged(t, done)]
    /\ source' = [source EXCEPT ![t] = {}] /\ target' = [target EXCEPT ![t] = {}]
    /\ added' = [added EXCEPT ![t] = {}]
    /\ UNCHANGED <<setup, file, pos, call, data, whole, edits, calls>>

\* save_baseline: the whole file is read, and written with m's entry replaced.
Load(t) ==
    /\ Goes(t, "load", "save")
    /\ data' = [data EXCEPT ![t] = file]
    /\ UNCHANGED <<lists, setup, file, pos, call, source, target, keep, added, history,
                   edits, faults, calls>>

SaveBaseline(t) ==
    /\ Goes(t, "save", "reload")
    /\ file' = [data[t] EXCEPT ![Mapping(t)] = keep[t]]
    /\ keep' = [keep EXCEPT ![t] = {}] /\ data' = [data EXCEPT ![t] = Nobody]
    /\ UNCHANGED <<lists, setup, pos, call, source, target, added, history,
                   edits, faults, calls>>

\* store_result: the same again, for the result.  The temporary file is shared
\* by all: what this thread has just put in place may at that moment be
\* written by another, and cannot be parsed.
Reload(t) ==
    /\ Goes(t, "reload", "store")
    /\ \/ data' = [data EXCEPT ![t] = file]
       \/ /\ \E u \in Threads \ {t} : at[u] \in {"save", "store"}
          /\ data' = [data EXCEPT ![t] = Nobody]
    /\ UNCHANGED <<lists, setup, file, pos, call, source, target, keep, added, history,
                   edits, faults, calls>>

StoreResult(t) ==
    /\ at[t] = "store"
    /\ file' = data[t]
    /\ MappingOver(t)
    /\ UNCHANGED <<lists, setup, history, edits, faults, calls>>

\* A provider raises, with part of the work done, or while it is asked for the
\* new order before "load": nothing is saved of what this run did.
RunRaises(t) ==
    /\ at[t] \in {"source", "target", "add", "remove", "load"}
    /\ Fault("raise")
    /\ CASE at[t] = "add" -> \E done \in SUBSET ToAdd(t) : Puts(t, done)
         [] at[t] = "remove" -> \E done \in SUBSET ToRemove(t) : TakesOff(t, done)
         [] OTHER -> UNCHANGED <<lists, ever, put>>
    /\ MappingOver(t)
    /\ whole' = FALSE
    /\ UNCHANGED <<setup, file, edits, calls>>

\* The process dies, and all threads with it.
Crash ==
    /\ \E t \in Threads : at[t] # "idle"
    /\ Fault("crash")
    /\ at' = [t \in Threads |-> "idle"] /\ pos' = 1
    /\ call' = [t \in Callers |-> Order[1]]
    /\ source' = [t \in Threads |-> {}] /\ target' = [t \in Threads |-> {}]
    /\ keep' = [t \in Threads |-> {}] /\ added' = [t \in Threads |-> {}]
    /\ data' = [t \in Threads |-> Nobody]
    /\ whole' = FALSE
    /\ UNCHANGED <<lists, setup, file, ever, put, edits, calls>>

Step(t) ==
    \/ ReadSource(t) \/ ReadTarget(t) \/ LoadBaseline(t)
    \/ Add(t) \/ Remove(t)
    \/ Load(t) \/ SaveBaseline(t) \/ Reload(t) \/ StoreResult(t)

Next ==
    \/ \E l \in Lists, k \in Keys : UserAdds(l, k) \/ UserRemoves(l, k)
    \/ SyncStarts
    \/ \E t \in Callers : DryRunOver(t) \/ \E m \in Mappings : UserStarts(t, m)
    \/ \E t \in Threads : Step(t) \/ RunRaises(t)
    \/ Crash

Spec == Init /\ [][Next]_vars

\* The scheduler goes on starting syncs, and no thread stops in a run.
FairSpec == Spec /\ WF_vars(SyncStarts) /\ \A t \in Threads : WF_vars(Step(t))

-----------------------------------------------------------------------------
(* Properties *)

\* Types of all variables.
PlaylistsTypeOK ==
    /\ lists \in [Lists -> SUBSET Keys] /\ setup \in Setups
    /\ file \in [Mappings -> SUBSET Keys]
    /\ at \in [Threads -> {"idle", "source", "target", "managed", "add", "remove", "load",
                           "save", "reload", "store"}]
    /\ pos \in 1..Len(Order) /\ call \in [Callers -> Mappings]
    /\ source \in [Threads -> SUBSET Keys] /\ target \in [Threads -> SUBSET Keys]
    /\ keep \in [Threads -> SUBSET Keys] /\ added \in [Threads -> SUBSET Keys]
    /\ data \in [Threads -> [Mappings -> SUBSET Keys]]
    /\ ever \in [Mappings -> SUBSET Keys] /\ put \in [Mappings -> SUBSET Keys]
    /\ whole \in BOOLEAN
    /\ edits \in 0..MaxEdits /\ faults \in 0..MaxFaults /\ calls \in 0..MaxCalls

\* Except for a mirror, a mapping manages, and is about to remove from its
\* target, nothing but what it has put there itself: also when runs overlap
\* and write old copies of the state file, when they fail, and when mappings
\* share a target or copy to and fro.
OwnItemsOnly ==
    /\ \A m \in Mappings :
          setup[m].how # "mirror" =>
             file[m] \subseteq ever[m] /\ \A t \in Threads : data[t][m] \subseteq ever[m]
    /\ \A t \in Threads :
          How(t) # "mirror" =>
             /\ keep[t] \cup added[t] \subseteq ever[Mapping(t)]
             /\ at[t] = "remove" => ToRemove(t) \subseteq ever[Mapping(t)]

\* As long as runs neither overlap nor are cut short, the state file tells what
\* each mapping has put on its target and not taken off since, whatever its
\* batches did in part.  When they do, entries are lost, or come back.
ManagedIsPut ==
    whole /\ (\A t \in Threads : at[t] = "idle") =>
        \A m \in Mappings : setup[m].how # "mirror" => file[m] = put[m]

\* Once users and faults come to rest, every mapping is through: its source is
\* on its target, and it has nothing left to remove (or the mass delete guard
\* does not let it).
Through(m) ==
    LET src == lists[setup[m].from]
        dst == lists[setup[m].to]
    IN  /\ src \subseteq dst
        /\ Guarded(m, Removals(setup[m].how, src, dst, file[m]), dst) = {}
EventuallyThrough == <>[](\A m \in Mappings : Through(m))
=============================================================================
