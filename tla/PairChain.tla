------------------------------ MODULE PairChain ------------------------------
(***************************************************************************)
(* Several two-way pairs of one run that share providers                   *)
(* (cw_platform/orchestrator/_pairs.py, run_pairs, and the parts of        *)
(* _pairs_twoway.py by which one pair's sync acts on another's).           *)
(*                                                                         *)
(* A run takes the pairs one after the other.  Baselines are kept per      *)
(* provider, so both pairs of a provider write the same one; what a pair   *)
(* compares its snapshots with is the state of the files when the run      *)
(* loaded it, once (_stable_prev_state_by_feature).  Tombstones and failed *)
(* removals are kept per pair.  Snapshots are cached per pair and so never *)
(* serve another.                                                          *)
(*                                                                         *)
(* TwoWaySync has the sync of one pair in detail.  Here it is reduced to   *)
(* the default settings of the watchlist, with adapters that report the    *)
(* keys they wrote; cancellations, dry runs, sides that are down, the mass *)
(* delete guard and the blackbox (which never keeps a watchlist item from  *)
(* being planned) are left out.                                            *)
(***************************************************************************)
EXTENDS Applier, Sequences

CONSTANTS
    Providers,
    Topologies,  \* the lists of pairs a configuration may hold
    Keys,        \* items that may be on the lists
    TTL,         \* life of a tombstone, in ticks of the model's clock
    Faults,      \* kinds of fault that may happen
    MaxFaults,   \* bound: number of faults in a behaviour
    MaxEdits     \* bound: number of user edits in a behaviour

ASSUME ChainAssumption ==
    /\ IsFiniteSet(Keys)
    /\ Topologies \subseteq Seq(Providers \X Providers) \ {<<>>}
    /\ TTL \in Nat \ {0} /\ MaxFaults \in Nat /\ MaxEdits \in Nat
    /\ Faults \subseteq {"partial", "raise", "crash", "torn"}  \* "torn": AppRequests

VARIABLES
    lists,      \* lists[p]: what is on the list of p now
    pairs,      \* the configured pairs, in the order of the configuration
    \* files of the application
    base,       \* base[p]: the baseline of p
    tomb,       \* tomb[i][k]: ticks pair i's tombstone of k still has
    pend,       \* pend[i][p]: removals from p recorded as unresolved by pair i
    \* locals of the run in progress
    pc,         \* the step it is at
    cur,        \* the pair it is at
    loaded,     \* it has loaded the baselines
    prev,       \* the baselines as loaded
    snap,       \* the snapshots taken, then A_eff and B_eff
    rem, add,   \* the plan of the pair
    \* history: not in the code, read by the properties only
    gone,       \* keys a user has ever deleted
    lost,       \* deleted by a user, and not added by one since
    known,      \* those of them deleted at the head of the chain while in step
    \* bounds
    edits, faults

files == <<base, tomb, pend>>
locals == <<loaded, prev, snap, rem, add>>
history == <<gone, lost, known>>
vars == <<lists, pairs, files, pc, cur, locals, history, edits, faults>>

Nothing == [p \in Providers |-> {}]
Left == pairs[cur][1]
Right == pairs[cur][2]
Partner(p) == IF p = Left THEN Right ELSE Left

Fault(kind) == kind \in Faults /\ faults < MaxFaults /\ faults' = faults + 1

Init ==
    /\ pairs \in Topologies
    /\ lists \in [Providers -> SUBSET Keys]
    /\ base = Nothing
    /\ tomb = [i \in DOMAIN pairs |-> [k \in Keys |-> 0]]
    /\ pend = [i \in DOMAIN pairs |-> Nothing]
    /\ pc = "idle" /\ cur = 1 /\ loaded = FALSE
    /\ prev = Nothing /\ snap = Nothing /\ rem = Nothing /\ add = Nothing
    /\ gone = {} /\ lost = {} /\ known = {} /\ edits = 0 /\ faults = 0

-----------------------------------------------------------------------------
(* The users and the clock *)

UserAdd(p, k) ==
    /\ edits < MaxEdits /\ edits' = edits + 1
    /\ k \notin lists[p]
    /\ lists' = [lists EXCEPT ![p] = @ \cup {k}]
    /\ lost' = lost \ {k} /\ known' = known \ {k}
    /\ UNCHANGED <<pairs, files, pc, cur, locals, gone, faults>>

\* p takes part in the first pair alone.
AtHead(p) == \A i \in DOMAIN pairs : p \in {pairs[i][1], pairs[i][2]} <=> i = 1

\* k is everywhere; the run has loaded it so, and its pair has seen it there.
InStep(k) ==
    /\ \A q \in Providers : k \in base[q] \cap lists[q] /\ (loaded => k \in prev[q])
    /\ pc \notin {"idle", "left"} => k \in snap[Left]
    /\ pc \notin {"idle", "left", "right"} => k \in snap[Right]

UserDelete(p, k) ==
    /\ edits < MaxEdits /\ edits' = edits + 1
    /\ k \in lists[p]
    /\ lists' = [lists EXCEPT ![p] = @ \ {k}]
    /\ gone' = gone \cup {k}
    /\ lost' = lost \cup {k}
    /\ known' = IF AtHead(p) /\ InStep(k) THEN known \cup {k} ELSE known
    /\ UNCHANGED <<pairs, files, pc, cur, locals, faults>>

\* Tombstones live days, runs minutes.
Tick ==
    /\ pc = "idle"
    /\ \E i \in DOMAIN pairs, k \in Keys : tomb[i][k] > 0
    /\ tomb' = [i \in DOMAIN pairs |-> [k \in Keys |-> AtLeastZero(tomb[i][k] - 1)]]
    /\ UNCHANGED <<lists, pairs, base, pend, pc, cur, locals, history, edits, faults>>

-----------------------------------------------------------------------------
(* One pair *)

RunOver ==
    /\ pc' = "idle" /\ cur' = 1 /\ loaded' = FALSE
    /\ prev' = Nothing /\ snap' = Nothing /\ rem' = Nothing /\ add' = Nothing

\* The pair is done with or given up; the run goes on with the next.
NextPair ==
    \/ /\ cur < Len(pairs)
       /\ pc' = "left" /\ cur' = cur + 1
       /\ snap' = Nothing /\ rem' = Nothing /\ add' = Nothing
       /\ UNCHANGED <<loaded, prev>>
    \/ cur = Len(pairs) /\ RunOver

StartRun ==
    /\ pc = "idle" /\ pc' = "left"
    /\ UNCHANGED <<lists, pairs, files, cur, locals, history, edits, faults>>

TakeSnapshot(p, here, next) ==
    /\ pc = here /\ pc' = next
    /\ snap' = [snap EXCEPT ![p] = lists[p]]
    /\ UNCHANGED <<lists, pairs, files, cur, loaded, prev, rem, add, history, edits, faults>>

\* A provider raises while its list is read.
SnapshotFails ==
    /\ pc \in {"left", "right"}
    /\ Fault("raise")
    /\ NextPair
    /\ UNCHANGED <<lists, pairs, files, history, edits>>

\* The baselines a pair plans with; the mutant reads the files for each pair.
KnownMutant == base
Known == IF loaded THEN prev ELSE base

Tombs == {k \in Keys : tomb[cur][k] > 0}
Bootstrap == Known[Left] = {} /\ Known[Right] = {} /\ Tombs = {}
Shrunk(p) == Known[p] \ snap[p]
OnlyOn(p) == snap[p] \ snap[Partner(p)]

TombBlocksRemove(p, k) == k \in Tombs /\ k \in Known[p]
\* Mutant: what the partner lacks it has deleted.
DeletionWantedMutant(p, k) == k \notin snap[Partner(p)]
DeletionWanted(p, k) ==
    TombBlocksRemove(p, k) \/ (k \in Shrunk(Partner(p)) /\ k \in Known[Partner(p)])

Retried(p) == pend[cur][p] \cap OnlyOn(p)

PlannedRemovals(p) ==
    (IF Bootstrap THEN {} ELSE {k \in OnlyOn(p) : DeletionWanted(p, k)}) \cup Retried(p)
PlannedAdds(p) == {k \in OnlyOn(Partner(p)) : ~DeletionWanted(Partner(p), k)}

Here == {Left, Right}

Plan ==
    /\ pc = "plan" /\ pc' = "rem_left"
    /\ loaded' = TRUE /\ prev' = Known
    /\ tomb' = [tomb EXCEPT ![cur] =
                   Mark(@, IF Bootstrap THEN {} ELSE (Shrunk(Left) \cup Shrunk(Right)) \ Tombs, TTL)]
    /\ rem' = [p \in Providers |-> IF p \in Here THEN PlannedRemovals(p) ELSE {}]
    /\ add' = [p \in Providers |->
                  IF p \in Here
                  THEN PlannedAdds(p) \ (PlannedRemovals(Left) \cup PlannedRemovals(Right))
                  ELSE {}]
    /\ pend' = [pend EXCEPT ![cur] =
                   [p \in Providers |-> IF p \in Here THEN @[p] \cap OnlyOn(p) ELSE @[p]]]
    /\ UNCHANGED <<lists, pairs, base, cur, snap, history, edits, faults>>

\* The part of a batch the adapter writes; less than all of it is a fault.
Written(W, done) ==
    \/ done = W /\ UNCHANGED faults
    \/ done \in SUBSET W \ {W} /\ Fault("partial")

Answer(tag, W, done) == Normalize(tag, Report("exact", W, done), W)

Remove(p, here, next) ==
    /\ pc = here /\ pc' = next
    /\ rem' = [rem EXCEPT ![p] = {}]
    /\ \E done \in SUBSET rem[p] :
          LET success == RemoveSuccess(rem[p], Answer("apply:remove", rem[p], done))
          IN  /\ Written(rem[p], done)
              /\ lists' = [lists EXCEPT ![p] = @ \ done]
              /\ snap' = [snap EXCEPT ![p] = @ \ success]
              /\ tomb' = [tomb EXCEPT ![cur] = Mark(@, success \ Tombs, TTL)]
              /\ pend' = [pend EXCEPT ![cur][p] = (@ \ success) \cup (rem[p] \ success)]
    /\ UNCHANGED <<pairs, base, cur, loaded, prev, add, history, edits>>

\* An unaccounted add displaces the record of a failed removal.
Add(p, here, next) ==
    /\ pc = here /\ pc' = next
    /\ add' = [add EXCEPT ![p] = {}]
    /\ \E done \in SUBSET add[p] :
          LET res == Answer("apply:add", add[p], done)
          IN  /\ Written(add[p], done)
              /\ \E success \in AddSuccesses(add[p], res, FALSE) :
                    /\ lists' = [lists EXCEPT ![p] = @ \cup done]
                    /\ snap' = [snap EXCEPT ![p] = @ \cup success]
                    /\ tomb' = [tomb EXCEPT ![cur] = Mark(@, success, 0)]
                    /\ pend' = [pend EXCEPT ![cur][p] = @ \ (success \cup res.ukeys)]
    /\ UNCHANGED <<pairs, base, cur, loaded, prev, rem, history, edits>>

\* A write still raises at the third attempt, with part of the batch done.
WriteRaises(p) ==
    /\ pc \in (IF p = Left THEN {"rem_left", "add_left"} ELSE {"rem_right", "add_right"})
    /\ p \in Here
    /\ Fault("raise")
    /\ IF pc \in {"rem_left", "rem_right"}
       THEN rem[p] # {} /\ \E done \in SUBSET rem[p] : lists' = [lists EXCEPT ![p] = @ \ done]
       ELSE add[p] # {} /\ \E done \in SUBSET add[p] : lists' = [lists EXCEPT ![p] = @ \cup done]
    /\ NextPair
    /\ UNCHANGED <<pairs, files, history, edits>>

\* save_feature_blocks: the baselines of both sides, whoever wrote them last.
Commit ==
    /\ pc = "commit"
    /\ base' = [p \in Providers |-> IF p \in Here THEN snap[p] ELSE base[p]]
    /\ NextPair
    /\ UNCHANGED <<lists, pairs, tomb, pend, history, edits, faults>>

\* The process dies.
Crash ==
    /\ pc # "idle"
    /\ Fault("crash")
    /\ RunOver
    /\ UNCHANGED <<lists, pairs, files, history, edits>>

BeforeCommit ==
    \/ TakeSnapshot(Left, "left", "right") \/ TakeSnapshot(Right, "right", "plan")
    \/ Plan
    \/ Remove(Left, "rem_left", "rem_right") \/ Remove(Right, "rem_right", "add_left")
    \/ Add(Left, "add_left", "add_right") \/ Add(Right, "add_right", "commit")

RunStep == BeforeCommit \/ Commit

Next ==
    \/ \E p \in Providers, k \in Keys : UserAdd(p, k) \/ UserDelete(p, k)
    \/ Tick
    \/ StartRun \/ RunStep
    \/ SnapshotFails \/ \E p \in Providers : WriteRaises(p)
    \/ Crash

Spec == Init /\ [][Next]_vars

FairSpec == Spec /\ WF_vars(StartRun) /\ WF_vars(RunStep)

-----------------------------------------------------------------------------
(* Properties *)

\* Types of all variables.
ChainTypeOK ==
    /\ lists \in [Providers -> SUBSET Keys] /\ pairs \in Topologies
    /\ base \in [Providers -> SUBSET Keys]
    /\ tomb \in [DOMAIN pairs -> [Keys -> 0..TTL]]
    /\ pend \in [DOMAIN pairs -> [Providers -> SUBSET Keys]]
    /\ pc \in {"idle", "left", "right", "plan", "rem_left", "rem_right", "add_left",
               "add_right", "commit"}
    /\ cur \in DOMAIN pairs /\ loaded \in BOOLEAN
    /\ prev \in [Providers -> SUBSET Keys] /\ snap \in [Providers -> SUBSET Keys]
    /\ rem \in [Providers -> SUBSET Keys] /\ add \in [Providers -> SUBSET Keys]
    /\ gone \subseteq Keys /\ lost \subseteq Keys /\ known \subseteq lost
    /\ edits \in 0..MaxEdits /\ faults \in 0..MaxFaults

\* Whatever a pair can take for a reason to remove an item is the trace of a
\* user's deletion, though another pair wrote the baseline, loaded before or
\* saved since: nothing is a deletion to one pair that is merely not yet
\* copied, or being copied, by another.  D is what counts as deleted.
StoresTell(D) ==
    /\ \A p \in Providers : base[p] \cup prev[p] \subseteq lists[p] \cup D
    /\ \A i \in DOMAIN pairs, k \in Keys : tomb[i][k] > 0 => k \in D
    /\ \A i \in DOMAIN pairs, p \in Providers : pend[i][p] \subseteq D
PairTells(D) ==
    /\ pc # "idle" => \A p \in Here : snap[p] \subseteq lists[p] \cup D
    /\ pc \in {"right", "plan"} => Shrunk(Left) \subseteq D
    /\ pc = "plan" => Shrunk(Right) \subseteq D
    /\ \A p \in Providers : rem[p] \subseteq D
    /\ \A p \in Here : add[p] \subseteq lists[Partner(p)] \cup D
ChainEvidence == StoresTell(gone) /\ PairTells(gone)

\* All the pairs together do to the lists of all providers what SharedList
\* allows; and when all is quiet, they leave all lists equal, in whatever
\* order they come and although each pair undoes what another may just have
\* done.
Shared == INSTANCE SharedList WITH Sites <- Providers, items <- lists
ChainImplementsSharedList == Shared!LiveSharedSpec

\* A deletion by the user of a provider at the head of a line of pairs, of an
\* item that is in step, passes through all pairs of the runs that see it: no
\* pair plans to add the item back, as long as no fault cuts a run short.  This
\* is what the run's loading the baselines once is for.
HeadDeletionSticks ==
    [][pc = "plan" /\ pc' = "rem_left" /\ faults = 0 =>
          \A p \in Providers : add'[p] \cap known = {}]_vars

-----------------------------------------------------------------------------
(* Configurations in which pairs form a line; an assumption of a theorem *)

\* The pairs ps are a line: each but the first begins where the previous ends.
Line(ps, c) ==
    /\ c \in [1..(Len(ps) + 1) -> Providers]
    /\ \A i, j \in DOMAIN c : c[i] = c[j] => i = j
    /\ \A i \in 1..Len(ps) : ps[i] \in {<<c[i], c[i + 1]>>, <<c[i + 1], c[i]>>}

\* Wherever a provider takes part in the first pair alone, the pairs are a line
\* that starts with it.
HeadsOfLines ==
    \A ps \in Topologies, p \in Providers :
        (\A i \in DOMAIN ps : p \in {ps[i][1], ps[i][2]} <=> i = 1) =>
            \E c \in [1..(Len(ps) + 1) -> Providers] : Line(ps, c) /\ c[1] = p
=============================================================================
