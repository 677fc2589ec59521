------------------------------ MODULE SyncRuns ------------------------------
(***************************************************************************)
(* Starting, running and cancelling sync runs (api/syncAPI.py and          *)
(* cw_platform/run_control.py).                                            *)
(*                                                                         *)
(* A run is started by an HTTP request, by the scheduler or by a scrobble  *)
(* event, each in a thread of its own, and is executed by a worker thread. *)
(* "The run in progress" is whatever thread RUNNING_PROCS holds; a         *)
(* cancellation is a note in run_control which names a run by its id and   *)
(* which the worker looks at from time to time.  The handlers of the       *)
(* cancel button take no lock.                                             *)
(*                                                                         *)
(* One step of a thread is one access to the shared state.  Accesses under *)
(* SYNC_PROC_LOCK that no other thread can tell apart are one step.        *)
(* Left out: users' profiles, runs refused for lack of pairs, and all that *)
(* a run does (see TwoWaySync).                                            *)
(***************************************************************************)
EXTENDS Integers, FiniteSets

CONSTANTS
    Callers,     \* threads that start runs, "scheduler" among them
    Cancellers,  \* threads that handle the cancel button
    SameSecond,  \* runs may start within one second of the previous one
    MaxRuns,     \* bound: number of runs
    MaxManual,   \* bound: number of runs not started by the scheduler
    MaxCancels   \* bound: number of times cancel is pressed

ASSUME CallersAssumption == "scheduler" \in Callers /\ "nobody" \notin Callers
ASSUME SecondAssumption == SameSecond \in BOOLEAN
ASSUME BoundsAssumption == MaxRuns \in Nat /\ MaxManual \in Nat /\ MaxCancels \in Nat

Runs == 1..MaxRuns
NoRun == 0

\* A run's id is the second it started in; NoId is the absent id, NoTarget
\* the absence of a cancellation and AnyRun its wildcard "*".
Ids == 1..MaxRuns
NoId == 0
NoTarget == 0
AnyRun == -1

VARIABLES
    lock,       \* SYNC_PROC_LOCK: the caller that holds it
    reg,        \* RUNNING_PROCS["SYNC"]: a run, standing for its thread
    latest,     \* number of runs started so far
    manual,     \* of which not by the scheduler
    id,         \* id[r]: the run's id
    worker,     \* worker[r]: the next step of the run's thread
    outcome,    \* outcome[r]: how the run ended
    target,     \* run_control: the run that is to stop
    queueStop,  \* run_control: queue_stopped
    summary,    \* SUMMARY: run_id
    env,        \* os.environ: CW_RUN_ID
    handler,    \* handler[h]: the next step of a cancel handler
    presses,    \* number of times cancel was pressed
    \* history, read by the properties only
    asked,      \* runs since whose start request_cancel has been called
    accepted    \* runs whose cancellation was answered "ok"

control == <<target, queueStop, summary, env>>
runVars == <<lock, reg, latest, manual, id, worker, outcome, control, handler, presses,
             asked, accepted>>

\* Steps of a worker, from its first to its last; then it is dead.
Alive == {"clear", "reset", "name", "env", "work", "clear2", "pop"}

Idle == [pc |-> "idle", run |-> NoRun, id |-> NoId]

RunsInit ==
    /\ lock = "nobody" /\ reg = NoRun /\ latest = 0 /\ manual = 0
    /\ id = [r \in Runs |-> NoId]
    /\ worker = [r \in Runs |-> "none"]
    /\ outcome = [r \in Runs |-> "none"]
    /\ target = NoTarget /\ queueStop = FALSE /\ summary = NoId /\ env = NoId
    /\ handler = [h \in Cancellers |-> Idle]
    /\ presses = 0 /\ asked = {} /\ accepted = {}

\* _is_sync_running; the mutant always finds a run.
IsRunningMutant == TRUE
IsRunning == reg # NoRun /\ worker[reg] \in Alive

\* cancel_requested
CancelRequested ==
    /\ target # NoTarget
    /\ target = AnyRun \/ env = NoId \/ env = target

-----------------------------------------------------------------------------
(* api_run_sync *)

\* The mutant forgets the lock.
LockFreeMutant == TRUE
LockFree == lock = "nobody"

\* The request is accepted: still under the lock, the thread is started.  Two
\* runs started within one second have the same id.
Trigger(c) ==
    /\ LockFree /\ ~IsRunning /\ latest < MaxRuns
    /\ lock' = c
    /\ latest' = latest + 1
    /\ \/ id' = [id EXCEPT ![latest + 1] = latest + 1]
       \/ SameSecond /\ latest > 0 /\ id' = [id EXCEPT ![latest + 1] = id[latest]]
    /\ worker' = [worker EXCEPT ![latest + 1] = "clear"]
    /\ IF c = "scheduler"
       THEN UNCHANGED <<manual, queueStop>>
       ELSE /\ manual < MaxManual /\ manual' = manual + 1
            /\ queueStop' = FALSE
    /\ UNCHANGED <<reg, outcome, target, summary, env, handler, presses, asked, accepted>>

\* The thread is entered in RUNNING_PROCS, and the lock released.
Register(c) ==
    /\ lock = c
    /\ reg' = latest
    /\ lock' = "nobody"
    /\ UNCHANGED <<latest, manual, id, worker, outcome, control, handler, presses, asked, accepted>>

-----------------------------------------------------------------------------
(* _run_pairs_thread *)

\* Mutant: the run does not clear what an earlier cancellation left.
ClearCancelMutant == UNCHANGED target
ClearCancel == target' = NoTarget

WorkerAt(r, here, next) ==
    worker[r] = here /\ worker' = [worker EXCEPT ![r] = next]

WorkerClears(r) ==
    /\ WorkerAt(r, "clear", "reset") /\ ClearCancel
    /\ UNCHANGED <<reg, outcome, queueStop, summary, env>>

WorkerResets(r) ==
    /\ WorkerAt(r, "reset", "name") /\ summary' = NoId
    /\ UNCHANGED <<reg, outcome, target, queueStop, env>>

WorkerNames(r) ==
    /\ WorkerAt(r, "name", "env") /\ summary' = id[r]
    /\ UNCHANGED <<reg, outcome, target, queueStop, env>>

WorkerSetsEnv(r) ==
    /\ WorkerAt(r, "env", "work") /\ env' = id[r]
    /\ UNCHANGED <<reg, outcome, target, queueStop, summary>>

\* The run goes on until it is done or notices, at one of its checks, that it
\* is to stop; the last check comes after run_pairs has returned.
WorkerEnds(r) ==
    /\ WorkerAt(r, "work", "clear2")
    /\ outcome' = [outcome EXCEPT ![r] = IF CancelRequested THEN "cancelled" ELSE "done"]
    /\ UNCHANGED <<reg, control>>

WorkerClearsAgain(r) ==
    /\ WorkerAt(r, "clear2", "pop") /\ target' = NoTarget
    /\ UNCHANGED <<reg, outcome, queueStop, summary, env>>

WorkerPops(r) ==
    /\ WorkerAt(r, "pop", "dead") /\ reg' = NoRun
    /\ UNCHANGED <<outcome, control>>

WorkerStep(r) ==
    /\ \/ WorkerClears(r) \/ WorkerResets(r) \/ WorkerNames(r) \/ WorkerSetsEnv(r)
       \/ WorkerEnds(r) \/ WorkerClearsAgain(r) \/ WorkerPops(r)
    /\ UNCHANGED <<lock, latest, manual, id, handler, presses, asked, accepted>>

-----------------------------------------------------------------------------
(* api_cancel_sync *)

CancelChecks(h) ==
    /\ handler[h].pc = "idle" /\ presses < MaxCancels
    /\ presses' = presses + 1
    /\ handler' = [handler EXCEPT ![h] =
                      [pc |-> IF IsRunning THEN "read" ELSE "deny", run |-> reg, id |-> NoId]]
    /\ UNCHANGED <<lock, reg, latest, manual, id, worker, outcome, control, asked, accepted>>

\* "No sync running"
CancelDenied(h) ==
    /\ handler[h].pc = "deny"
    /\ target' = NoTarget
    /\ handler' = [handler EXCEPT ![h] = Idle]
    /\ UNCHANGED <<lock, reg, latest, manual, id, worker, outcome, queueStop, summary, env,
                   presses, asked, accepted>>

CancelReadsId(h) ==
    /\ handler[h].pc = "read"
    /\ handler' = [handler EXCEPT ![h].pc = "request", ![h].id = summary]
    /\ UNCHANGED <<lock, reg, latest, manual, id, worker, outcome, control, presses, asked, accepted>>

\* request_cancel
CancelRequests(h) ==
    /\ handler[h].pc = "request"
    /\ target' = IF handler[h].id = NoId THEN AnyRun ELSE handler[h].id
    /\ queueStop' = TRUE
    /\ handler' = [handler EXCEPT ![h] = Idle]
    /\ asked' = asked \cup {latest}
    /\ accepted' = accepted \cup {handler[h].run}
    /\ UNCHANGED <<lock, reg, latest, manual, id, worker, outcome, summary, env, presses>>

-----------------------------------------------------------------------------

\* consume_queue_stop, which the scheduler calls
ConsumeQueueStop ==
    /\ queueStop' = FALSE
    /\ UNCHANGED <<lock, reg, latest, manual, id, worker, outcome, target, summary, env,
                   handler, presses, asked, accepted>>

CancelStep(h) ==
    CancelChecks(h) \/ CancelDenied(h) \/ CancelReadsId(h) \/ CancelRequests(h)

RunsNext ==
    \/ \E c \in Callers : Trigger(c) \/ Register(c)
    \/ \E r \in Runs : WorkerStep(r)
    \/ \E h \in Cancellers : CancelStep(h)
    \/ ConsumeQueueStop

RunsSpec == RunsInit /\ [][RunsNext]_runVars

-----------------------------------------------------------------------------
(* Properties *)

\* Types of the state of run control, the sync API and its threads.
RunsTypeOK ==
    /\ lock \in Callers \cup {"nobody"}
    /\ reg \in Runs \cup {NoRun}
    /\ latest \in 0..MaxRuns /\ manual \in 0..MaxManual
    /\ id \in [Runs -> Ids \cup {NoId}]
    /\ worker \in [Runs -> Alive \cup {"none", "dead"}]
    /\ outcome \in [Runs -> {"none", "cancelled", "done"}]
    /\ target \in Ids \cup {NoTarget, AnyRun}
    /\ queueStop \in BOOLEAN
    /\ summary \in Ids \cup {NoId} /\ env \in Ids \cup {NoId}
    /\ handler \in [Cancellers -> [pc : {"idle", "deny", "read", "request"},
                                   run : Runs \cup {NoRun}, id : Ids \cup {NoId}]]
    /\ presses \in 0..MaxCancels
    /\ asked \subseteq Runs /\ accepted \subseteq Runs

\* No two workers are ever alive: two runs would apply plans made from the
\* same snapshots and overwrite each other's baselines.  The check, the start
\* of the thread and its registration are three steps, and a worker takes
\* itself out of RUNNING_PROCS whatever it holds.
OneRunAtATime ==
    \A r, q \in Runs : worker[r] \in Alive /\ worker[q] \in Alive => r = q

\* Why it holds: the worker alive is the latest, and it is either registered
\* or about to be, under the lock.
RunIsKnown ==
    \A r \in Runs :
        /\ worker[r] \in Alive => r = latest /\ (reg = r \/ lock # "nobody")
        /\ r > latest => worker[r] = "none"

\* A run is stopped only if cancel was requested since it was started: what
\* an earlier cancellation left behind, be it a wildcard or an id that the
\* new run happens to have, never stops it.
OldCancelStopsNoRun == \A r \in Runs : outcome[r] = "cancelled" => r \in asked

\* "Cancel requested; finishing the current step and stopping."
\* (syncAPI.py:2530): the run that was in progress when cancel was pressed,
\* and whose cancellation was answered "ok" while it was at work or before,
\* stops.
AcceptedCancelStands ==
    [][\A r \in Runs :
          worker[r] = "work" /\ r \in accepted /\ outcome'[r] # outcome[r]
              => outcome'[r] = "cancelled"]_runVars
=============================================================================
