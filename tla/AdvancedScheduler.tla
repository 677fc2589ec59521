------------------------- MODULE AdvancedScheduler -------------------------
(***************************************************************************)
(* The advanced mode of the scheduler (services/scheduling.py): the jobs   *)
(* and workflows whose time has come are run one after the other, while    *)
(* users start and cancel runs and change the schedule.                    *)
(*                                                                         *)
(* A unit is a job or a workflow.  What is executed is a step <<u, i>>: a  *)
(* job u is its only step <<u, 0>>, a workflow u has steps <<u, 1>>, ...   *)
(* The model covers one day after the time of every unit has come.         *)
(* Left out: capture and backup jobs (they follow, under the same wait,    *)
(* and have nothing to cancel), stopping the scheduler, webhooks, and runs *)
(* refused because their pair is missing.                                  *)
(***************************************************************************)
EXTENDS SyncRuns, Sequences, SequencesExt

CONSTANTS
    Jobs,        \* ids of jobs, numbers: their order is that of the ids
    After,       \* After[j]: the job that job j follows, or 0
    Flows,       \* ids of workflows
    FlowLength,  \* FlowLength[u]: number of steps of workflow u
    MaxRefresh   \* bound: number of changes of the schedule

ASSUME UnitsAssumption ==
    /\ Jobs \subseteq Nat \ {0} /\ Flows \subseteq Nat \ {0} /\ Jobs \cap Flows = {}
    /\ IsFiniteSet(Jobs) /\ IsFiniteSet(Flows)
    /\ After \in [Jobs -> Jobs \cup {0}] /\ FlowLength \in [Flows -> Nat]
    /\ MaxRefresh \in Nat

Units == Jobs \cup Flows
NoFlow == 0
Steps(u) == IF u \in Jobs THEN <<<<u, 0>>>> ELSE [i \in 1..FlowLength[u] |-> <<u, i>>]

VARIABLES
    conf,      \* units enabled in the schedule
    seeded,    \* _adv_seed_key: the units when the schedule was last seeded
    done,      \* _adv_last_key: units that count as handled for today
    sched,     \* where the scheduler's thread is
    batch,     \* due jobs of this pass
    executed,  \* jobs of this pass that were executed
    flow,      \* workflow in progress, NoFlow while the jobs are
    todo,      \* steps left of the jobs, or of the workflow in progress
    flows,     \* workflows of this pass still to come
    poke,      \* the event that interrupts a sleep
    refreshes,
    \* history, read by the properties only
    launched,  \* steps whose run was started
    cut        \* a cancellation was accepted while the step in hand waited for
               \*   the run in progress

passVars == <<batch, executed, flow, todo, flows>>
schedVars == <<conf, seeded, done, sched, passVars, poke, refreshes, launched, cut>>
vars == <<runVars, schedVars>>

SchedInit ==
    /\ RunsInit
    /\ conf = Units /\ seeded = Units /\ done = {}
    /\ sched = "loop" /\ batch = {} /\ executed = {} /\ flow = NoFlow
    /\ todo = <<>> /\ flows = <<>>
    /\ poke = FALSE /\ refreshes = 0
    /\ launched = {} /\ cut = FALSE

-----------------------------------------------------------------------------
(* The order of a pass *)

\* S in ascending order.
ById(S) ==
    [i \in 1..Cardinality(S) |-> CHOOSE u \in S : Cardinality({v \in S : v < u}) = i - 1]

\* j comes out, after out, if the job it follows is not among S or already out.
Look(S, out, j) ==
    IF j \notin ToSet(out) /\ (After[j] \notin S \/ After[j] \in ToSet(out))
    THEN Append(out, j)
    ELSE out

\* One sweep of _topo_order, over what has not come out yet.
Sweep(S, out) ==
    LET upTo[i \in 0..Cardinality(S)] ==
            IF i = 0 THEN out ELSE Look(S, upTo[i - 1], ById(S)[i])
    IN  upTo[Cardinality(S)]

\* _topo_order: sweeps until nothing comes out, then whatever is left.  The
\* mutant is the plain order of the ids.
TopoOrderMutant(S) == ById(S)
TopoOrder(S) ==
    LET swept[n \in 0..Cardinality(S)] == IF n = 0 THEN <<>> ELSE Sweep(S, swept[n - 1])
        out == swept[Cardinality(S)]
    IN  out \o ById(S \ ToSet(out))

\* _adv_seed_past_due_today: after a change of the schedule, what is past due
\* counts as handled.
Seeded == IF seeded # conf THEN done \cup conf ELSE done
Due == conf \ Seeded

BeginPass ==
    /\ sched = "loop"
    /\ seeded' = conf /\ done' = Seeded
    /\ IF Due = {}
       THEN UNCHANGED <<sched, passVars>>
       ELSE LET jobs == Due \cap Jobs
            IN  /\ sched' = "next" /\ flow' = NoFlow
                /\ batch' = jobs /\ executed' = {}
                /\ todo' = [i \in 1..Cardinality(jobs) |-> <<TopoOrder(jobs)[i], 0>>]
                /\ flows' = ById(Due \cap Flows)
    /\ cut' = FALSE
    /\ UNCHANGED <<runVars, conf, poke, refreshes, launched>>

\* The pass is over, or is given up; the main loop sleeps and begins again.
PassOver ==
    /\ sched' = "loop" /\ batch' = {} /\ executed' = {} /\ flow' = NoFlow
    /\ todo' = <<>> /\ flows' = <<>>

-----------------------------------------------------------------------------
(* One step of the pass *)

\* A job that follows one of the batch which has not been executed; the mutant
\* forgets that the other job may not be in the batch.
BlockedMutant(step) == flow = NoFlow /\ After[step[1]] \notin executed
Blocked(step) == flow = NoFlow /\ After[step[1]] \in batch \ executed

\* Mutant: the cancellation itself is cleared too.
SkipRestMutant ==
    /\ sched = "next" /\ todo # <<>> /\ queueStop
    /\ queueStop' = FALSE /\ target' = NoTarget
    /\ UNCHANGED <<lock, reg, latest, manual, id, worker, outcome, summary, env,
                   handler, presses, asked, accepted>>
    /\ todo' = <<>> /\ cut' = FALSE
    /\ UNCHANGED <<conf, seeded, done, sched, batch, executed, flow, flows, poke, refreshes,
                   launched>>

\* The user cancelled: the jobs left, or the steps left of the workflow, are
\* dropped.
SkipRest ==
    /\ sched = "next" /\ todo # <<>> /\ queueStop
    /\ ConsumeQueueStop
    /\ todo' = <<>> /\ cut' = FALSE
    /\ UNCHANGED <<conf, seeded, done, sched, batch, executed, flow, flows, poke, refreshes,
                   launched>>

TakeStep ==
    /\ sched = "next" /\ todo # <<>> /\ ~queueStop
    /\ IF Blocked(Head(todo))
       THEN todo' = Tail(todo) /\ UNCHANGED sched
       ELSE sched' = "wait" /\ UNCHANGED todo
    /\ cut' = FALSE
    /\ UNCHANGED <<runVars, conf, seeded, done, batch, executed, flow, flows, poke, refreshes,
                   launched>>

NextFlow ==
    /\ sched = "next" /\ todo = <<>>
    /\ done' = IF flow = NoFlow THEN done ELSE done \cup {flow}
    /\ IF flows = <<>>
       THEN PassOver
       ELSE /\ flow' = Head(flows) /\ flows' = Tail(flows) /\ todo' = Steps(Head(flows))
            /\ UNCHANGED <<sched, batch, executed>>
    /\ UNCHANGED <<runVars, conf, seeded, poke, refreshes, launched, cut>>

\* _sleep_or_poke clears the event as it wakes; after it comes a test of the
\* event which ends the pass.
Sleep ==
    /\ sched = "wait" /\ IsRunning
    /\ sched' = "woken" /\ poke' = FALSE
    /\ UNCHANGED <<runVars, conf, seeded, done, passVars, refreshes, launched, cut>>

Woken ==
    /\ sched = "woken"
    /\ IF poke THEN PassOver ELSE sched' = "wait" /\ UNCHANGED passVars
    /\ poke' = FALSE
    /\ UNCHANGED <<runVars, conf, seeded, done, refreshes, launched, cut>>

WaitOver ==
    /\ sched = "wait" /\ ~IsRunning
    /\ sched' = "start"
    /\ UNCHANGED <<runVars, conf, seeded, done, passVars, poke, refreshes, launched, cut>>

\* _adv_last_key[job] is set whether or not its run could be started; the
\* mutant sets it only when not.
MarkDoneMutant(step, ok) == IF flow = NoFlow /\ ~ok THEN done \cup {step[1]} ELSE done
MarkDone(step, ok) == IF flow = NoFlow THEN done \cup {step[1]} ELSE done

\* A workflow ends with a step that could not be started; the mutant goes on.
StepsLeftMutant(ok) == Tail(todo)
StepsLeft(ok) == IF flow = NoFlow \/ ok THEN Tail(todo) ELSE <<>>

StepOver(ok) ==
    /\ sched' = "next"
    /\ todo' = StepsLeft(ok)
    /\ done' = MarkDone(Head(todo), ok)
    /\ executed' = IF flow = NoFlow THEN executed \cup {Head(todo)[1]} ELSE executed

StepStarts ==
    /\ sched = "start" /\ sched' = "started"
    /\ Trigger("scheduler")
    /\ launched' = launched \cup {Head(todo)}
    /\ UNCHANGED <<conf, seeded, done, passVars, poke, refreshes, cut>>

StepStarted ==
    /\ sched = "started"
    /\ Register("scheduler")
    /\ StepOver(TRUE)
    /\ UNCHANGED <<conf, seeded, batch, flow, flows, poke, refreshes, launched, cut>>

\* "Sync already running": someone else was faster.
StepRefused ==
    /\ sched = "start" /\ LockFree /\ IsRunning
    /\ StepOver(FALSE)
    /\ UNCHANGED <<runVars, conf, seeded, batch, flow, flows, poke, refreshes, launched, cut>>

SchedulerStep ==
    \/ BeginPass \/ SkipRest \/ TakeStep \/ NextFlow
    \/ Sleep \/ Woken \/ WaitOver
    \/ StepStarts \/ StepStarted \/ StepRefused

-----------------------------------------------------------------------------
(* The others *)

\* A user disables a unit; refresh pokes the scheduler.
Refresh(u) ==
    /\ refreshes < MaxRefresh /\ refreshes' = refreshes + 1
    /\ u \in conf /\ conf' = conf \ {u}
    /\ poke' = TRUE
    /\ UNCHANGED <<runVars, seeded, done, sched, passVars, launched, cut>>

UserStarts(c) ==
    /\ c # "scheduler"
    /\ Trigger(c) \/ Register(c)
    /\ UNCHANGED schedVars

UserCancels(h) ==
    /\ CancelStep(h)
    /\ cut' = (cut \/ (accepted' # accepted /\ sched = "wait"))
    /\ UNCHANGED <<conf, seeded, done, sched, passVars, poke, refreshes, launched>>

RunSteps(r) == WorkerStep(r) /\ UNCHANGED schedVars

SchedNext ==
    \/ SchedulerStep
    \/ \E u \in Units : Refresh(u)
    \/ \E c \in Callers : UserStarts(c)
    \/ \E h \in Cancellers : UserCancels(h)
    \/ \E r \in Runs : RunSteps(r)

SchedSpec == SchedInit /\ [][SchedNext]_vars

\* Threads go on: the scheduler's, the workers' (every run ends), and those
\* that hold the lock.  Nothing is assumed of users.
FairSchedSpec ==
    /\ SchedSpec
    /\ WF_vars(SchedulerStep)
    /\ \A r \in Runs : WF_vars(RunSteps(r))
    /\ \A c \in Callers : WF_vars(UserStarts(c) /\ lock = c)

-----------------------------------------------------------------------------
(* Properties *)

\* Types of the state of the scheduler.
SchedTypeOK ==
    /\ RunsTypeOK
    /\ conf \subseteq Units /\ seeded \subseteq Units /\ done \subseteq Units
    /\ sched \in {"loop", "next", "wait", "woken", "start", "started"}
    /\ batch \subseteq Jobs /\ executed \subseteq batch
    /\ flow \in Flows \cup {NoFlow}
    /\ \A s \in ToSet(todo) : s[1] \in (IF flow = NoFlow THEN batch ELSE {flow})
    /\ ToSet(flows) \subseteq Flows
    /\ poke \in BOOLEAN /\ refreshes \in 0..MaxRefresh
    /\ cut \in BOOLEAN
    /\ sched \in {"wait", "woken", "start", "started"} => todo # <<>>

\* The scheduler does to the runs only what SyncRuns describes, so what holds
\* of every run started by anyone holds here.
RunsAreSyncRuns == RunsSpec

\* No step is started twice in a day, however often a pass is cancelled, given
\* up or begun again.
StartedOnce ==
    [][sched = "start" /\ sched' = "started" => Head(todo) \notin launched]_vars

\* A job never starts before the job it follows has been handled, and a step
\* of a workflow never before the previous one; across passes too.
PredecessorsFirst ==
    \A s \in launched :
        IF s[1] \in Jobs
        THEN After[s[1]] \in conf => After[s[1]] \in done
        ELSE s[2] > 1 => <<s[1], s[2] - 1>> \in launched

\* The order of a pass leaves nothing to the next one: no job is reached before
\* the job of its batch that it follows.
NothingPutOff == sched = "next" /\ todo # <<>> => ~Blocked(Head(todo))

\* Every unit of the schedule is handled in the end, whatever users do.
EventuallyHandled == <>[](conf \subseteq done)

\* "sync cancelled by user; skipping remaining jobs" (scheduling.py:1405):
\* after the run a job waits for was cancelled, the job is not started.
CancelStopsBatch == [][cut => launched' = launched]_vars
=============================================================================
