--------------------------- MODULE SyncRuns_proofs ---------------------------
(***************************************************************************)
(* Proofs about SyncRuns: type correctness, mutual exclusion of runs, and  *)
(* that no run is stopped by an old cancellation, for any number of        *)
(* threads, runs and cancellations; and about AdvancedScheduler: it does   *)
(* to the runs only what SyncRuns describes, its passes keep the order of  *)
(* the jobs, and it starts nothing twice, whatever the schedule.           *)
(***************************************************************************)
EXTENDS AdvancedScheduler, FiniteSetTheorems, WellFoundedInduction, TLAPS

USE CallersAssumption, SecondAssumption, BoundsAssumption

-----------------------------------------------------------------------------
(* The inductive invariant *)

\* Whoever holds the lock has started a run, and so has whoever registered one.
RegisteredRun == lock # "nobody" \/ reg # NoRun => latest \in Runs

\* A handler that is about to request has seen a run, so one was started.
Handlers ==
    \A h \in Cancellers :
        handler[h].pc \in {"read", "request"} => handler[h].run # NoRun /\ latest \in Runs

\* A run begins by clearing the target, and a target set after
\* that was asked for while the run was the latest.
TargetIsNew ==
    \A r \in Runs :
        worker[r] \in {"reset", "name", "env", "work"} /\ target # NoTarget => r \in asked

RunsInv ==
    /\ RunsTypeOK
    /\ RegisteredRun
    /\ Handlers
    /\ RunIsKnown
    /\ TargetIsNew
    /\ OldCancelStopsNoRun

-----------------------------------------------------------------------------
(* Type correctness *)

LEMMA InitType == RunsInit => RunsTypeOK
<1> SUFFICES ASSUME RunsInit PROVE RunsTypeOK
  OBVIOUS
<1> USE DEF RunsInit
<1>1. lock \in Callers \cup {"nobody"} /\ reg \in Runs \cup {NoRun}
  OBVIOUS
<1>2. latest \in 0..MaxRuns /\ manual \in 0..MaxManual /\ presses \in 0..MaxCancels
  OBVIOUS
<1>3. /\ id \in [Runs -> Ids \cup {NoId}]
      /\ worker \in [Runs -> Alive \cup {"none", "dead"}]
      /\ outcome \in [Runs -> {"none", "cancelled", "done"}]
  OBVIOUS
<1>4. /\ target \in Ids \cup {NoTarget, AnyRun} /\ queueStop \in BOOLEAN
      /\ summary \in Ids \cup {NoId} /\ env \in Ids \cup {NoId}
  OBVIOUS
<1>5. handler \in [Cancellers -> [pc : {"idle", "deny", "read", "request"},
                                 run : Runs \cup {NoRun}, id : Ids \cup {NoId}]]
  BY DEF Idle
<1>6. asked \subseteq Runs /\ accepted \subseteq Runs
  OBVIOUS
<1> QED BY <1>1, <1>2, <1>3, <1>4, <1>5, <1>6 DEF RunsTypeOK

LEMMA TriggerType ==
    ASSUME RunsTypeOK, NEW c \in Callers, Trigger(c)
    PROVE  RunsTypeOK'
<1>1. latest' \in 1..MaxRuns /\ latest' = latest + 1
  BY DEF RunsTypeOK, Trigger
<1>2. id' \in [Runs -> Ids \cup {NoId}]
  BY <1>1 DEF RunsTypeOK, Trigger, Runs, Ids, NoId
<1>3. worker' \in [Runs -> Alive \cup {"none", "dead"}]
  BY <1>1 DEF RunsTypeOK, Trigger, Runs, Alive
<1>4. manual' \in 0..MaxManual
  BY DEF RunsTypeOK, Trigger
<1>5. queueStop' \in BOOLEAN
  BY Zenon DEF RunsTypeOK, Trigger
<1> QED BY <1>1, <1>2, <1>3, <1>4, <1>5 DEF RunsTypeOK, Trigger

LEMMA RegisterType ==
    ASSUME RunsTypeOK, RegisteredRun, NEW c \in Callers, Register(c)
    PROVE  RunsTypeOK'
<1>1. reg' \in Runs \cup {NoRun}
  BY DEF RunsTypeOK, RegisteredRun, Register
<1> QED BY <1>1 DEF RunsTypeOK, Register, control

LEMMA WorkerStepType ==
    ASSUME RunsTypeOK, NEW r \in Runs, WorkerStep(r)
    PROVE  RunsTypeOK'
<1> USE DEF RunsTypeOK, WorkerStep, WorkerAt, Alive, control
<1>1. CASE WorkerClears(r)
  BY <1>1 DEF WorkerClears, ClearCancel
<1>2. CASE WorkerResets(r)
  BY <1>2 DEF WorkerResets
<1>3. CASE WorkerNames(r)
  BY <1>3 DEF WorkerNames
<1>4. CASE WorkerSetsEnv(r)
  BY <1>4 DEF WorkerSetsEnv
<1>5. CASE WorkerEnds(r)
  BY <1>5 DEF WorkerEnds
<1>6. CASE WorkerClearsAgain(r)
  BY <1>6 DEF WorkerClearsAgain
<1>7. CASE WorkerPops(r)
  BY <1>7 DEF WorkerPops
<1> QED BY <1>1, <1>2, <1>3, <1>4, <1>5, <1>6, <1>7

LEMMA CancelStepType ==
    ASSUME RunsTypeOK, Handlers, NEW h \in Cancellers, CancelStep(h)
    PROVE  RunsTypeOK'
<1>1. CASE CancelChecks(h)
  BY <1>1 DEF RunsTypeOK, CancelChecks, control, NoId
<1>2. CASE CancelDenied(h)
  BY <1>2 DEF RunsTypeOK, CancelDenied, Idle, NoRun, NoId
<1>3. CASE CancelReadsId(h)
  <2>1. handler' = [handler EXCEPT ![h] = [@ EXCEPT !.pc = "request", !.id = summary]]
    BY <1>3 DEF RunsTypeOK, CancelReadsId
  <2>2. handler' \in [Cancellers -> [pc : {"idle", "deny", "read", "request"},
                                     run : Runs \cup {NoRun}, id : Ids \cup {NoId}]]
    BY <2>1, ZenonT(60) DEF RunsTypeOK
  <2> QED BY <1>3, <2>2 DEF RunsTypeOK, CancelReadsId, control
<1>4. CASE CancelRequests(h)
  BY <1>4 DEF RunsTypeOK, CancelRequests, Handlers, Idle, NoRun, NoId
<1> QED BY <1>1, <1>2, <1>3, <1>4 DEF CancelStep

LEMMA StepType ==
    ASSUME RunsTypeOK, RegisteredRun, Handlers, [RunsNext]_runVars
    PROVE  RunsTypeOK'
<1>1. CASE \E c \in Callers : Trigger(c) \/ Register(c)
  BY <1>1, TriggerType, RegisterType
<1>2. CASE \E r \in Runs : WorkerStep(r)
  BY <1>2, WorkerStepType
<1>3. CASE \E h \in Cancellers : CancelStep(h)
  BY <1>3, CancelStepType
<1>4. CASE ConsumeQueueStop
  BY <1>4 DEF RunsTypeOK, ConsumeQueueStop
<1>5. CASE UNCHANGED runVars
  BY <1>5 DEF RunsTypeOK, runVars, control
<1> QED BY <1>1, <1>2, <1>3, <1>4, <1>5 DEF RunsNext

-----------------------------------------------------------------------------
(* Mutual exclusion *)

\* Nobody starts a run while a worker is alive: the lock is free, so the worker
\* is the thread that RUNNING_PROCS holds, and it is seen.
LEMMA NoneAlive ==
    ASSUME RunIsKnown, NEW c \in Callers, Trigger(c), NEW r \in Runs
    PROVE  worker[r] \notin Alive
BY DEF RunIsKnown, Trigger, LockFree, IsRunning, Runs, NoRun

LEMMA RunIsKnownStep ==
    ASSUME RunsTypeOK, RunIsKnown, [RunsNext]_runVars
    PROVE  RunIsKnown'
<1>1. ASSUME NEW c \in Callers, Trigger(c) PROVE RunIsKnown'
  <2> SUFFICES ASSUME NEW r \in Runs
               PROVE  /\ worker'[r] \in Alive => r = latest' /\ (reg' = r \/ lock' # "nobody")
                      /\ r > latest' => worker'[r] = "none"
    BY DEF RunIsKnown
  <2>1. worker[r] \notin Alive
    BY <1>1, NoneAlive
  <2>2. lock' # "nobody" /\ latest' = latest + 1 /\ latest \in Int /\ r \in Int
    BY <1>1 DEF Trigger, RunsTypeOK, Runs
  <2>3. worker'[r] = IF r = latest + 1 THEN "clear" ELSE worker[r]
    BY <1>1 DEF Trigger, RunsTypeOK
  <2> QED BY <2>1, <2>2, <2>3 DEF RunIsKnown
<1>2. ASSUME NEW c \in Callers, Register(c) PROVE RunIsKnown'
  BY <1>2 DEF RunIsKnown, Register
<1>3. ASSUME NEW r \in Runs, WorkerStep(r) PROVE RunIsKnown'
  <2> SUFFICES ASSUME NEW q \in Runs
               PROVE  /\ worker'[q] \in Alive => q = latest' /\ (reg' = q \/ lock' # "nobody")
                      /\ q > latest' => worker'[q] = "none"
    BY DEF RunIsKnown
  <2>1. /\ worker[r] \in Alive
        /\ worker'[q] = IF q = r THEN worker'[r] ELSE worker[q]
        /\ lock' = lock /\ latest' = latest
    BY <1>3 DEF WorkerStep, WorkerAt, WorkerClears, WorkerResets, WorkerNames, WorkerSetsEnv,
                WorkerEnds, WorkerClearsAgain, WorkerPops, RunsTypeOK, Alive
  <2>2. reg' = reg \/ worker'[r] = "dead"
    BY <1>3 DEF WorkerStep, WorkerAt, WorkerClears, WorkerResets, WorkerNames, WorkerSetsEnv,
                WorkerEnds, WorkerClearsAgain, WorkerPops, RunsTypeOK
  <2>3. r = latest /\ latest \in Int
    BY <2>1 DEF RunIsKnown, RunsTypeOK
  <2> QED BY <2>1, <2>2, <2>3 DEF RunIsKnown, Alive, Runs
<1>4. ASSUME NEW h \in Cancellers, CancelStep(h) PROVE RunIsKnown'
  BY <1>4 DEF RunIsKnown, CancelStep, CancelChecks, CancelDenied, CancelReadsId, CancelRequests
<1>5. CASE ConsumeQueueStop
  BY <1>5 DEF RunIsKnown, ConsumeQueueStop
<1>6. CASE UNCHANGED runVars
  BY <1>6 DEF RunIsKnown, runVars
<1> QED BY <1>1, <1>2, <1>3, <1>4, <1>5, <1>6 DEF RunsNext

-----------------------------------------------------------------------------
(* Whoever acts has a run to act on *)

LEMMA RegisteredRunStep ==
    ASSUME RunsTypeOK, RegisteredRun, [RunsNext]_runVars
    PROVE  RegisteredRun'
<1>1. ASSUME NEW c \in Callers, Trigger(c) PROVE RegisteredRun'
  BY <1>1 DEF RegisteredRun, Trigger, RunsTypeOK, Runs
<1>2. ASSUME NEW c \in Callers, Register(c) PROVE RegisteredRun'
  <2>1. latest \in Runs
    BY <1>2 DEF Register, RegisteredRun
  <2> QED BY <1>2, <2>1 DEF RegisteredRun, Register
<1>3. ASSUME NEW r \in Runs, WorkerStep(r) PROVE RegisteredRun'
  <2>1. lock' = lock /\ latest' = latest /\ (reg' = reg \/ reg' = NoRun)
    BY <1>3 DEF WorkerStep, WorkerClears, WorkerResets, WorkerNames, WorkerSetsEnv,
                WorkerEnds, WorkerClearsAgain, WorkerPops
  <2> QED BY <2>1 DEF RegisteredRun
<1>4. ASSUME NEW h \in Cancellers, CancelStep(h) PROVE RegisteredRun'
  BY <1>4 DEF RegisteredRun, CancelStep, CancelChecks, CancelDenied, CancelReadsId,
              CancelRequests
<1>5. CASE ConsumeQueueStop
  BY <1>5 DEF RegisteredRun, ConsumeQueueStop
<1>6. CASE UNCHANGED runVars
  BY <1>6 DEF RegisteredRun, runVars
<1> QED BY <1>1, <1>2, <1>3, <1>4, <1>5, <1>6 DEF RunsNext

LEMMA HandlersStep ==
    ASSUME RunsTypeOK, RegisteredRun, Handlers, [RunsNext]_runVars
    PROVE  Handlers'
<1>1. ASSUME NEW c \in Callers, Trigger(c) PROVE Handlers'
  BY <1>1 DEF Handlers, Trigger, RunsTypeOK, Runs
<1>2. ASSUME NEW c \in Callers, Register(c) PROVE Handlers'
  BY <1>2 DEF Handlers, Register
<1>3. ASSUME NEW r \in Runs, WorkerStep(r) PROVE Handlers'
  BY <1>3 DEF Handlers, WorkerStep
<1>4. ASSUME NEW h \in Cancellers, CancelStep(h) PROVE Handlers'
  <2> SUFFICES ASSUME NEW g \in Cancellers, handler'[g].pc \in {"read", "request"}
               PROVE  handler'[g].run # NoRun /\ latest' \in Runs
    BY DEF Handlers
  <2>1. latest' = latest /\ (g # h => handler'[g] = handler[g])
    BY <1>4 DEF CancelStep, CancelChecks, CancelDenied, CancelReadsId, CancelRequests,
                RunsTypeOK
  <2>2. CASE g # h
    BY <2>1, <2>2 DEF Handlers
  <2>3. CASE g = h /\ CancelChecks(h)
    <3>1. handler'[h] = [pc |-> IF IsRunning THEN "read" ELSE "deny", run |-> reg, id |-> NoId]
      BY <2>3 DEF CancelChecks, RunsTypeOK
    <3>2. reg # NoRun
      BY <2>3, <3>1 DEF IsRunning
    <3> QED BY <2>1, <2>3, <3>1, <3>2 DEF RegisteredRun
  <2>4. CASE g = h /\ CancelReadsId(h)
    <3>1. handler'[h].run = handler[h].run /\ handler[h].pc = "read"
      BY <2>4 DEF CancelReadsId, RunsTypeOK
    <3> QED BY <2>1, <2>4, <3>1 DEF Handlers
  <2>5. CASE g = h /\ (CancelDenied(h) \/ CancelRequests(h))
    <3>1. handler'[h].pc = "idle"
      BY <2>5 DEF CancelDenied, CancelRequests, Idle, RunsTypeOK
    <3> QED BY <2>5, <3>1
  <2> QED BY <1>4, <2>2, <2>3, <2>4, <2>5 DEF CancelStep
<1>5. CASE ConsumeQueueStop
  BY <1>5 DEF Handlers, ConsumeQueueStop
<1>6. CASE UNCHANGED runVars
  BY <1>6 DEF Handlers, runVars
<1> QED BY <1>1, <1>2, <1>3, <1>4, <1>5, <1>6 DEF RunsNext

-----------------------------------------------------------------------------
(* Old cancellations *)

\* A worker passes "clear" only by clearing the target.
LEMMA TargetIsNewStep ==
    ASSUME RunsTypeOK, RunIsKnown, TargetIsNew, [RunsNext]_runVars
    PROVE  TargetIsNew'
<1> DEFINE Cleared(r) == worker[r] \in {"reset", "name", "env", "work"}
<1>1. ASSUME NEW c \in Callers, Trigger(c) PROVE TargetIsNew'
  <2> SUFFICES ASSUME NEW r \in Runs, Cleared(r)' PROVE FALSE
    BY DEF TargetIsNew
  <2>1. worker[r] \notin Alive
    BY <1>1, NoneAlive
  <2>2. worker'[r] \in {"clear", worker[r]}
    BY <1>1 DEF Trigger, RunsTypeOK
  <2> QED BY <2>1, <2>2 DEF Alive
<1>2. ASSUME NEW c \in Callers, Register(c) PROVE TargetIsNew'
  BY <1>2 DEF TargetIsNew, Register, control
<1>3. ASSUME NEW r \in Runs, WorkerStep(r) PROVE TargetIsNew'
  <2> SUFFICES ASSUME NEW q \in Runs, Cleared(q)', target' # NoTarget PROVE q \in asked'
    BY DEF TargetIsNew
  <2>1. asked' = asked
    BY <1>3 DEF WorkerStep
  <2>2. target' = target /\ Cleared(q)
    <3>1. q # r => worker'[q] = worker[q]
      BY <1>3 DEF WorkerStep, WorkerAt, WorkerClears, WorkerResets, WorkerNames, WorkerSetsEnv,
                  WorkerEnds, WorkerClearsAgain, WorkerPops, RunsTypeOK
    <3>2. CASE WorkerClears(r) \/ WorkerClearsAgain(r)
      BY <3>2 DEF WorkerClears, WorkerClearsAgain, ClearCancel
    <3>3. CASE WorkerResets(r) \/ WorkerNames(r) \/ WorkerSetsEnv(r)
      BY <3>1, <3>3 DEF WorkerAt, WorkerResets, WorkerNames, WorkerSetsEnv, RunsTypeOK
    <3>4. CASE WorkerEnds(r) \/ WorkerPops(r)
      BY <3>1, <3>4 DEF WorkerAt, WorkerEnds, WorkerPops, RunsTypeOK, control
    <3> QED BY <1>3, <3>2, <3>3, <3>4 DEF WorkerStep
  <2> QED BY <2>1, <2>2 DEF TargetIsNew
<1>4. ASSUME NEW h \in Cancellers, CancelStep(h) PROVE TargetIsNew'
  <2>1. CASE CancelChecks(h) \/ CancelReadsId(h)
    BY <2>1 DEF TargetIsNew, CancelChecks, CancelReadsId, control
  <2>2. CASE CancelDenied(h)
    BY <2>2 DEF TargetIsNew, CancelDenied
  <2>3. CASE CancelRequests(h)
    BY <2>3 DEF TargetIsNew, CancelRequests, RunIsKnown, Alive
  <2> QED BY <1>4, <2>1, <2>2, <2>3 DEF CancelStep
<1>5. CASE ConsumeQueueStop
  BY <1>5 DEF TargetIsNew, ConsumeQueueStop
<1>6. CASE UNCHANGED runVars
  BY <1>6 DEF TargetIsNew, runVars, control
<1> QED BY <1>1, <1>2, <1>3, <1>4, <1>5, <1>6 DEF RunsNext

LEMMA OldCancelStep ==
    ASSUME RunsTypeOK, TargetIsNew, OldCancelStopsNoRun, [RunsNext]_runVars
    PROVE  OldCancelStopsNoRun'
<1>1. ASSUME NEW c \in Callers, Trigger(c) \/ Register(c) PROVE OldCancelStopsNoRun'
  BY <1>1 DEF OldCancelStopsNoRun, Trigger, Register
<1>2. ASSUME NEW r \in Runs, WorkerStep(r) PROVE OldCancelStopsNoRun'
  <2>1. asked' = asked
    BY <1>2 DEF WorkerStep
  <2>2. CASE WorkerEnds(r)
    <3>1. CancelRequested => r \in asked
      BY <2>2 DEF WorkerEnds, WorkerAt, CancelRequested, TargetIsNew
    <3>2. \A q \in Runs : outcome'[q] = "cancelled" =>
              outcome[q] = "cancelled" \/ (q = r /\ CancelRequested)
      BY <2>2 DEF WorkerEnds, RunsTypeOK
    <3> QED BY <2>1, <3>1, <3>2 DEF OldCancelStopsNoRun
  <2>3. CASE outcome' = outcome
    BY <2>1, <2>3 DEF OldCancelStopsNoRun
  <2> QED BY <1>2, <2>2, <2>3 DEF WorkerStep, WorkerClears, WorkerResets, WorkerNames,
                                  WorkerSetsEnv, WorkerClearsAgain, WorkerPops
<1>3. ASSUME NEW h \in Cancellers, CancelStep(h) PROVE OldCancelStopsNoRun'
  BY <1>3 DEF OldCancelStopsNoRun, CancelStep, CancelChecks, CancelDenied, CancelReadsId,
              CancelRequests
<1>4. CASE ConsumeQueueStop
  BY <1>4 DEF OldCancelStopsNoRun, ConsumeQueueStop
<1>5. CASE UNCHANGED runVars
  BY <1>5 DEF OldCancelStopsNoRun, runVars
<1> QED BY <1>1, <1>2, <1>3, <1>4, <1>5 DEF RunsNext

-----------------------------------------------------------------------------
(* The theorems *)

LEMMA InvInit == RunsInit => RunsInv
<1> SUFFICES ASSUME RunsInit PROVE RunsInv
  OBVIOUS
<1>1. RunsTypeOK
  BY InitType
<1>2. RegisteredRun
  BY DEF RunsInit, RegisteredRun
<1>3. Handlers
  BY DEF RunsInit, Handlers, Idle
<1>4. RunIsKnown /\ TargetIsNew /\ OldCancelStopsNoRun
  BY DEF RunsInit, RunIsKnown, TargetIsNew, OldCancelStopsNoRun, Alive
<1> QED BY <1>1, <1>2, <1>3, <1>4 DEF RunsInv

LEMMA InvStep == RunsInv /\ [RunsNext]_runVars => RunsInv'
BY StepType, RunIsKnownStep, RegisteredRunStep, HandlersStep, TargetIsNewStep, OldCancelStep
   DEF RunsInv

LEMMA RunsInvariant == RunsSpec => []RunsInv
BY InvInit, InvStep, PTL DEF RunsSpec

\* The state of run control, the sync API and its threads is well typed,
\* whatever the number of threads, runs and cancellations.
THEOREM RunsTypeCorrect == RunsSpec => []RunsTypeOK
<1>1. RunsInv => RunsTypeOK
  BY DEF RunsInv
<1> QED BY <1>1, RunsInvariant, PTL

\* No two sync runs are ever alive, although the check, the start of the thread
\* and its registration are steps of their own and the worker deregisters
\* itself without the lock.
THEOREM MutualExclusion == RunsSpec => []OneRunAtATime
<1>1. RunsInv => OneRunAtATime
  BY DEF RunsInv, RunIsKnown, OneRunAtATime
<1> QED BY <1>1, RunsInvariant, PTL

\* The run alive is the latest started, and is registered unless the caller
\* that started it still holds the lock.
THEOREM LatestIsKnown == RunsSpec => []RunIsKnown
<1>1. RunsInv => RunIsKnown
  BY DEF RunsInv
<1> QED BY <1>1, RunsInvariant, PTL

\* No run is stopped by a cancellation requested before it was started, even
\* when runs share an id or the cancellation is the wildcard.
THEOREM NoOldCancel == RunsSpec => []OldCancelStopsNoRun
<1>1. RunsInv => OldCancelStopsNoRun
  BY DEF RunsInv
<1> QED BY <1>1, RunsInvariant, PTL

-----------------------------------------------------------------------------
(* The scheduler *)

\* Every step of the system is a step of SyncRuns or leaves the runs alone.
LEMMA StepRefines ==
    ASSUME [SchedNext]_vars
    PROVE  [RunsNext]_runVars
<1>1. CASE BeginPass \/ TakeStep \/ NextFlow \/ Sleep \/ Woken \/ WaitOver \/ StepRefused
  BY <1>1 DEF BeginPass, TakeStep, NextFlow, Sleep, Woken, WaitOver, StepRefused
<1>2. CASE SkipRest
  BY <1>2 DEF SkipRest, RunsNext
<1>3. CASE StepStarts \/ StepStarted
  BY <1>3, CallersAssumption DEF StepStarts, StepStarted, RunsNext
<1>4. ASSUME NEW u \in Units, Refresh(u) PROVE UNCHANGED runVars
  BY <1>4 DEF Refresh
<1>5. ASSUME NEW c \in Callers, UserStarts(c) PROVE RunsNext
  BY <1>5 DEF UserStarts, RunsNext
<1>6. ASSUME NEW h \in Cancellers, UserCancels(h) PROVE RunsNext
  BY <1>6 DEF UserCancels, RunsNext
<1>7. ASSUME NEW r \in Runs, RunSteps(r) PROVE RunsNext
  BY <1>7 DEF RunSteps, RunsNext
<1>8. CASE UNCHANGED vars
  BY <1>8 DEF vars
<1> QED BY <1>1, <1>2, <1>3, <1>4, <1>5, <1>6, <1>7, <1>8 DEF SchedNext, SchedulerStep

\* The scheduler implements SyncRuns: as a caller of the sync API and a reader
\* of the queue stop it does nothing that SyncRuns does not describe.
THEOREM SchedulerImplementsRuns == SchedSpec => RunsAreSyncRuns
<1>1. SchedInit => RunsInit
  BY DEF SchedInit
<1>2. [SchedNext]_vars => [RunsNext]_runVars
  BY StepRefines
<1> QED BY <1>1, <1>2, PTL DEF SchedSpec, RunsAreSyncRuns, RunsSpec

\* However the scheduler, its users and its refreshes interleave, no two runs
\* are ever alive, and none is stopped by a cancellation older than itself.
THEOREM ScheduledRunsAreSafe == SchedSpec => [](OneRunAtATime /\ OldCancelStopsNoRun)
BY SchedulerImplementsRuns, MutualExclusion, NoOldCancel, PTL DEF RunsAreSyncRuns

-----------------------------------------------------------------------------
(* The order of a pass.  What it is about is defined by recursion on numbers;*)
(* induction takes the form: a set of numbers that is not empty has a least. *)

LEMMA LeastNumber ==
    ASSUME NEW T, T \subseteq Nat, T # {}
    PROVE  \E n \in T : \A m \in T : n <= m
<1>1. PICK n \in T : \A m \in T : <<m, n>> \notin OpToRel(<, Nat)
  BY NatLessThanWellFounded, WFMin, Zenon
<1>2. \A m \in T : ~(m < n)
  BY <1>1, Zenon DEF OpToRel
<1> QED BY <1>2

LEMMA UpTo ==
    ASSUME NEW N \in Nat, NEW T, 0 \in T, \A n \in 0..(N - 1) : n \in T => n + 1 \in T
    PROVE  0..N \subseteq T
<1> SUFFICES ASSUME NEW k \in 0..N, k \notin T PROVE FALSE
  OBVIOUS
<1> DEFINE Out == 0..N \ T
<1>1. Out \subseteq Nat /\ Out # {}
  OBVIOUS
<1> HIDE DEF Out
<1>2. PICK n \in Out : \A m \in Out : n <= m
  BY <1>1, LeastNumber
<1>3. n \in 0..N /\ n \notin T /\ \A m \in 0..N : m \notin T => n <= m
  BY <1>2 DEF Out
<1>4. n # 0
  BY <1>3
<1>5. n - 1 \in 0..(N - 1) /\ ~(n <= n - 1)
  BY <1>3, <1>4
<1>6. n - 1 \in T
  BY <1>3, <1>5
<1>7. (n - 1) + 1 = n
  BY <1>3
<1> QED BY <1>3, <1>5, <1>6, <1>7

\* N steps, each from where the last one led.
Iterates(N, X, x0, step, f) ==
    f \in [0..N -> X] /\ f[0] = x0 /\ \A i \in 1..N : f[i] = step[i][f[i - 1]]

LEMMA Iteration ==
    ASSUME NEW N \in Nat, NEW X, NEW x0 \in X, NEW step \in [1..N -> [X -> X]]
    PROVE  \E f : Iterates(N, X, x0, step, f)
<1> USE DEF Iterates
<1> DEFINE Leads(n, f) == Iterates(n, X, x0, step, f)
           Reached(n) == \E f : Leads(n, f)
           T == {n \in 0..N : Reached(n)}
<1>1. Reached(0)
  <2>1. Leads(0, [i \in 0..0 |-> x0])
    OBVIOUS
  <2> HIDE DEF Leads
  <2> QED BY <2>1
<1>2. ASSUME NEW n \in 0..(N - 1), Reached(n) PROVE Reached(n + 1)
  <2>1. PICK f : Leads(n, f)
    BY <1>2
  <2>2. PICK g : g = [i \in 0..(n + 1) |-> IF i = n + 1 THEN step[n + 1][f[n]] ELSE f[i]]
    OBVIOUS
  <2>3. f[n] \in X /\ n + 1 \in 1..N /\ step[n + 1] \in [X -> X]
    BY <2>1
  <2>4. g \in [0..(n + 1) -> X]
    BY <2>1, <2>2, <2>3
  <2>5. g[0] = x0 /\ g[n + 1] = step[n + 1][g[n]]
    BY <2>1, <2>2
  <2>6. \A i \in 1..n : g[i] = f[i] /\ g[i - 1] = f[i - 1]
    BY <2>2
  <2>7. \A i \in 1..n : g[i] = step[i][g[i - 1]]
    BY <2>1, <2>6
  <2>8. \A i \in 1..(n + 1) : g[i] = step[i][g[i - 1]]
    <3>1. \A i \in 1..(n + 1) : i \in 1..n \/ i = n + 1
      OBVIOUS
    <3> QED BY <2>5, <2>7, <3>1
  <2>9. Leads(n + 1, g)
    BY <2>4, <2>5, <2>8
  <2> HIDE DEF Leads
  <2> QED BY <2>9
<1> HIDE DEF Reached, Iterates
<1>3. 0 \in T /\ \A n \in 0..(N - 1) : n \in T => n + 1 \in T
  BY <1>1, <1>2
<1> HIDE DEF T
<1>4. 0..N \subseteq T
  BY <1>3, UpTo, Zenon
<1>5. Reached(N)
  BY <1>4 DEF T
<1> QED BY <1>5 DEF Reached

LEMMA ProperSubset ==
    ASSUME NEW T, IsFiniteSet(T), NEW U \in SUBSET T, NEW u \in T, u \notin U
    PROVE  /\ Cardinality(U) \in Nat /\ Cardinality(T) \in Nat
           /\ Cardinality(U) < Cardinality(T)
<1>1. Cardinality(T) \in Nat
  BY FS_CardinalityType
<1>2. Cardinality(U) \in Nat /\ Cardinality(U) <= Cardinality(T)
  BY FS_Subset, FS_CardinalityType
<1>3. Cardinality(U) # Cardinality(T)
  BY FS_Subset
<1> QED BY <1>1, <1>2, <1>3

\* The ids of S below u; u comes after that many.
Below(S, u) == {v \in S : v < u}

LEMMA Ranks ==
    ASSUME NEW S \in SUBSET Nat, IsFiniteSet(S)
    PROVE  /\ Cardinality(S) \in Nat
           /\ \A u \in S : Cardinality(Below(S, u)) \in 0..(Cardinality(S) - 1)
           /\ \A u, v \in S : u < v => Cardinality(Below(S, u)) < Cardinality(Below(S, v))
<1>1. Cardinality(S) \in Nat
  BY FS_CardinalityType
<1>2. ASSUME NEW T \in SUBSET S, NEW U \in SUBSET T, NEW u \in T, u \notin U
      PROVE  /\ Cardinality(U) \in Nat /\ Cardinality(T) \in Nat
             /\ Cardinality(U) < Cardinality(T)
  BY <1>2, FS_Subset, ProperSubset
<1>3. ASSUME NEW u \in S PROVE Cardinality(Below(S, u)) \in 0..(Cardinality(S) - 1)
  <2>1. Below(S, u) \in SUBSET S /\ u \notin Below(S, u) /\ S \in SUBSET S
    BY DEF Below
  <2>2. Cardinality(Below(S, u)) \in Nat /\ Cardinality(Below(S, u)) < Cardinality(S)
    BY <1>2, <2>1
  <2> QED BY <1>1, <2>2
<1>4. ASSUME NEW u \in S, NEW v \in S, u < v
      PROVE  Cardinality(Below(S, u)) < Cardinality(Below(S, v))
  <2>1. \A w \in S : w < u => w < v
    BY <1>4
  <2>2. u \in Below(S, v) /\ u \notin Below(S, u)
    BY <1>4 DEF Below
  <2>3. Below(S, v) \in SUBSET S /\ Below(S, u) \in SUBSET Below(S, v)
    BY <2>1 DEF Below
  <2> QED BY <1>2, <2>2, <2>3
<1> QED BY <1>1, <1>3, <1>4

\* ById(S) has every element of S once.
LEMMA ByIdOrders ==
    ASSUME NEW S \in SUBSET Nat, IsFiniteSet(S)
    PROVE  /\ Cardinality(S) \in Nat
           /\ ById(S) \in [1..Cardinality(S) -> S]
           /\ \A i, j \in 1..Cardinality(S) : ById(S)[i] = ById(S)[j] => i = j
           /\ \A u \in S : \E i \in 1..Cardinality(S) : ById(S)[i] = u
<1> DEFINE n == Cardinality(S)
           rank == [u \in S |-> Cardinality(Below(S, u)) + 1]
<1>1. n \in Nat /\ rank \in [S -> 1..n]
  BY Ranks
<1>2. \A u, v \in S : rank[u] = rank[v] => u = v
  <2>1. \A u, v \in S : u < v => rank[u] < rank[v]
    BY Ranks
  <2>2. \A u, v \in S : u = v \/ u < v \/ v < u
    OBVIOUS
  <2>3. \A u \in S : rank[u] \in Nat
    BY <1>1
  <2> HIDE DEF rank
  <2> QED BY <2>1, <2>2, <2>3
<1>3. \A i \in 1..n : \E u \in S : rank[u] = i
  <2>1. rank \in Injection(S, 1..n)
    BY <1>1, <1>2 DEF Injection, IsInjective
  <2>2. IsFiniteSet(1..n) /\ Cardinality(1..n) = n
    BY <1>1, FS_Interval
  <2>3. rank \in Surjection(S, 1..n)
    <3> HIDE DEF rank
    <3> QED BY <2>1, <2>2, FS_Injection
  <2> QED BY <2>3 DEF Surjection
<1>4. ASSUME NEW i \in 1..n PROVE ById(S)[i] \in S /\ rank[ById(S)[i]] = i
  <2>1. \E u \in S : Cardinality({v \in S : v < u}) = i - 1
    <3>1. PICK u \in S : rank[u] = i
      BY <1>3
    <3>2. Cardinality(Below(S, u)) \in Nat /\ Cardinality(Below(S, u)) + 1 = i
      BY <3>1, Ranks
    <3>3. Cardinality(Below(S, u)) = i - 1
      BY <3>2
    <3> QED BY <3>3 DEF Below
  <2>2. ById(S)[i] = CHOOSE u \in S : Cardinality({v \in S : v < u}) = i - 1
    BY DEF ById
  <2>3. ById(S)[i] \in S /\ Cardinality(Below(S, ById(S)[i])) = i - 1
    BY <2>1, <2>2 DEF Below
  <2>4. (i - 1) + 1 = i
    OBVIOUS
  <2> QED BY <2>3, <2>4
<1>5. ById(S) \in [1..n -> S]
  <2> DEFINE pick(i) == CHOOSE u \in S : Cardinality({v \in S : v < u}) = i - 1
  <2>1. ById(S) = [i \in 1..n |-> pick(i)]
    BY DEF ById
  <2>2. \A i \in 1..n : pick(i) = ById(S)[i]
    <3> HIDE DEF pick
    <3> QED BY <2>1
  <2> HIDE DEF pick
  <2> QED BY <1>4, <2>1, <2>2
<1>6. \A u \in S : rank[u] \in 1..n /\ ById(S)[rank[u]] = u
  BY <1>1, <1>2, <1>4
<1> HIDE DEF rank
<1> QED BY <1>1, <1>4, <1>5, <1>6

-----------------------------------------------------------------------------
(* What _topo_order yields *)

\* o is made of jobs of S, none twice, each after the job of S it follows.
InOrder(S, o) ==
    /\ o \in Seq(S)
    /\ \A i, j \in 1..Len(o) : o[i] = o[j] => i = j
    /\ \A i \in 1..Len(o) : After[o[i]] \in S => \E j \in 1..(i - 1) : o[j] = After[o[i]]

\* j may come out after o.
Ready(S, o, j) == After[j] \notin S \/ After[j] \in ToSet(o)

LEMMA SetOfSeq ==
    ASSUME NEW S, NEW o \in Seq(S)
    PROVE  /\ ToSet(o) \in SUBSET S
           /\ \A x : x \in ToSet(o) <=> \E i \in 1..Len(o) : o[i] = x
<1>1. Len(o) \in Nat /\ DOMAIN o = 1..Len(o) /\ \A i \in 1..Len(o) : o[i] \in S
  OBVIOUS
<1>2. ToSet(o) = {o[i] : i \in 1..Len(o)}
  BY <1>1, Zenon DEF ToSet
<1> QED BY <1>1, <1>2

LEMMA LookInOrder ==
    ASSUME NEW S \in SUBSET Jobs, NEW o, InOrder(S, o), NEW j \in S
    PROVE  /\ InOrder(S, Look(S, o, j))
           /\ ToSet(o) \subseteq ToSet(Look(S, o, j))
           /\ Ready(S, o, j) => j \in ToSet(Look(S, o, j))
<1> DEFINE a == Append(o, j)
<1>1. o \in Seq(S) /\ a \in Seq(S) /\ Len(o) \in Nat /\ Len(a) = Len(o) + 1
  BY DEF InOrder
<1>2. a[Len(o) + 1] = j /\ \A i \in 1..Len(o) : a[i] = o[i]
  BY <1>1
<1>3. \A i \in 1..Len(a) : i \in 1..Len(o) \/ i = Len(o) + 1
  BY <1>1
<1>4. /\ Len(o) + 1 \in 1..Len(a)
      /\ \A i \in 1..Len(o) : i \in 1..Len(a) /\ 1..(i - 1) \subseteq 1..Len(o)
  BY <1>1
<1> HIDE DEF a
<1>5. j \in ToSet(a) /\ ToSet(o) \subseteq ToSet(a)
  BY <1>1, <1>2, <1>4, SetOfSeq
<1>6. ASSUME j \notin ToSet(o), Ready(S, o, j) PROVE InOrder(S, a)
  <2>1. \A i \in 1..Len(o) : a[i] # j
    BY <1>1, <1>2, <1>6, SetOfSeq
  <2>2. \A i, k \in 1..Len(a) : a[i] = a[k] => i = k
    BY <1>2, <1>3, <2>1 DEF InOrder
  <2>3. \A i \in 1..Len(o) :
            After[a[i]] \in S => \E k \in 1..(i - 1) : a[k] = After[a[i]]
    BY <1>2, <1>4 DEF InOrder
  <2>4. After[j] \in S => \E k \in 1..((Len(o) + 1) - 1) : a[k] = After[j]
    <3>1. (Len(o) + 1) - 1 = Len(o)
      BY <1>1
    <3> QED BY <1>1, <1>2, <1>6, <3>1, SetOfSeq DEF Ready
  <2>5. \A i \in 1..Len(a) :
            After[a[i]] \in S => \E k \in 1..(i - 1) : a[k] = After[a[i]]
    BY <1>2, <1>3, <2>3, <2>4
  <2> QED BY <1>1, <2>2, <2>5 DEF InOrder
<1>7. Look(S, o, j) = IF j \notin ToSet(o) /\ Ready(S, o, j) THEN a ELSE o
  BY Zenon DEF Look, Ready, a
<1> QED BY <1>5, <1>6, <1>7

\* A sweep keeps the order, and every job that was ready comes out.
LEMMA SweepInOrder ==
    ASSUME NEW S \in SUBSET Jobs, NEW out, InOrder(S, out)
    PROVE  /\ InOrder(S, Sweep(S, out))
           /\ ToSet(out) \subseteq ToSet(Sweep(S, out))
           /\ \A j \in S : Ready(S, out, j) => j \in ToSet(Sweep(S, out))
<1> DEFINE n == Cardinality(S)
           nth(i) == ById(S)[i]
           upTo[i \in 0..n] == IF i = 0 THEN out ELSE Look(S, upTo[i - 1], nth(i))
           X == {o \in Seq(S) : InOrder(S, o)}
           step == [i \in 1..n |-> [o \in X |-> Look(S, o, nth(i))]]
<1>1. /\ n \in Nat /\ \A i \in 1..n : nth(i) \in S
      /\ \A j \in S : \E i \in 1..n : nth(i) = j
  <2>1. S \in SUBSET Nat /\ IsFiniteSet(S)
    BY UnitsAssumption, FS_Subset
  <2> QED BY <2>1, ByIdOrders
<1>2. Sweep(S, out) = upTo[n]
  BY Zenon DEF Sweep
<1> HIDE DEF n, nth
<1>3. out \in X /\ step \in [1..n -> [X -> X]]
  <2>1. \A i \in 1..n : \A o \in X : Look(S, o, nth(i)) \in X
    BY <1>1, LookInOrder DEF InOrder
  <2>2. out \in X
    BY DEF InOrder
  <2> HIDE DEF X
  <2> QED BY <2>1, <2>2
<1>4. PICK f : Iterates(n, X, out, step, f)
  <2> HIDE DEF X, step
  <2>1. n \in Nat
    BY <1>1
  <2> QED BY <1>3, <2>1, Iteration, Zenon
<1>5. f = [i \in 0..n |-> IF i = 0 THEN out ELSE Look(S, f[i - 1], nth(i))]
  <2> USE DEF Iterates
  <2>1. \A i \in 0..n : i # 0 => i \in 1..n /\ i - 1 \in 0..n
    BY <1>1
  <2>2. \A i \in 1..n : step[i][f[i - 1]] = Look(S, f[i - 1], nth(i))
    <3>1. \A i \in 1..n : f[i - 1] \in X
      <4>1. \A i \in 1..n : i - 1 \in 0..n
        BY <1>1
      <4> HIDE DEF X
      <4> QED BY <1>4, <4>1
    <3> HIDE DEF X
    <3> QED BY <3>1
  <2>3. \A i \in 0..n : f[i] = IF i = 0 THEN out ELSE Look(S, f[i - 1], nth(i))
    <3> HIDE DEF X, step
    <3> QED BY <1>4, <2>1, <2>2
  <2> HIDE DEF X, step
  <2> QED BY <1>4, <2>3
<1>6. upTo = [i \in 0..n |-> IF i = 0 THEN out ELSE Look(S, upTo[i - 1], nth(i))]
  <2> HIDE DEF X, step
  <2> QED BY <1>5, Zenon DEF upTo
<1> HIDE DEF upTo, X, step
<1>7. upTo[0] = out /\ \A i \in 0..(n - 1) : upTo[i + 1] = Look(S, upTo[i], nth(i + 1))
  <2>1. 0 \in 0..n
    BY <1>1
  <2>2. \A i \in 0..(n - 1) : i + 1 \in 0..n /\ i + 1 # 0 /\ (i + 1) - 1 = i
    BY <1>1
  <2> QED BY <1>6, <2>1, <2>2
<1> DEFINE Upto(i) == /\ InOrder(S, upTo[i]) /\ ToSet(out) \subseteq ToSet(upTo[i])
                      /\ \A k \in 1..i : Ready(S, out, nth(k)) => nth(k) \in ToSet(upTo[i])
           T == {i \in 0..n : Upto(i)}
<1>8. Upto(0)
  BY <1>7
<1>9. ASSUME NEW i \in 0..(n - 1), Upto(i) PROVE Upto(i + 1)
  <2>1. nth(i + 1) \in S /\ \A k \in 1..(i + 1) : k \in 1..i \/ k = i + 1
    BY <1>1
  <2>2. /\ InOrder(S, upTo[i + 1]) /\ ToSet(upTo[i]) \subseteq ToSet(upTo[i + 1])
        /\ Ready(S, upTo[i], nth(i + 1)) => nth(i + 1) \in ToSet(upTo[i + 1])
    BY <1>7, <1>9, <2>1, LookInOrder
  <2>3. Ready(S, out, nth(i + 1)) => Ready(S, upTo[i], nth(i + 1))
    BY <1>9 DEF Ready
  <2> QED BY <1>9, <2>1, <2>2, <2>3
<1> HIDE DEF Upto
<1>10. 0 \in T /\ \A i \in 0..(n - 1) : i \in T => i + 1 \in T
  BY <1>1, <1>8, <1>9
<1> HIDE DEF T
<1>11. n \in T
  <2>1. 0..n \subseteq T
    BY <1>1, <1>10, UpTo, Zenon
  <2> QED BY <1>1, <2>1
<1> QED BY <1>1, <1>2, <1>11 DEF T, Upto

\* A sequence of elements of S, none twice, which has them all, is as long as S.
LEMMA LengthOfEnumeration ==
    ASSUME NEW S, NEW o \in Seq(S), ToSet(o) = S, \A i, j \in 1..Len(o) : o[i] = o[j] => i = j
    PROVE  Len(o) = Cardinality(S)
<1>1. Len(o) \in Nat /\ o \in [1..Len(o) -> S]
  OBVIOUS
<1>2. o \in Bijection(1..Len(o), S)
  <2>1. \A x \in S : \E i \in 1..Len(o) : o[i] = x
    BY SetOfSeq
  <2> QED BY <1>1, <2>1 DEF Bijection, Injection, IsInjective, Surjection
<1>3. IsFiniteSet(1..Len(o)) /\ Cardinality(1..Len(o)) = Len(o)
  BY <1>1, FS_Interval
<1>4. ExistsBijection(1..Len(o), S)
  BY <1>2, Zenon DEF ExistsBijection
<1> QED BY <1>3, <1>4, FS_Bijection

\* The jobs do not follow one another in a circle.
Acyclic == \E r \in [Jobs -> Nat] : \A j \in Jobs : After[j] \in Jobs => r[After[j]] < r[j]

\* Unless all of them are out, one of the jobs of S is ready.
LEMMA OneIsReady ==
    ASSUME Acyclic, NEW S \in SUBSET Jobs, NEW o, S \ ToSet(o) # {}
    PROVE  \E j \in S \ ToSet(o) : Ready(S, o, j)
<1>1. PICK r \in [Jobs -> Nat] : \A j \in Jobs : After[j] \in Jobs => r[After[j]] < r[j]
  BY DEF Acyclic
<1> DEFINE T == {r[j] : j \in S \ ToSet(o)}
<1>2. T \subseteq Nat /\ T # {}
  OBVIOUS
<1>3. PICK j \in S \ ToSet(o) : \A k \in S \ ToSet(o) : r[j] <= r[k]
  <2> HIDE DEF T
  <2>1. PICK n \in T : \A m \in T : n <= m
    BY <1>2, LeastNumber
  <2> QED BY <2>1 DEF T
<1>4. After[j] \notin S \ ToSet(o)
  <2>1. j \in Jobs /\ \A k \in S \ ToSet(o) : k \in Jobs /\ r[k] \in Nat /\ r[j] \in Nat
    OBVIOUS
  <2> QED BY <1>1, <1>3, <2>1
<1> QED BY <1>3, <1>4 DEF Ready

\* _topo_order lists every job of S once; unless jobs follow one another in a
\* circle, each comes after the one it follows.
LEMMA TopoOrderOrders ==
    ASSUME NEW S \in SUBSET Jobs
    PROVE  /\ TopoOrder(S) \in [1..Cardinality(S) -> S] /\ Cardinality(S) \in Nat
           /\ \A i, j \in 1..Cardinality(S) : TopoOrder(S)[i] = TopoOrder(S)[j] => i = j
           /\ Acyclic => \A i \in 1..Cardinality(S) : After[TopoOrder(S)[i]] \in S =>
                            \E j \in 1..(i - 1) : TopoOrder(S)[j] = After[TopoOrder(S)[i]]
<1> DEFINE n == Cardinality(S)
           swept[m \in 0..n] == IF m = 0 THEN <<>> ELSE Sweep(S, swept[m - 1])
           out == swept[n]
           X == {o \in Seq(S) : InOrder(S, o)}
           step == [i \in 1..n |-> [o \in X |-> Sweep(S, o)]]
<1>1. IsFiniteSet(S) /\ n \in Nat /\ S \in SUBSET Nat
  BY UnitsAssumption, FS_Subset, FS_CardinalityType
<1>2. TopoOrder(S) = out \o ById(S \ ToSet(out))
  BY Zenon DEF TopoOrder
<1> HIDE DEF n
<1>3. <<>> \in X /\ step \in [1..n -> [X -> X]]
  <2>1. \A o \in X : Sweep(S, o) \in X
    BY SweepInOrder DEF InOrder
  <2>2. <<>> \in X
    BY DEF InOrder
  <2> HIDE DEF X
  <2> QED BY <2>1, <2>2
<1>4. PICK f : Iterates(n, X, <<>>, step, f)
  <2> HIDE DEF X, step
  <2>1. n \in Nat
    BY <1>1
  <2> QED BY <1>3, <2>1, Iteration, Zenon
<1>5. f = [i \in 0..n |-> IF i = 0 THEN <<>> ELSE Sweep(S, f[i - 1])]
  <2> USE DEF Iterates
  <2>1. \A i \in 0..n : i # 0 => i \in 1..n /\ i - 1 \in 0..n
    BY <1>1
  <2>2. \A i \in 1..n : step[i][f[i - 1]] = Sweep(S, f[i - 1])
    <3>1. \A i \in 1..n : f[i - 1] \in X
      <4>1. \A i \in 1..n : i - 1 \in 0..n
        BY <1>1
      <4> HIDE DEF X
      <4> QED BY <1>4, <4>1
    <3> HIDE DEF X
    <3> QED BY <3>1
  <2>3. \A i \in 0..n : f[i] = IF i = 0 THEN <<>> ELSE Sweep(S, f[i - 1])
    <3> HIDE DEF X, step
    <3> QED BY <1>4, <2>1, <2>2
  <2> HIDE DEF X, step
  <2> QED BY <1>4, <2>3
<1>6. swept = [i \in 0..n |-> IF i = 0 THEN <<>> ELSE Sweep(S, swept[i - 1])]
  <2> HIDE DEF X, step
  <2> QED BY <1>5, Zenon DEF swept
<1> HIDE DEF swept, X, step
<1>7. swept[0] = <<>> /\ \A i \in 0..(n - 1) : swept[i + 1] = Sweep(S, swept[i])
  <2>1. 0 \in 0..n
    BY <1>1
  <2>2. \A i \in 0..(n - 1) : i + 1 \in 0..n /\ i + 1 # 0 /\ (i + 1) - 1 = i
    BY <1>1
  <2> QED BY <1>6, <2>1, <2>2
<1> DEFINE Swept(i) == /\ InOrder(S, swept[i])
                       /\ Acyclic /\ S \ ToSet(swept[i]) # {} => Cardinality(ToSet(swept[i])) >= i
           T == {i \in 0..n : Swept(i)}
<1>8. Swept(0)
  <2>1. InOrder(S, <<>>) /\ ToSet(<<>>) = {}
    BY DEF InOrder, ToSet
  <2>2. Cardinality({}) = 0
    BY FS_EmptySet
  <2>3. InOrder(S, swept[0]) /\ Cardinality(ToSet(swept[0])) = 0
    BY <1>7, <2>1, <2>2, Zenon
  <2> QED BY <2>3
<1>9. ASSUME NEW i \in 0..(n - 1), Swept(i) PROVE Swept(i + 1)
  <2>1. /\ InOrder(S, swept[i + 1]) /\ ToSet(swept[i]) \subseteq ToSet(swept[i + 1])
        /\ \A j \in S : Ready(S, swept[i], j) => j \in ToSet(swept[i + 1])
    BY <1>7, <1>9, SweepInOrder
  <2>2. ASSUME Acyclic, S \ ToSet(swept[i + 1]) # {}
        PROVE  Cardinality(ToSet(swept[i + 1])) >= i + 1
    <3>1. S \ ToSet(swept[i]) # {}
      BY <2>1, <2>2
    <3>2. PICK j \in S \ ToSet(swept[i]) : Ready(S, swept[i], j)
      BY <2>2, <3>1, OneIsReady
    <3>3. j \in ToSet(swept[i + 1])
      BY <2>1, <3>2
    <3>4. ToSet(swept[i + 1]) \in SUBSET S
      BY <2>1, SetOfSeq DEF InOrder
    <3>5. /\ Cardinality(ToSet(swept[i])) \in Nat /\ Cardinality(ToSet(swept[i + 1])) \in Nat
          /\ Cardinality(ToSet(swept[i])) < Cardinality(ToSet(swept[i + 1]))
      <4>1. IsFiniteSet(ToSet(swept[i + 1]))
        BY <1>1, <3>4, FS_Subset
      <4> QED BY <2>1, <3>2, <3>3, <4>1, ProperSubset
    <3>6. Cardinality(ToSet(swept[i])) >= i
      BY <1>9, <2>2, <3>1
    <3>7. i \in Nat
      BY <1>1
    <3> QED BY <3>5, <3>6, <3>7
  <2> QED BY <2>1, <2>2
<1> HIDE DEF Swept
<1>10. 0 \in T /\ \A i \in 0..(n - 1) : i \in T => i + 1 \in T
  BY <1>1, <1>8, <1>9
<1> HIDE DEF T
<1>11. InOrder(S, out) /\ (Acyclic /\ S \ ToSet(out) # {} => Cardinality(ToSet(out)) >= n)
  <2>1. 0..n \subseteq T
    BY <1>1, <1>10, UpTo, Zenon
  <2>2. n \in T
    BY <1>1, <2>1
  <2> QED BY <2>2 DEF T, Swept
<1> HIDE DEF out
<1> DEFINE left == S \ ToSet(out)
           rest == ById(left)
           l == Cardinality(left)
           order == out \o rest
<1>12. out \in Seq(S) /\ ToSet(out) \in SUBSET S /\ Len(out) \in Nat
  BY <1>11, SetOfSeq DEF InOrder
<1>13. /\ l \in Nat /\ rest \in [1..l -> left]
       /\ \A i, j \in 1..l : rest[i] = rest[j] => i = j
       /\ \A u \in left : \E i \in 1..l : rest[i] = u
  <2>1. left \in SUBSET Nat /\ IsFiniteSet(left)
    BY <1>1, FS_Subset
  <2> QED BY <2>1, ByIdOrders
<1> HIDE DEF rest, l
<1>14. rest \in Seq(S) /\ Len(rest) = l
  BY <1>13
<1>15. /\ order \in Seq(S) /\ Len(order) = Len(out) + l
       /\ \A i \in 1..Len(out) : order[i] = out[i]
       /\ \A i \in 1..l : order[Len(out) + i] = rest[i]
  BY <1>12, <1>13, <1>14
<1> HIDE DEF order
<1>16. \A i \in 1..Len(order) :
           i \in 1..Len(out) \/ (i - Len(out) \in 1..l /\ i = Len(out) + (i - Len(out)))
  BY <1>12, <1>13, <1>15
<1>17. \A i, j \in 1..Len(order) : order[i] = order[j] => i = j
  <2>1. \A i \in 1..Len(out) : order[i] \in ToSet(out)
    BY <1>12, <1>15, SetOfSeq
  <2>2. \A i \in 1..l : order[Len(out) + i] \notin ToSet(out)
    BY <1>13, <1>15
  <2>3. \A i, j \in 1..Len(out) : order[i] = order[j] => i = j
    BY <1>11, <1>15 DEF InOrder
  <2>4. ASSUME NEW i \in 1..l, NEW j \in 1..l, order[Len(out) + i] = order[Len(out) + j]
        PROVE  i = j
    <3>1. order[Len(out) + i] = rest[i] /\ order[Len(out) + j] = rest[j]
      BY <1>15, Zenon
    <3>2. rest[i] = rest[j]
      BY <2>4, <3>1, Zenon
    <3> QED BY <1>13, <3>2, Zenon
  <2> QED BY <1>12, <1>16, <2>1, <2>2, <2>3, <2>4
<1>18. ToSet(order) = S
  <2>1. ASSUME NEW u \in S PROVE \E i \in 1..Len(order) : order[i] = u
    <3>1. CASE u \in ToSet(out)
      <4>1. PICK i \in 1..Len(out) : out[i] = u
        BY <1>12, <3>1, SetOfSeq
      <4>2. i \in 1..Len(order)
        BY <1>12, <1>13, <1>15
      <4> QED BY <1>15, <4>1, <4>2
    <3>2. CASE u \in left
      <4>1. PICK i \in 1..l : rest[i] = u
        BY <1>13, <3>2
      <4>2. Len(out) + i \in 1..Len(order)
        BY <1>12, <1>13, <1>15
      <4> QED BY <1>15, <4>1, <4>2
    <3> QED BY <3>1, <3>2
  <2>2. order \in Seq(S)
    BY <1>15
  <2>3. ToSet(order) \in SUBSET S /\ \A u \in S : u \in ToSet(order)
    BY <2>1, <2>2, SetOfSeq, Zenon
  <2> QED BY <2>3
<1>19. Len(order) = n
  BY <1>15, <1>17, <1>18, LengthOfEnumeration DEF n
<1>20. ASSUME Acyclic, NEW i \in 1..n, After[order[i]] \in S
       PROVE  \E j \in 1..(i - 1) : order[j] = After[order[i]]
  <2>1. left = {}
    <3>1. SUFFICES ASSUME left # {} PROVE FALSE
      OBVIOUS
    <3>2. Cardinality(ToSet(out)) >= n
      BY <1>11, <1>20, <3>1
    <3>3. Cardinality(ToSet(out)) \in Nat /\ Cardinality(ToSet(out)) < n
      <4>1. PICK u \in S : u \notin ToSet(out)
        BY <3>1
      <4> QED BY <1>1, <1>12, <4>1, ProperSubset DEF n
    <3> QED BY <1>1, <3>2, <3>3
  <2>2. l = 0
    BY <2>1, FS_EmptySet DEF l
  <2>3. i \in 1..Len(out) /\ \A j \in 1..(i - 1) : j \in 1..Len(out)
    BY <1>12, <1>15, <1>19, <2>2
  <2> QED BY <1>11, <1>15, <1>20, <2>3 DEF InOrder
<1>21. order \in [1..n -> S]
  BY <1>15, <1>19
<1> QED BY <1>1, <1>2, <1>17, <1>19, <1>20, <1>21 DEF n, order, rest

-----------------------------------------------------------------------------
(* The scheduler: the inductive invariant *)

\* Types of the scheduler's own state.
SchedulerTypes ==
    /\ conf \subseteq seeded /\ seeded \subseteq Units /\ done \subseteq Units
    /\ sched \in {"loop", "next", "wait", "woken", "start", "started"}
    /\ batch \subseteq Jobs /\ executed \subseteq batch /\ executed \subseteq done
    /\ flow \in Flows \cup {NoFlow}
    /\ todo \in Seq(Units \X Nat) /\ flows \in Seq(Flows)
    /\ \A i \in 1..Len(todo) : IF flow = NoFlow THEN todo[i][1] \in batch /\ todo[i][2] = 0
                                                ELSE todo[i][1] = flow
    /\ poke \in BOOLEAN /\ refreshes \in 0..MaxRefresh /\ cut \in BOOLEAN
    /\ sched \in {"wait", "woken", "start", "started"} => todo # <<>>

\* What is left of a pass: no step twice, each step of a workflow after the
\* previous one, no workflow twice.
LeftInOrder ==
    /\ \A i, j \in 1..Len(todo) : todo[i] = todo[j] => i = j
    /\ \A i \in 1..Len(todo) :
           todo[i][2] > 1 =>
               \/ <<todo[i][1], todo[i][2] - 1>> \in launched
               \/ \E j \in 1..(i - 1) : todo[j] = <<todo[i][1], todo[i][2] - 1>>
    /\ \A i, j \in 1..Len(flows) : flows[i] = flows[j] => i = j
    /\ \A i \in 1..Len(flows) : flows[i] # flow

\* Nothing that is left was started, save the step being started.
LeftIsNew ==
    /\ \A i \in 1..Len(todo) : todo[i] \in launched => sched = "started" /\ i = 1
    /\ sched = "started" => todo[1] \in launched
    /\ \A i \in 1..Len(flows) : \A s \in launched : s[1] # flows[i]

\* What was started counts as handled, or will when the pass is over: because
\* it is in hand, or because the schedule was changed and the next pass seeds.
StartedIsHandled ==
    /\ \A s \in launched :
           \/ s[1] \in done \/ s[1] \notin conf \/ conf # seeded
           \/ sched # "loop" /\ flow # NoFlow /\ s[1] = flow
           \/ sched = "started" /\ s = todo[1]
    /\ sched = "woken" /\ poke => conf # seeded

\* During a pass, a job of the schedule is handled or one of the batch; the job
\* in hand follows none of those left.
BatchIsDue ==
    /\ sched # "loop" => conf \cap Jobs \subseteq done \cup batch
    /\ sched \in {"wait", "woken", "start"} => ~Blocked(todo[1])

SchedInv ==
    SchedulerTypes /\ LeftInOrder /\ LeftIsNew /\ StartedIsHandled /\ BatchIsDue
    /\ PredecessorsFirst

\* Of the batch, every job that one left follows was executed or is left before
\* it.
BatchInOrder ==
    flow = NoFlow =>
        \A i \in 1..Len(todo) :
            After[todo[i][1]] \in batch =>
                \/ After[todo[i][1]] \in executed
                \/ \E j \in 1..(i - 1) : todo[j][1] = After[todo[i][1]]

LEMMA TailAt ==
    ASSUME NEW X, NEW s \in Seq(X), s # <<>>
    PROVE  /\ Tail(s) \in Seq(X) /\ Len(s) \in Nat /\ Len(s) >= 1 /\ Len(Tail(s)) = Len(s) - 1
           /\ Head(s) = s[1] /\ s[1] \in X
           /\ \A i \in 1..Len(Tail(s)) :
                  i + 1 \in 1..Len(s) /\ i + 1 # 1 /\ Tail(s)[i] = s[i + 1]
<1>1. Len(s) \in Nat /\ Len(s) # 0 /\ \A i \in 1..Len(s) : s[i] \in X
  OBVIOUS
<1>2. Tail(s) \in Seq(X) /\ Len(Tail(s)) = Len(s) - 1 /\ Head(s) = s[1]
  BY <1>1
<1>3. \A i \in 1..Len(Tail(s)) : Tail(s)[i] = s[i + 1]
  BY <1>1
<1> QED BY <1>1, <1>2, <1>3

LEMMA EmptyTodo ==
    ASSUME NEW X
    PROVE  <<>> \in Seq(X) /\ Len(<<>>) = 0 /\ 1..Len(<<>>) = {}
OBVIOUS

LEMMA UnitFacts ==
    /\ 0 \notin Jobs /\ NoFlow \notin Flows /\ NoFlow \notin Units
    /\ \A u \in Flows : u \notin Jobs /\ u # NoFlow /\ FlowLength[u] \in Nat
    /\ \A j \in Jobs : After[j] \in Jobs \/ After[j] \notin Units
    /\ Jobs \subseteq Units /\ Flows \subseteq Units
BY UnitsAssumption DEF Units, NoFlow

LEMMA SchedInitInv == SchedInit => SchedInv /\ BatchInOrder
<1> SUFFICES ASSUME SchedInit PROVE SchedInv /\ BatchInOrder
  OBVIOUS
<1>1. /\ todo = <<>> /\ flows = <<>> /\ launched = {} /\ sched = "loop"
      /\ 1..Len(todo) = {} /\ 1..Len(flows) = {}
  BY EmptyTodo DEF SchedInit
<1>2. SchedulerTypes
  <2>1. todo \in Seq(Units \X Nat) /\ flows \in Seq(Flows) /\ refreshes \in 0..MaxRefresh
    BY <1>1, EmptyTodo, UnitsAssumption DEF SchedInit
  <2> QED BY <1>1, <2>1 DEF SchedInit, SchedulerTypes
<1>3. LeftInOrder /\ LeftIsNew /\ BatchInOrder
  BY <1>1, Zenon DEF LeftInOrder, LeftIsNew, BatchInOrder
<1>4. StartedIsHandled /\ BatchIsDue /\ PredecessorsFirst
  BY <1>1 DEF StartedIsHandled, BatchIsDue, PredecessorsFirst
<1> QED BY <1>2, <1>3, <1>4 DEF SchedInv

-----------------------------------------------------------------------------
(* The scheduler: each step keeps the invariant *)

\* Steps that leave what is left of the pass as it is.
LEMMA SameLeft ==
    ASSUME SchedInv, UNCHANGED <<seeded, done, passVars, launched>>,
           conf' \subseteq conf, sched' # "started", sched # "started",
           refreshes' \in 0..MaxRefresh, poke' \in BOOLEAN, cut' \in BOOLEAN,
           sched' \in {"loop", "next", "wait", "woken", "start"},
           sched' \in {"wait", "woken", "start"} => todo # <<>> /\ ~Blocked(todo[1]),
           sched' = "loop" <=> sched = "loop",
           sched' = "woken" /\ poke' => conf' # seeded
    PROVE  SchedInv'
<1> USE DEF SchedInv, passVars
<1>1. SchedulerTypes'
  BY DEF SchedulerTypes
<1>2. LeftInOrder'
  BY DEF LeftInOrder
<1>3. LeftIsNew'
  BY DEF LeftIsNew
<1>4. StartedIsHandled'
  <2>1. conf # seeded => conf' # seeded
    BY DEF SchedulerTypes
  <2> QED BY <2>1 DEF StartedIsHandled
<1>5. BatchIsDue'
  BY DEF BatchIsDue, Blocked
<1>6. PredecessorsFirst'
  BY DEF PredecessorsFirst
<1> QED BY <1>1, <1>2, <1>3, <1>4, <1>5, <1>6

\* The end of a pass.
LEMMA OverInv ==
    ASSUME SchedInv, PassOver, UNCHANGED <<conf, seeded, launched>>, done \subseteq done',
           done' \subseteq Units, poke' \in BOOLEAN, cut' \in BOOLEAN, UNCHANGED refreshes,
           \A s \in launched : s[1] \in done' \/ s[1] \notin conf \/ conf # seeded
    PROVE  SchedInv' /\ BatchInOrder'
<1> USE DEF SchedInv, PassOver
<1>0. 1..Len(todo') = {} /\ 1..Len(flows') = {}
  BY EmptyTodo
<1>1. SchedulerTypes'
  BY <1>0, EmptyTodo DEF SchedulerTypes
<1>2. LeftInOrder' /\ LeftIsNew' /\ BatchInOrder'
  BY <1>0 DEF LeftInOrder, LeftIsNew, BatchInOrder
<1>3. StartedIsHandled' /\ BatchIsDue'
  BY DEF StartedIsHandled, BatchIsDue
<1>4. PredecessorsFirst'
  BY DEF PredecessorsFirst
<1> QED BY <1>1, <1>2, <1>3, <1>4

LEMMA WokenInv == SchedInv /\ Woken => SchedInv'
<1> SUFFICES ASSUME SchedInv, Woken PROVE SchedInv'
  OBVIOUS
<1>1. CASE poke
  <2>1. conf # seeded /\ PassOver
    BY <1>1 DEF SchedInv, StartedIsHandled, Woken
  <2> QED BY <2>1, OverInv DEF Woken, SchedInv, SchedulerTypes
<1>2. CASE ~poke
  BY <1>2, SameLeft DEF Woken, SchedInv, SchedulerTypes, BatchIsDue
<1> QED BY <1>1, <1>2

LEMMA WaitInv == SchedInv /\ (Sleep \/ WaitOver) => SchedInv'
BY SameLeft DEF Sleep, WaitOver, SchedInv, SchedulerTypes, BatchIsDue

LEMMA RefreshInv ==
    ASSUME SchedInv, NEW u \in Units, Refresh(u)
    PROVE  SchedInv'
<1> USE DEF SchedInv, passVars
<1>1. /\ UNCHANGED <<seeded, done, sched, passVars, launched>> /\ conf' \subseteq conf
      /\ refreshes' \in 0..MaxRefresh /\ poke' \in BOOLEAN /\ cut' \in BOOLEAN
      /\ conf' # seeded
  BY UnitsAssumption DEF Refresh, SchedulerTypes
<1>2. SchedulerTypes'
  BY <1>1 DEF SchedulerTypes
<1>3. LeftInOrder'
  BY <1>1 DEF LeftInOrder
<1>4. LeftIsNew'
  BY <1>1 DEF LeftIsNew
<1>5. StartedIsHandled'
  BY <1>1 DEF StartedIsHandled
<1>6. BatchIsDue'
  BY <1>1 DEF BatchIsDue, Blocked
<1>7. PredecessorsFirst'
  BY <1>1 DEF PredecessorsFirst
<1> QED BY <1>2, <1>3, <1>4, <1>5, <1>6, <1>7

\* Nothing is left of the jobs, or of the workflow in progress.
LEMMA NothingLeft ==
    ASSUME SchedInv, todo' = <<>>, UNCHANGED <<conf, seeded, batch, flow, flows, poke, refreshes>>,
           sched' = "next", cut' \in BOOLEAN, launched' = launched,
           done \subseteq done', done' \subseteq Units,
           executed \subseteq executed', executed' \subseteq batch, executed' \subseteq done',
           sched = "started" /\ flow = NoFlow => todo[1][1] \in done', sched # "loop"
    PROVE  SchedInv' /\ BatchInOrder'
<1> USE DEF SchedInv
<1>0. 1..Len(todo') = {}
  BY EmptyTodo
<1>1. SchedulerTypes'
  BY <1>0, EmptyTodo DEF SchedulerTypes
<1>2. LeftInOrder' /\ BatchInOrder'
  BY <1>0 DEF LeftInOrder, BatchInOrder
<1>3. LeftIsNew'
  BY <1>0 DEF LeftIsNew
<1>4. StartedIsHandled'
  <2>1. sched = "started" /\ flow # NoFlow => todo[1][1] = flow
    BY TailAt DEF SchedulerTypes
  <2> QED BY <2>1 DEF StartedIsHandled
<1>5. BatchIsDue'
  BY DEF BatchIsDue
<1>6. PredecessorsFirst'
  BY DEF PredecessorsFirst
<1> QED BY <1>1, <1>2, <1>3, <1>4, <1>5, <1>6

LEMMA SkipInv == SchedInv /\ SkipRest => SchedInv' /\ BatchInOrder'
BY NothingLeft DEF SkipRest, SchedInv, SchedulerTypes

\* The first step is done with, or put off.
LEMMA FirstGone ==
    ASSUME SchedInv, todo # <<>>, todo' = Tail(todo),
           UNCHANGED <<conf, seeded, batch, flow, flows, poke, refreshes>>,
           sched' = "next", cut' \in BOOLEAN, launched' = launched,
           done \subseteq done', done' \subseteq Units,
           executed \subseteq executed', executed' \subseteq batch, executed' \subseteq done',
           flow = NoFlow \/ sched = "started",
           sched = "started" /\ flow = NoFlow => todo[1][1] \in done', sched # "loop"
    PROVE  SchedInv'
<1> USE DEF SchedInv
<1>0. /\ Tail(todo) \in Seq(Units \X Nat) /\ Len(todo) \in Nat /\ Len(todo) >= 1
      /\ Len(todo') = Len(todo) - 1
      /\ \A i \in 1..Len(todo') : i + 1 \in 1..Len(todo) /\ i + 1 # 1 /\ todo'[i] = todo[i + 1]
  BY TailAt DEF SchedulerTypes
<1>1. SchedulerTypes'
  <2>1. \A i \in 1..Len(todo') : IF flow = NoFlow THEN todo'[i][1] \in batch /\ todo'[i][2] = 0
                                                  ELSE todo'[i][1] = flow
    BY <1>0 DEF SchedulerTypes
  <2> QED BY <1>0, <2>1 DEF SchedulerTypes
<1>2. LeftInOrder'
  <2>1. \A i, j \in 1..Len(todo') : todo'[i] = todo'[j] => i = j
    <3>1. ASSUME NEW i \in 1..Len(todo'), NEW j \in 1..Len(todo'), todo'[i] = todo'[j]
          PROVE  i = j
      <4>1. todo[i + 1] = todo[j + 1] /\ i + 1 \in 1..Len(todo) /\ j + 1 \in 1..Len(todo)
        BY <1>0, <3>1
      <4>2. i + 1 = j + 1
        BY <4>1, Zenon DEF LeftInOrder
      <4> QED BY <1>0, <4>2
    <3> QED BY <3>1
  <2>2. ASSUME NEW i \in 1..Len(todo'), todo'[i][2] > 1
        PROVE  \/ <<todo'[i][1], todo'[i][2] - 1>> \in launched'
               \/ \E j \in 1..(i - 1) : todo'[j] = <<todo'[i][1], todo'[i][2] - 1>>
    <3>1. i + 1 \in 1..Len(todo) /\ todo'[i] = todo[i + 1]
      BY <1>0
    <3>2. sched = "started"
      BY <2>2, <3>1 DEF SchedulerTypes
    <3> DEFINE s == <<todo[i + 1][1], todo[i + 1][2] - 1>>
    <3>3. s \in launched \/ \E j \in 1..((i + 1) - 1) : todo[j] = s
      BY <2>2, <3>1 DEF LeftInOrder
    <3> HIDE DEF s
    <3>4. ASSUME NEW j \in 1..((i + 1) - 1), todo[j] = s
          PROVE  s \in launched \/ \E k \in 1..(i - 1) : todo'[k] = s
      <4>1. CASE j = 1
        BY <3>2, <3>4, <4>1 DEF LeftIsNew
      <4>2. CASE j # 1
        <5>1. j - 1 \in 1..(i - 1) /\ j - 1 \in 1..Len(todo') /\ (j - 1) + 1 = j
          BY <1>0, <3>1, <4>2
        <5>2. todo'[j - 1] = s
          BY <1>0, <3>4, <5>1
        <5> QED BY <5>1, <5>2
      <4> QED BY <4>1, <4>2
    <3> QED BY <3>1, <3>3, <3>4 DEF s
  <2> QED BY <2>1, <2>2 DEF LeftInOrder
<1>3. LeftIsNew'
  BY <1>0 DEF LeftIsNew
<1>4. StartedIsHandled'
  <2>1. sched = "started" /\ flow # NoFlow => todo[1][1] = flow
    BY <1>0 DEF SchedulerTypes
  <2> QED BY <2>1 DEF StartedIsHandled
<1>5. BatchIsDue'
  BY DEF BatchIsDue
<1>6. PredecessorsFirst'
  BY DEF PredecessorsFirst
<1> QED BY <1>1, <1>2, <1>3, <1>4, <1>5, <1>6

LEMMA TakeStepInv == SchedInv /\ TakeStep => SchedInv'
<1> SUFFICES ASSUME SchedInv, TakeStep PROVE SchedInv'
  OBVIOUS
<1>0. todo # <<>> /\ Head(todo) = todo[1] /\ sched = "next"
  BY TailAt DEF TakeStep, SchedInv, SchedulerTypes
<1>1. CASE Blocked(Head(todo))
  <2>1. flow = NoFlow
    BY <1>1 DEF Blocked
  <2>2. /\ UNCHANGED <<conf, seeded, done, batch, executed, flow, flows, poke, refreshes, launched>>
        /\ sched' = "next" /\ todo' = Tail(todo) /\ cut' \in BOOLEAN
    BY <1>0, <1>1 DEF TakeStep
  <2>3. done \subseteq Units /\ executed \subseteq batch /\ executed \subseteq done
    BY DEF SchedInv, SchedulerTypes
  <2> QED BY <1>0, <2>1, <2>2, <2>3, FirstGone
<1>2. CASE ~Blocked(Head(todo))
  <2>1. ~Blocked(todo[1])
    BY <1>0, <1>2, Zenon
  <2>2. /\ UNCHANGED <<seeded, done, passVars, launched, conf, refreshes, poke>>
        /\ sched' = "wait" /\ cut' \in BOOLEAN
    BY <1>2 DEF TakeStep, passVars
  <2>3. refreshes \in 0..MaxRefresh /\ poke \in BOOLEAN
    BY DEF SchedInv, SchedulerTypes
  <2> QED BY <1>0, <2>1, <2>2, <2>3, SameLeft
<1> QED BY <1>1, <1>2

LEMMA StepStartsInv == SchedInv /\ StepStarts => SchedInv'
<1> SUFFICES ASSUME SchedInv, StepStarts PROVE SchedInv'
  OBVIOUS
<1> USE DEF SchedInv, passVars
<1>0. /\ todo # <<>> /\ Head(todo) = todo[1] /\ todo[1] \in Units \X Nat /\ 1 \in 1..Len(todo)
      /\ sched = "start" /\ sched' = "started" /\ launched' = launched \cup {todo[1]}
      /\ UNCHANGED <<conf, seeded, done, passVars, poke, refreshes, cut>>
  BY TailAt DEF StepStarts, SchedulerTypes
<1>1. SchedulerTypes'
  BY <1>0 DEF SchedulerTypes
<1>2. LeftInOrder'
  BY <1>0 DEF LeftInOrder
<1>3. LeftIsNew'
  <2>1. \A i \in 1..Len(todo) : todo[i] = todo[1] => i = 1
    BY <1>0 DEF LeftInOrder
  <2>2. \A i \in 1..Len(flows) : todo[1][1] # flows[i]
    <3>1. \A i \in 1..Len(flows) : flows[i] \in Flows /\ flows[i] # flow
      BY DEF SchedulerTypes, LeftInOrder
    <3>2. todo[1][1] \in Jobs \/ todo[1][1] = flow
      BY <1>0 DEF SchedulerTypes
    <3> QED BY <3>1, <3>2, UnitFacts
  <2> QED BY <1>0, <2>1, <2>2 DEF LeftIsNew
<1>4. StartedIsHandled'
  BY <1>0 DEF StartedIsHandled
<1>5. BatchIsDue'
  BY <1>0 DEF BatchIsDue
<1>6. PredecessorsFirst'
  <2>1. CASE todo[1][1] \in Jobs
    <3>1. flow = NoFlow
      BY <1>0, <2>1, UnitFacts DEF SchedulerTypes
    <3>2. After[todo[1][1]] \notin batch \ executed
      BY <1>0, <3>1 DEF BatchIsDue, Blocked
    <3>3. After[todo[1][1]] \in conf => After[todo[1][1]] \in Jobs
      BY <2>1, UnitFacts DEF SchedulerTypes
    <3>4. After[todo[1][1]] \in conf => After[todo[1][1]] \in done
      BY <1>0, <3>2, <3>3 DEF BatchIsDue, SchedulerTypes
    <3> QED BY <1>0, <2>1, <3>4 DEF PredecessorsFirst
  <2>2. CASE todo[1][1] \notin Jobs
    <3>1. todo[1][2] > 1 => <<todo[1][1], todo[1][2] - 1>> \in launched
      <4>1. 1..(1 - 1) = {}
        OBVIOUS
      <4>2. \/ ~(todo[1][2] > 1) \/ <<todo[1][1], todo[1][2] - 1>> \in launched
            \/ \E j \in 1..(1 - 1) : todo[j] = <<todo[1][1], todo[1][2] - 1>>
        BY <1>0, Zenon DEF LeftInOrder
      <4> QED BY <4>1, <4>2
    <3> QED BY <1>0, <2>2, <3>1 DEF PredecessorsFirst
  <2> QED BY <2>1, <2>2
<1> QED BY <1>1, <1>2, <1>3, <1>4, <1>5, <1>6

LEMMA StepOverInv == SchedInv /\ (StepStarted \/ StepRefused) => SchedInv'
<1> SUFFICES ASSUME SchedInv, StepStarted \/ StepRefused PROVE SchedInv'
  OBVIOUS
<1> DEFINE u == todo[1][1]
<1>0. /\ sched \in {"start", "started"} /\ todo # <<>> /\ Head(todo) = todo[1] /\ u \in Units
      /\ flow = NoFlow => u \in batch
  <2>1. sched \in {"start", "started"} /\ todo # <<>> /\ todo \in Seq(Units \X Nat)
    BY DEF StepStarted, StepRefused, SchedInv, SchedulerTypes
  <2>2. Head(todo) = todo[1] /\ todo[1] \in Units \X Nat /\ 1 \in 1..Len(todo)
    BY <2>1, TailAt
  <2> QED BY <2>1, <2>2 DEF SchedInv, SchedulerTypes
<1>1. /\ UNCHANGED <<conf, seeded, batch, flow, flows, poke, refreshes, launched, cut>>
      /\ \E ok \in BOOLEAN : StepOver(ok) /\ (ok <=> sched = "started")
  BY DEF StepStarted, StepRefused
<1>2. PICK ok \in BOOLEAN : StepOver(ok) /\ (ok <=> sched = "started")
  BY <1>1
<1>3. sched' = "next" /\ todo' = IF flow = NoFlow \/ ok THEN Tail(todo) ELSE <<>>
  BY <1>2 DEF StepOver, StepsLeft
<1>4. /\ done \subseteq done' /\ done' \subseteq Units /\ executed \subseteq executed'
      /\ executed' \subseteq batch /\ executed' \subseteq done'
      /\ flow = NoFlow => u \in done'
  BY <1>0, <1>2 DEF StepOver, MarkDone, SchedInv, SchedulerTypes
<1>5. cut' \in BOOLEAN
  BY <1>1 DEF SchedInv, SchedulerTypes
<1>6. CASE flow = NoFlow \/ ok
  <2>1. todo' = Tail(todo) /\ (flow = NoFlow \/ sched = "started")
    BY <1>2, <1>3, <1>6
  <2> QED BY <1>0, <1>1, <1>3, <1>4, <1>5, <2>1, FirstGone
<1>7. CASE ~(flow = NoFlow \/ ok)
  <2>1. todo' = <<>>
    BY <1>3, <1>7
  <2> QED BY <1>0, <1>1, <1>3, <1>4, <1>5, <2>1, NothingLeft
<1> QED BY <1>6, <1>7

\* A pass begins: what is due was not started yet.
LEMMA DueIsNew ==
    ASSUME SchedInv, sched = "loop", Due # {}
    PROVE  seeded = conf /\ Due \in SUBSET Units /\ \A s \in launched : s[1] \notin Due
<1>1. conf \subseteq Units /\ (seeded # conf => conf \subseteq Seeded)
  BY DEF SchedInv, SchedulerTypes, Seeded
<1>2. seeded = conf
  BY <1>1 DEF Due
<1> QED BY <1>1, <1>2 DEF SchedInv, StartedIsHandled, Due, Seeded

\* What a pass begins with.
LEMMA PassBegins ==
    ASSUME NEW jobs \in SUBSET Jobs, NEW ids \in SUBSET Flows
    PROVE  LET steps == [i \in 1..Cardinality(jobs) |-> <<TopoOrder(jobs)[i], 0>>] IN
           /\ steps \in Seq(jobs \X {0})
           /\ \A i, j \in 1..Len(steps) : steps[i] = steps[j] => i = j
           /\ Acyclic => \A i \in 1..Len(steps) : After[steps[i][1]] \in jobs =>
                  \E j \in 1..(i - 1) : steps[j][1] = After[steps[i][1]]
           /\ ById(ids) \in Seq(ids)
           /\ \A i, j \in 1..Len(ById(ids)) : ById(ids)[i] = ById(ids)[j] => i = j
<1> DEFINE n == Cardinality(jobs)
           order == TopoOrder(jobs)
           steps == [i \in 1..n |-> <<order[i], 0>>]
<1>1. /\ order \in [1..n -> jobs] /\ n \in Nat
      /\ \A i, j \in 1..n : order[i] = order[j] => i = j
      /\ Acyclic => \A i \in 1..n : After[order[i]] \in jobs =>
                        \E j \in 1..(i - 1) : order[j] = After[order[i]]
  BY TopoOrderOrders
<1>2. /\ Cardinality(ids) \in Nat /\ ById(ids) \in [1..Cardinality(ids) -> ids]
      /\ \A i, j \in 1..Cardinality(ids) : ById(ids)[i] = ById(ids)[j] => i = j
  <2>1. ids \in SUBSET Nat /\ IsFiniteSet(ids)
    BY UnitsAssumption, FS_Subset
  <2> QED BY <2>1, ByIdOrders
<1>3. ById(ids) \in Seq(ids) /\ Len(ById(ids)) = Cardinality(ids)
  BY <1>2
<1> HIDE DEF order, n
<1>4. steps \in Seq(jobs \X {0}) /\ Len(steps) = n
  BY <1>1
<1>5. \A i \in 1..n : steps[i] = <<order[i], 0>> /\ steps[i][1] = order[i]
  OBVIOUS
<1> HIDE DEF steps
<1>6. \A i, j \in 1..Len(steps) : steps[i] = steps[j] => i = j
  BY <1>1, <1>4, <1>5
<1>7. ASSUME Acyclic, NEW i \in 1..Len(steps), After[steps[i][1]] \in jobs
      PROVE  \E j \in 1..(i - 1) : steps[j][1] = After[steps[i][1]]
  <2>1. PICK j \in 1..(i - 1) : order[j] = After[order[i]]
    BY <1>1, <1>4, <1>5, <1>7
  <2>2. j \in 1..n
    BY <1>1, <1>4
  <2> QED BY <1>4, <1>5, <2>1, <2>2
<1> QED BY <1>2, <1>3, <1>4, <1>6, <1>7 DEF steps, n, order

LEMMA BeginPassInv ==
    ASSUME SchedInv, BeginPass
    PROVE  SchedInv' /\ (Acyclic /\ BatchInOrder => BatchInOrder')
<1> USE DEF SchedInv
<1>0. /\ sched = "loop" /\ seeded' = conf /\ done' = Seeded /\ cut' = FALSE
      /\ UNCHANGED <<conf, poke, refreshes, launched>>
      /\ done \subseteq done' /\ done' \subseteq Units /\ conf \subseteq Units
  BY DEF BeginPass, Seeded, SchedulerTypes
<1>1. CASE Due = {}
  <2>1. UNCHANGED <<sched, batch, executed, flow, todo, flows>>
    BY <1>1 DEF BeginPass, passVars
  <2>2. conf \subseteq done'
    BY <1>0, <1>1 DEF Due
  <2>3. SchedulerTypes'
    BY <1>0, <2>1 DEF SchedulerTypes
  <2>4. LeftInOrder' /\ LeftIsNew'
    BY <1>0, <2>1 DEF LeftInOrder, LeftIsNew
  <2>5. StartedIsHandled' /\ BatchIsDue'
    BY <1>0, <2>1, <2>2 DEF StartedIsHandled, BatchIsDue
  <2>6. PredecessorsFirst'
    BY <1>0, <2>1 DEF PredecessorsFirst
  <2>7. BatchInOrder => BatchInOrder'
    BY <1>0, <2>1 DEF BatchInOrder
  <2> QED BY <2>3, <2>4, <2>5, <2>6, <2>7
<1>2. CASE Due # {}
  <2> DEFINE jobs == Due \cap Jobs
             ids == Due \cap Flows
             steps == [i \in 1..Cardinality(jobs) |-> <<TopoOrder(jobs)[i], 0>>]
  <2>1. /\ seeded = conf /\ Seeded = done /\ \A s \in launched : s[1] \notin Due
        /\ jobs \in SUBSET Jobs /\ ids \in SUBSET Flows
    BY <1>0, <1>2, DueIsNew DEF Seeded
  <2>2. /\ sched' = "next" /\ flow' = NoFlow /\ batch' = jobs /\ executed' = {}
        /\ todo' = steps /\ flows' = ById(ids)
    BY <1>2, Zenon DEF BeginPass
  <2> HIDE DEF jobs, ids, steps
  <2>3. /\ steps \in Seq(jobs \X {0})
        /\ \A i, j \in 1..Len(steps) : steps[i] = steps[j] => i = j
        /\ Acyclic => \A i \in 1..Len(steps) : After[steps[i][1]] \in jobs =>
               \E j \in 1..(i - 1) : steps[j][1] = After[steps[i][1]]
        /\ ById(ids) \in Seq(ids)
        /\ \A i, j \in 1..Len(ById(ids)) : ById(ids)[i] = ById(ids)[j] => i = j
    BY <2>1, PassBegins, Zenon DEF steps
  <2>4. /\ \A i \in 1..Len(steps) : steps[i][1] \in jobs /\ steps[i][2] = 0
        /\ \A i \in 1..Len(ById(ids)) : ById(ids)[i] \in ids
        /\ steps \in Seq(Units \X Nat) /\ ById(ids) \in Seq(Flows)
    <3>1. \A i \in 1..Len(steps) : steps[i][1] \in jobs /\ steps[i][2] = 0
      BY <2>3
    <3>2. \A i \in 1..Len(ById(ids)) : ById(ids)[i] \in ids
      BY <2>3
    <3>3. jobs \X {0} \subseteq Units \X Nat /\ ids \subseteq Flows
      BY <2>1, UnitFacts
    <3>4. steps \in Seq(Units \X Nat) /\ ById(ids) \in Seq(Flows)
      BY <2>3, <3>3
    <3> QED BY <3>1, <3>2, <3>4
  <2>5. SchedulerTypes'
    BY <1>0, <2>1, <2>2, <2>4 DEF SchedulerTypes
  <2>6. LeftInOrder'
    <3>1. \A i \in 1..Len(todo') : ~(todo'[i][2] > 1)
      BY <2>2, <2>4
    <3>2. \A i, j \in 1..Len(todo') : todo'[i] = todo'[j] => i = j
      BY <2>2, <2>3, Zenon
    <3>3. \A i, j \in 1..Len(flows') : flows'[i] = flows'[j] => i = j
      BY <2>2, <2>3, Zenon
    <3>4. \A i \in 1..Len(flows') : flows'[i] # flow'
      BY <2>1, <2>2, <2>4, UnitFacts
    <3> QED BY <3>1, <3>2, <3>3, <3>4 DEF LeftInOrder
  <2>7. LeftIsNew'
    <3>1. \A i \in 1..Len(steps) : steps[i] \notin launched
      BY <2>1, <2>4 DEF jobs
    <3>2. \A i \in 1..Len(ById(ids)) : \A s \in launched : s[1] # ById(ids)[i]
      BY <2>1, <2>4 DEF ids
    <3> QED BY <1>0, <2>2, <3>1, <3>2 DEF LeftIsNew
  <2>8. StartedIsHandled'
    BY <1>0, <2>1, <2>2 DEF StartedIsHandled
  <2>9. BatchIsDue'
    BY <1>0, <2>1, <2>2 DEF BatchIsDue, jobs, Due
  <2>10. PredecessorsFirst'
    BY <1>0 DEF PredecessorsFirst
  <2>11. Acyclic => BatchInOrder'
    BY <2>2, <2>3 DEF BatchInOrder
  <2> QED BY <2>5, <2>6, <2>7, <2>8, <2>9, <2>10, <2>11
<1> QED BY <1>1, <1>2

LEMMA NextFlowInv == SchedInv /\ NextFlow => SchedInv' /\ BatchInOrder'
<1> SUFFICES ASSUME SchedInv, NextFlow PROVE SchedInv' /\ BatchInOrder'
  OBVIOUS
<1> USE DEF SchedInv
<1>0. /\ sched = "next" /\ todo = <<>> /\ done' = IF flow = NoFlow THEN done ELSE done \cup {flow}
      /\ UNCHANGED <<conf, seeded, poke, refreshes, launched, cut>>
      /\ done \subseteq done' /\ done' \subseteq Units
      /\ flow # NoFlow => flow \in done'
  BY UnitFacts DEF NextFlow, SchedulerTypes
<1>1. CASE flows = <<>>
  <2>1. PassOver
    BY <1>1 DEF NextFlow
  <2>2. \A s \in launched : s[1] \in done' \/ s[1] \notin conf \/ conf # seeded
    BY <1>0 DEF StartedIsHandled
  <2>3. poke' \in BOOLEAN /\ cut' \in BOOLEAN
    BY <1>0 DEF SchedulerTypes
  <2> QED BY <1>0, <2>1, <2>2, <2>3, OverInv
<1>2. CASE flows # <<>>
  <2> DEFINE u == flows[1]
             steps == [i \in 1..FlowLength[u] |-> <<u, i>>]
  <2>1. /\ Head(flows) = u /\ u \in Flows /\ Tail(flows) \in Seq(Flows) /\ 1 \in 1..Len(flows)
        /\ \A i \in 1..Len(Tail(flows)) :
               i + 1 \in 1..Len(flows) /\ i + 1 # 1 /\ Tail(flows)[i] = flows[i + 1]
    BY <1>2, TailAt DEF SchedulerTypes
  <2>2. Steps(u) = steps /\ u \in Units /\ u # NoFlow /\ FlowLength[u] \in Nat
    BY <2>1, UnitFacts DEF Steps
  <2>3. /\ flow' = u /\ flows' = Tail(flows) /\ todo' = steps
        /\ UNCHANGED <<sched, batch, executed>>
    BY <1>2, <2>1, <2>2 DEF NextFlow
  <2>4. /\ steps \in Seq(Units \X Nat) /\ Len(steps) = FlowLength[u]
        /\ \A i \in 1..Len(steps) : steps[i] = <<u, i>>
    BY <2>2
  <2> HIDE DEF u, steps
  <2>5. \A i \in 1..Len(steps) : steps[i][1] = u /\ steps[i][2] = i
    BY <2>4
  <2>6. SchedulerTypes'
    BY <1>0, <2>1, <2>2, <2>3, <2>4, <2>5 DEF SchedulerTypes
  <2>7. LeftInOrder'
    <3>1. \A i, j \in 1..Len(steps) : steps[i] = steps[j] => i = j
      BY <2>5
    <3>2. ASSUME NEW i \in 1..Len(steps), steps[i][2] > 1
          PROVE  \E j \in 1..(i - 1) : steps[j] = <<steps[i][1], steps[i][2] - 1>>
      <4>1. i - 1 \in 1..(i - 1) /\ i - 1 \in 1..Len(steps)
        BY <2>2, <2>4, <2>5, <3>2
      <4>2. steps[i - 1] = <<steps[i][1], steps[i][2] - 1>>
        BY <2>4, <2>5, <4>1
      <4> QED BY <4>1, <4>2
    <3>3. /\ \A i, j \in 1..Len(Tail(flows)) : Tail(flows)[i] = Tail(flows)[j] => i = j
          /\ \A i \in 1..Len(Tail(flows)) : Tail(flows)[i] # u
      <4>1. \A i, j \in 1..Len(flows) : flows[i] = flows[j] => i = j
        BY DEF LeftInOrder
      <4>2. \A i, j \in 1..Len(Tail(flows)) : i + 1 = j + 1 => i = j
        OBVIOUS
      <4> QED BY <2>1, <4>1, <4>2 DEF u
    <3> QED BY <2>3, <3>1, <3>2, <3>3 DEF LeftInOrder
  <2>8. LeftIsNew'
    <3>1. \A s \in launched : s[1] # u
      BY <2>1 DEF LeftIsNew, u
    <3>2. \A i \in 1..Len(steps) : steps[i] \notin launched
      BY <2>5, <3>1
    <3>3. \A i \in 1..Len(Tail(flows)) : \A s \in launched : s[1] # Tail(flows)[i]
      BY <2>1 DEF LeftIsNew
    <3> QED BY <1>0, <2>3, <3>2, <3>3 DEF LeftIsNew
  <2>9. StartedIsHandled'
    BY <1>0, <2>3 DEF StartedIsHandled
  <2>10. BatchIsDue'
    BY <1>0, <2>3 DEF BatchIsDue
  <2>11. PredecessorsFirst'
    BY <1>0 DEF PredecessorsFirst
  <2>12. BatchInOrder'
    BY <2>2, <2>3 DEF BatchInOrder
  <2> QED BY <2>6, <2>7, <2>8, <2>9, <2>10, <2>11, <2>12
<1> QED BY <1>1, <1>2

-----------------------------------------------------------------------------
(* The scheduler: what holds of every behaviour *)

LEMMA SchedStepInv == SchedInv /\ [SchedNext]_vars => SchedInv'
<1> SUFFICES ASSUME SchedInv, [SchedNext]_vars PROVE SchedInv'
  OBVIOUS
<1>1. CASE SchedulerStep
  BY <1>1, BeginPassInv, SkipInv, TakeStepInv, NextFlowInv, WaitInv, WokenInv, StepStartsInv,
     StepOverInv DEF SchedulerStep
<1>2. CASE \E u \in Units : Refresh(u)
  BY <1>2, RefreshInv
<1>3. ASSUME UNCHANGED <<conf, seeded, done, sched, passVars, poke, refreshes, launched>>,
             cut' \in BOOLEAN
      PROVE  SchedInv'
  <2> USE <1>3 DEF SchedInv, passVars
  <2>1. SchedulerTypes'
    BY DEF SchedulerTypes
  <2>2. LeftInOrder' /\ LeftIsNew'
    BY DEF LeftInOrder, LeftIsNew
  <2>3. StartedIsHandled' /\ BatchIsDue'
    BY DEF StartedIsHandled, BatchIsDue, Blocked
  <2>4. PredecessorsFirst'
    BY DEF PredecessorsFirst
  <2> QED BY <2>1, <2>2, <2>3, <2>4
<1>4. cut \in BOOLEAN
  BY DEF SchedInv, SchedulerTypes
<1>5. CASE \E c \in Callers : UserStarts(c)
  BY <1>3, <1>4, <1>5 DEF UserStarts, schedVars
<1>6. CASE \E h \in Cancellers : UserCancels(h)
  BY <1>3, <1>4, <1>6 DEF UserCancels
<1>7. CASE \E r \in Runs : RunSteps(r)
  BY <1>3, <1>4, <1>7 DEF RunSteps, schedVars
<1>8. CASE UNCHANGED vars
  BY <1>3, <1>4, <1>8 DEF vars, schedVars
<1> QED BY <1>1, <1>2, <1>5, <1>6, <1>7, <1>8 DEF SchedNext

LEMMA BatchStep ==
    ASSUME Acyclic, SchedInv, BatchInOrder, [SchedNext]_vars
    PROVE  BatchInOrder'
<1> USE DEF passVars
<1>1. ASSUME UNCHANGED <<todo, flow, batch, executed>> PROVE BatchInOrder'
  BY <1>1 DEF BatchInOrder
<1>2. ASSUME flow' # NoFlow PROVE BatchInOrder'
  BY <1>2 DEF BatchInOrder
<1>3. ASSUME todo # <<>>, todo' = Tail(todo), UNCHANGED <<flow, batch>>, executed \subseteq executed',
             flow = NoFlow => todo[1][1] \in executed'
      PROVE  BatchInOrder'
  <2> SUFFICES ASSUME flow = NoFlow, NEW i \in 1..Len(todo'), After[todo'[i][1]] \in batch,
                      After[todo'[i][1]] \notin executed'
               PROVE  \E k \in 1..(i - 1) : todo'[k][1] = After[todo'[i][1]]
    BY <1>3 DEF BatchInOrder
  <2>1. /\ Len(todo) \in Nat /\ Len(todo') = Len(todo) - 1
        /\ \A m \in 1..Len(todo') : m + 1 \in 1..Len(todo) /\ todo'[m] = todo[m + 1]
    <3>1. todo \in Seq(Units \X Nat)
      BY DEF SchedInv, SchedulerTypes
    <3> QED BY <1>3, <3>1, TailAt
  <2>2. PICK j \in 1..((i + 1) - 1) : todo[j][1] = After[todo'[i][1]]
    BY <1>3, <2>1 DEF BatchInOrder
  <2>3. j # 1
    BY <1>3, <2>2
  <2>4. j - 1 \in 1..(i - 1) /\ j - 1 \in 1..Len(todo') /\ (j - 1) + 1 = j
    BY <2>1, <2>2, <2>3
  <2>5. todo'[j - 1] = todo[j]
    BY <2>1, <2>4
  <2> QED BY <2>2, <2>4, <2>5
<1>4. todo # <<>> => Head(todo) = todo[1] /\ 1 \in 1..Len(todo)
  BY TailAt DEF SchedInv, SchedulerTypes
<1>5. todo # <<>> => ~Blocked(todo[1])
  BY <1>4 DEF BatchInOrder, Blocked
<1>6. CASE TakeStep
  BY <1>1, <1>4, <1>5, <1>6 DEF TakeStep
<1>7. CASE StepStarted \/ StepRefused
  <2>1. PICK ok \in BOOLEAN : StepOver(ok)
    BY <1>7 DEF StepStarted, StepRefused
  <2>2. todo # <<>> /\ UNCHANGED <<flow, batch>>
    BY <1>7 DEF StepStarted, StepRefused, SchedInv, SchedulerTypes
  <2>3. CASE flow = NoFlow
    BY <1>3, <1>4, <2>1, <2>2, <2>3 DEF StepOver, StepsLeft
  <2>4. CASE flow # NoFlow
    BY <1>2, <2>2, <2>4
  <2> QED BY <2>3, <2>4
<1>8. CASE Woken
  <2>1. CASE poke
    <3>1. todo' = <<>>
      BY <1>8, <2>1 DEF Woken, PassOver
    <3> QED BY <3>1, EmptyTodo DEF BatchInOrder
  <2>2. CASE ~poke
    BY <1>1, <1>8, <2>2 DEF Woken
  <2> QED BY <2>1, <2>2
<1>9. CASE BeginPass \/ SkipRest \/ NextFlow
  BY <1>9, BeginPassInv, SkipInv, NextFlowInv
<1>10. CASE Sleep \/ WaitOver \/ StepStarts
  BY <1>1, <1>10 DEF Sleep, WaitOver, StepStarts
<1>11. CASE \E u \in Units : Refresh(u)
  BY <1>1, <1>11 DEF Refresh
<1>12. CASE \E c \in Callers : UserStarts(c)
  BY <1>1, <1>12 DEF UserStarts, schedVars
<1>13. CASE \E h \in Cancellers : UserCancels(h)
  BY <1>1, <1>13 DEF UserCancels
<1>14. CASE (\E r \in Runs : RunSteps(r)) \/ UNCHANGED vars
  BY <1>1, <1>14 DEF RunSteps, vars, schedVars
<1> QED BY <1>6, <1>7, <1>8, <1>9, <1>10, <1>11, <1>12, <1>13, <1>14 DEF SchedNext, SchedulerStep

LEMMA SchedInvariant == SchedSpec => []SchedInv
BY SchedInitInv, SchedStepInv, PTL DEF SchedSpec

\* A job never starts before the one it follows was handled, nor a step of a
\* workflow before the previous one (_run_job_list, _run_workflow), whatever the
\* order of a pass, and across passes.
THEOREM PredecessorsComeFirst == SchedSpec => []PredecessorsFirst
<1>1. SchedInv => PredecessorsFirst
  BY DEF SchedInv
<1> QED BY <1>1, SchedInvariant, PTL

\* No step is started twice in a day.
THEOREM StepsStartOnce == SchedSpec => StartedOnce
<1>1. SchedInv => (sched = "start" /\ sched' = "started" => Head(todo) \notin launched)
  <2> SUFFICES ASSUME SchedInv, sched = "start" PROVE Head(todo) \notin launched
    OBVIOUS
  <2>1. Head(todo) = todo[1] /\ 1 \in 1..Len(todo)
    BY TailAt DEF SchedInv, SchedulerTypes
  <2> QED BY <2>1 DEF SchedInv, LeftIsNew
<1> QED BY <1>1, SchedInvariant, PTL DEF StartedOnce

\* _topo_order does what it is for: unless jobs follow one another in a circle,
\* no pass comes to a job before the one of its batch that the job follows.
THEOREM NoJobIsPutOff == ASSUME Acyclic PROVE SchedSpec => []NothingPutOff
<1>1. SchedInit => SchedInv /\ BatchInOrder
  BY SchedInitInv
<1>2. SchedInv /\ BatchInOrder /\ [SchedNext]_vars => (SchedInv /\ BatchInOrder)'
  BY SchedStepInv, BatchStep
<1>3. SchedInv /\ BatchInOrder => NothingPutOff
  <2> SUFFICES ASSUME SchedInv, BatchInOrder, todo # <<>> PROVE ~Blocked(Head(todo))
    BY DEF NothingPutOff
  <2>1. Head(todo) = todo[1] /\ 1 \in 1..Len(todo)
    BY TailAt DEF SchedInv, SchedulerTypes
  <2> QED BY <2>1 DEF BatchInOrder, Blocked
<1> QED BY <1>1, <1>2, <1>3, PTL DEF SchedSpec

\* Types of the state of the scheduler, the runs included.
THEOREM SchedTypeCorrect == SchedSpec => []SchedTypeOK
<1>1. SchedInv /\ RunsTypeOK => SchedTypeOK
  <2> SUFFICES ASSUME SchedulerTypes, RunsTypeOK PROVE SchedTypeOK
    BY DEF SchedInv
  <2>1. ToSet(flows) \in SUBSET Flows /\ conf \subseteq Units
    BY SetOfSeq DEF SchedulerTypes
  <2>2. \A s \in ToSet(todo) : s[1] \in (IF flow = NoFlow THEN batch ELSE {flow})
    <3>1. \A s : s \in ToSet(todo) <=> \E i \in 1..Len(todo) : todo[i] = s
      BY SetOfSeq DEF SchedulerTypes
    <3> QED BY <3>1 DEF SchedulerTypes
  <2> QED BY <2>1, <2>2 DEF SchedulerTypes, SchedTypeOK
<1> QED BY <1>1, SchedInvariant, SchedulerImplementsRuns, RunsTypeCorrect, PTL DEF RunsAreSyncRuns
=============================================================================
