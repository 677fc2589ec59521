\* A chain of two jobs and a workflow of two steps; a user starts a run,
\* cancels one and changes the schedule.
SPECIFICATION FairSchedSpec
CONSTANTS
    Callers <- TwoCallers
    Cancellers <- OneTab
    SameSecond = FALSE
    MaxRuns = 5
    MaxManual = 1
    MaxCancels = 1
    Jobs <- TwoJobs
    After <- Job1After2
    Flows <- OneFlow
    FlowLength <- TwoSteps
    MaxRefresh = 1
INVARIANTS SchedTypeOK PredecessorsFirst NothingPutOff
PROPERTIES EventuallyHandled StartedOnce RunsAreSyncRuns
CHECK_DEADLOCK FALSE
