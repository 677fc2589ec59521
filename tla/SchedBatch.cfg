\* A cancellation while a job waits.
SPECIFICATION SchedSpec
CONSTANTS
    Callers <- TwoCallers
    Cancellers <- OneTab
    SameSecond = FALSE
    MaxRuns = 2
    MaxManual = 0
    MaxCancels = 1
    Jobs <- TwoJobs
    After <- Job1After2
    Flows <- NoUnits
    FlowLength <- NoSteps
    MaxRefresh = 0
PROPERTY CancelStopsBatch
CHECK_DEADLOCK FALSE
