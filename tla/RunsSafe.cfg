\* Three threads start runs while two browser tabs press cancel.
SPECIFICATION RunsSpec
CONSTANTS
    Callers <- ThreeCallers
    Cancellers <- TwoTabs
    SameSecond = TRUE
    MaxRuns = 3
    MaxManual = 2
    MaxCancels = 2
INVARIANTS RunsTypeOK OneRunAtATime OldCancelStopsNoRun
CHECK_DEADLOCK FALSE
