\* One tab presses cancel while one run is started.
SPECIFICATION RunsSpec
CONSTANTS
    Callers <- TwoCallers
    Cancellers <- OneTab
    SameSecond = FALSE
    MaxRuns = 2
    MaxManual = 1
    MaxCancels = 1
PROPERTY AcceptedCancelStands
CHECK_DEADLOCK FALSE
