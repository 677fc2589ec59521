\* Without any fault: the player goes on to another item.
SPECIFICATION Spec
CONSTANTS
    Items = {"i1", "i2"}
    Points = {0, 40, 85, 100}
    WatchedAt = 90
    ProgressStep = 25
    SuppressStartAt = 99
    Tries = 6
    Faults <- NoFaults
    MaxFaults = 0
    MaxMoves = 4
INVARIANT RecordedItemsWereWatched
