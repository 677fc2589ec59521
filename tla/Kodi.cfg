\* Two items, seen at the start, before and after the point where Trakt
\* completes a play, and at the end; one fault.
SPECIFICATION FairSpec
CONSTANTS
    Items = {"i1", "i2"}
    Points = {0, 40, 85, 100}
    WatchedAt = 90
    ProgressStep = 25
    SuppressStartAt = 99
    Tries = 2
    Faults <- AllFaults
    MaxFaults = 1
    MaxMoves = 4
INVARIANTS KodiTypeOK RecordedWasWatched LocalFollowsTrakt
PROPERTIES NoStepBack EventuallyReported
