\* Ratings in both remove modes; two edits and one fault of any kind, anywhere.
SPECIFICATION FairSpec
CONSTANTS
    Keys = {k1, k2}
    Values = {1, 2}
    FirstValues = {1}
    Feature = "ratings"
    RemoveModes <- BothModes
    TTL = 1
    Cooldown = 1
    Dated = TRUE
    AllowRemovals = TRUE
    IncludeObserved = TRUE
    VerifyAfterWrite = FALSE
    AllowMassDelete = TRUE
    MassPct = 50
    PromoteAfter = 1
    ChunkSize = 1
    ReportModes <- HonestModes
    Faults <- AllFaults
    MaxFaults = 1
    MaxEdits = 2
INVARIANTS OneWayTypeOK RemovalEvidence DeletionRemembered CleanRunCopies
PROPERTIES SourceDeletesOnly EventuallyFollowed
