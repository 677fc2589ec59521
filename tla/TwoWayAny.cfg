\* Every kind of fault and every way of answering, wrong ones included.
SPECIFICATION FairSpec
CONSTANTS
    Keys = {k1, k2}
    TTL = 1
    AllowAdds = TRUE
    AllowRemovals = TRUE
    IncludeObserved = TRUE
    VerifyAfterWrite = TRUE
    AllowMassDelete = TRUE
    MassPct = 10
    BlackboxEnabled = TRUE
    PromoteAfter = 2
    ReportModes <- AnyMode
    Faults <- FaultKinds
    MaxFaults = 2
    MaxEdits = 1
INVARIANTS TypeOK
PROPERTIES EventuallyEqual
