\* Two items, two edits and two faults of any kind that does not make a provider
\* lie: writes done in part, providers that raise, cancellations, crashes, sides
\* that are down; tombstones of two ticks; and then peace.
SPECIFICATION FairSpec
CONSTANTS
    Keys = {k1, k2}
    TTL = 2
    AllowAdds = TRUE
    AllowRemovals = TRUE
    IncludeObserved = TRUE
    VerifyAfterWrite = FALSE
    AllowMassDelete = TRUE
    MassPct = 10
    BlackboxEnabled = TRUE
    PromoteAfter = 2
    ReportModes <- HonestModes
    Faults <- AllWriteFaults
    MaxFaults = 2
    MaxEdits = 2
INVARIANTS DeletionEvidence CleanRunConverges FreshAddsKept
PROPERTIES NoResurrection EventuallySettled ImplementsSharedList
