\* Three providers: two pairs in either order, and three; one item, two edits,
\* one fault.
SPECIFICATION FairSpec
CONSTANTS
    Providers = {"P", "Q", "R"}
    Topologies <- Chains
    Keys = {k1}
    TTL = 1
    Faults <- AllFaults
    MaxFaults = 1
    MaxEdits = 2
INVARIANTS ChainTypeOK ChainEvidence
PROPERTIES ChainImplementsSharedList HeadDeletionSticks
