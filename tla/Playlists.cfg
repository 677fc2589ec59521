\* Two mappings that share playlists, the sync and one user who runs mappings.
SPECIFICATION FairSpec
CONSTANTS
    Lists = {"a", "b", "c"}
    Keys = {k1}
    Mappings = {"m1", "m2"}
    Setups <- SmallSetups
    Order <- Both
    Callers = {"user"}
    MinPrev = 1
    MassPct = 50
    Faults <- AllFaults
    MaxFaults = 1
    MaxEdits = 1
    MaxCalls = 1
INVARIANTS PlaylistsTypeOK OwnItemsOnly ManagedIsPut
PROPERTY EventuallyThrough
