\* One pair, one item, two requests at once, one edit, one fault.
SPECIFICATION MCAppSpec
CONSTANTS
    Providers = {"P", "Q"}
    Topologies <- OnePair
    Keys = {k1}
    TTL = 1
    Faults <- AppFaults
    MaxFaults = 1
    MaxEdits = 1
    Threads = {t1, t2}
    MaxRequests = 2
VIEW AppView
SYMMETRY AppSymmetry
INVARIANTS AppTypeOK AppEvidence
PROPERTIES AppPlansAgree FreshAddKept
