SPECIFICATION Spec
CONSTANTS
    c1 = c1
    c2 = c2
    h1 = h1
    h2 = h2
    t1 = t1
    t2 = t2
    NoTool = NoTool
    Hosts = {h1, h2}
    Calls = {c1, c2}
    Recoverers = {c2}
    HostOf <- MCHostOf
    Tools = {t1, t2}
    Published <- MCPublished
    SnapshotEvery = 4
    MaxCrashes = 1
    MaxPasses = 1
CHECK_DEADLOCK FALSE
INVARIANTS
    SequencesFollowHistory
    PrunedIsCovered
    SnapshotIsTrue
    RecoveryIsCurrent
    
    OutcomesAreSnapshotted
SYMMETRY MCSymmetry
