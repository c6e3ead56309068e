SPECIFICATION FairSpec
CONSTANTS
    o1 = o1
    m1 = m1
    m2 = m2
    c1 = c1
    artifacts = artifacts
    events = events
    Operations = {o1}
    Managers = {m1, m2}
    Nobody = Nobody
    Collectors = {c1}
    ManagerOf <- MCManagerOf
    PurgeOrder <- MCPurgeOrder
    EventStore = events
    MayCrash = {m1}
    MaxMishaps = 2
CHECK_DEADLOCK FALSE
INVARIANTS
    DeletedIsDrained
    PurgesAreDrained
    DeletedContentIsOwed
PROPERTIES
    FenceIsPermanent
    ActiveContentIsKept
    DeletionSettles
    LateContentIsErased
