SPECIFICATION Spec
CONSTANTS
    o1 = o1
    m1 = m1
    m2 = m2
    c1 = c1
    artifacts = artifacts
    events = events
    Operations = {o1}
    Managers = {m1, m2}
    Nobody = Nobody
    Collectors = {c1}
    ManagerOf <- MCManagerOf
    PurgeOrder <- MCPurgeOrder
    EventStore = events
    MayCrash = {}
    MaxMishaps = 0
CHECK_DEADLOCK FALSE
INVARIANTS
    LeasesAreReleased
