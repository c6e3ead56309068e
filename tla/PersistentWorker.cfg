SPECIFICATION FairSpec
CONSTANTS
    j1 = j1
    k1 = k1
    w1 = w1
    t1 = t1
    a1 = a1
    a2 = a2
    NoOwner = NoOwner
    NoClaim = NoClaim
    Jobs = {j1}
    KeyOf <- MCKeyOf
    TypeOf <- MCTypeOf
    MaxAttempts <- MCMaxAttempts
    Types = {t1}
    Owners = {w1}
    RowStore = TRUE
    Activities = {a1, a2}
    WorkerOf <- MCOneWorker
    Handles <- MCHandles
    MaxMishaps = 2
CHECK_DEADLOCK FALSE
INVARIANTS
    LeaseExclusive
    AttemptsBudget
    HandlerExclusive
    CancelledMeansHolderStopped
PROPERTIES
    ImplementsContract
    EveryJobSettles
    AbortedLetsGo
