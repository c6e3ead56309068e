SPECIFICATION Spec
CONSTANTS
    s1 = s1
    s2 = s2
    r2 = r2
    i1 = i1
    h1 = h1
    h2 = h2
    Keys <- PromptKeys
    NoKey = NoKey
    Callers <- MCCallers
    Outboxes = {h1, h2}
    OutboxOf <- MCOneHost
    NoOutbox = NoOutbox
    MaxMishaps = 0
    Sends = {s1, s2}
    Recoveries = {}
    Interrupts = {}
    FirstHosts = {h1}
    LateRestart = FALSE
    MaxRevision = 0
CHECK_DEADLOCK FALSE
INVARIANTS
    JoinersSeeNoLeaseError
