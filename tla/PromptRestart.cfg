SPECIFICATION FairSpec
CONSTANTS
    s1 = s1
    s2 = s2
    r2 = r2
    i1 = i1
    h1 = h1
    h2 = h2
    Keys <- PromptKeys
    NoKey = NoKey
    Callers <- MCCallers
    Outboxes = {h1, h2}
    OutboxOf <- MCOutboxOf
    NoOutbox = NoOutbox
    MaxMishaps = 1
    Sends = {s1}
    Recoveries = {r2}
    Interrupts = {}
    FirstHosts = {h1}
    LateRestart = FALSE
    MaxRevision = 0
CHECK_DEADLOCK FALSE
PROPERTIES
    StartupScanRecovers
