SPECIFICATION FairSpec
CONSTANTS
    Sends = {m1, m2}
    Notices = {n1}
    NoText = NoText
    MaxTurns = 2
    MaxInterrupts = 2
CHECK_DEADLOCK FALSE
INVARIANTS
    WindowIsTimely
    RejectedIsGone
PROPERTIES
    SettledOnce
    SameTickSendSurvives
    SendsSettle
    NoticesAreDelivered
