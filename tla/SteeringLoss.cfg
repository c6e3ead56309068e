SPECIFICATION Spec
CONSTANTS
    Sends = {m1, m2}
    Notices = {n1}
    NoText = NoText
    MaxTurns = 1
    MaxInterrupts = 0
CHECK_DEADLOCK FALSE
INVARIANTS
    SteeringIsProcessed
