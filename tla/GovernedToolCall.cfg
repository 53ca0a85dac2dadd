SPECIFICATION Spec
CONSTANTS
    Calls = {t1, t2}
    Keys = {k1}
    NoKey = NoKey
    FailureLimit = 1
    Callers = {"gateway", "agent", "workflow"}
INVARIANTS
    ToolCallInvariant
    KeyExecutesOnce
    BlockedIsNotDelivered
    
    PendingReviewPausesSession
PROPERTY FailuresStopEffects
CHECK_DEADLOCK FALSE
