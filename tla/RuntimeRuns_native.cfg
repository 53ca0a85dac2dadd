SPECIFICATION Spec
CONSTANTS
    c1 = c1
    c2 = c2
    w1 = w1
    w2 = w2
    q1 = q1
    q2 = q2
    q3 = q3
    k1 = k1
    MaxRuns = 1
    MaxReviews = 3
    Keys = {}
    NoKey = NoKey
    Manifest <- ManifestPauseTwice
    RuntimeType = "native"
    Clients = {c1}
    UniqueIndex = FALSE
    Workers = {w1, w2}
    MaxRetries = 0
    Requests = {q1, q2, q3}
    SingleResolution = TRUE
    MaxCrashes = 2
INVARIANTS
    
    ExecutedAtMostOnce
    ApprovedBeforeExecution
    RunningIsHeld
PROPERTIES
    
    OnlyLatePausesStrand
    ImplementsLifecycle
CHECK_DEADLOCK FALSE
