SPECIFICATION Spec
CONSTANTS
    c1 = c1
    c2 = c2
    w1 = w1
    w2 = w2
    q1 = q1
    q2 = q2
    q3 = q3
    k1 = k1
    MaxRuns = 1
    MaxReviews = 1
    Keys = {}
    NoKey = NoKey
    Manifest <- ManifestPause
    RuntimeType = "temporal"
    Clients = {c1}
    UniqueIndex = FALSE
    Workers = {w1, w2}
    MaxRetries = 2
    Requests = {q1}
    SingleResolution = TRUE
    MaxCrashes = 1
INVARIANT OneWorkflowPerRun
PROPERTY CompletedIsFinal
CHECK_DEADLOCK FALSE
