SPECIFICATION FairSpec
CONSTANTS
    c1 = c1
    c2 = c2
    w1 = w1
    w2 = w2
    q1 = q1
    q2 = q2
    q3 = q3
    k1 = k1
    MaxRuns = 2
    MaxReviews = 2
    Keys = {}
    NoKey = NoKey
    Manifest <- ManifestPause
    RuntimeType = "native"
    Clients = {c1, c2}
    UniqueIndex = FALSE
    Workers = {w1, w2}
    MaxRetries = 0
    Requests = {q1}
    SingleResolution = TRUE
    MaxCrashes = 0
PROPERTY
    QueuedRunsSettle
CHECK_DEADLOCK FALSE
