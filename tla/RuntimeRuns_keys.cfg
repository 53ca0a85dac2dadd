SPECIFICATION Spec
CONSTANTS
    c1 = c1
    c2 = c2
    w1 = w1
    w2 = w2
    q1 = q1
    q2 = q2
    q3 = q3
    k1 = k1
    MaxRuns = 2
    MaxReviews = 1
    Keys = {k1}
    NoKey = NoKey
    Manifest <- ManifestMixed
    RuntimeType = "langgraph"
    Clients = {c1, c2}
    UniqueIndex = TRUE
    Workers = {w1}
    MaxRetries = 0
    Requests = {q1}
    SingleResolution = TRUE
    MaxCrashes = 1
INVARIANTS
    OneRunPerKey
    KeyedRequestsAgree
CHECK_DEADLOCK FALSE
