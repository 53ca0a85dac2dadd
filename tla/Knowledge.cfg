SPECIFICATION Spec
CONSTANTS
    MaxDocuments = 2
    Agents = {a1}
    Labels = {"v1"}
    FirstLabel = "v1"
    Ingesters = {worker, sync}
    Worker = worker
    MaxRequests = 2
    DocumentLimit = 1
    MaxIndexes = 2
    MaxOperations = 3
    MaxCrashes = 1
INVARIANTS
    
    CountsAreTrue
PROPERTY PendingIsTakenUp
CHECK_DEADLOCK FALSE
