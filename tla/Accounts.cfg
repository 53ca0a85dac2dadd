SPECIFICATION Spec
CONSTANTS
    ann = ann
    an_n = an_n
    old = old
    Accounts = {ann, an_n, old}
    Legacy = {old}
    AccessKey <- MCAccessKey
    AgentEnvironments = {"demo"}
    RoleLists <- MCRoleLists
    GivenAccess <- MCGivenAccess
    MaxRequests = 2
    MaxSessions = 2
    MaxOperations = 4
INVARIANTS
    AccountInvariant
    AcceptedIsAllowed
PROPERTY StandingIsKept
CHECK_DEADLOCK FALSE
