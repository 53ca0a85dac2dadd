SPECIFICATION Spec
CONSTANTS
    Workflows = {w1}
    Deployments = {d1, d2}
    Jobs = {j1}
    Requests = {q1, q2, q3}
    Contents = {"live", "test"}
    Live = {"live"}
    ArtifactsPerBuild = 2
    MaxCases = 1
    MaxOperations = 7
SYMMETRY Symmetry
INVARIANTS
    DeploymentInvariant
    OneActive
    ActiveWasGated
PROPERTY RetiredIsFinal
CHECK_DEADLOCK FALSE
