SPECIFICATION Spec
CONSTANTS
    Definitions = {d1, d2, d3}
    Contents = {"x", "y"}
    Requests = {q1, q2}
    MaxOperations = 5
SYMMETRY Symmetry
INVARIANTS
    VersionInvariant
    HistoryIsTrue
PROPERTY ChangesByTheRules
CHECK_DEADLOCK FALSE
