SPECIFICATION Spec
CONSTANTS
    t1 = t1
    a1 = a1
    f1 = f1
    Tools = {t1}
    Agents = {a1}
    Workflows = {f1}
    Uses <- UsesAll
    Configs = {"good", "bad"}
    Passing = {"good"}
    Evaluations = {e1, e2}
    Requests = {q1}
    MaxEdits = 3
SYMMETRY EvaluationsAreAlike
INVARIANTS
    
    CertificateIsCurrent
    AttachedHavePassed
CHECK_DEADLOCK FALSE
