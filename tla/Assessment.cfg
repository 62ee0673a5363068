SPECIFICATION Spec
CONSTANTS
    h1 = h1
    h2 = h2
    c1 = c1
    c2 = c2
    cA = cA
    cB = cB
    None = None
    Requests = {"k"}
    Explicit = {"e"}
    Results = {"k"}
    CorrectionKeys = {c1, c2}
    DecisionKeys = {"d"}
    Findings = {1}
    Hosts = {h1, h2}
    Candidates = {cA, cB}
    NoReview = TRUE
    Units = 2
    Allowance = 1
    MaxRevision = 2
    MaxClosings = 2
SYMMETRY Interchangeable
INVARIANTS
    CorrectionsLinked
    ChargedForResults
    DecisionsStand
    ToldOutcomesStand
PROPERTIES
    OutcomesImplemented
CHECK_DEADLOCK FALSE
