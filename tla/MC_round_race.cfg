CONSTANTS
    rA = rA
    rB = rB
    w = w
    v1 = v1
    v2 = v2
    v3 = v3
    instA = instA
    instB = instB
    instV = instV
    NoInstitution = NoInstitution
    Agent <- TwoResearchers
    Request <- TwoRequests
    Institution <- Institutions
    MinimumValidators = 2
    Credentialed = TRUE
    Leaver <- Nobody
    Reclaimer <- Nobody
    MaxClaims = 1
SPECIFICATION Spec
INVARIANTS
    CohortEvidence
    IndependentWhereClaimed
PROPERTIES
    KeepsPromise
SYMMETRY Symmetric
CHECK_DEADLOCK FALSE
