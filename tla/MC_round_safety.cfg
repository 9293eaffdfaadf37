CONSTANTS
    rA = rA
    rB = rB
    w = w
    v1 = v1
    v2 = v2
    v3 = v3
    instA = instA
    instB = instB
    instV = instV
    NoInstitution = NoInstitution
    Agent <- WithColleague
    Request <- OneRequest
    Institution <- Institutions
    MinimumValidators = 2
    Credentialed = TRUE
    Leaver <- FirstValidator
    Reclaimer <- OneReclaimer
    MaxClaims = 2
SPECIFICATION Spec
INVARIANTS
    BlindUntilQuorum
    IndependentCohort
    SingleLiveClaim
PROPERTIES
    BoundBeforeWork
SYMMETRY SymmetricBut1
CHECK_DEADLOCK FALSE
