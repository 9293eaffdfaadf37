CONSTANTS
    rA = rA
    rB = rB
    v1 = v1
    v2 = v2
    v3 = v3
    Agent <- Participants3
    Validator <- Validators
    Automated <- Nobody
    Request <- AskThree
    Verdict <- SuccessOrUnable
    MinAttestations = 2
    Coordinator <- Nobody
    Leaver <- Nobody
    Reclaimer <- Nobody
    MaxClaims = 1
    MaxBadgePaths = 2
SPECIFICATION Spec
INVARIANTS
    BadgesAreBacked
SYMMETRY Symmetric
CHECK_DEADLOCK FALSE
