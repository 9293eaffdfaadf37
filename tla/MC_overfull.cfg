CONSTANTS
    rA = rA
    rB = rB
    v1 = v1
    v2 = v2
    v3 = v3
    Agent <- Participants3
    Validator <- Validators
    Automated <- Nobody
    Request <- AskTwo
    Verdict <- OnlySuccess
    MinAttestations = 0
    Coordinator <- Nobody
    Leaver <- Validators
    Reclaimer <- Nobody
    MaxClaims = 1
    MaxBadgePaths = 2
SPECIFICATION FairSpec
PROPERTIES
    SweepCloses
CHECK_DEADLOCK FALSE
