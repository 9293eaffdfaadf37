CONSTANTS
    rA = rA
    rB = rB
    v1 = v1
    v2 = v2
    v3 = v3
    Agent <- RivalResearchers
    Validator <- Validators
    Automated <- Nobody
    Request <- AskTwoOrOne
    Verdict <- OnlySuccess
    MinAttestations = 0
    Coordinator <- Nobody
    Leaver <- TheLeaver
    Reclaimer <- Nobody
    MaxClaims = 1
    MaxBadgePaths = 2
    MaxClock = 2
    MaxSupersessions = 2
SPECIFICATION SupersedingSpec
INVARIANTS
    SomeRecordIsLatest
    LinkedByItsParties
CHECK_DEADLOCK FALSE
