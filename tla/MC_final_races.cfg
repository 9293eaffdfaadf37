CONSTANTS
    rA = rA
    rB = rB
    v1 = v1
    v2 = v2
    v3 = v3
    Agent <- RivalResearchers
    Validator <- Validators
    Automated <- AnAI
    Request <- AnySecondRequest
    Verdict <- OnlySuccess
    MinAttestations = 0
    Coordinator <- TheKey
    Leaver <- Nobody
    Reclaimer <- Researcher
    MaxClaims = 1
    MaxBadgePaths = 2
SPECIFICATION FairSpec
INVARIANTS
    TypeOK
    RecordsAreWhole
    FullRecordsAgree
    StudyCountsOnce
PROPERTIES
    EventuallyRecorded
CHECK_DEADLOCK FALSE
