CONSTANTS
    rA = rA
    v1 = v1
    v2 = v2
    instA = instA
    instV = instV
    NoInstitution = NoInstitution
    NoWork = NoWork
    NoTerms = NoTerms
    Agent <- TwoValidators
    Request <- OneRequest
    Institution <- Institutions
    MinimumValidators = 2
    Credentialed = TRUE
    Leaver <- FirstValidator
    Reclaimer <- Nobody
    MaxClaims = 1
    Task <- Tasks
    Draft <- Drafts
    Abstainer <- SecondValidator
    MinAttestations = 0
    Coordinator <- Nobody
    MaxBadgePaths = 1
SPECIFICATION FairStudySpec
INVARIANTS
    SealedTypeOK
    SealsOpen
    RevealedIsSealed
    LocksOpen
    NobodyIsStuck
    VerdictsAreEarned
PROPERTIES
    RevealCompletes
    ResultFollows
    RetryRecovers
    KeepsPromiseFairly
    FinalisesRealRounds
    OpenedStudiesAreRecorded
CHECK_DEADLOCK FALSE
