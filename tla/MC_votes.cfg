CONSTANTS
    MaxAttestations = 11
SPECIFICATION Spec
INVARIANTS
    PluralityWins
    CoordinatorAndPeersAgree
PROPERTIES
    ReproductionNeverHurts
    FailureNeverHelps
CHECK_DEADLOCK FALSE
