CONSTANTS
    c1 = c1
    c2 = c2
    human = human
    ai = ai
    Validator <- HumanAndAI
    Automated <- OnlyAI
    Coordinator <- TwoCoordinators
    MaxUpdates = 3
SPECIFICATION Spec
INVARIANTS
    TypeOK
    NeverOvercounted
PROPERTIES
    AutomatedIsFrozen
CHECK_DEADLOCK FALSE
