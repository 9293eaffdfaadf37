CONSTANTS
    c1 = c1
    c2 = c2
    human = human
    ai = ai
    Validator <- OnlyHuman
    Automated <- Nobody
    Coordinator <- OneCoordinator
    MaxUpdates = 3
SPECIFICATION Spec
INVARIANTS
    HighestCountRead
CHECK_DEADLOCK FALSE
