\* One deletion, given up and resumed, against a writer and a change of configuration.
SPECIFICATION FairSpec
CONSTANTS
    Writers = {w1}
    Deleters = {d1}
    NoWriter = NoWriter
    PGs = 2
    MaxDrains = 2
    MaxAttempts = 2
    MaxGeneration = 1
INVARIANTS TypeOK DeletingIsEmpty MarkIsFenced PhaseIsEvidence
PROPERTIES DrainEnds
CHECK_DEADLOCK FALSE
