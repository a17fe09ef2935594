\* Two deletions that share a drain and its cursor.
SPECIFICATION Spec
CONSTANTS
    Writers = {w1}
    Deleters = {d1, d2}
    NoWriter = NoWriter
    PGs = 1
    MaxDrains = 1
    MaxAttempts = 2
    MaxGeneration = 0
INVARIANTS DeletingIsEmpty
CHECK_DEADLOCK FALSE
