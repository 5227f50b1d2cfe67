SPECIFICATION Spec
CONSTANTS
    MaxUpdates = 2
INVARIANTS
    InProgressTruthful
CHECK_DEADLOCK FALSE
