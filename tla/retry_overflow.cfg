SPECIFICATION Spec
CONSTANTS
    MaxAttempt = 20
INVARIANTS
    WaitAsDocumented
