SPECIFICATION Spec
CONSTANTS
    MaxAttempt = 19
INVARIANTS
    TypeOK
    WaitAsDocumented
