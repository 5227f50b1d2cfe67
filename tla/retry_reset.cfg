SPECIFICATION Spec
CONSTANTS
    MaxAttempt = 6
PROPERTIES
    OnlyAuthOkResets
