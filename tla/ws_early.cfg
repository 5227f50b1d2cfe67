SPECIFICATION Spec
CONSTANTS
    Handles = {h1, h2}
    NULL = NULL
INVARIANTS
    GateShutUntilAccepted
SYMMETRY ObjectSymmetry
