SPECIFICATION Spec
CONSTANTS
    Handles = {h1, h2}
    NULL = NULL
INVARIANTS
    NoDanglingCall
SYMMETRY ObjectSymmetry
