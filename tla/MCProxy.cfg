CONSTANTS
    c1 = c1
    c2 = c2
    Conns <- MCConns
    MaxBytes = 2
    MayAbort = TRUE
SYMMETRY Symmetry
SPECIFICATION Spec
CHECK_DEADLOCK FALSE
INVARIANTS Drained SoleClient
