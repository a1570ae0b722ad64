SPECIFICATION MigrationSpec
CONSTANTS
    o1 = o1
    o2 = o2
    p1 = p1
    p2 = p2
    Ops <- MCOps
    Procs <- MCProcs
    Nobody = Nobody
    Server = Server
    NoOp = NoOp
    MaxMarkers = 7
SYMMETRY MCSymmetry
CHECK_DEADLOCK FALSE
INVARIANT
    EveryPendingIsRecoverable
