SPECIFICATION Spec
CONSTANTS
    Incident = {i1}
    MaxRetry = 1
    Horizon = 1
    Retention = 1
    MaxTime = 0
    Command <- MCCommand
    Proc = {p1}
    NoProc = NoProc
    Steerable = {}
    MaxReceipts = 2
    MaxRevision = 2
    MaxDown = 1
    MaxUp = 2
SYMMETRY Symmetry
PROPERTY KeepsPromise
CHECK_DEADLOCK FALSE
