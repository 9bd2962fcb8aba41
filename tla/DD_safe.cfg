SPECIFICATION Spec
CONSTANTS
    Incident = {i1}
    MaxRetry = 0
    Horizon = 1
    Retention = 1
    MaxTime = 1
    Command <- MCCommand
    Proc = {p1, p2}
    NoProc = NoProc
    Steerable = {}
    MaxReceipts = 1
    MaxRevision = 3
    MaxDown = 1
    MaxUp = 2
SYMMETRY Symmetry
INVARIANTS IInv AtMostOnce PendingIsUntouched OneTurnPerPrompt EvidenceInv
PROPERTIES RowsMoveForward KeepsPromise
CHECK_DEADLOCK FALSE
