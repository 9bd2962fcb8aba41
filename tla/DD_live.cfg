SPECIFICATION FairSpec
CONSTANTS
    Incident = {i1}
    MaxRetry = 0
    Horizon = 1
    Retention = 1
    MaxTime = 0
    Command <- MCCommand
    Proc = {p1, p2}
    NoProc = NoProc
    Steerable = {}
    MaxReceipts = 1
    MaxRevision = 2
    MaxDown = 1
    MaxUp = 1
PROPERTY SentGetsVerdict
CHECK_DEADLOCK FALSE
