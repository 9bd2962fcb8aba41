SPECIFICATION FairSpec
CONSTANTS
    Req = {r1, r2}
    Timed = {r1}
    Sensitive = {r2}
    MaxLine = 2
    Sizes = {2, 3, 4}
    MaxRecords = 3
INVARIANTS PeerInv FitsIffDispatched WireOrder
PROPERTIES RequestsSettle
CHECK_DEADLOCK FALSE
