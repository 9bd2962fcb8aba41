SPECIFICATION FairSpec
CONSTANTS
    Sub = {"s1"}
    Source = {"e1", "e2", "e3"}
    Large = {}
    PendingLimit = 2
    Concurrency = 2
    Retries = 1
    PauseAfter = 1
    MaxRotations = 1
    MaxFaults = 1
INVARIANTS TableInv KeyInv ReceiptInv
PROPERTIES Settles
CHECK_DEADLOCK FALSE
