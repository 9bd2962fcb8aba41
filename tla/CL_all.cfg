SPECIFICATION FairSpec
CONSTANTS
    Proc = {d, p}
    NoProc = none
    Crashing = {d}
    Stalling = {p}
    MaxRevision = 4
    MaxStall = 2
INVARIANTS LockInv OwnershipInv
PROPERTIES NewNeverReplaces WrittenLockIsReclaimed
CHECK_DEADLOCK FALSE
