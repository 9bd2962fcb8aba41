SPECIFICATION Spec
CONSTANTS
    Proc = {d, p, q}
    NoProc = none
    Crashing = {d}
    Stalling = {}
    MaxRevision = 3
    MaxStall = 0
SYMMETRY Alike
INVARIANTS AtMostOneSubmission
CHECK_DEADLOCK FALSE
