SPECIFICATION Spec
CONSTANTS
    Command = {prompt, answer}
    Steerable = {answer}
    Deadline <- MCDeadline
    MaxTime = 3
    Proc = {p1, p2, p3}
    NoProc = NoProc
    MaxReceipts = 1
    MaxRevision = 4
SYMMETRY Symmetry
INVARIANT JournalInv
PROPERTIES OutcomesAreKept ForgottenStaysRefused StartedStaysSaid
CHECK_DEADLOCK FALSE
