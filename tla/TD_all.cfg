SPECIFICATION FairSpec
CONSTANTS
    Launch = {1, 2}
    Stream = {"message", "thought"}
    Lengths = {1, 2}
    Window = 2
    MaxChars = 4
    MaxSetBack = 1
    MaxPieces = 4
INVARIANTS CoalescerInv PaceInv
PROPERTIES HistoryAsPromised
CHECK_DEADLOCK FALSE
