SPECIFICATION FairSpec
CONSTANTS
    Agent = {a1}
    Card = {c1}
    MaxCreates = 2
    MaxOthers = 1
    MaxIncidents = 1
    MaxClicks = 1
INVARIANTS EntryInv OutcomeInv
PROPERTIES PollsAskOnce ClientsGetAnswers
CHECK_DEADLOCK FALSE
