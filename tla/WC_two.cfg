\* Two tools on the same coordinates, two other operations.
SPECIFICATION Spec
CONSTANTS
    Agent = {a1, a2}
    Card = {}
    MaxCreates = 2
    MaxOthers = 2
    MaxIncidents = 1
    MaxClicks = 0
SYMMETRY AgentsAlike
INVARIANTS EntryInv OutcomeInv
PROPERTIES PollsAskOnce
CHECK_DEADLOCK FALSE
