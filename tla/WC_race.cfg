\* The create that is settled after it was superseded.
SPECIFICATION Spec
CONSTANTS
    Agent = {a1}
    Card = {}
    MaxCreates = 1
    MaxOthers = 1
    MaxIncidents = 0
    MaxClicks = 0
INVARIANTS NeverOfferedAfterChoice
CHECK_DEADLOCK FALSE
