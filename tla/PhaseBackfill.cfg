\* Analyses and phase backfills, one after the other; one step raises.
SPECIFICATION Spec
CONSTANTS
    r1 = r1
    r2 = r2
    Runs = {r1}
    Requests <- Single
    Orders <- OneOrder
    MaxFaults = 1
    MaxRemovals = 0
PROPERTY BackfillFills
CHECK_DEADLOCK FALSE
