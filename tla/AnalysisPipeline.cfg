\* Two runs of any kind on one game, which is removed once; one fault.
SPECIFICATION FairSpec
CONSTANTS
    r1 = r1
    r2 = r2
    Runs = {r1, r2}
    Requests <- Two
    Orders <- OneOrder
    MaxFaults = 1
    MaxRemovals = 1
INVARIANTS
    FlagIsBacked
    HoleIsRecorded
PROPERTIES
    IsSettled
CHECK_DEADLOCK FALSE
