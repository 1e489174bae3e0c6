\* Statistics and traps, two requests at a time: an operation that announces all
\* it changes, and two that do not.
SPECIFICATION FairCacheSpec
CONSTANTS
    statistics = statistics
    traps = traps
    training = training
    Cached = {statistics, traps}
    TagOf <- Tagged
    Readers = {r1, r2}
    Kinds = {"analyze", "backfill_traps", "delete_all_data"}
    TTL = 1
    MaxOps = 2
INVARIANTS
    StaleIsExplained
PROPERTIES
    BecomesFresh
CHECK_DEADLOCK FALSE
