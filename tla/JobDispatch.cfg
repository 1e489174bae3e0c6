\* One user whose games and statistics are synced, one row, two tasks; the
\* process is shut down or killed, and started again; the account is deleted.
SPECIFICATION FairSpec
CONSTANTS
    Users = {u1}
    SyncOn = {u1}
    Leavers = {u1}
    Jobs = {j1}
    Tasks = {t1, t2}
    MaxQueue = 1
    MaxBoots = 2
    NoTask = NoTask
    NoJob = NoJob
    NoUser = NoUser
INVARIANTS
    RowsAreServedOnce
    ShutdownLeavesNothing
    GhostsWereInside
PROPERTIES
    ExecutorGoesOn
CHECK_DEADLOCK FALSE
