\* Two workers, every fault the code meets: engines that die, spawns that fail or leak a
\* process, cancelled workers, callers that give up; under the fairness of the event loop.
SPECIFICATION FairSpec
CONSTANTS
    Workers = {w1, w2}
    Tasks = {t1, t2}
    Engines = {e1, e2, e3}
    Clients = {c1}
    Sentinel = Sentinel
    NoTask = NoTask
    NoEngine = NoEngine
    SpawnMayFail = TRUE
    MayCancel = TRUE
    MaxLeaks = 1
INVARIANTS
    QueueCount TasksAreKept EngineOwnership
PROPERTIES
    KeepsPromise
    NobodyWaitsForEver
CHECK_DEADLOCK FALSE
