\* Jobs of any kind, alone or beside the one they start, a PGN import beside a wipe,
\* two requests at a time, and a process that dies.
SPECIFICATION FairSpec
CONSTANTS
    j1 = j1
    j2 = j2
    Jobs = {j1, j2}
    Kinds = {"analyze", "backfill", "import", "sync", "pgn", "tactics", "wipe"}
    Company <- MCCompany
    Followers <- MCFollowers
    Clients = {c1, c2}
    Targets = {j1}
    Units = 2
    Width = 2
    MayCrash = TRUE
INVARIANTS
    PendingIsAwaited
    StopIsObeyed
    CompletedShowsAll
    AgreedWhenQuiet
PROPERTIES
    RunsEnd
CHECK_DEADLOCK FALSE
