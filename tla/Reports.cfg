SPECIFICATION ReportsSpec
CONSTANTS
    WinningChances <- MCWinningChances
    Games <- MCGames
    Row <- MCRow
    Sheet <- MCSheet
    Asked <- MCAsked
    Mixes <- MCMixes
    Positions <- MCPositions
    Moves <- MCMoves
    Book <- MCBook
    Traps <- MCTraps
    Victim <- MCVictim
    Spots <- MCSpots
    Pool <- MCPool
    Preceding <- MCPreceding
    DayLimit = 1
    ColorLimit = 2
    Window = 2
    MaxAttempts = 1
    MaxAnalyses = 1
    MaxFaults = 2
    MaxRemovals = 1
INVARIANTS ReportsAgree BookIsTold
PROPERTIES CollapseIsExact WindowsStand SolvedRests
CHECK_DEADLOCK FALSE
