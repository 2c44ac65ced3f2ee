\* Two matches, one of them private, and three players, one of whom can stake twice.
SPECIFICATION FairSettlement
CONSTANTS
    u1 = u1
    u2 = u2
    u3 = u3
    NoUser = NoUser
    Draw = Draw
    Matches = {1, 2}
    Users <- ThreePlayers
    MayAccess <- SecondIsPrivate
    Wagers = {10}
    InitialBalance <- Tight
    Moves = {mv}
    MaxMoves = 2
    Jobs = {j1}
    DbMayFail = TRUE
INVARIANTS
    MatchBooksOK
PROPERTIES
    StakesLeaveOnce
    ResultsAreFinal
    ActivityWins
    StakesAreFreed
