\* What the timers achieve when calls do not fail for ever and no operator helps.
SPECIFICATION FairSpec
CONSTANTS
    u1 = u1
    u2 = u2
    Withdrawals = {1, 2}
    Users <- TwoUsers
    UserOf <- OwnerEach
    Amount <- UnitAmount
    InitialBalance <- UnitBalance
    DailyLimit = 2
    LastDay = 0
    MaxRetries = 1
    Procs = {p1}
    Admins = {}
    MaxCrashes = 1
    UseLock = FALSE
    LockMayLapse = FALSE
    DbMayFail = TRUE
    MidnightRace = FALSE
    NoProc = NoProc
    NoJob = NoJob
    NoMsg = NoMsg
PROPERTIES
    AllIsSettled
