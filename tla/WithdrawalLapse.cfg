\* Two processes whose lock may be lost while its holder goes on, and two
\* operators.
SPECIFICATION Spec
CONSTANTS
    u1 = u1
    u2 = u2
    Withdrawals = {1}
    Users <- OneUser
    UserOf <- OneOwner
    Amount <- UnitAmount
    InitialBalance <- UnitBalance
    DailyLimit = 2
    LastDay = 1
    MaxRetries = 1
    Procs = {p1, p2}
    Admins = {a1, a2}
    MaxCrashes = 1
    UseLock = TRUE
    LockMayLapse = TRUE
    DbMayFail = TRUE
    MidnightRace = TRUE
    NoProc = NoProc
    NoJob = NoJob
    NoMsg = NoMsg
INVARIANTS
    OneMessage
    RefundedIffFailed
SYMMETRY Interchangeable
