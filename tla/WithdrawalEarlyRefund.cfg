\* An operator who refunds as soon as the chain check finds nothing.
SPECIFICATION Spec
CONSTANTS
    u1 = u1
    u2 = u2
    Withdrawals = {1}
    Users <- OneUser
    UserOf <- OneOwner
    Amount <- UnitAmount
    InitialBalance <- UnitBalance
    DailyLimit = 2
    LastDay = 0
    MaxRetries = 1
    Procs = {p1}
    Admins = {a1}
    MaxCrashes = 0
    UseLock = FALSE
    LockMayLapse = FALSE
    DbMayFail = FALSE
    MidnightRace = FALSE
    NoProc = NoProc
    NoJob = NoJob
    NoMsg = NoMsg
INVARIANTS
    NeverRefundedAndPaid
