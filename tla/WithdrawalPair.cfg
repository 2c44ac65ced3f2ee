\* One user's requests, and beside them one process, two withdrawals of one user in the pipeline at once, under a
\* limit of one a day: they share the hot wallet's sequence number, the sweep,
\* the operator and the reservation of a day.
SPECIFICATION PairSpec
CONSTANTS
    d1 = d1
    d2 = d2
    c1 = c1
    c2 = c2
    Details = {d1, d2}
    MaxReviews = 2
    MaxKeys = 2
    MaxIntents = 2
    Calls = {c1, c2}
    MaxCalls = 5
    MaxLosses = 1
    MaxEvents = 9
    u1 = u1
    u2 = u2
    Withdrawals = {1, 2}
    Users <- OneUser
    UserOf <- OneOwner
    Amount <- UnitAmount
    InitialBalance <- AmpleBalance
    DailyLimit = 1
    LastDay = 1
    MaxRetries = 1
    Procs = {p1}
    Admins = {a1}
    MaxCrashes = 1
    UseLock = FALSE
    LockMayLapse = FALSE
    DbMayFail = TRUE
    MidnightRace = FALSE
    NoProc = NoProc
    NoJob = NoJob
    NoMsg = NoMsg
SYMMETRY Alike
INVARIANTS
    RequestsAreSafe
    BooksAgree
    ChainAgrees
PROPERTIES
    OutcomesAreFinal
    HoldsFunds
CHECK_DEADLOCK FALSE
