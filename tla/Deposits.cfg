SPECIFICATION LiveSpec
CONSTANTS
    u1 = u1
    u2 = u2
    m1 = m1
    t1 = t1
    t2 = t2
    p1 = p1
    p2 = p2
    w1 = w1
    o1 = o1
    o2 = o2
    NoUser = NoUser
    NoMemo = NoMemo
    Transfers = {t1, t2}
    Users = {u1, u2}
    Memos = {m1}
    TimeOf <- OneAfterOther
    MemoOf <- OneMemo
    MayAbort = {t2}
    MayAge = {t1}
    AmountOf <- OneEach
    OwnerOf <- ToFirst
    ExpiresAt <- NeverExpires
    Pollers = {p1, p2}
    Windows = {w1}
    Operators = {o1, o2}
    Crews <- ThreeCrews
    MaxRetries = 2
    MaxFaults <- FewFaults
INVARIANTS
    DepositBooksOK
    NothingIsLost
    AnswerIsTrue
PROPERTIES
    CreditedOnce
    Ingested
CHECK_DEADLOCK FALSE
