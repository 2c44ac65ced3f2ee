\* The browser's pages and flows, and the server's parts that share no state with
\* another module, side by side: one of them moves, the others rest.
SPECIFICATION PartsSpec
CONSTANTS
    \* board: room for both diagonals and for runs longer than a line
    Rows = 3
    Cols = 4
    Connect = 3
    \* feed
    PageSize = 2
    Kept = 3
    MaxTotal = 7
    Fetches = {"f", "g"}
    MaxFetches = 5
    \* deposit
    MaxMemos = 2
    MaxPolls = 1
    \* cache
    Processes = {"p", "q"}
    Fields = {"rate", "number"}
    MaxEdits = 2
    MaxLoads = 2
    MaxFailures = 1
    \* watch
    Incoming = {"in"}
    Outgoing = {"out"}
    Bare = {"in", "out"}
    Fallback = TRUE
    Queues = TRUE
    MaxBreaks = 1
    MaxRuns = 1
    MaxFaults = 1
    MaxTasks = 2
    \* rating
    Players = {"a", "b", "c"}
    Matches = {"m1", "m2", "m3"}
    FirstPlayer <- FirstPlayers
    SecondPlayer <- SecondPlayers
    K = 1
    StartingRating = 1
    MinimumRating = 0
    FullLimit = 1
    HalfLimit = 1
    MaxLost = 1
    \* presence
    Creator = "c"
    Guest = "g"
    Sockets = {"c1", "c2", "g1"}
    UserOf <- SocketsOf
    MaxJoins = 2
    MaxMoves = 1
    MaxLosses = 1
    \* breaker
    Calls = {"x", "y"}
    Threshold = 2
    ResetAfter = 2
    Retries = 1
    BaseDelay = 1
    MaxDelay = 4
    MaxClock = 5
    MaxEnded = 4
    \* balance
    Users = {"a", "b", "c"}
    Before <- OldUsers
    Scripts = {"s"}
    BatchSize = 2
    MaxChanges = 2
    MaxCrashes = 1
    \* life
    BackgroundJobs = {"deposits", "confirmations"}
    First = "deposits"
    Second = "confirmations"
    Attempts = 2
    LifeRuns = 5
    MaxRequests = 1
    LifeFaults = 4
INVARIANTS
    HistoriesAreShown
    PaymentIsFollowed
    PresenceIsTrue
    CopiesAreExcused
    FinalIsCaught
    RatingsFollowEvents
    CircuitIsHonest
    AmountsAgree
    ShutdownIsOrderly
VIEW Moving
CHECK_DEADLOCK FALSE
