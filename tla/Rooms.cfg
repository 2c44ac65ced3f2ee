\* Two processes with rooms and locks in Redis, or one with rooms in its memory;
\* failing calls, and a crash or a lock that is lost while its holder goes on.
SPECIFICATION PartsSpec
CONSTANTS
    u1 = u1
    u2 = u2
    t1 = t1
    t2 = t2
    p1 = p1
    p2 = p2
    NoUser = NoUser
    Draw = Draw
    NoTask = NoTask
    NoRoom = NoRoom
    Matches = {1}
    Users <- Players
    MayAccess <- Everybody
    Wagers = {10}
    InitialBalance <- Brought
    Moves <- BoardMoves
    MaxMoves = 3
    Jobs = {j1}
    DbMayFail = TRUE
    Rows = 1
    Cols = 3
    Connect = 2
    Tasks = {t1, t2}
    Procs = {p1, p2}
    Host <- OneEach
    Settings <- FourSettings
    \* lists
    Pages = {"deposits", "orders", "trades", "devices", "account", "profile", "lobby", "overview"}
    Facts = {1, 2}
    Asks = {a1, b1}
    MaxLoads = 3
    MaxActs = 1
    \* page
    MatchRooms = {"m1", "m2"}
    Own = {"m1"}
    Over = 2
    MaxVisits = 2
    MaxLinks = 2
    MaxTelling = 1
INVARIANTS
    LockedRoomsAgree
    GameIsSound
    PagesAreCurrent
PROPERTIES
    HistoryOnlyGrows
SYMMETRY Interchangeable
