SPECIFICATION OrderLiveSpec
CONSTANTS
    Codes = {"good", "bad"}
    GoodCodes = {"good"}
    Keys = {1, 2, 3}
    Slots = {"q1", "q2"}
    Merchants = {"m1", "m2"}
    StartBalance = 1
    MaxFailed = 2
    MaxTries = 2
    Scenes = {"sells", "relay", "codes"}
    Bounds <- SceneBounds
INVARIANTS
    OrderBooksOK
    PlacedTwiceOnlyIfLate
    NoticesAreTrue
PROPERTIES
    OrdersAreFinal
    RelaysSettle
CHECK_DEADLOCK FALSE
