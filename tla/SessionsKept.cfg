SPECIFICATION SessionSpec
CONSTANTS
    Scenarios = {"devices"}
    Browsers = {"b1", "b2", "b3"}
    Tabs = {"t1", "t2"}
    MaxDevices = 2
    MaxPairs = 6
    Budget <- SmallBudget
INVARIANTS
    KeptSessionsStay
CHECK_DEADLOCK FALSE
