\* Six instances side by side: sessions in tabs, on devices and across a reset;
\* links in mails, registration beside Google, and the second factor.
SPECIFICATION IdentitySpec
CONSTANTS
    Scenarios = {"none", "tabs", "devices", "signout", "reset"}
    Browsers = {"b1", "b2", "b3"}
    Tabs = {"t1", "t2"}
    MaxDevices = 2
    MaxPairs = 6
    Budget <- SmallBudget
    Situations = {"none", "mails", "strangers", "factor"}
    Allowed <- SmallAllowed
    Handlers = {"h1", "h2"}
    MaxLinks = 3
    MaxSetups = 3
    MaxBatches = 4
    MaxRequests = 5
INVARIANTS
    TokensAreSound
    ResetsHold
    SessionsAreKept
    FactorsHold
CHECK_DEADLOCK FALSE
