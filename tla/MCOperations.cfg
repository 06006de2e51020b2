SPECIFICATION Spec
CONSTANTS
    Cap = 2
    NoEvent = NoEvent
    MaxReal = 2
    TokenExchanges = {"t1"}
    AuthorizeExchanges = {"a1"}
    GraphWrites = {"g1"}
    Admins = {"w1", "w2"}
    Old = {"o1"}
    Starts <- MCStarts
    Claims = {"tier", "dept", "oid"}
    Protected = {"oid"}
    Answers = {{"tier", "dept", "oid"}}
    Allowed = {{}, {"tier", "oid"}}
    FaultConfigs <- MCFaultConfigs
    ClockRequests <- MCClockRequests
CHECK_DEADLOCK FALSE
INVARIANTS
    LogIsTruthful
    FaultsInForce
    ExtensionKeptInBounds
PROPERTIES
    RingsImplementLogs
    ClockContinuous
    ExchangesAnswered
