SPECIFICATION PasskeysSpec
CONSTANTS
    Users = {"u1", "u2"}
    Groups = {"g1"}
    Row0 <- MCRow0
    Ext0 <- MCExt0
    Patches <- MCPatches
    UserOps <- MCUserOps
    GroupOps <- MCGroupOps
    ExternalIds = {"", "e1"}
    Values <- MCValues
    Requests = {"w1", "w2"}
    Keys = {"k1", "k2"}
    Keys0 = {"k1"}
    Ceremonies = {"c1", "c2", "c3", "c4"}
    Finishes = {"f1", "f2"}
    Begun <- MCBegun
    MaxCount = 2
    Budget = 2
CHECK_DEADLOCK FALSE
INVARIANTS
    MembershipExact
    CorrelationFinds
    CeremonyUsedOnce
PROPERTIES
    UpdatesLostOnlyToOverlap
    CounterOnlyBackByOverlap
