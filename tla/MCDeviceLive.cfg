SPECIFICATION FairSpec
CONSTANTS
    Users = {u1}
    Apps = {a1}
    Devices = {d1}
    UserCodes = {k1}
    Sids = {s1}
    Requests = {r1, r2}
    Browsers = {b1}
    None = None
    DeviceCodeLifetime = 1
    SessionLifetime = 1
    MaxNow = 1
PROPERTIES
    DecisionsSettle
