SPECIFICATION Spec
CONSTANTS
    Users = {u1, u2}
    Apps = {a1}
    Devices = {d1, d2}
    UserCodes = {k1}
    Sids = {s1, s2}
    Requests = {r1, r2}
    Browsers = {b1}
    None = None
    DeviceCodeLifetime = 1
    SessionLifetime = 1
    MaxNow = 0
SYMMETRY Symmetry
INVARIANTS
    MintedForApprover
PROPERTIES
    ImplementsDeviceGrant
