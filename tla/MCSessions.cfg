SPECIFICATION Spec
CONSTANTS
    Users = {u1}
    Apps = {a1}
    Notified = {a1}
    Sids = {s1, s2}
    Requests = {r1, r2}
    Browsers = {b1}
    Protocols = {"oidc", "saml", "wsfed"}
    RequireConsent = TRUE
    MaxAges = {0}
    None = None
    SessionLifetime = 1
    MaxNow = 1
SYMMETRY Symmetry
INVARIANTS
    LogoutReachesSignIns
