SPECIFICATION Spec
CONSTANTS
    Users = {u1}
    Apps = {a1}
    Codes = {c1}
    Tokens = {t1, t2, t3}
    Requests = {r1, r2}
    Scopes = {offline, read}
    OidcScopes = {offline}
    Asked = {{offline}, {offline, read}}
    OfflineAccess = offline
    None = None
    AuthCodeLifetime = 1
    RefreshLifetime = 1
    PolicyLifetime = 0
    MaxNow = 0
SYMMETRY Symmetry
INVARIANTS
    CodeSingleUse
    OneLivePerCode
    OneLivePerFamily
    BurnedFamilyDead
    ChainsIntact
    ReplayedChainDead
    ScopesWithinGrant
