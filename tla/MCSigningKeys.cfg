SPECIFICATION FairSpec
CONSTANTS
    Kids = {k1, k2, k3}
    Tenants = {home, other}
    Home = home
    Rotators = {p1, p2}
    Signers = {s1}
    Graces <- MCGraces
    None = None
    MayFail = TRUE
    AllowKeyReset = TRUE
    MaxNow = 1
INVARIANTS
    GraceHonoured
    SignedTokensVerify
    SignerActive
PROPERTIES
    ActiveKeyReturns
