SPECIFICATION CertificatesSpec
CONSTANTS
    Modes = {"dir", "custom", "memory"}
    MaxGen = 2
    MayRenew = TRUE
INVARIANTS
    ServedPairMatches
    FingerprintStable
PROPERTIES
    SighupReloads
