SPECIFICATION ProvisioningSpec
CONSTANTS
    Users = {u1}
    Targets = {t1, t2}
    NoTarget = NoTarget
    Syncs = {s1, s2}
    Writers = {w1}
    MayFail = TRUE
    MaxVersion = 2
    MaxNow = 2
INVARIANTS
    NothingSkippedIsLost
SYMMETRY Symmetry
CONSTRAINT Overlap
