SPECIFICATION Spec
CONSTANTS
    Clients = {"c1", "c2"}
    Writers = {"w1"}
    Apps = {web}
    Issuers = {"ci"}
    Subjects = {"job"}
    Audiences = {"exchange", "other"}
    Keys = {"k1", "k2"}
    Origins = {"home"}
    OldIds = {"old1"}
    Presented <- MCPresented
    OldSecrets <- MCOldSecrets
    OldKeys <- MCOldKeys
    OldTrusts <- MCOldTrusts
    OldOrigins <- MCOldOrigins
    KeySets = {{}, {"k2"}}
    OldPublished <- MCOldPublished
    Skew = 0
    MaxTime = 1
    None = None
CHECK_DEADLOCK FALSE
INVARIANTS
    ProvenWhileServed
    AppOnlyIsProven
    PublishedKeyKnown
