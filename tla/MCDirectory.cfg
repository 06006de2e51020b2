SPECIFICATION Spec
CONSTANTS
    Users = {u1, u2}
    Groups = {g1}
    Apps = {a1}
    Upns = {n1, n2}
    Uris = {}
    SeedUser = u1
    SeedGroup = g1
    SeedUpn = n1
    Requests = {r1, r2}
    Files <- MCFiles
    None = None
    Retention = 1
    MaxNow = 1
INVARIANTS
    EveryObjectAccounted
    UpnUnique
    MembershipsReturn
CONSTRAINT Focus
SYMMETRY Symmetry
