SPECIFICATION Spec
CONSTANTS
    Writers = {w1, w2}
    Minters = {m1}
    OldIds = {"old1", "old2"}
    Users = {u1, u2}
    Apps = {web, api}
    Clients = {web}
    Groups = {g1, g2}
    OldMembers <- MCOldMembers
    None = None
    Scopes = {read}
    RoleValues = {reader, owner}
    Everyone = Everyone
    DefaultAccess = DefaultAccess
    Graph = Graph
    OldScopes <- MCOldScopes
    OldUnits = {"old1"}
    OldRoles <- MCOldRoles
    BuiltIn = {admin}
    OldDefs <- MCOldDefs
    Everywhere = Everywhere
    Definitions <- MCDefinitions
    Seconds = {0, 1}
    OldPolicies <- MCOldPolicies
    Configured <- MCConfigured
    Limit = 1
    ClaimConfigs = {"None", "All"}
SYMMETRY Symmetry
CHECK_DEADLOCK FALSE
INVARIANTS
    ScopesInForce
    RolesInForce
    DirectoryClaimsInForce
    LifetimesInForce
