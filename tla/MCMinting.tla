----------------------------- MODULE MCMinting ------------------------------
EXTENDS Minting, TLC

MCDefinitions == {[access |-> 2, id |-> 0, refresh |-> 0],
                  [access |-> 0, id |-> 3, refresh |-> 0]}
MCConfigured == [access |-> 1, id |-> 1, refresh |-> 1]

MCOldPolicies == {[id |-> "old1", def |-> [access |-> 2, id |-> 0, refresh |-> 0],
                   default |-> FALSE, at |-> 1],
                  [id |-> "old2", def |-> [access |-> 0, id |-> 3, refresh |-> 0],
                   default |-> TRUE, at |-> 1]}
MCOldMembers == {CHOOSE g \in Groups : TRUE} \X Users
MCOldScopes == {[id |-> "old1", app |-> a, value |-> s, on |-> TRUE] : a \in Apps, s \in Scopes}
MCOldDefs == {[id |-> "old1", on |-> TRUE]}
MCOldRoles == {[id |-> "old1", app |-> a, value |-> v, on |-> TRUE, forApps |-> TRUE] :
                  a \in {CHOOSE x \in Apps : TRUE}, v \in {CHOOSE x \in RoleValues : TRUE}}

Symmetry == Permutations(Writers) \cup Permutations(Users)
=============================================================================
