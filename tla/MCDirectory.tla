---------------------------- MODULE MCDirectory -----------------------------
EXTENDS Directory, FiniteSets, TLC

Other == CHOOSE u \in Users : u # SeedUser
OtherUpn == CHOOSE n \in Upns : n # SeedUpn

File(upns, edges, rest) ==
    [rows |-> DOMAIN upns \cup rest, edges |-> edges,
     key |-> [o \in Objects |-> IF o \in DOMAIN upns THEN upns[o] ELSE None]]

\* The seed's user renamed and without its group; an export that is torn
\* between users and members; one with a UPN twice.
MCFiles ==
    {File([u \in {SeedUser} |-> OtherUpn], {}, {}),
     File([u \in {SeedUser} |-> OtherUpn], {<<SeedGroup, Other>>}, {SeedGroup}),
     File([u \in Users |-> SeedUpn], {}, {})}

\* Two requests in flight move one object to or from the recycle bin, in which
\* no object is that was seeded or imported again, and an app, which has no
\* edges, shares the directory with one object at most.
Focus ==
    /\ \A r, s \in Requests :
          r # s /\ req[r].pc # "idle" /\ req[s].pc # "idle"
              => /\ req[r].obj = req[s].obj
                 /\ {req[r].pc, req[s].pc} \subseteq {"edges", "delete", "restore"}
                 /\ reseeded = {}
    /\ born \cap Apps # {} => Cardinality(born) <= 2

Symmetry == Permutations(Requests)
=============================================================================
