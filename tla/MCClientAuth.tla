---------------------------- MODULE MCClientAuth ----------------------------
EXTENDS ClientAuth, TLC

Fed(k, auds, exp, good) ==
    [NoCredential EXCEPT !.kind = "federated", !.key = k, !.issuer = "ci", !.subject = "job",
                         !.auds = auds, !.exp = exp, !.good = good]

\* The second request only contends for the cache of issuer keys.
MCPresented ==
    [r \in Clients |->
        {Fed("k2", {"exchange", "other"}, 1, TRUE)} \cup
        IF r = "c2" THEN {} ELSE
        {NoCredential,
         [NoCredential EXCEPT !.kind = "secret", !.secret = "old1"],
         [NoCredential EXCEPT !.kind = "own", !.key = "k1", !.exp = 0],
         [NoCredential EXCEPT !.kind = "object", !.key = "k1", !.exp = 1, !.origin = "home"],
         Fed("k1", {"exchange"}, 1, FALSE)}]

MCOldSecrets == {[id |-> "old1", app |-> a, expires |-> 1] : a \in Apps}
MCOldKeys == {[id |-> "old1", app |-> a, key |-> "k1"] : a \in Apps}
MCOldTrusts == {[id |-> "old1", app |-> a, issuer |-> "ci", subject |-> "job", auds |-> {"exchange"}] : a \in Apps}
MCOldOrigins == Apps \X {"home"}
MCOldPublished == [i \in Issuers |-> {"k1"}]
=============================================================================
