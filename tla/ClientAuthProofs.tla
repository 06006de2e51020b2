-------------------------- MODULE ClientAuthProofs --------------------------
(***************************************************************************)
(* Client authentication for every number of clients, administrators,      *)
(* apps, credentials and external issuers: whatever is changed while a     *)
(* request is being served, it succeeds only on a proof that held then.    *)
(***************************************************************************)
EXTENDS ClientAuth, TLAPS

-----------------------------------------------------------------------------
\* The operators of the model

Kinds == {"none", "secret", "own", "federated", "object"}
Labels == {"new", "client", "secret", "assertion", "trust", "key", "fetch", "store", "verify",
           "get", "object", "done"}
Ends == {"proven", "refused", "unmatched", "noKey"}
Answers == {"ok", "refused", "unmatched", "noKey"}
AllFacts == {"public", "secret", "key", "object", "origin", "trusted",
             "untrusted", "fresh", "known", "unpublished"}

\* A request that is not served yet, or was refused, is well typed.
LEMMA IdleTyped ==
    /\ Idle \in Request /\ Idle.answer = "none" /\ Idle.todo = {} /\ Idle.cred.good
    /\ \A m \in Answers : [Idle EXCEPT !.answer = m] \in Request /\ [Idle EXCEPT !.answer = m].answer = m
<1> USE ClientAuthAssumptions
<1>1. NoCredential \in Credential /\ NoCredential.good
  BY DEF NoCredential, Credential
<1>2. (CHOOSE a \in Apps : TRUE) \in Apps
  OBVIOUS
<1>3. Idle \in Request /\ Idle.answer = "none" /\ Idle.todo = {} /\ Idle.cred = NoCredential
  BY <1>1, <1>2 DEF Idle, Request
<1>4. ASSUME NEW m \in Answers
      PROVE  [Idle EXCEPT !.answer = m] \in Request /\ [Idle EXCEPT !.answer = m].answer = m
  BY <1>3 DEF Request, Answers
<1> QED BY <1>1, <1>3, <1>4

\* Which facts tell about a credential of each kind.
LEMMA TellingDefs ==
    /\ Telling("none") = {"public"}
    /\ Telling("secret") = {"secret"}
    /\ Telling("own") = {"key"}
    /\ Telling("object") = {"origin", "object"}
    /\ Telling("federated") = {"trusted", "untrusted", "fresh", "known", "unpublished"}
BY DEF Telling

\* They are all facts.
LEMMA TellingTyped == ASSUME NEW k \in Kinds PROVE Telling(k) \subseteq AllFacts
BY TellingDefs DEF Kinds, AllFacts

\* What each fact says.
LEMMA HoldsDefs ==
    ASSUME NEW r
    PROVE  /\ Holds(r, "public") <=> (req[r].app \in apps /\ ~confidential[req[r].app])
           /\ Holds(r, "secret") <=>
                 \E s \in secrets : /\ s.app = req[r].app /\ s.id = req[r].cred.secret
                                    /\ (s.expires = 0 \/ now < s.expires)
           /\ Holds(r, "key") <=> /\ \E k \in keyCreds : k.app = req[r].app /\ k.key = req[r].cred.key
                                  /\ now <= req[r].cred.exp + Skew
           /\ Holds(r, "object") <=> /\ \E k \in keyCreds : k.app = req[r].app /\ k.key = req[r].cred.key
                                     /\ now < req[r].cred.exp
           /\ Holds(r, "origin") <=> <<req[r].app, req[r].cred.origin>> \in origins
           /\ Holds(r, "trusted") <=> Trusted(req[r].app, req[r].cred)
           /\ Holds(r, "fresh") <=> now < req[r].cred.exp
           /\ Holds(r, "known") <=>
                 req[r].cred.key \in published[req[r].cred.issuer] \cup extKeys[req[r].cred.issuer]
           /\ Holds(r, "unpublished") <=> req[r].cred.key \notin published[req[r].cred.issuer]
<1>1. Holds(r, "public") <=> (req[r].app \in apps /\ ~confidential[req[r].app])
  BY DEF Holds
<1>2. Holds(r, "secret") <=>
         \E s \in secrets : /\ s.app = req[r].app /\ s.id = req[r].cred.secret
                            /\ (s.expires = 0 \/ now < s.expires)
  BY DEF Holds
<1>3. Holds(r, "key") <=> /\ \E k \in keyCreds : k.app = req[r].app /\ k.key = req[r].cred.key
                          /\ now <= req[r].cred.exp + Skew
  BY DEF Holds
<1>4. Holds(r, "object") <=> /\ \E k \in keyCreds : k.app = req[r].app /\ k.key = req[r].cred.key
                             /\ now < req[r].cred.exp
  BY DEF Holds
<1>5. Holds(r, "origin") <=> <<req[r].app, req[r].cred.origin>> \in origins
  BY DEF Holds
<1>6. Holds(r, "trusted") <=> Trusted(req[r].app, req[r].cred)
  BY DEF Holds
<1>7. Holds(r, "fresh") <=> now < req[r].cred.exp
  BY DEF Holds
<1>8. Holds(r, "known") <=>
         req[r].cred.key \in published[req[r].cred.issuer] \cup extKeys[req[r].cred.issuer]
  BY DEF Holds
<1>9. Holds(r, "unpublished") <=> req[r].cred.key \notin published[req[r].cred.issuer]
  BY DEF Holds
<1> QED BY <1>1, <1>2, <1>3, <1>4, <1>5, <1>6, <1>7, <1>8, <1>9

\* A telling fact that holds of a request in service has been noticed.
LEMMA Noticed ==
    ASSUME NothingMissed, NEW r \in Clients, pc[r] \notin {"new", "done"},
           NEW f, f \in Telling(req[r].cred.kind), Holds(r, f)
    PROVE  f \in seen[r]
BY DEF NothingMissed, Facts

\* As long as the data stays, so do the facts about a request.
LEMMA FactsSame ==
    ASSUME NEW r, req'[r].app = req[r].app, req'[r].cred = req[r].cred,
           UNCHANGED <<now, rows, published, extKeys>>
    PROVE  Facts(r)' = Facts(r)
<1>1. UNCHANGED <<now, apps, confidential, secrets, keyCreds, trusts, origins, published, extKeys>>
  BY DEF rows
<1>2. ASSUME NEW f PROVE Holds(r, f)' <=> Holds(r, f)
  BY <1>1 DEF Holds, Trusted
<1> QED BY <1>2 DEF Facts

\* How a request moves: to the next stage with its new data, or to its answer.
LEMMA GotoEffect ==
    ASSUME TypeOK, NEW r \in Clients, NEW l, NEW m, NEW q \in Request, Goto(r, l, m, q)
    PROVE  /\ pc[r] = l
           /\ pc' = [pc EXCEPT ![r] = IF m \in Ends THEN "done" ELSE m]
           /\ \A x \in Clients : x # r => req'[x] = req[x]
           /\ req' \in [Clients -> Request]
           /\ m \notin Ends => req'[r] = q
           /\ m \in Ends =>
                 /\ req'[r].answer \in Answers
                 /\ req'[r].answer = "ok" =>
                       /\ m = "proven" /\ StillConfidential(q)
                       /\ req'[r].cred = q.cred /\ req'[r].flow = q.flow
                 /\ req'[r].answer = "noKey" => m = "noKey"
<1>t. req \in [Clients -> Request]
  BY DEF TypeOK
<1>1. CASE m \notin Ends
  BY <1>t, <1>1 DEF Goto, Step, Ends
<1>2. CASE m \in Ends
  <2> DEFINE good == [q EXCEPT !.answer = "ok", !.fetched = {}, !.todo = {}]
             bad == [Idle EXCEPT !.answer = Verdict(q, m)]
  <2>1. /\ pc[r] = l /\ pc' = [pc EXCEPT ![r] = "done"]
        /\ req' = [req EXCEPT ![r] = IF Verdict(q, m) = "ok" THEN good ELSE bad]
    BY <1>2 DEF Goto, Step, Ends
  <2>2. /\ Verdict(q, m) \in Answers
        /\ Verdict(q, m) = "ok" => m = "proven" /\ StillConfidential(q)
        /\ Verdict(q, m) = "noKey" => m = "noKey"
    BY <1>2 DEF Verdict, Ends, Answers
  <2>3. /\ good \in Request /\ good.answer = "ok" /\ good.cred = q.cred /\ good.flow = q.flow
    BY DEF Request
  <2>4. bad \in Request /\ bad.answer = Verdict(q, m)
    BY <2>2, IdleTyped
  <2> HIDE DEF good, bad
  <2>5. CASE Verdict(q, m) = "ok"
    BY <1>t, <1>2, <2>1, <2>2, <2>3, <2>5
  <2>6. CASE Verdict(q, m) # "ok"
    BY <1>t, <1>2, <2>1, <2>2, <2>4, <2>6
  <2> QED BY <2>5, <2>6
<1> QED BY <1>1, <1>2

\* What is seen of a request grows while it is served and is then kept as far as
\* it explains the answer.
LEMMA WatchEffect ==
    ASSUME Watch, NEW r \in Clients
    PROVE  /\ (pc[r] = "done" \/ pc'[r] = "new") => seen'[r] = seen[r]
           /\ (pc[r] # "done" /\ pc'[r] = "done") => seen'[r] = seen[r] \cap Explains(req'[r].answer)
           /\ (pc[r] # "done" /\ pc'[r] \notin {"new", "done"}) =>
                 /\ seen[r] \subseteq seen'[r]
                 /\ seen'[r] \subseteq seen[r] \cup Facts(r)'
                 /\ pc[r] = "new" => Facts(r)' \subseteq seen'[r]
                 /\ (NothingMissed /\ req'[r].app = req[r].app /\ req'[r].cred = req[r].cred) =>
                       Facts(r)' \subseteq seen'[r]
<1>1. seen'[r] = IF pc[r] = "done" \/ pc'[r] = "new" THEN seen[r]
                 ELSE IF pc'[r] = "done" THEN seen[r] \cap Explains(req'[r].answer)
                 ELSE IF pc[r] # "new" /\ UNCHANGED <<now, rows, published, extKeys>> THEN seen[r]
                 ELSE seen[r] \cup Facts(r)'
  BY DEF Watch
<1>2. CASE pc[r] = "done" \/ pc'[r] \in {"new", "done"}
  BY <1>1, <1>2
<1>3. CASE pc[r] # "done" /\ pc'[r] \notin {"new", "done"}
  <2>1. CASE pc[r] # "new" /\ UNCHANGED <<now, rows, published, extKeys>>
    <3>1. seen'[r] = seen[r]
      BY <1>1, <1>3, <2>1
    <3>2. NothingMissed => Facts(r) \subseteq seen[r]
      BY <1>3, <2>1 DEF NothingMissed
    <3>3. (req'[r].app = req[r].app /\ req'[r].cred = req[r].cred) => Facts(r)' = Facts(r)
      BY <2>1, FactsSame
    <3> QED BY <1>3, <2>1, <3>1, <3>2, <3>3
  <2>2. CASE ~(pc[r] # "new" /\ UNCHANGED <<now, rows, published, extKeys>>)
    BY <1>1, <1>3, <2>2
  <2> QED BY <2>1, <2>2
<1> QED BY <1>2, <1>3

-----------------------------------------------------------------------------
\* What a handler may do to its request

\* Data q and findings s that fit the stage m of a request.
Fits(m, q, s) ==
    /\ m = "client" => q.cred.kind # "object"
    /\ m = "secret" => q.cred.kind = "secret"
    /\ m = "assertion" => q.cred.kind = "own"
    /\ m \in {"trust", "key", "fetch", "store", "verify"} => q.cred.kind = "federated"
    /\ m \in {"get", "object"} => q.cred.kind = "object"
    /\ m \in {"key", "fetch", "store", "verify"} => "trusted" \in s /\ q.cred.issuer \in Issuers
    /\ m \in {"get", "object"} => "origin" \in s
    /\ m \in {"store", "verify"} =>
          IF q.cred.key \in q.fetched THEN "known" \in s ELSE "unpublished" \in s

\* The request is answered, and rightly so.
Answered(r) ==
    /\ pc[r] # "done" /\ pc' = [pc EXCEPT ![r] = "done"]
    /\ req'[r].answer \in Answers
    /\ req'[r].answer = "ok" => /\ req'[r].cred.good /\ Proof(req'[r].cred) \subseteq seen[r]
                                /\ req'[r].flow = "appOnly" => req'[r].cred.kind # "none"
    /\ req'[r].answer = "noKey" => "unpublished" \in seen[r]

\* The request goes on to a stage that fits what it is and has found.
MovedOn(r) ==
    /\ pc[r] \notin {"new", "done"}
    /\ \E m \in Labels \ {"new", "done"} : /\ pc' = [pc EXCEPT ![r] = m]
                                           /\ Fits(m, req'[r], seen[r])
    /\ req'[r].answer = "none"
    /\ req'[r].app = req[r].app /\ req'[r].cred = req[r].cred
    /\ req'[r].todo \subseteq req[r].cred.auds

\* The request is taken up.
TakenUp(r) ==
    /\ pc[r] = "new"
    /\ \E m \in {"client", "get"} :
          /\ pc' = [pc EXCEPT ![r] = m]
          /\ m = "client" => req'[r].cred.kind # "object"
          /\ m = "get" => /\ req'[r].cred.kind = "object"
                          /\ <<req'[r].app, req'[r].cred.origin>> \in origins
    /\ req'[r].answer = "none"
    /\ req'[r].todo \subseteq req'[r].cred.auds
    /\ req'[r].cred.kind \in {"none", "secret"} => req'[r].cred.good

\* One of the three happens to the request and nothing to any other.
Outcome(r) ==
    /\ \A x \in Clients : x # r => req'[x] = req[x]
    /\ req' \in [Clients -> Request]
    /\ extKeys' \in [Issuers -> SUBSET Keys]
    /\ Answered(r) \/ MovedOn(r) \/ TakenUp(r)

\* The stages and findings of all requests, as one predicate.
LEMMA FitsDef == (StageFits /\ FindingsSeen) <=> \A r \in Clients : Fits(pc[r], req[r], seen[r])
BY DEF StageFits, FindingsSeen, Fits

\* A request that is turned away is answered.
LEMMA RefusedOutcome ==
    ASSUME TypeOK, NEW r \in Clients, NEW l, l # "done", NEW m \in {"refused", "unmatched"},
           NEW q \in Request, Goto(r, l, m, q), UNCHANGED extKeys
    PROVE  Outcome(r)
<1>1. m \in Ends /\ m # "proven" /\ m # "noKey"
  BY DEF Ends
<1>2. Answered(r) /\ req' \in [Clients -> Request] /\ \A x \in Clients : x # r => req'[x] = req[x]
  BY <1>1, GotoEffect DEF Answered
<1> QED BY <1>2 DEF Outcome, TypeOK

\* A request whose credential was verified is answered rightly when its proof
\* has been seen.
LEMMA ProvenOutcome ==
    ASSUME TypeOK, NEW r \in Clients, NEW l, l # "done", NEW q \in Request,
           Goto(r, l, "proven", q), UNCHANGED extKeys,
           q.cred.good, Proof(q.cred) \subseteq seen[r],
           StillConfidential(q) /\ q.flow = "appOnly" => q.cred.kind # "none"
    PROVE  Outcome(r)
<1>1. "proven" \in Ends /\ "proven" # "noKey"
  BY DEF Ends
<1>2. /\ pc[r] = l /\ pc' = [pc EXCEPT ![r] = "done"]
      /\ \A x \in Clients : x # r => req'[x] = req[x]
      /\ req' \in [Clients -> Request]
      /\ req'[r].answer \in Answers /\ req'[r].answer # "noKey"
      /\ req'[r].answer = "ok" =>
            StillConfidential(q) /\ req'[r].cred = q.cred /\ req'[r].flow = q.flow
  BY <1>1, GotoEffect
<1>3. Answered(r)
  BY <1>2 DEF Answered
<1> QED BY <1>2, <1>3 DEF Outcome, TypeOK

\* A request that goes on keeps its app and credential.
LEMMA MovedOutcome ==
    ASSUME TypeOK, NEW r \in Clients, NEW l, l \notin {"new", "done"},
           NEW m \in Labels \ {"new", "done"}, NEW q \in Request,
           Goto(r, l, m, q), extKeys' \in [Issuers -> SUBSET Keys],
           q.answer = "none", q.app = req[r].app, q.cred = req[r].cred,
           q.todo \subseteq q.cred.auds, Fits(m, q, seen[r])
    PROVE  Outcome(r)
<1>1. m \notin Ends
  BY DEF Ends, Labels
<1>2. /\ pc[r] = l /\ pc' = [pc EXCEPT ![r] = m] /\ req'[r] = q
      /\ \A x \in Clients : x # r => req'[x] = req[x]
      /\ req' \in [Clients -> Request]
  BY <1>1, GotoEffect
<1>3. MovedOn(r)
  BY <1>2 DEF MovedOn
<1> QED BY <1>2, <1>3 DEF Outcome

-----------------------------------------------------------------------------
\* The handlers, one by one

\* The three ways a request is taken up.
LEMMA BeginOutcome ==
    ASSUME TypeOK, NEW r \in Clients, NEW a \in Apps, NEW c \in Presented[r],
           GrantClientCredentials(r, a, c) \/ GrantToUser(r, a, c) \/ BeginRequestObject(r, a, c)
    PROVE  Outcome(r)
<1>1. c \in Credential /\ (c.kind \in {"none", "secret"} => c.good)
  BY ClientAuthAssumptions
<1>2. PICK flow \in {"appOnly", "user", "authorize"}, m \in {"client", "get", "refused"} :
        /\ Begin(r, m, flow, a, c)
        /\ m = "client" => c.kind # "object"
        /\ m = "get" => c.kind = "object" /\ <<a, c.origin>> \in origins
  BY DEF GrantClientCredentials, GrantToUser, BeginRequestObject, AllowedRequestURIOrigin
<1>3. UNCHANGED extKeys
  BY DEF GrantClientCredentials, GrantToUser, BeginRequestObject
<1> DEFINE q == [Idle EXCEPT !.flow = flow, !.app = a, !.cred = c, !.todo = c.auds]
<1>4. q \in Request /\ q.app = a /\ q.cred = c /\ q.todo = c.auds /\ q.answer = "none"
  BY ZenonT(60), <1>1, IdleTyped DEF Request, Credential
<1>5. Goto(r, "new", m, q)
  BY <1>2 DEF Begin
<1> HIDE DEF q
<1>6. CASE m = "refused"
  BY <1>3, <1>4, <1>5, <1>6, RefusedOutcome
<1>7. CASE m # "refused"
  <2>1. m \notin Ends
    BY <1>7 DEF Ends
  <2>2. /\ pc[r] = "new" /\ pc' = [pc EXCEPT ![r] = m] /\ req'[r] = q
        /\ \A x \in Clients : x # r => req'[x] = req[x]
        /\ req' \in [Clients -> Request]
    BY <1>4, <1>5, <2>1, GotoEffect
  <2>3. TakenUp(r)
    BY <1>1, <1>2, <1>4, <1>7, <2>2 DEF TakenUp
  <2> QED BY <1>3, <2>2, <2>3 DEF Outcome, TypeOK
<1> QED BY <1>6, <1>7

\* What the invariant says of a request in service.
LEMMA InService ==
    ASSUME TypeOK, AuthInv, NEW r \in Clients, pc[r] \notin {"new", "done"}
    PROVE  /\ NothingMissed
           /\ req[r] \in Request /\ req[r].cred \in Credential
           /\ req[r].answer = "none" /\ req[r].todo \subseteq req[r].cred.auds
           /\ req[r].cred.kind \in {"none", "secret"} => req[r].cred.good
           /\ Fits(pc[r], req[r], seen[r])
<1>1. req[r] \in Request
  BY DEF TypeOK
<1>2. req[r].cred \in Credential
  BY <1>1 DEF Request
<1>3. Fits(pc[r], req[r], seen[r])
  BY FitsDef DEF AuthInv
<1> QED BY <1>1, <1>2, <1>3 DEF AuthInv, ServedInOrder

\* authenticateClient's first look at the client: a public client that owes
\* nothing is accepted, but never for an app-only token.
LEMMA ReadClientOutcome ==
    ASSUME TypeOK, AuthInv, NEW r \in Clients, ReadClient(r)
    PROVE  Outcome(r)
<1>1. pc[r] = "client" /\ UNCHANGED extKeys
  BY DEF ReadClient
<1>2. /\ NothingMissed /\ req[r] \in Request /\ req[r].cred \in Credential
      /\ req[r].answer = "none" /\ req[r].todo \subseteq req[r].cred.auds
      /\ req[r].cred.kind \in {"none", "secret"} => req[r].cred.good
      /\ req[r].cred.kind # "object" /\ req[r].app \in Apps
  BY <1>1, InService DEF Fits, Request
<1> DEFINE q == [req[r] EXCEPT !.confidential = confidential[req[r].app]]
           m == Owes(req[r].app, req[r].cred)
<1>3. Goto(r, "client", m, q)
  BY DEF ReadClient
<1>4. confidential[req[r].app] \in BOOLEAN
  BY <1>2 DEF TypeOK, RowsTyped
<1>5. /\ q \in Request /\ q.app = req[r].app /\ q.cred = req[r].cred /\ q.answer = "none"
      /\ q.todo = req[r].todo
      /\ q.confidential <=> confidential[req[r].app]
  BY <1>2, <1>4 DEF Request
<1>6. /\ req[r].cred.kind \in {"none", "secret", "own", "federated"}
  BY <1>2 DEF Credential
<1>7. \/ m = "refused"
      \/ m = "assertion" /\ req[r].cred.kind = "own"
      \/ m = "trust" /\ req[r].cred.kind = "federated"
      \/ m = "secret" /\ req[r].cred.kind = "secret"
      \/ /\ m = "proven" /\ req[r].cred.kind = "none"
         /\ req[r].app \in apps /\ ~confidential[req[r].app]
  BY <1>6 DEF Owes
<1> HIDE DEF q, m
<1>8. CASE m = "refused"
  BY <1>1, <1>3, <1>5, <1>8, RefusedOutcome
<1>9. CASE m \in {"assertion", "trust", "secret"}
  <2>1. m \in Labels \ {"new", "done"}
    BY <1>9 DEF Labels
  <2>2. Fits(m, q, seen[r])
    BY <1>5, <1>7, <1>9 DEF Fits
  <2>3. extKeys' \in [Issuers -> SUBSET Keys]
    BY <1>1 DEF TypeOK
  <2> QED BY <1>2, <1>3, <1>5, <2>1, <2>2, <2>3, MovedOutcome
<1>10. CASE m = "proven"
  <2>1. req[r].cred.kind = "none" /\ req[r].app \in apps /\ ~confidential[req[r].app]
    BY <1>7, <1>10
  <2>2. "public" \in seen[r]
    BY <1>1, <1>2, <2>1, Noticed, HoldsDefs, TellingDefs
  <2>3. Proof(q.cred) \subseteq seen[r]
    BY <1>5, <2>1, <2>2 DEF Proof
  <2>4. ~(StillConfidential(q) /\ q.flow = "appOnly")
    BY <1>5, <2>1 DEF StillConfidential
  <2>5. q.cred.good
    BY <1>2, <1>5, <2>1
  <2> QED BY <1>1, <1>3, <1>5, <1>10, <2>3, <2>4, <2>5, ProvenOutcome
<1> QED BY <1>7, <1>8, <1>9, <1>10

\* The three verifications against the rows of the client itself.
LEMMA OwnProofOutcome ==
    ASSUME TypeOK, AuthInv, NEW r \in Clients,
           VerifyAppSecret(r) \/ VerifyClientAssertion(r) \/ VerifyRequestObject(r)
    PROVE  Outcome(r)
<1> DEFINE q == req[r]
<1>1. PICK l \in {"secret", "assertion", "object"}, m \in {"proven", "refused"} :
        /\ Goto(r, l, m, q) /\ UNCHANGED extKeys
        /\ (m = "proven" /\ l = "secret") =>
              \E s \in secrets : /\ s.app = q.app /\ s.id = q.cred.secret
                                 /\ s.expires = 0 \/ now < s.expires
        /\ (m = "proven" /\ l = "assertion") =>
              /\ \E k \in keyCreds : k.app = q.app /\ k.key = q.cred.key
              /\ q.cred.good /\ now <= q.cred.exp + Skew
        /\ (m = "proven" /\ l = "object") =>
              /\ \E k \in keyCreds : k.app = q.app /\ k.key = q.cred.key
              /\ q.cred.good /\ now < q.cred.exp
  <2>1. CASE VerifyAppSecret(r)
    BY <2>1 DEF VerifyAppSecret, SecretUnexpired
  <2>2. CASE VerifyClientAssertion(r)
    BY <2>2 DEF VerifyClientAssertion, AssertionAccepted
  <2>3. CASE VerifyRequestObject(r)
    BY <2>3 DEF VerifyRequestObject
  <2> QED BY <2>1, <2>2, <2>3
<1>2. q \in Request
  BY DEF TypeOK
<1>3. pc[r] = l
  BY <1>1, <1>2, GotoEffect
<1>4. /\ NothingMissed
      /\ q.cred.kind \in {"none", "secret"} => q.cred.good
      /\ l = "secret" => q.cred.kind = "secret"
      /\ l = "assertion" => q.cred.kind = "own"
      /\ l = "object" => q.cred.kind = "object" /\ "origin" \in seen[r]
  BY <1>1, <1>3, InService DEF Fits
<1>5. CASE m = "refused"
  BY <1>1, <1>2, <1>5, RefusedOutcome
<1>6. CASE m = "proven"
  <2>1. q.cred.good /\ q.cred.kind # "none"
    BY <1>1, <1>4, <1>6
  <2>2. CASE l = "secret"
    <3>1. "secret" \in seen[r]
      BY <1>1, <1>3, <1>4, <1>6, <2>2, Noticed, HoldsDefs, TellingDefs
    <3>2. Proof(q.cred) \subseteq seen[r]
      BY <1>4, <2>2, <3>1 DEF Proof
    <3> QED BY <1>1, <1>2, <1>6, <2>1, <2>2, <3>2, ProvenOutcome
  <2>3. CASE l = "assertion"
    <3>1. "key" \in seen[r]
      BY <1>1, <1>3, <1>4, <1>6, <2>3, Noticed, HoldsDefs, TellingDefs
    <3>2. Proof(q.cred) \subseteq seen[r]
      BY <1>4, <2>3, <3>1 DEF Proof
    <3> QED BY <1>1, <1>2, <1>6, <2>1, <2>3, <3>2, ProvenOutcome
  <2>4. CASE l = "object"
    <3>1. "object" \in seen[r]
      BY <1>1, <1>3, <1>4, <1>6, <2>4, Noticed, HoldsDefs, TellingDefs
    <3>2. Proof(q.cred) \subseteq seen[r]
      BY <1>4, <2>4, <3>1 DEF Proof
    <3> QED BY <1>1, <1>2, <1>6, <2>1, <2>4, <3>2, ProvenOutcome
  <2> QED BY <2>2, <2>3, <2>4
<1> QED BY <1>5, <1>6

\* The request object is fetched, or the request is refused.
LEMMA GetRequestObjectOutcome ==
    ASSUME TypeOK, AuthInv, NEW r \in Clients, GetRequestObject(r)
    PROVE  Outcome(r)
<1>1. PICK m \in {"object", "refused"} : Goto(r, "get", m, req[r])
  BY DEF GetRequestObject
<1>2. UNCHANGED extKeys /\ req[r] \in Request
  BY DEF GetRequestObject, TypeOK
<1>3. pc[r] = "get"
  BY <1>1, <1>2, GotoEffect
<1>4. /\ req[r].answer = "none" /\ req[r].todo \subseteq req[r].cred.auds
      /\ Fits("get", req[r], seen[r])
  BY <1>3, InService
<1>5. CASE m = "refused"
  BY <1>1, <1>2, <1>5, RefusedOutcome
<1>6. CASE m = "object"
  <2>1. Fits(m, req[r], seen[r]) /\ m \in Labels \ {"new", "done"}
    BY <1>4, <1>6 DEF Fits, Labels
  <2>2. extKeys' \in [Issuers -> SUBSET Keys]
    BY <1>2 DEF TypeOK
  <2> QED BY <1>1, <1>2, <1>4, <2>1, <2>2, MovedOutcome
<1> QED BY <1>5, <1>6

\* A trust that accepts one of the assertion's audiences is one that was there.
LEMMA MatchOutcome ==
    ASSUME TypeOK, AuthInv, NEW r \in Clients, NEW aud \in Audiences, MatchFederatedCredential(r, aud)
    PROVE  Outcome(r)
<1> DEFINE q == [req[r] EXCEPT !.todo = req[r].todo \ {aud}]
<1>0. req[r] \in Request /\ UNCHANGED extKeys /\ aud \in req[r].todo
  BY DEF TypeOK, MatchFederatedCredential
<1>1. PICK m \in {"key", "unmatched", "trust"} :
        /\ Goto(r, "trust", m, q)
        /\ m = "key" => \E x \in Candidates(req[r].app, req[r].cred) : aud \in x.auds
  <2>1. PICK hit \in IF Candidates(req[r].app, req[r].cred) = {} THEN {FALSE}
                     ELSE {(aud \in x.auds) : x \in Candidates(req[r].app, req[r].cred)} :
           Goto(r, "trust", IF hit THEN "key" ELSE IF req[r].todo \ {aud} = {} THEN "unmatched" ELSE "trust", q)
    BY DEF MatchFederatedCredential
  <2>2. hit => \E x \in Candidates(req[r].app, req[r].cred) : aud \in x.auds
    BY <2>1
  <2> HIDE DEF q
  <2> QED BY <2>1, <2>2
<1>2. /\ q \in Request /\ q.app = req[r].app /\ q.cred = req[r].cred /\ q.answer = req[r].answer
      /\ q.todo \subseteq req[r].todo
  BY <1>0 DEF Request
<1> HIDE DEF q
<1>3. pc[r] = "trust"
  BY <1>1, <1>2, GotoEffect
<1>4. /\ NothingMissed /\ req[r].answer = "none" /\ req[r].todo \subseteq req[r].cred.auds
      /\ req[r].cred.kind = "federated"
  BY <1>3, InService DEF Fits
<1>5. CASE m = "unmatched"
  BY <1>0, <1>1, <1>2, <1>5, RefusedOutcome
<1>6. CASE m = "trust"
  <2>1. Fits(m, q, seen[r]) /\ m \in Labels \ {"new", "done"}
    BY <1>2, <1>4, <1>6 DEF Fits, Labels
  <2>2. extKeys' \in [Issuers -> SUBSET Keys]
    BY <1>0 DEF TypeOK
  <2> QED BY <1>1, <1>2, <1>4, <2>1, <2>2, MovedOutcome
<1>7. CASE m = "key"
  <2>1. PICK x \in trusts : /\ x.app = req[r].app /\ x.issuer = req[r].cred.issuer
                            /\ x.subject = req[r].cred.subject /\ aud \in x.auds
    BY <1>1, <1>7 DEF Candidates
  <2>2. Trusted(req[r].app, req[r].cred)
    BY <1>0, <1>4, <2>1 DEF Trusted
  <2>3. "trusted" \in seen[r]
    BY <1>3, <1>4, <2>2, Noticed, HoldsDefs, TellingDefs
  <2>4. req[r].cred.issuer \in Issuers
    <3>1. x \in FederatedCredential
      BY DEF TypeOK, RowsTyped
    <3> QED BY <2>1, <3>1 DEF FederatedCredential
  <2>5. Fits(m, q, seen[r]) /\ m \in Labels \ {"new", "done"}
    BY <1>2, <1>4, <1>7, <2>3, <2>4 DEF Fits, Labels
  <2>6. extKeys' \in [Issuers -> SUBSET Keys]
    BY <1>0 DEF TypeOK
  <2> QED BY <1>1, <1>2, <1>4, <2>5, <2>6, MovedOutcome
<1> QED BY <1>5, <1>6, <1>7

\* The cache answers with a key it holds, or the issuer's keys are fetched.
LEMMA LookUpKeyOutcome ==
    ASSUME TypeOK, AuthInv, NEW r \in Clients, LookUpKey(r)
    PROVE  Outcome(r)
<1> DEFINE i == req[r].cred.issuer
           k == req[r].cred.key
           m == IF Cached(i, k) THEN "verify" ELSE "fetch"
           keys == IF Cached(i, k) THEN extKeys[i] ELSE {}
           q == [req[r] EXCEPT !.todo = {}, !.fetched = keys]
<1>0. pc[r] = "key" /\ UNCHANGED extKeys /\ Goto(r, "key", m, q)
  BY DEF LookUpKey
<1>1. /\ NothingMissed /\ req[r].answer = "none" /\ req[r] \in Request
      /\ Fits("key", req[r], seen[r])
  BY <1>0, InService
<1>2. /\ req[r].cred.kind = "federated" /\ "trusted" \in seen[r] /\ i \in Issuers
  BY <1>1 DEF Fits
<1>3. keys \subseteq Keys
  BY <1>2 DEF TypeOK
<1>4. m = "verify" => k \in keys /\ k \in extKeys[i]
  BY DEF Cached
<1>5. m \in {"verify", "fetch"}
  OBVIOUS
<1> HIDE DEF m, keys
<1>6. /\ q \in Request /\ q.app = req[r].app /\ q.cred = req[r].cred /\ q.answer = req[r].answer
      /\ q.todo = {} /\ q.fetched = keys
  BY <1>1, <1>3 DEF Request
<1> HIDE DEF q
<1>7. m = "verify" => "known" \in seen[r]
  BY <1>0, <1>1, <1>2, <1>4, Noticed, HoldsDefs, TellingDefs
<1>8. Fits(m, q, seen[r]) /\ m \in Labels \ {"new", "done"}
  BY <1>2, <1>4, <1>5, <1>6, <1>7 DEF Fits, Labels
<1>9. extKeys' \in [Issuers -> SUBSET Keys]
  BY <1>0 DEF TypeOK
<1> QED BY <1>0, <1>1, <1>6, <1>8, <1>9, MovedOutcome

\* The issuer is asked: what it publishes is known of it at this moment, and
\* what is missing it does not publish.
LEMMA FetchOutcome ==
    ASSUME TypeOK, AuthInv, NEW r \in Clients, FetchIssuerKeys(r) \/ FetchFails(r)
    PROVE  Outcome(r)
<1>0. req[r] \in Request /\ UNCHANGED extKeys
  BY DEF TypeOK, FetchIssuerKeys, FetchFails
<1>1. CASE FetchFails(r)
  <2>1. Goto(r, "fetch", "refused", req[r])
    BY <1>1 DEF FetchFails
  <2> QED BY <1>0, <2>1, RefusedOutcome
<1>2. CASE FetchIssuerKeys(r)
  <2> DEFINE S == published[req[r].cred.issuer]
             q == [req[r] EXCEPT !.fetched = S]
  <2>1. pc[r] = "fetch" /\ Goto(r, "fetch", "store", q)
    BY <1>2 DEF FetchIssuerKeys
  <2>2. /\ NothingMissed /\ req[r].answer = "none" /\ req[r].todo \subseteq req[r].cred.auds
        /\ req[r].cred.kind = "federated" /\ "trusted" \in seen[r] /\ req[r].cred.issuer \in Issuers
    BY <2>1, InService DEF Fits
  <2>3. S \subseteq Keys
    BY <2>2 DEF TypeOK
  <2>4. IF req[r].cred.key \in S THEN "known" \in seen[r] ELSE "unpublished" \in seen[r]
    BY <2>1, <2>2, Noticed, HoldsDefs, TellingDefs
  <2> HIDE DEF S
  <2>5. /\ q \in Request /\ q.app = req[r].app /\ q.cred = req[r].cred /\ q.answer = req[r].answer
        /\ q.todo = req[r].todo /\ q.fetched = S
    BY <1>0, <2>3 DEF Request
  <2> HIDE DEF q
  <2>6. Fits("store", q, seen[r]) /\ "store" \in Labels \ {"new", "done"}
    BY <2>2, <2>4, <2>5 DEF Fits, Labels
  <2>7. extKeys' \in [Issuers -> SUBSET Keys]
    BY <1>0 DEF TypeOK
  <2> QED BY <2>1, <2>2, <2>5, <2>6, <2>7, MovedOutcome
<1> QED BY <1>1, <1>2

\* What was fetched replaces what the cache held.
LEMMA StoreKeysOutcome ==
    ASSUME TypeOK, AuthInv, NEW r \in Clients, StoreKeys(r)
    PROVE  Outcome(r)
<1>0. req[r] \in Request /\ Goto(r, "store", "verify", req[r])
  BY DEF TypeOK, StoreKeys
<1>1. pc[r] = "store"
  BY <1>0, GotoEffect
<1>2. /\ req[r].answer = "none" /\ req[r].todo \subseteq req[r].cred.auds
      /\ Fits("store", req[r], seen[r])
  BY <1>1, InService
<1>3. Fits("verify", req[r], seen[r]) /\ "verify" \in Labels \ {"new", "done"}
  BY <1>2 DEF Fits, Labels
<1>4. req[r].fetched \subseteq Keys
  BY <1>0 DEF Request
<1>5. extKeys' \in [Issuers -> SUBSET Keys]
  BY <1>4 DEF StoreKeys, TypeOK
<1> QED BY <1>0, <1>2, <1>3, <1>5, MovedOutcome

\* The federated assertion is verified under the keys that were looked up.
LEMMA VerifyFederatedOutcome ==
    ASSUME TypeOK, AuthInv, NEW r \in Clients, VerifyFederatedAssertion(r)
    PROVE  Outcome(r)
<1> DEFINE q == req[r]
<1>0. q \in Request /\ UNCHANGED extKeys
  BY DEF TypeOK, VerifyFederatedAssertion
<1>1. PICK m \in {"noKey", "proven", "refused"} :
        /\ Goto(r, "verify", m, q)
        /\ m = "noKey" => q.cred.key \notin q.fetched
        /\ m = "proven" => q.cred.key \in q.fetched /\ q.cred.good /\ now < q.cred.exp
  BY DEF VerifyFederatedAssertion
<1>2. pc[r] = "verify"
  BY <1>0, <1>1, GotoEffect
<1>3. NothingMissed /\ Fits("verify", q, seen[r])
  BY <1>2, InService
<1>4. /\ q.cred.kind = "federated" /\ "trusted" \in seen[r]
      /\ IF q.cred.key \in q.fetched THEN "known" \in seen[r] ELSE "unpublished" \in seen[r]
  BY <1>3 DEF Fits
<1>5. CASE m = "refused"
  BY <1>0, <1>1, <1>5, RefusedOutcome
<1>6. CASE m = "noKey"
  <2>1. m \in Ends /\ m # "proven" /\ "unpublished" \in seen[r]
    BY <1>1, <1>4, <1>6 DEF Ends
  <2>2. Answered(r) /\ req' \in [Clients -> Request] /\ \A x \in Clients : x # r => req'[x] = req[x]
    BY <1>0, <1>1, <2>1, GotoEffect DEF Answered
  <2> QED BY <1>0, <2>2 DEF Outcome, TypeOK
<1>7. CASE m = "proven"
  <2>1. "fresh" \in seen[r]
    BY <1>1, <1>2, <1>3, <1>4, <1>7, Noticed, HoldsDefs, TellingDefs
  <2>2. Proof(q.cred) \subseteq seen[r]
    BY <1>1, <1>4, <1>7, <2>1 DEF Proof
  <2>3. q.cred.kind # "none" /\ q.cred.good
    BY <1>1, <1>4, <1>7
  <2> QED BY <1>0, <1>1, <1>7, <2>2, <2>3, ProvenOutcome
<1> QED BY <1>5, <1>6, <1>7

\* So every step of a client has one of the outcomes.
LEMMA ClientOutcome ==
    ASSUME TypeOK, AuthInv, ClientNext PROVE \E r \in Clients : Outcome(r)
<1>1. PICK r \in Clients :
        \/ \E a \in Apps, c \in Presented[r] :
               GrantClientCredentials(r, a, c) \/ GrantToUser(r, a, c) \/ BeginRequestObject(r, a, c)
        \/ Handle(r)
  BY DEF ClientNext
<1>2. CASE Handle(r)
  BY <1>2, ReadClientOutcome, OwnProofOutcome, GetRequestObjectOutcome, MatchOutcome, LookUpKeyOutcome,
     FetchOutcome, StoreKeysOutcome, VerifyFederatedOutcome
     DEF Handle
<1> QED BY <1>1, <1>2, BeginOutcome

-----------------------------------------------------------------------------
\* The invariant, request by request

RequestSafe(r) ==
    /\ pc[r] \notin {"new", "done"} => Facts(r) \subseteq seen[r]
    /\ pc[r] # "done" =>
          /\ req[r].answer = "none"
          /\ req[r].todo \subseteq req[r].cred.auds
          /\ req[r].cred.kind \in {"none", "secret"} => req[r].cred.good
    /\ Fits(pc[r], req[r], seen[r])
    /\ req[r].answer = "ok" => /\ req[r].cred.good /\ Proof(req[r].cred) \subseteq seen[r]
                               /\ req[r].flow = "appOnly" => req[r].cred.kind # "none"
    /\ req[r].answer = "noKey" => "unpublished" \in seen[r]

\* The invariant is that every request is safe,
LEMMA SafeDef == AuthInv <=> \A r \in Clients : RequestSafe(r)
BY DEF AuthInv, RequestSafe, NothingMissed, ServedInOrder, StageFits, FindingsSeen, Fits,
       ProvenWhileServed, AppOnlyIsProven, PublishedKeyKnown

\* in the next state as well.
LEMMA SafeDefNext == AuthInv' <=> \A r \in Clients : RequestSafe(r)'
BY DEF AuthInv, RequestSafe, NothingMissed, ServedInOrder, StageFits, FindingsSeen, Fits,
       ProvenWhileServed, AppOnlyIsProven, PublishedKeyKnown

\* To have seen more never hurts.
LEMMA FitsGrows ==
    ASSUME NEW m, NEW q, NEW s, NEW s2, s \subseteq s2, Fits(m, q, s) PROVE Fits(m, q, s2)
BY DEF Fits

\* A request that does not move is as safe as before, whatever else happens.
LEMMA BystanderSafe ==
    ASSUME AuthInv, Watch, NEW r \in Clients, pc'[r] = pc[r], req'[r] = req[r]
    PROVE  RequestSafe(r)'
<1>1. RequestSafe(r) /\ NothingMissed
  BY SafeDef DEF AuthInv
<1>2. CASE pc[r] \in {"new", "done"}
  <2>1. seen'[r] = seen[r]
    BY <1>2, WatchEffect
  <2> QED BY <1>1, <1>2, <2>1 DEF RequestSafe, Fits
<1>3. CASE pc[r] \notin {"new", "done"}
  <2>1. seen[r] \subseteq seen'[r] /\ Facts(r)' \subseteq seen'[r]
    BY <1>1, <1>3, WatchEffect
  <2>2. Fits(pc[r], req[r], seen'[r])
    BY <1>1, <2>1, FitsGrows DEF RequestSafe
  <2>3. Fits(pc[r], req[r], seen[r])'
    BY <2>2 DEF Fits
  <2> QED BY <1>1, <1>3, <2>1, <2>3 DEF RequestSafe
<1> QED BY <1>2, <1>3

\* The proofs of a credential explain its acceptance.
LEMMA ProofExplains == ASSUME NEW c \in Credential PROVE Proof(c) \subseteq Explains("ok")
<1>1. c.kind \in Kinds
  BY DEF Credential, Kinds
<1> QED BY <1>1 DEF Proof, Explains, Kinds

\* The request that moves is safe after each of the outcomes.
LEMMA OutcomeSafe ==
    ASSUME TypeOK, AuthInv, Watch, UNCHANGED <<now, rows, published>>, NEW r \in Clients, Outcome(r)
    PROVE  RequestSafe(r)'
<1>1. RequestSafe(r) /\ NothingMissed
  BY SafeDef DEF AuthInv
<1>2. req'[r] \in Request /\ req'[r].cred \in Credential
  BY DEF Outcome, Request
<1>p. \A m : pc' = [pc EXCEPT ![r] = m] => pc'[r] = m
  BY DEF TypeOK
<1>3. CASE Answered(r)
  <2>1. /\ pc[r] # "done" /\ pc'[r] = "done"
        /\ req'[r].answer \in Answers
    BY <1>3, <1>p DEF Answered
  <2>2. seen'[r] = seen[r] \cap Explains(req'[r].answer)
    BY <2>1, WatchEffect
  <2>3. req'[r].answer = "ok" => /\ req'[r].cred.good /\ Proof(req'[r].cred) \subseteq seen'[r]
                                 /\ req'[r].flow = "appOnly" => req'[r].cred.kind # "none"
    BY <1>2, <1>3, <2>2, ProofExplains DEF Answered
  <2>4. req'[r].answer = "noKey" => "unpublished" \in seen'[r]
    BY <1>3, <2>2 DEF Answered, Explains
  <2>5. Fits(pc[r], req[r], seen[r])'
    BY <2>1 DEF Fits
  <2> QED BY <2>1, <2>3, <2>4, <2>5 DEF RequestSafe
<1>4. CASE MovedOn(r)
  <2>1. PICK m \in Labels \ {"new", "done"} : pc'[r] = m /\ Fits(m, req'[r], seen[r])
    BY <1>4, <1>p DEF MovedOn
  <2>2. /\ pc[r] \notin {"new", "done"} /\ req'[r].answer = "none"
        /\ req'[r].app = req[r].app /\ req'[r].cred = req[r].cred
        /\ req'[r].todo \subseteq req[r].cred.auds
    BY <1>4 DEF MovedOn
  <2>3. seen[r] \subseteq seen'[r] /\ Facts(r)' \subseteq seen'[r]
    BY <1>1, <2>1, <2>2, WatchEffect
  <2>4. Fits(m, req'[r], seen'[r])
    BY <2>1, <2>3, FitsGrows
  <2>5. Fits(pc[r], req[r], seen[r])'
    BY <2>1, <2>4 DEF Fits
  <2> QED BY <1>1, <2>1, <2>2, <2>3, <2>5 DEF RequestSafe
<1>5. CASE TakenUp(r)
  <2>1. PICK m \in {"client", "get"} :
          /\ pc'[r] = m
          /\ m = "client" => req'[r].cred.kind # "object"
          /\ m = "get" => /\ req'[r].cred.kind = "object"
                          /\ <<req'[r].app, req'[r].cred.origin>> \in origins
    BY <1>5, <1>p DEF TakenUp
  <2>2. /\ pc[r] = "new" /\ req'[r].answer = "none" /\ req'[r].todo \subseteq req'[r].cred.auds
        /\ req'[r].cred.kind \in {"none", "secret"} => req'[r].cred.good
    BY <1>5 DEF TakenUp
  <2>3. Facts(r)' \subseteq seen'[r]
    BY <2>1, <2>2, WatchEffect
  <2>4. m = "get" => "origin" \in seen'[r]
    <3>1. m = "get" => Holds(r, "origin")'
      <4>1. UNCHANGED origins
        BY DEF rows
      <4> QED BY <2>1, <4>1 DEF Holds
    <3>2. m = "get" => "origin" \in Telling(req'[r].cred.kind)
      BY <2>1, TellingDefs
    <3> QED BY <2>3, <3>1, <3>2 DEF Facts
  <2>5. Fits(pc[r], req[r], seen[r])'
    BY <2>1, <2>4 DEF Fits
  <2> QED BY <2>1, <2>2, <2>3, <2>5 DEF RequestSafe
<1> QED BY <1>3, <1>4, <1>5 DEF Outcome

-----------------------------------------------------------------------------
\* Type correctness and the invariant together

\* An administrator's request changes well-typed rows into well-typed rows and
\* leaves the clients' requests alone.
LEMMA WriterEffect ==
    ASSUME TypeOK, WriterNext
    PROVE  /\ RowsTyped'
           /\ \E w \in Writers : pc' = [pc EXCEPT ![w] = "done"]
<1> USE ClientAuthAssumptions
<1>t. /\ apps \subseteq Apps /\ confidential \in [Apps -> BOOLEAN]
      /\ secrets \subseteq AppSecret /\ keyCreds \subseteq AppKeyCredential
      /\ trusts \subseteq FederatedCredential /\ origins \subseteq Apps \X Origins
  BY DEF TypeOK, RowsTyped
<1>w. \A w \in Writers : w \in Ids
  BY DEF Ids
<1>1. ASSUME NEW r \in Writers, NEW a \in Apps, NEW t \in 0..MaxTime, AddSecret(r, a, t) PROVE RowsTyped'
  <2>1. [id |-> r, app |-> a, expires |-> t] \in AppSecret
    BY <1>w DEF AppSecret
  <2> QED BY <1>1, <1>t, <2>1 DEF AddSecret, RowsTyped
<1>2. ASSUME NEW r \in Writers, NEW s \in secrets, DeleteSecret(r, s) PROVE RowsTyped'
  BY <1>2, <1>t DEF DeleteSecret, RowsTyped
<1>3. ASSUME NEW r \in Writers, NEW a \in Apps, NEW k \in Keys, AddKeyCredential(r, a, k) PROVE RowsTyped'
  <2>1. [id |-> r, app |-> a, key |-> k] \in AppKeyCredential
    BY <1>w DEF AppKeyCredential
  <2> QED BY <1>3, <1>t, <2>1 DEF AddKeyCredential, RowsTyped
<1>4. ASSUME NEW r \in Writers, NEW c \in keyCreds, DeleteKeyCredential(r, c) PROVE RowsTyped'
  BY <1>4, <1>t DEF DeleteKeyCredential, RowsTyped
<1>5. ASSUME NEW r \in Writers, NEW a \in Apps, NEW i \in Issuers, NEW s \in Subjects,
             NEW A \in SUBSET Audiences, AddFederatedCredential(r, a, i, s, A)
      PROVE  RowsTyped'
  <2>1. [id |-> r, app |-> a, issuer |-> i, subject |-> s, auds |-> A] \in FederatedCredential
    BY <1>w DEF FederatedCredential
  <2> QED BY <1>5, <1>t, <2>1 DEF AddFederatedCredential, InsertTrust, RowsTyped
<1>6. ASSUME NEW r \in Writers, NEW c \in trusts, NEW i \in Issuers, NEW s \in Subjects,
             NEW A \in SUBSET Audiences, PatchFederatedCred(r, c, i, s, A)
      PROVE  RowsTyped'
  <2> DEFINE d == [c EXCEPT !.issuer = i, !.subject = s, !.auds = A]
  <2>1. d \in FederatedCredential
    <3>1. c \in FederatedCredential
      BY <1>t
    <3> QED BY <3>1 DEF FederatedCredential
  <2>2. trusts' = UpdateFederatedCredential(d)
    BY <1>6 DEF PatchFederatedCred
  <2> HIDE DEF d
  <2>3. trusts' \subseteq FederatedCredential
    BY <1>t, <2>1, <2>2 DEF UpdateFederatedCredential
  <2> QED BY <1>6, <1>t, <2>3 DEF PatchFederatedCred, RowsTyped
<1>7. ASSUME NEW r \in Writers, NEW c \in trusts, DeleteFederatedCred(r, c) PROVE RowsTyped'
  BY <1>7, <1>t DEF DeleteFederatedCred, RowsTyped
<1>8. ASSUME NEW r \in Writers, NEW a \in Apps, NEW o \in Origins, AddRedirectURI(r, a, o) PROVE RowsTyped'
  BY <1>8, <1>t DEF AddRedirectURI, RowsTyped
<1>9. ASSUME NEW r \in Writers, NEW x \in origins, DeleteRedirectURI(r, x) PROVE RowsTyped'
  BY <1>9, <1>t DEF DeleteRedirectURI, RowsTyped
<1>10. ASSUME NEW r \in Writers, NEW a \in Apps, PatchApp(r, a) PROVE RowsTyped'
  BY <1>10, <1>t DEF PatchApp, RowsTyped
<1>11. ASSUME NEW r \in Writers, NEW a \in Apps, DeleteApp(r, a) PROVE RowsTyped'
  BY <1>11, <1>t DEF DeleteApp, RowsTyped
<1>12. \E w \in Writers : pc' = [pc EXCEPT ![w] = "done"]
  BY ZenonT(60) DEF WriterNext, AddSecret, DeleteSecret, AddKeyCredential, DeleteKeyCredential, AddFederatedCredential,
         CreateFederatedCred, PatchFederatedCred, DeleteFederatedCred, AddRedirectURI, DeleteRedirectURI,
         PatchApp, DeleteApp, Serve
<1>13. RowsTyped'
  BY <1>1, <1>2, <1>3, <1>4, <1>5, <1>6, <1>7, <1>8, <1>9, <1>10, <1>11 DEF WriterNext, CreateFederatedCred
<1> QED BY <1>12, <1>13

\* Only facts are seen.
LEMMA SeenTyped ==
    ASSUME TypeOK, Watch, req' \in [Clients -> Request]
    PROVE  seen' \in [Clients -> SUBSET AllFacts]
<1>1. ASSUME NEW r \in Clients PROVE seen'[r] \subseteq AllFacts
  <2>1. seen[r] \subseteq AllFacts
    BY DEF TypeOK, AllFacts
  <2>2. req'[r].cred.kind \in Kinds
    <3>1. req'[r].cred \in Credential
      BY DEF Request
    <3> QED BY <3>1 DEF Credential, Kinds
  <2>3. Facts(r)' \subseteq AllFacts
    <3>1. Facts(r)' \subseteq Telling(req'[r].cred.kind)
      BY DEF Facts
    <3> QED BY <2>2, <3>1, TellingTyped
  <2>4. CASE pc[r] = "done" \/ pc'[r] \in {"new", "done"}
    <3>1. seen'[r] \subseteq seen[r]
      BY <2>4, WatchEffect
    <3> QED BY <2>1, <3>1
  <2>5. CASE ~(pc[r] = "done" \/ pc'[r] \in {"new", "done"})
    <3>1. seen'[r] \subseteq seen[r] \cup Facts(r)'
      BY <2>5, WatchEffect
    <3> QED BY <2>1, <2>3, <3>1
  <2> QED BY <2>4, <2>5
<1>2. seen' = [r \in Clients |-> seen'[r]]
  BY DEF Watch
<1> QED BY <1>1, <1>2

\* Each step keeps the types and the safety of every request.
LEMMA AuthStep ==
    ASSUME TypeOK, AuthInv, [Next]_vars PROVE TypeOK' /\ AuthInv'
<1> USE ClientAuthAssumptions
<1>t. /\ pc \in [Clients \cup Writers -> Labels] /\ now \in 0..MaxTime /\ RowsTyped
      /\ published \in [Issuers -> SUBSET Keys] /\ extKeys \in [Issuers -> SUBSET Keys]
      /\ req \in [Clients -> Request]
  BY DEF TypeOK, Labels
<1>d. (/\ pc' \in [Clients \cup Writers -> Labels] /\ now' \in 0..MaxTime /\ RowsTyped'
       /\ published' \in [Issuers -> SUBSET Keys] /\ extKeys' \in [Issuers -> SUBSET Keys]
       /\ req' \in [Clients -> Request] /\ seen' \in [Clients -> SUBSET AllFacts])
          => TypeOK'
  BY DEF TypeOK, Labels, AllFacts
<1>1. CASE UNCHANGED vars
  <2>1. UNCHANGED <<pc, now, apps, confidential, secrets, keyCreds, trusts, origins, published, extKeys, req, seen>>
    BY <1>1 DEF vars, rows
  <2>2. TypeOK'
    BY <2>1 DEF TypeOK, RowsTyped
  <2>3. ASSUME NEW r \in Clients PROVE RequestSafe(r)'
    <3>1. Facts(r)' = Facts(r)
      BY <2>1, FactsSame DEF rows
    <3> QED BY <2>1, <3>1, SafeDef DEF RequestSafe, Fits
  <2> QED BY <2>2, <2>3, SafeDefNext
<1>2. CASE Watch /\ WriterNext /\ UNCHANGED <<now, published, extKeys, req>>
  <2>1. PICK w \in Writers : pc' = [pc EXCEPT ![w] = "done"]
    BY <1>2, WriterEffect
  <2>2. pc' \in [Clients \cup Writers -> Labels] /\ \A r \in Clients : pc'[r] = pc[r]
    BY <1>t, <2>1 DEF Labels
  <2>3. RowsTyped' /\ seen' \in [Clients -> SUBSET AllFacts]
    BY <1>t, <1>2, WriterEffect, SeenTyped
  <2>4. TypeOK'
    BY <1>t, <1>d, <1>2, <2>2, <2>3
  <2>5. AuthInv'
    BY <1>2, <2>2, BystanderSafe, SafeDefNext
  <2> QED BY <2>4, <2>5
<1>3. CASE Watch /\ ClientNext /\ UNCHANGED <<now, rows, published>>
  <2>1. PICK r \in Clients : Outcome(r)
    BY <1>3, ClientOutcome
  <2>2. PICK m \in Labels : pc' = [pc EXCEPT ![r] = m]
    BY <2>1 DEF Outcome, Answered, MovedOn, TakenUp, Labels
  <2>3. pc' \in [Clients \cup Writers -> Labels] /\ \A x \in Clients : x # r => pc'[x] = pc[x]
    BY <1>t, <2>2
  <2>4. /\ req' \in [Clients -> Request] /\ extKeys' \in [Issuers -> SUBSET Keys]
        /\ \A x \in Clients : x # r => req'[x] = req[x]
    BY <2>1 DEF Outcome
  <2>5. RowsTyped' /\ seen' \in [Clients -> SUBSET AllFacts]
    BY <1>t, <1>3, <2>4, SeenTyped DEF rows, RowsTyped
  <2>6. TypeOK'
    BY <1>t, <1>d, <1>3, <2>3, <2>4, <2>5
  <2>7. RequestSafe(r)'
    BY <1>3, <2>1, OutcomeSafe
  <2>8. AuthInv'
    BY <1>3, <2>3, <2>4, <2>7, BystanderSafe, SafeDefNext
  <2> QED BY <2>6, <2>8
<1>4. CASE Watch /\ (Tick \/ \E i \in Issuers, S \in KeySets : RotateIssuer(i, S))
  <2>1. UNCHANGED <<pc, rows, extKeys, req>>
    BY <1>4 DEF Tick, RotateIssuer
  <2>2. now' \in 0..MaxTime /\ published' \in [Issuers -> SUBSET Keys]
    BY <1>t, <1>4 DEF Tick, RotateIssuer
  <2>3. RowsTyped' /\ seen' \in [Clients -> SUBSET AllFacts]
    BY <1>t, <1>4, <2>1, SeenTyped DEF rows, RowsTyped
  <2>4. TypeOK'
    BY <1>t, <1>d, <2>1, <2>2, <2>3
  <2>5. AuthInv'
    BY <1>4, <2>1, BystanderSafe, SafeDefNext
  <2> QED BY <2>4, <2>5
<1> QED BY <1>1, <1>2, <1>3, <1>4 DEF Next

\* In the beginning no request has been taken up.
LEMMA AuthInit == Init => TypeOK /\ AuthInv
<1> SUFFICES ASSUME Init PROVE TypeOK /\ AuthInv
  OBVIOUS
<1> USE ClientAuthAssumptions, IdleTyped
<1>1. TypeOK
  BY DEF Init, TypeOK, RowsTyped
<1>2. ASSUME NEW r \in Clients PROVE RequestSafe(r)
  <2>1. pc[r] = "new" /\ req[r] = Idle
    BY DEF Init
  <2> QED BY <2>1 DEF RequestSafe, Fits
<1> QED BY <1>1, <1>2, SafeDef

\* In every reachable state the types and the safety of requests hold.
LEMMA AuthInvariant == Spec => [](TypeOK /\ AuthInv)
<1>1. (TypeOK /\ AuthInv) /\ [Next]_vars => (TypeOK /\ AuthInv)'
  BY AuthStep
<1> QED BY <1>1, AuthInit, PTL DEF Spec

\* Every reachable state is well typed; in particular the key cache holds keys
\* of known issuers only.
THEOREM TypeCorrect == Spec => []TypeOK
BY AuthInvariant, PTL

\* A client is authenticated, or a request object applied, only on a proof that
\* held while the request was served, whatever administrators, other requests
\* and external issuers do in the meantime.
THEOREM ProvenWhileServedHolds == Spec => []ProvenWhileServed
<1>1. AuthInv => ProvenWhileServed
  BY DEF AuthInv
<1> QED BY <1>1, AuthInvariant, PTL

\* An app-only token is given only to a client that has proven itself, even when
\* is_confidential changes between the two looks of grantClientCredentials.
THEOREM AppOnlyIsProvenHolds == Spec => []AppOnlyIsProven
<1>1. AuthInv => AppOnlyIsProven
  BY DEF AuthInv
<1> QED BY <1>1, AuthInvariant, PTL

\* A workload is told that its key is unknown only if its issuer did not publish
\* it at some moment of the request.
THEOREM PublishedKeyKnownHolds == Spec => []PublishedKeyKnown
<1>1. AuthInv => PublishedKeyKnown
  BY DEF AuthInv
<1> QED BY <1>1, AuthInvariant, PTL
=============================================================================
