-------------------------- MODULE DeviceCodeProofs --------------------------
(***************************************************************************)
(* Safety of the device authorization grant for every number of devices,   *)
(* user codes, browsers, sessions and concurrent requests, and that it     *)
(* implements DeviceGrant.                                                 *)
(***************************************************************************)
EXTENDS DeviceCode, TLAPS

-----------------------------------------------------------------------------
\* Type correctness

\* The values the tables, requests and pages start from are well typed.
LEMMA BlanksTyped ==
    /\ BlankRow \in Row
    /\ [BlankRow EXCEPT !.status = "deleted"] \in Row
    /\ BlankSession \in Session
    /\ Idle \in Request
    /\ NoPage \in Page
BY DEF BlankRow, Row, BlankSession, Session, Idle, Request, NoPage, Page

\* Each step of the specification keeps every variable in its type.
LEMMA TypeStep == ASSUME TypeOK, [Next]_vars PROVE TypeOK'
<1> USE DeviceCodeAssumptions, BlanksTyped
<1>t. VariablesTyped /\ RequestsTyped /\ RowsTyped
  BY DEF TypeOK
<1>r. /\ \A r \in Requests : reqs[r] \in Request
      /\ \A d \in Devices : rows[d] \in Row
      /\ \A s \in Sids : sessions[s] \in Session
      /\ \A b \in Browsers : page[b] \in Page
  BY <1>t DEF VariablesTyped
<1>1. ASSUME NEW r \in Requests, NEW a \in Apps, NEW uc \in UserCodes,
             handleDeviceAuthorization(r, a, uc)
      PROVE  TypeOK'
  <2>1. [Idle EXCEPT !.pc = "insert", !.app = a, !.uc = uc] \in Request
    BY DEF Idle, Request
  <2>2. VariablesTyped'
    BY <1>1, <1>t, <2>1 DEF handleDeviceAuthorization, VariablesTyped
  <2>3. RequestsTyped'
    BY <1>1, <1>t DEF handleDeviceAuthorization, RequestsTyped, VariablesTyped, Idle
  <2>4. RowsTyped'
    BY <1>1, <1>t DEF handleDeviceAuthorization, RowsTyped, Exists
  <2> QED BY <2>2, <2>3, <2>4 DEF TypeOK
<1>2. ASSUME NEW r \in Requests, InsertDeviceCode(r) PROVE TypeOK'
  <2> DEFINE q == reqs[r]
             row == [status |-> "pending", uc |-> q.uc, app |-> q.app, user |-> None,
                     expires |-> now + DeviceCodeLifetime]
  <2>0. q.app \in Apps /\ q.uc \in UserCodes
    BY <1>2, <1>t DEF InsertDeviceCode, RequestsTyped
  <2>1. row \in Row /\ row.app \in Apps /\ row.uc \in UserCodes
    BY <1>t, <2>0 DEF Row, VariablesTyped
  <2>2. rows' = rows \/ \E d \in Devices : rows' = [rows EXCEPT ![d] = row]
    BY <1>2 DEF InsertDeviceCode
  <2> HIDE DEF row
  <2>3. VariablesTyped'
    BY <1>2, <1>t, <2>1, <2>2 DEF InsertDeviceCode, VariablesTyped, Finish
  <2>4. RequestsTyped'
    BY <1>2, <1>t DEF InsertDeviceCode, RequestsTyped, VariablesTyped, Finish, Idle
  <2>5. RowsTyped'
    BY <1>2, <1>t, <2>1, <2>2 DEF InsertDeviceCode, RowsTyped, Exists, VariablesTyped
  <2> QED BY <2>3, <2>4, <2>5 DEF TypeOK
<1>3. ASSUME NEW r \in Requests, NEW a \in Apps, NEW d \in Devices, grantDeviceCode(r, a, d)
      PROVE  TypeOK'
  <2> DEFINE q1 == [Idle EXCEPT !.pc = "delete", !.dev = d]
             q2 == [Idle EXCEPT !.pc = "consume", !.app = a, !.dev = d, !.at = now]
  <2>1. /\ q1 \in Request /\ q1.pc = "delete" /\ q1.dev = d
        /\ q2 \in Request /\ q2.pc = "consume" /\ q2.dev = d /\ q2.app = a
    <3>1. now \in Nat
      BY <1>t DEF VariablesTyped
    <3> QED BY <3>1 DEF Idle, Request
  <2>2. reqs' = [reqs EXCEPT ![r] = q1] \/ reqs' = [reqs EXCEPT ![r] = q2]
    BY <1>3 DEF grantDeviceCode
  <2> HIDE DEF q1, q2
  <2>3. VariablesTyped'
    BY <1>3, <1>t, <2>1, <2>2 DEF grantDeviceCode, VariablesTyped
  <2>4. RequestsTyped'
    BY <1>t, <2>1, <2>2 DEF RequestsTyped, VariablesTyped
  <2>5. RowsTyped'
    BY <1>3, <1>t DEF grantDeviceCode, RowsTyped, Exists
  <2> QED BY <2>3, <2>4, <2>5 DEF TypeOK
<1>4. ASSUME NEW r \in Requests, DeleteDeviceCode(r) PROVE TypeOK'
  <2> DEFINE row == [BlankRow EXCEPT !.status = "deleted"]
  <2>1. row \in Row /\ row.status = "deleted"
    BY DEF BlankRow, Row
  <2>2. rows' = rows \/ \E d \in Devices : rows' = [rows EXCEPT ![d] = row]
    BY <1>4, <1>t DEF DeleteDeviceCode, RequestsTyped
  <2> HIDE DEF row
  <2>3. VariablesTyped'
    BY <1>4, <1>t, <2>1, <2>2 DEF DeleteDeviceCode, VariablesTyped, Finish
  <2>4. RequestsTyped'
    BY <1>4, <1>t DEF DeleteDeviceCode, RequestsTyped, VariablesTyped, Finish, Idle
  <2>5. RowsTyped'
    BY <1>4, <1>t, <2>1, <2>2 DEF DeleteDeviceCode, RowsTyped, Exists, VariablesTyped
  <2> QED BY <2>3, <2>4, <2>5 DEF TypeOK
<1>5. ASSUME NEW r \in Requests, ConsumeApprovedDeviceCode(r) PROVE TypeOK'
  <2> DEFINE d == reqs[r].dev
             row == [rows[d] EXCEPT !.status = "consumed"]
             q == [reqs[r] EXCEPT !.pc = "user", !.user = rows[d].user]
  <2>0. d \in Devices
    BY <1>5, <1>t DEF ConsumeApprovedDeviceCode, RequestsTyped
  <2>1. row \in Row /\ row.status = "consumed"
    BY <1>r, <2>0 DEF Row
  <2>2. q \in Request /\ q.pc = "user" /\ q.dev \in Devices
    <3>1. rows[d].user \in Users \cup {None}
      BY <1>r, <2>0 DEF Row
    <3>2. reqs[r] \in Request
      BY <1>r
    <3> HIDE DEF d
    <3> QED BY <2>0, <3>1, <3>2 DEF Request, d
  <2>3. /\ rows' = rows \/ rows' = [rows EXCEPT ![d] = row]
        /\ reqs' = [reqs EXCEPT ![r] = Idle] \/ reqs' = [reqs EXCEPT ![r] = q]
    BY <1>5, <1>t DEF ConsumeApprovedDeviceCode, Finish
  <2> HIDE DEF d, row, q
  <2>4. VariablesTyped'
    BY <1>5, <1>t, <2>0, <2>1, <2>2, <2>3 DEF ConsumeApprovedDeviceCode, VariablesTyped
  <2>5. RequestsTyped'
    BY <1>t, <2>2, <2>3 DEF RequestsTyped, VariablesTyped, Idle
  <2>6. RowsTyped'
    BY <1>5, <1>t, <2>1, <2>3 DEF ConsumeApprovedDeviceCode, RowsTyped, Exists, VariablesTyped
  <2> QED BY <2>4, <2>5, <2>6 DEF TypeOK
<1>6. ASSUME NEW r \in Requests, GetUser(r) PROVE TypeOK'
  <2> DEFINE q == [reqs[r] EXCEPT !.pc = "mint"]
  <2>1. reqs[r].pc = "user" /\ reqs[r].dev \in Devices
    BY <1>6, <1>t DEF GetUser, RequestsTyped
  <2>2. q \in Request /\ q.pc = "mint" /\ q.dev \in Devices /\ q.user = reqs[r].user
    BY <1>r, <2>1 DEF Request
  <2>3. \/ reqs' = [reqs EXCEPT ![r] = Idle]
        \/ reqs' = [reqs EXCEPT ![r] = q] /\ q.user \in Users
    BY <1>6, <1>r, <2>2 DEF GetUser, Finish, Request
  <2> HIDE DEF q
  <2>4. VariablesTyped'
    BY <1>6, <1>t, <2>2, <2>3 DEF GetUser, VariablesTyped
  <2>5. RequestsTyped'
    BY <1>t, <2>2, <2>3 DEF RequestsTyped, VariablesTyped, Idle
  <2>6. RowsTyped'
    BY <1>6, <1>t DEF GetUser, RowsTyped, Exists
  <2> QED BY <2>4, <2>5, <2>6 DEF TypeOK
<1>7. ASSUME NEW r \in Requests, BuildDelegatedResponse(r) PROVE TypeOK'
  <2>1. reqs[r].dev \in Devices /\ reqs[r].user \in Users
    BY <1>7, <1>t DEF BuildDelegatedResponse, RequestsTyped
  <2>2. VariablesTyped'
    BY <1>7, <1>t, <2>1 DEF BuildDelegatedResponse, VariablesTyped, Finish
  <2>3. RequestsTyped'
    BY <1>7, <1>t DEF BuildDelegatedResponse, RequestsTyped, VariablesTyped, Finish, Idle
  <2>4. RowsTyped'
    BY <1>7, <1>t DEF BuildDelegatedResponse, RowsTyped, Exists
  <2> QED BY <2>2, <2>3, <2>4 DEF TypeOK
<1>8. ASSUME NEW r \in Requests, SetDeviceCodeDecision(r) PROVE TypeOK'
  <2> DEFINE q == reqs[r]
             verdictUser == IF q.verdict = "approved" THEN q.user ELSE None
  <2>1. q.verdict \in {"approved", "denied"} /\ verdictUser \in Users \cup {None}
        /\ q.seen \in Users \cup {None}
    BY <1>8, <1>t, <1>r DEF SetDeviceCodeDecision, RequestsTyped, Request
  <2>2. ASSUME NEW d \in Devices
        PROVE  [rows[d] EXCEPT !.status = q.verdict, !.user = verdictUser] \in Row
    BY ZenonT(60), <1>r, <2>1 DEF Row
  <2>3. rows' \in [Devices -> Row] /\ approver' \in [Devices -> Users \cup {None}]
    BY <1>8, <1>t, <2>1, <2>2 DEF SetDeviceCodeDecision, VariablesTyped
  <2>4. VariablesTyped'
    BY <1>8, <1>t, <2>3 DEF SetDeviceCodeDecision, VariablesTyped, Finish
  <2>5. RequestsTyped'
    BY <1>8, <1>t DEF SetDeviceCodeDecision, RequestsTyped, VariablesTyped, Finish, Idle
  <2>6. ASSUME NEW d \in Devices, Exists(d)'
        PROVE  Exists(d) /\ rows'[d].app = rows[d].app /\ rows'[d].uc = rows[d].uc
    BY <1>8, <1>r, <2>6 DEF SetDeviceCodeDecision, Exists, Decides, Row
  <2>7. RowsTyped'
    BY <1>8, <1>t, <2>6 DEF SetDeviceCodeDecision, RowsTyped
  <2> QED BY <2>4, <2>5, <2>7 DEF TypeOK
<1>9. ASSUME NEW b \in Browsers, NEW uc \in UserCodes, deviceLookup(b, uc) PROVE TypeOK'
  <2> DEFINE p1 == [kind |-> "consent", uc |-> uc, sid |-> cookie[b], user |-> sessions[cookie[b]].user]
             p2 == [kind |-> "signin", uc |-> uc, sid |-> None, user |-> None]
  <2>1. SessionValid(b) => /\ p1 \in Page /\ p1.uc = uc
                           /\ p1.sid \in Sids /\ p1.user \in Users
    BY <1>t DEF SessionValid, VariablesTyped, RowsTyped, Page
  <2>2. p2 \in Page /\ p2.kind = "signin" /\ p2.uc = uc
    BY DEF Page
  <2>3. \/ SessionValid(b) /\ page' = [page EXCEPT ![b] = p1]
        \/ page' = [page EXCEPT ![b] = p2]
    BY <1>9 DEF deviceLookup
  <2> HIDE DEF p1, p2
  <2>4. VariablesTyped'
    BY <1>9, <1>t, <2>1, <2>2, <2>3 DEF deviceLookup, VariablesTyped
  <2>5. RequestsTyped'
    BY <1>9, <1>t DEF deviceLookup, RequestsTyped
  <2>6. RowsTyped'
    BY <1>9, <1>t, <2>1, <2>2, <2>3 DEF deviceLookup, RowsTyped, Exists, VariablesTyped
  <2> QED BY <2>4, <2>5, <2>6 DEF TypeOK
<1>c. ASSUME NEW b \in Browsers, NEW u \in Users, NEW s \in Sids, CreateSession(b, u, s)
      PROVE  /\ sessions' \in [Sids -> Session]
             /\ cookie' \in [Browsers -> Sids \cup {None}]
             /\ \A x \in Sids : sessions'[x].status = "live" => sessions'[x].user \in Users
  <2> DEFINE row == [user |-> u, status |-> "live", expires |-> now + SessionLifetime]
  <2>1. row \in Session /\ row.user = u
    BY <1>t DEF Session, VariablesTyped
  <2>2. sessions' = [sessions EXCEPT ![s] = row] /\ cookie' = [cookie EXCEPT ![b] = s]
    BY <1>c DEF CreateSession
  <2> HIDE DEF row
  <2> QED BY <1>t, <2>1, <2>2 DEF VariablesTyped, RowsTyped
<1>10. ASSUME NEW b \in Browsers, NEW u \in Users, NEW s \in Sids, deviceSignIn(b, u, s)
       PROVE  TypeOK'
  <2> DEFINE p == [kind |-> "consent", uc |-> page[b].uc, sid |-> s, user |-> u]
  <2>1. p \in Page /\ p.sid = s /\ p.user = u /\ p.uc \in UserCodes
    BY <1>10, <1>t DEF deviceSignIn, VariablesTyped, RowsTyped, Page
  <2>2. CreateSession(b, u, s) /\ page' = [page EXCEPT ![b] = p]
    BY <1>10 DEF deviceSignIn
  <2> HIDE DEF p
  <2>3. VariablesTyped'
    BY <1>10, <1>t, <1>c, <2>1, <2>2 DEF deviceSignIn, VariablesTyped
  <2>4. RequestsTyped'
    BY <1>10, <1>t DEF deviceSignIn, RequestsTyped
  <2>5. RowsTyped'
    BY <1>10, <1>t, <1>c, <2>1, <2>2 DEF deviceSignIn, RowsTyped, Exists, VariablesTyped
  <2> QED BY <2>3, <2>4, <2>5 DEF TypeOK
<1>11. ASSUME NEW b \in Browsers, NEW u \in Users, NEW s \in Sids, SignInElsewhere(b, u, s)
       PROVE  TypeOK'
  <2>1. CreateSession(b, u, s)
    BY <1>11 DEF SignInElsewhere
  <2>2. VariablesTyped'
    BY <1>11, <1>t, <1>c, <2>1 DEF SignInElsewhere, VariablesTyped
  <2>3. RequestsTyped'
    BY <1>11, <1>t DEF SignInElsewhere, RequestsTyped
  <2>4. RowsTyped'
    BY <1>11, <1>t, <1>c, <2>1 DEF SignInElsewhere, RowsTyped, Exists
  <2> QED BY <2>2, <2>3, <2>4 DEF TypeOK
<1>12. ASSUME NEW r \in Requests, NEW b \in Browsers, NEW verdict \in {"approved", "denied"},
              deviceDecide(r, b, verdict)
       PROVE  TypeOK'
  <2> DEFINE q == [Idle EXCEPT !.pc = "decide", !.uc = page[b].uc, !.verdict = verdict,
                               !.user = sessions[cookie[b]].user, !.seen = page[b].user]
  <2>1. /\ page[b].uc \in UserCodes /\ page[b].user \in Users
        /\ sessions[cookie[b]].user \in Users
    BY <1>12, <1>t DEF deviceDecide, SessionMatches, SessionValid, VariablesTyped, RowsTyped
  <2>2. /\ q \in Request /\ q.pc = "decide" /\ q.uc \in UserCodes /\ q.user \in Users
        /\ q.verdict \in {"approved", "denied"}
    BY <2>1 DEF Idle, Request
  <2>3. reqs' = [reqs EXCEPT ![r] = q]
    BY <1>12 DEF deviceDecide
  <2> HIDE DEF q
  <2>4. VariablesTyped'
    BY <1>12, <1>t, <2>2, <2>3 DEF deviceDecide, VariablesTyped
  <2>5. RequestsTyped'
    BY <1>t, <2>2, <2>3 DEF RequestsTyped, VariablesTyped
  <2>6. RowsTyped'
    BY <1>12, <1>t DEF deviceDecide, RowsTyped, Exists
  <2> QED BY <2>4, <2>5, <2>6 DEF TypeOK
<1>d. ASSUME NEW s \in Sids PROVE [sessions[s] EXCEPT !.status = "deleted"] \in Session
  BY <1>r DEF Session
<1>13. ASSUME NEW b \in Browsers, clearSession(b) PROVE TypeOK'
  <2> DEFINE s == cookie[b]
             row == [sessions[s] EXCEPT !.status = "deleted"]
  <2>1. s \in Sids
    BY <1>13, <1>t DEF clearSession, VariablesTyped
  <2>2. row \in Session /\ row.status = "deleted"
    BY <1>r, <1>d, <2>1 DEF Session
  <2>3. sessions' = [sessions EXCEPT ![s] = row]
    BY <1>13 DEF clearSession
  <2> HIDE DEF s, row
  <2>4. VariablesTyped'
    BY <1>13, <1>t, <2>1, <2>2, <2>3 DEF clearSession, VariablesTyped
  <2>5. RequestsTyped'
    BY <1>13, <1>t DEF clearSession, RequestsTyped
  <2>6. RowsTyped'
    BY <1>13, <1>t, <2>2, <2>3 DEF clearSession, RowsTyped, Exists, VariablesTyped
  <2> QED BY <2>4, <2>5, <2>6 DEF TypeOK
<1>14. ASSUME NEW u \in Users, DeleteUser(u) PROVE TypeOK'
  <2>1. ASSUME NEW d \in Devices PROVE [rows[d] EXCEPT !.user = None] \in Row
    BY <1>r DEF Row
  <2>2. VariablesTyped'
    BY <1>14, <1>t, <1>d, <2>1 DEF DeleteUser, VariablesTyped
  <2>3. RequestsTyped'
    BY <1>14, <1>t DEF DeleteUser, RequestsTyped
  <2>4. ASSUME NEW d \in Devices
        PROVE  /\ rows'[d].app = rows[d].app /\ rows'[d].uc = rows[d].uc
               /\ rows'[d].status = rows[d].status
    BY <1>14, <1>r DEF DeleteUser, Row
  <2>5. ASSUME NEW s \in Sids, sessions'[s].status = "live"
        PROVE  sessions[s].status = "live" /\ sessions'[s].user = sessions[s].user
    BY <1>14, <1>r, <2>5 DEF DeleteUser, Session
  <2>6. RowsTyped'
    BY <1>14, <1>t, <2>4, <2>5 DEF DeleteUser, RowsTyped, Exists
  <2> QED BY <2>2, <2>3, <2>6 DEF TypeOK
<1>15. ASSUME NEW u \in Users, NEW state \in {"enabled", "disabled"},
              SetAccountEnabled(u, state) \/ RestoreUser(u, state)
       PROVE  TypeOK'
  <2>1. VariablesTyped'
    BY <1>15, <1>t DEF SetAccountEnabled, RestoreUser, VariablesTyped
  <2> QED BY <1>15, <1>t, <2>1
          DEF SetAccountEnabled, RestoreUser, TypeOK, RequestsTyped, RowsTyped, Exists
<1>16. ASSUME NEW a \in Apps, DeleteApp(a) PROVE TypeOK'
  <2>1. VariablesTyped'
    BY <1>16, <1>t DEF DeleteApp, VariablesTyped
  <2>2. RequestsTyped'
    BY <1>16, <1>t DEF DeleteApp, RequestsTyped
  <2>3. ASSUME NEW d \in Devices, Exists(d)' PROVE Exists(d) /\ rows'[d] = rows[d]
    BY <1>16, <2>3 DEF DeleteApp, Exists, BlankRow
  <2>4. RowsTyped'
    BY <1>16, <1>t, <2>3 DEF DeleteApp, RowsTyped
  <2> QED BY <2>1, <2>2, <2>4 DEF TypeOK
<1>17. ASSUME NEW a \in Apps, RestoreApp(a) PROVE TypeOK'
  <2>1. VariablesTyped'
    BY <1>17, <1>t DEF RestoreApp, VariablesTyped
  <2> QED BY <1>17, <1>t, <2>1 DEF RestoreApp, TypeOK, RequestsTyped, RowsTyped, Exists
<1>18. ASSUME NEW n \in 0..MaxNow, SetClock(n) PROVE TypeOK'
  <2>1. VariablesTyped'
    BY <1>18, <1>t DEF SetClock, VariablesTyped
  <2> QED BY <1>18, <1>t, <2>1 DEF SetClock, TypeOK, RequestsTyped, RowsTyped, Exists
<1>19. ASSUME Restart PROVE TypeOK'
  <2>1. VariablesTyped'
    BY <1>19, <1>t DEF Restart, VariablesTyped
  <2>2. RequestsTyped'
    BY <1>19 DEF Restart, RequestsTyped, Idle
  <2>3. RowsTyped'
    BY <1>19, <1>t DEF Restart, RowsTyped, Exists, NoPage
  <2> QED BY <2>1, <2>2, <2>3 DEF TypeOK
<1>20. ASSUME UNCHANGED vars PROVE TypeOK'
  BY <1>20, <1>t DEF vars, TypeOK, VariablesTyped, RequestsTyped, RowsTyped, Exists
<1> QED
  BY <1>1, <1>2, <1>3, <1>4, <1>5, <1>6, <1>7, <1>8, <1>9, <1>10, <1>11, <1>12, <1>13, <1>14,
     <1>15, <1>16, <1>17, <1>18, <1>19, <1>20
     DEF Next, Poll, Step, Browse, Directory

\* The initial state is well typed.
LEMMA TypeInit == Init => TypeOK
<1> SUFFICES ASSUME Init PROVE TypeOK
  OBVIOUS
<1>1. VariablesTyped
  BY BlanksTyped, DeviceCodeAssumptions DEF Init, VariablesTyped
<1>2. RequestsTyped
  BY DEF Init, RequestsTyped, Idle
<1>3. RowsTyped
  BY DEF Init, RowsTyped, Exists, BlankRow, BlankSession, NoPage
<1> QED BY <1>1, <1>2, <1>3 DEF TypeOK

\* Every variable keeps its type, whatever requests, browsers and
\* administrators do.
THEOREM TypeCorrect == Spec => []TypeOK
<1>1. TypeOK /\ [Next]_vars => TypeOK'
  BY TypeStep
<1> QED BY <1>1, TypeInit, PTL DEF Spec

-----------------------------------------------------------------------------
\* User codes are unique, and a taken row belongs to one poll

\* User codes stay unique when no row is added and none changes its code.
LEMMA FewerRowsUnique ==
    ASSUME UserCodesUnique,
           \A d \in Devices : Exists(d)' => Exists(d) /\ rows'[d].uc = rows[d].uc
    PROVE  UserCodesUnique'
BY DEF UserCodesUnique

\* A step that takes no row, answers no poll and starts none keeps what is
\* known of polls and of rows that were not taken.
LEMMA QuietStep ==
    ASSUME PollsHoldRows, UntakenRows, responses' = responses,
           \A r \in Requests : reqs'[r] = reqs[r] \/ reqs'[r].pc \in {"idle", "insert", "decide"},
           \A r \in Requests : reqs[r].pc \in {"delete", "consume"} => reqs[r].dev \in Devices,
           \A d \in Devices :
              /\ rows[d].status # "unused" => rows'[d].status # "unused"
              /\ rows[d].status = "consumed" => rows'[d] = rows[d]
              /\ rows'[d].status = "consumed" => rows[d].status = "consumed"
              /\ rows'[d].status \notin {"approved", "consumed"} => rows'[d].user = None
    PROVE  PollsHoldRows' /\ UntakenRows'
<1>1. PollsHoldRows'
  <2> SUFFICES ASSUME NEW r \in Requests
               PROVE  /\ reqs'[r].pc \in {"delete", "consume"} => rows'[reqs'[r].dev].status # "unused"
                      /\ \A d \in Devices : Redeems(r, d)' =>
                            /\ rows'[d].status = "consumed"
                            /\ rows'[d].user = reqs'[r].user
                            /\ responses'[d] = 0
                            /\ \A q \in Requests : Redeems(q, d)' => q = r
    BY DEF PollsHoldRows
  <2>1. CASE reqs'[r].pc \in {"idle", "insert", "decide"}
    BY <2>1 DEF Redeems
  <2>2. CASE reqs'[r] = reqs[r]
    <3>1. reqs[r].pc \in {"delete", "consume"} => rows'[reqs[r].dev].status # "unused"
      BY DEF PollsHoldRows
    <3>2. ASSUME NEW d \in Devices, Redeems(r, d)
          PROVE  /\ rows'[d].status = "consumed"
                 /\ rows'[d].user = reqs[r].user
                 /\ responses'[d] = 0
                 /\ \A q \in Requests : Redeems(q, d)' => q = r
      <4>1. /\ rows[d].status = "consumed" /\ rows[d].user = reqs[r].user /\ responses[d] = 0
            /\ \A q \in Requests : Redeems(q, d) => q = r
        BY <3>2 DEF PollsHoldRows
      <4>2. \A q \in Requests : Redeems(q, d)' => Redeems(q, d)
        BY DEF Redeems
      <4> QED BY <4>1, <4>2
    <3> QED BY <2>2, <3>1, <3>2 DEF Redeems
  <2> QED BY <2>1, <2>2
<1>2. UntakenRows'
  BY DEF UntakenRows
<1> QED BY <1>1, <1>2

\* What a poll does to the requests: it goes on to delete or to consume.
LEMMA PollStarts ==
    ASSUME reqs \in [Requests -> Request],
           NEW r \in Requests, NEW a \in Apps, NEW d \in Devices, grantDeviceCode(r, a, d)
    PROVE  /\ \A q \in Requests : q # r => reqs'[q] = reqs[q]
           /\ reqs'[r].pc \in {"delete", "consume"} /\ reqs'[r].dev = d
<1> DEFINE q1 == [Idle EXCEPT !.pc = "delete", !.dev = d]
           q2 == [Idle EXCEPT !.pc = "consume", !.app = a, !.dev = d, !.at = now]
<1>1. q1.pc = "delete" /\ q1.dev = d /\ q2.pc = "consume" /\ q2.dev = d
  BY DEF Idle
<1>2. reqs' = [reqs EXCEPT ![r] = q1] \/ reqs' = [reqs EXCEPT ![r] = q2]
  BY DEF grantDeviceCode
<1> HIDE DEF q1, q2
<1> QED BY <1>1, <1>2

\* Each step keeps the grant invariant.
LEMMA GrantStep == ASSUME GrantInv, [Next]_vars PROVE GrantInv'
<1> USE DeviceCodeAssumptions
<1>g. TypeOK /\ UserCodesUnique /\ PollsHoldRows /\ UntakenRows
  BY DEF GrantInv
<1>t. TypeOK'
  BY <1>g, TypeStep
<1>r. /\ \A r \in Requests : reqs[r] \in Request
      /\ \A d \in Devices : rows[d] \in Row
      /\ rows \in [Devices -> Row] /\ reqs \in [Requests -> Request]
      /\ responses \in [Devices -> Nat]
  BY <1>g DEF TypeOK, VariablesTyped
<1>d. \A r \in Requests :
        reqs[r].pc \in {"delete", "consume", "user", "mint"} => reqs[r].dev \in Devices
  BY <1>g DEF TypeOK, RequestsTyped
<1>e. \A r \in Requests : reqs[r].pc \in {"delete", "consume"} => reqs[r].dev \in Devices
  BY <1>d
<1>u. \A d \in Devices : rows[d].status \notin {"approved", "consumed"} => rows[d].user = None
  BY <1>g DEF UntakenRows
<1>q. ASSUME responses' = responses, rows' = rows,
             \A r \in Requests : reqs'[r] = reqs[r] \/ reqs'[r].pc \in {"idle", "insert", "decide"}
      PROVE  GrantInv'
  <2>1. UserCodesUnique'
    BY <1>g, <1>q, FewerRowsUnique DEF Exists
  <2>2. PollsHoldRows' /\ UntakenRows'
    BY <1>g, <1>q, <1>e, <1>u, QuietStep
  <2> QED BY <1>t, <2>1, <2>2 DEF GrantInv
<1>1. ASSUME NEW r \in Requests, NEW a \in Apps, NEW uc \in UserCodes,
             handleDeviceAuthorization(r, a, uc)
      PROVE  GrantInv'
  BY <1>1, <1>q, <1>r DEF handleDeviceAuthorization, Idle
<1>2. ASSUME NEW r \in Requests, InsertDeviceCode(r) PROVE GrantInv'
  <2>1. \A q \in Requests : reqs'[q] = reqs[q] \/ reqs'[q].pc = "idle"
    BY <1>2, <1>r DEF InsertDeviceCode, Finish, Idle
  <2>2. responses' = responses
    BY <1>2 DEF InsertDeviceCode
  <2>3. CASE rows' = rows
    BY <1>q, <2>1, <2>2, <2>3
  <2>4. CASE rows' # rows
    <3> DEFINE q == reqs[r]
               row == [status |-> "pending", uc |-> q.uc, app |-> q.app, user |-> None,
                       expires |-> now + DeviceCodeLifetime]
    <3>1. PICK d \in Devices :
            ~UserCodeExists(q.uc) /\ rows[d].status = "unused" /\ rows' = [rows EXCEPT ![d] = row]
      BY <1>2, <2>4 DEF InsertDeviceCode, InsertAccepted
    <3>2. row.status = "pending" /\ row.uc = q.uc /\ row.user = None
      OBVIOUS
    <3> HIDE DEF row
    <3>3. \A x \in Devices : IF x = d THEN rows'[x] = row ELSE rows'[x] = rows[x]
      BY <1>r, <3>1
    <3>4. UserCodesUnique'
      BY <1>g, <3>1, <3>2, <3>3 DEF UserCodesUnique, Exists, UserCodeExists
    <3>5. PollsHoldRows' /\ UntakenRows'
      BY <1>g, <1>e, <1>u, <2>1, <2>2, <3>1, <3>2, <3>3, QuietStep
    <3> QED BY <1>t, <3>4, <3>5 DEF GrantInv
  <2> QED BY <2>3, <2>4
<1>3. ASSUME NEW r \in Requests, NEW a \in Apps, NEW d \in Devices, grantDeviceCode(r, a, d)
      PROVE  GrantInv'
  <2>1. UNCHANGED <<rows, responses>>
    BY <1>3 DEF grantDeviceCode
  <2>2. /\ \A q \in Requests : q # r => reqs'[q] = reqs[q]
        /\ reqs'[r].pc \in {"delete", "consume"} /\ reqs'[r].dev = d
    BY <1>3, <1>r, PollStarts
  <2>3. rows[d].status # "unused"
    BY <1>3 DEF grantDeviceCode, Exists
  <2>4. \A q \in Requests, x \in Devices : Redeems(q, x)' => Redeems(q, x) /\ q # r
    BY <2>2 DEF Redeems
  <2>5. PollsHoldRows'
    <3> SUFFICES ASSUME NEW q \in Requests
                 PROVE  /\ reqs'[q].pc \in {"delete", "consume"} => rows'[reqs'[q].dev].status # "unused"
                        /\ \A x \in Devices : Redeems(q, x)' =>
                              /\ rows'[x].status = "consumed"
                              /\ rows'[x].user = reqs'[q].user
                              /\ responses'[x] = 0
                              /\ \A p \in Requests : Redeems(p, x)' => p = q
      BY DEF PollsHoldRows
    <3>1. reqs'[q].pc \in {"delete", "consume"} => rows'[reqs'[q].dev].status # "unused"
      BY <1>g, <2>1, <2>2, <2>3 DEF PollsHoldRows
    <3>2. ASSUME NEW x \in Devices, Redeems(q, x)'
          PROVE  /\ rows'[x].status = "consumed"
                 /\ rows'[x].user = reqs'[q].user
                 /\ responses'[x] = 0
                 /\ \A p \in Requests : Redeems(p, x)' => p = q
      BY <1>g, <2>1, <2>2, <2>4, <3>2 DEF PollsHoldRows
    <3> QED BY <3>1, <3>2
  <2>6. UntakenRows' /\ UserCodesUnique'
    BY <1>g, <2>1 DEF UntakenRows, UserCodesUnique, Exists
  <2> QED BY <1>t, <2>5, <2>6 DEF GrantInv
<1>4. ASSUME NEW r \in Requests, DeleteDeviceCode(r) PROVE GrantInv'
  <2>1. \A q \in Requests : reqs'[q] = reqs[q] \/ reqs'[q].pc = "idle"
    BY <1>4, <1>r DEF DeleteDeviceCode, Finish, Idle
  <2>2. responses' = responses
    BY <1>4 DEF DeleteDeviceCode
  <2>3. \A d \in Devices :
          \/ rows'[d] = rows[d]
          \/ /\ rows[d].status # "consumed"
             /\ rows'[d].status = "deleted" /\ rows'[d].user = None
    BY <1>4, <1>r DEF DeleteDeviceCode, Exists, BlankRow
  <2>4. UserCodesUnique'
    BY <1>g, <2>3, FewerRowsUnique DEF Exists
  <2>5. PollsHoldRows' /\ UntakenRows'
    BY <1>g, <1>e, <1>u, <2>1, <2>2, <2>3, QuietStep
  <2> QED BY <1>t, <2>4, <2>5 DEF GrantInv
<1>5. ASSUME NEW r \in Requests, ConsumeApprovedDeviceCode(r) PROVE GrantInv'
  <2>0. PICK d \in Devices : d = reqs[r].dev /\ responses' = responses
    BY <1>5, <1>d DEF ConsumeApprovedDeviceCode
  <2>1. CASE ~ConsumeWins(reqs[r])
    <3>1. rows' = rows /\ \A q \in Requests : reqs'[q] = reqs[q] \/ reqs'[q].pc = "idle"
      BY <1>5, <1>r, <2>1 DEF ConsumeApprovedDeviceCode, Finish, Idle
    <3> QED BY <1>q, <2>0, <3>1
  <2>2. CASE ConsumeWins(reqs[r])
    <3>1. rows[d].status = "approved"
      BY <2>0, <2>2 DEF ConsumeWins
    <3>2. /\ \A x \in Devices : x # d => rows'[x] = rows[x]
          /\ rows'[d].status = "consumed" /\ rows'[d].user = rows[d].user
      BY <1>5, <1>r, <2>0, <2>2 DEF ConsumeApprovedDeviceCode, Row
    <3>3. /\ \A q \in Requests : q # r => reqs'[q] = reqs[q]
          /\ reqs'[r].pc = "user" /\ reqs'[r].dev = d /\ reqs'[r].user = rows[d].user
      <4>1. reqs' = [reqs EXCEPT ![r] = [reqs[r] EXCEPT !.pc = "user", !.user = rows[d].user]]
        BY <1>5, <2>0, <2>2 DEF ConsumeApprovedDeviceCode
      <4> QED BY <1>r, <2>0, <4>1 DEF Request
    <3>4. responses[d] = 0 /\ \A q \in Requests : ~Redeems(q, d)
      BY <1>g, <2>0, <3>1 DEF UntakenRows, PollsHoldRows
    <3>5. /\ \A q \in Requests : Redeems(q, d)' => q = r
          /\ \A q \in Requests, x \in Devices : (Redeems(q, x)' /\ x # d) => Redeems(q, x) /\ q # r
      BY <3>3, <3>4 DEF Redeems
    <3>6. UserCodesUnique'
      BY <1>g, <3>2, FewerRowsUnique DEF Exists
    <3>7. UntakenRows'
      BY <1>g, <2>0, <3>2 DEF UntakenRows
    <3>8. PollsHoldRows'
      <4> SUFFICES ASSUME NEW q \in Requests
                   PROVE  /\ reqs'[q].pc \in {"delete", "consume"} => rows'[reqs'[q].dev].status # "unused"
                          /\ \A x \in Devices : Redeems(q, x)' =>
                                /\ rows'[x].status = "consumed"
                                /\ rows'[x].user = reqs'[q].user
                                /\ responses'[x] = 0
                                /\ \A p \in Requests : Redeems(p, x)' => p = q
        BY DEF PollsHoldRows
      <4>1. reqs'[q].pc \in {"delete", "consume"} => rows'[reqs'[q].dev].status # "unused"
        BY <1>g, <1>d, <3>2, <3>3 DEF PollsHoldRows
      <4>2. ASSUME NEW x \in Devices, Redeems(q, x)', x # d
            PROVE  /\ rows'[x].status = "consumed" /\ rows'[x].user = reqs'[q].user
                   /\ responses'[x] = 0 /\ \A p \in Requests : Redeems(p, x)' => p = q
        BY <1>g, <2>0, <3>2, <3>3, <3>5, <4>2 DEF PollsHoldRows
      <4>3. ASSUME Redeems(q, d)'
            PROVE  /\ rows'[d].status = "consumed" /\ rows'[d].user = reqs'[q].user
                   /\ responses'[d] = 0 /\ \A p \in Requests : Redeems(p, d)' => p = q
        BY <2>0, <3>2, <3>3, <3>4, <3>5, <4>3
      <4> QED BY <4>1, <4>2, <4>3
    <3> QED BY <1>t, <3>6, <3>7, <3>8 DEF GrantInv
  <2> QED BY <2>1, <2>2
<1>6. ASSUME NEW r \in Requests, GetUser(r) PROVE GrantInv'
  <2>1. UNCHANGED <<rows, responses>>
    BY <1>6 DEF GetUser
  <2>2. CASE \A q \in Requests : reqs'[q] = reqs[q] \/ reqs'[q].pc = "idle"
    BY <1>q, <2>1, <2>2
  <2>3. CASE reqs' = [reqs EXCEPT ![r].pc = "mint"]
    <3>1. /\ \A q \in Requests : q # r => reqs'[q] = reqs[q]
          /\ reqs[r].pc = "user" /\ reqs'[r].pc = "mint"
          /\ reqs'[r].dev = reqs[r].dev /\ reqs'[r].user = reqs[r].user
      BY <1>6, <1>r, <2>3 DEF GetUser, Request
    <3>2. \A q \in Requests, x \in Devices : Redeems(q, x)' <=> Redeems(q, x)
      BY <3>1 DEF Redeems
    <3>3. PollsHoldRows'
      BY <1>g, <2>1, <3>1, <3>2 DEF PollsHoldRows
    <3>4. UntakenRows' /\ UserCodesUnique'
      BY <1>g, <2>1 DEF UntakenRows, UserCodesUnique, Exists
    <3> QED BY <1>t, <3>3, <3>4 DEF GrantInv
  <2> QED BY <1>6, <1>r, <2>2, <2>3 DEF GetUser, Finish, Idle
<1>7. ASSUME NEW r \in Requests, BuildDelegatedResponse(r) PROVE GrantInv'
  <2> DEFINE d == reqs[r].dev
  <2>1. rows' = rows /\ d \in Devices /\ Redeems(r, d)
    BY <1>7, <1>d DEF BuildDelegatedResponse, Redeems
  <2>2. \A q \in Requests : IF q = r THEN reqs'[q].pc = "idle" ELSE reqs'[q] = reqs[q]
    BY <1>7, <1>r DEF BuildDelegatedResponse, Finish, Idle
  <2>3. \A x \in Devices : x # d => responses'[x] = responses[x]
    BY <1>7, <1>r DEF BuildDelegatedResponse
  <2>4. rows[d].status = "consumed" /\ \A q \in Requests : Redeems(q, d) => q = r
    BY <1>g, <2>1 DEF PollsHoldRows
  <2> HIDE DEF d
  <2>5. \A q \in Requests, x \in Devices : Redeems(q, x)' => Redeems(q, x) /\ q # r /\ x # d
    BY <2>2, <2>4 DEF Redeems
  <2>6. PollsHoldRows'
    <3>1. \A q \in Requests : reqs'[q].pc \in {"delete", "consume"} => rows'[reqs'[q].dev].status # "unused"
      BY <1>g, <2>1, <2>2 DEF PollsHoldRows
    <3>2. ASSUME NEW q \in Requests, NEW x \in Devices, Redeems(q, x)'
          PROVE  /\ rows'[x].status = "consumed" /\ rows'[x].user = reqs'[q].user
                 /\ responses'[x] = 0 /\ \A p \in Requests : Redeems(p, x)' => p = q
      BY <1>g, <2>1, <2>2, <2>3, <2>5, <3>2 DEF PollsHoldRows
    <3> QED BY <3>1, <3>2 DEF PollsHoldRows
  <2>7. UntakenRows' /\ UserCodesUnique'
    BY <1>g, <2>1, <2>3, <2>4 DEF UntakenRows, UserCodesUnique, Exists
  <2> QED BY <1>t, <2>6, <2>7 DEF GrantInv
<1>8. ASSUME NEW r \in Requests, SetDeviceCodeDecision(r) PROVE GrantInv'
  <2>1. \A q \in Requests : reqs'[q] = reqs[q] \/ reqs'[q].pc = "idle"
    BY <1>8, <1>r DEF SetDeviceCodeDecision, Finish, Idle
  <2>2. responses' = responses /\ reqs[r].verdict \in {"approved", "denied"}
    BY <1>8, <1>g DEF SetDeviceCodeDecision, TypeOK, RequestsTyped
  <2>3. \A d \in Devices :
          \/ rows'[d] = rows[d]
          \/ /\ rows[d].status = "pending" /\ rows'[d].uc = rows[d].uc
             /\ rows'[d].status \in {"approved", "denied"}
             /\ rows'[d].status = "denied" => rows'[d].user = None
    BY ZenonT(60), <1>8, <1>r, <2>2 DEF SetDeviceCodeDecision, Decides, Row
  <2>4. UserCodesUnique'
    BY <1>g, <2>3, FewerRowsUnique DEF Exists
  <2>5. PollsHoldRows' /\ UntakenRows'
    BY <1>g, <1>e, <1>u, <2>1, <2>2, <2>3, QuietStep
  <2> QED BY <1>t, <2>4, <2>5 DEF GrantInv
<1>9. ASSUME Browse PROVE GrantInv'
  <2>1. UNCHANGED <<rows, responses>>
    BY <1>9 DEF Browse, deviceLookup, deviceSignIn, SignInElsewhere, deviceDecide, clearSession
  <2>2. \A q \in Requests : reqs'[q] = reqs[q] \/ reqs'[q].pc = "decide"
    <3>1. \/ reqs' = reqs
          \/ \E r \in Requests : \E q : q.pc = "decide" /\ reqs' = [reqs EXCEPT ![r] = q]
      BY <1>9 DEF Browse, deviceLookup, deviceSignIn, SignInElsewhere, deviceDecide, clearSession, Idle
    <3> QED BY <1>r, <3>1
  <2> QED BY <1>q, <2>1, <2>2
<1>10. ASSUME Directory PROVE GrantInv'
  <2>1. UNCHANGED <<reqs, responses>>
    BY <1>10 DEF Directory, DeleteUser, SetAccountEnabled, RestoreUser, DeleteApp, RestoreApp
  <2>2. \A d \in Devices :
          \/ rows'[d] = rows[d]
          \/ /\ Exists(d) /\ rows'[d].user = None
             /\ \/ rows'[d].status = "deleted"
                \/ rows'[d].status = rows[d].status /\ rows'[d].uc = rows[d].uc
    BY <1>10, <1>r DEF Directory, DeleteUser, SetAccountEnabled, RestoreUser, DeleteApp, RestoreApp,
                       BlankRow, Row
  <2>3. UserCodesUnique'
    BY <1>g, <2>2, FewerRowsUnique DEF Exists
  <2>4. PollsHoldRows' /\ UntakenRows'
    BY <1>g, <1>e, <1>u, <2>1, <2>2, QuietStep DEF Exists
  <2> QED BY <1>t, <2>3, <2>4 DEF GrantInv
<1>11. ASSUME NEW n \in 0..MaxNow, SetClock(n) PROVE GrantInv'
  BY <1>11, <1>q DEF SetClock
<1>12. ASSUME Restart PROVE GrantInv'
  BY <1>12, <1>q DEF Restart, Idle
<1>13. ASSUME UNCHANGED vars PROVE GrantInv'
  BY <1>13, <1>q DEF vars
<1> QED
  BY <1>1, <1>2, <1>3, <1>4, <1>5, <1>6, <1>7, <1>8, <1>9, <1>10, <1>11, <1>12, <1>13
     DEF Next, Poll, Step

\* In every reachable state the grant invariant holds.
LEMMA GrantInvariant == Spec => []GrantInv
<1>1. Init => GrantInv
  <2> SUFFICES ASSUME Init PROVE GrantInv
    OBVIOUS
  <2>1. \A d \in Devices : rows[d] = BlankRow /\ responses[d] = 0
    BY DEF Init
  <2>2. UserCodesUnique /\ UntakenRows
    BY <2>1 DEF UserCodesUnique, UntakenRows, Exists, BlankRow
  <2>3. PollsHoldRows
    BY DEF Init, PollsHoldRows, Redeems, Idle
  <2> QED BY <2>2, <2>3, TypeInit DEF GrantInv
<1>2. GrantInv /\ [Next]_vars => GrantInv'
  BY GrantStep
<1> QED BY <1>1, <1>2, PTL DEF Spec

\* Two outstanding device requests never share a user code, although the
\* handler looks for a collision in one statement and inserts in another: the
\* decision of one person can reach one device only.
THEOREM UserCodesUniqueHolds == Spec => []UserCodesUnique
<1>1. GrantInv => UserCodesUnique
  BY DEF GrantInv
<1> QED BY <1>1, GrantInvariant, PTL

-----------------------------------------------------------------------------
\* Tokens are for the user whom the approved page named

\* Each step keeps pages, decisions and rows in agreement on the approver.
LEMMA ApproverStep == ASSUME GrantInv, ApproverInv, [Next]_vars PROVE ApproverInv'
<1> USE DeviceCodeAssumptions
<1>g. TypeOK /\ PollsHoldRows /\ UntakenRows /\ PagesNameSessions /\ DecisionsAsShown /\ RowsNameApprover
  BY DEF GrantInv, ApproverInv
<1>r. /\ rows \in [Devices -> Row] /\ reqs \in [Requests -> Request]
      /\ sessions \in [Sids -> Session] /\ page \in [Browsers -> Page]
      /\ cookie \in [Browsers -> Sids \cup {None}]
      /\ responses \in [Devices -> Nat] /\ subject \in [Devices -> Users \cup {None}]
  BY <1>g DEF TypeOK, VariablesTyped
<1>b. \A b \in Browsers : page[b].kind = "consent" => page[b].sid \in Sids
  BY <1>g DEF TypeOK, RowsTyped
<1>p. ASSUME UNCHANGED <<page, sessions>> PROVE PagesNameSessions'
  BY <1>g, <1>p DEF PagesNameSessions
<1>s. ASSUME NEW b \in Browsers, NEW u \in Users, NEW s \in Sids, CreateSession(b, u, s)
      PROVE  /\ sessions'[s].status = "live" /\ sessions'[s].user = u
             /\ \A x \in Sids : sessions[x].status # "unused" => sessions'[x] = sessions[x]
  <2> DEFINE row == [user |-> u, status |-> "live", expires |-> now + SessionLifetime]
  <2>1. row.status = "live" /\ row.user = u
    OBVIOUS
  <2>2. sessions[s].status = "unused" /\ sessions' = [sessions EXCEPT ![s] = row]
    BY <1>s DEF CreateSession
  <2> HIDE DEF row
  <2> QED BY <1>r, <2>1, <2>2
<1>d. ASSUME \A r \in Requests : reqs'[r] = reqs[r] \/ reqs'[r].pc # "decide"
      PROVE  DecisionsAsShown'
  BY <1>g, <1>d DEF DecisionsAsShown
<1>n. ASSUME UNCHANGED <<responses, subject, approver>>,
             \A d \in Devices : \/ rows'[d].status \in {"approved", "consumed"} =>
                                      rows[d].status \in {"approved", "consumed"}
                                      /\ rows'[d].user \in {rows[d].user, None},
             \A d \in Devices : rows[d].status = "consumed" => rows'[d].user = rows[d].user
      PROVE  RowsNameApprover'
  BY <1>g, <1>n, <1>r DEF RowsNameApprover, UntakenRows
<1>1. ASSUME NEW r \in Requests, NEW a \in Apps, NEW uc \in UserCodes,
             handleDeviceAuthorization(r, a, uc)
      PROVE  ApproverInv'
  <2>1. UNCHANGED <<rows, page, sessions, responses, subject, approver>>
    BY <1>1 DEF handleDeviceAuthorization
  <2>2. \A q \in Requests : reqs'[q] = reqs[q] \/ reqs'[q].pc = "insert"
    BY <1>1, <1>r DEF handleDeviceAuthorization, Idle
  <2> QED BY <1>d, <1>n, <1>p, <2>1, <2>2 DEF ApproverInv
<1>2. ASSUME NEW r \in Requests, InsertDeviceCode(r) PROVE ApproverInv'
  <2>1. UNCHANGED <<page, sessions, responses, subject, approver>>
    BY <1>2 DEF InsertDeviceCode
  <2>2. \A q \in Requests : reqs'[q] = reqs[q] \/ reqs'[q].pc = "idle"
    BY <1>2, <1>r DEF InsertDeviceCode, Finish, Idle
  <2>3. \A d \in Devices : \/ rows'[d] = rows[d]
                           \/ rows'[d].status = "pending" /\ rows[d].status = "unused"
    BY <1>2, <1>r DEF InsertDeviceCode
  <2>4. RowsNameApprover'
    BY <1>n, <2>1, <2>3
  <2> QED BY <1>d, <1>p, <2>1, <2>2, <2>4 DEF ApproverInv
<1>3. ASSUME NEW r \in Requests, NEW a \in Apps, NEW d \in Devices, grantDeviceCode(r, a, d)
      PROVE  ApproverInv'
  <2>1. UNCHANGED <<rows, page, sessions, responses, subject, approver>>
    BY <1>3 DEF grantDeviceCode
  <2>2. \A q \in Requests : reqs'[q] = reqs[q] \/ reqs'[q].pc # "decide"
    <3>1. reqs'[r].pc \in {"delete", "consume"} /\ \A q \in Requests : q # r => reqs'[q] = reqs[q]
      BY <1>3, <1>r, PollStarts
    <3> QED BY <3>1
  <2> QED BY <1>d, <1>n, <1>p, <2>1, <2>2 DEF ApproverInv
<1>4. ASSUME NEW r \in Requests, DeleteDeviceCode(r) PROVE ApproverInv'
  <2>1. UNCHANGED <<page, sessions, responses, subject, approver>>
    BY <1>4 DEF DeleteDeviceCode
  <2>2. \A q \in Requests : reqs'[q] = reqs[q] \/ reqs'[q].pc = "idle"
    BY <1>4, <1>r DEF DeleteDeviceCode, Finish, Idle
  <2>3. \A d \in Devices : \/ rows'[d] = rows[d]
                           \/ rows'[d].status = "deleted" /\ rows[d].status # "consumed"
    BY <1>4, <1>r DEF DeleteDeviceCode, Exists, BlankRow
  <2>4. RowsNameApprover'
    BY <1>n, <2>1, <2>3
  <2> QED BY <1>d, <1>p, <2>1, <2>2, <2>4 DEF ApproverInv
<1>5. ASSUME NEW r \in Requests, ConsumeApprovedDeviceCode(r) PROVE ApproverInv'
  <2>1. UNCHANGED <<page, sessions, responses, subject, approver>>
    BY <1>5 DEF ConsumeApprovedDeviceCode
  <2>2. \A q \in Requests : reqs'[q] = reqs[q] \/ reqs'[q].pc # "decide"
    <3> DEFINE p == [reqs[r] EXCEPT !.pc = "user", !.user = rows[reqs[r].dev].user]
    <3>1. reqs' = [reqs EXCEPT ![r] = Idle] \/ reqs' = [reqs EXCEPT ![r] = p]
      BY <1>5 DEF ConsumeApprovedDeviceCode, Finish
    <3>2. p.pc = "user" /\ Idle.pc = "idle"
      <4>1. reqs[r] \in Request
        BY <1>r
      <4> QED BY <4>1 DEF Request, Idle
    <3> HIDE DEF p
    <3> QED BY <1>r, <3>1, <3>2
  <2>3. \A d \in Devices : \/ rows'[d] = rows[d]
                           \/ /\ rows[d].status = "approved"
                              /\ rows'[d].user = rows[d].user
    BY <1>5, <1>r DEF ConsumeApprovedDeviceCode, ConsumeWins, Row
  <2>4. RowsNameApprover'
    BY <1>n, <2>1, <2>3
  <2> QED BY <1>d, <1>p, <2>1, <2>2, <2>4 DEF ApproverInv
<1>6. ASSUME NEW r \in Requests, GetUser(r) PROVE ApproverInv'
  <2>1. UNCHANGED <<rows, page, sessions, responses, subject, approver>>
    BY <1>6 DEF GetUser
  <2>2. \A q \in Requests : reqs'[q] = reqs[q] \/ reqs'[q].pc # "decide"
    BY <1>6, <1>r DEF GetUser, Finish, Idle, Request
  <2> QED BY <1>d, <1>n, <1>p, <2>1, <2>2 DEF ApproverInv
<1>7. ASSUME NEW r \in Requests, BuildDelegatedResponse(r) PROVE ApproverInv'
  <2>1. UNCHANGED <<rows, page, sessions, approver>>
    BY <1>7 DEF BuildDelegatedResponse
  <2>2. \A q \in Requests : reqs'[q] = reqs[q] \/ reqs'[q].pc = "idle"
    BY <1>7, <1>r DEF BuildDelegatedResponse, Finish, Idle
  <2>3. PICK d \in Devices : d = reqs[r].dev /\ reqs[r].user \in Users /\ Redeems(r, d)
    BY <1>7, <1>g DEF BuildDelegatedResponse, TypeOK, RequestsTyped, Redeems
  <2>4. rows[d].user = reqs[r].user
    BY <1>g, <2>3 DEF PollsHoldRows
  <2>5. \A x \in Devices :
          \/ responses'[x] = responses[x] /\ subject'[x] = subject[x]
          \/ x = d /\ subject'[x] = reqs[r].user
    BY <1>7, <1>r, <2>3 DEF BuildDelegatedResponse
  <2>6. RowsNameApprover'
    BY <1>g, <2>1, <2>3, <2>4, <2>5 DEF RowsNameApprover
  <2> QED BY <1>d, <1>p, <2>1, <2>2, <2>6 DEF ApproverInv
<1>8. ASSUME NEW r \in Requests, SetDeviceCodeDecision(r) PROVE ApproverInv'
  <2>1. UNCHANGED <<page, sessions, responses, subject>>
    BY <1>8 DEF SetDeviceCodeDecision
  <2>2. \A q \in Requests : reqs'[q] = reqs[q] \/ reqs'[q].pc = "idle"
    BY <1>8, <1>r DEF SetDeviceCodeDecision, Finish, Idle
  <2>3. reqs[r].seen = reqs[r].user /\ reqs[r].verdict \in {"approved", "denied"}
    BY <1>8, <1>g DEF SetDeviceCodeDecision, DecisionsAsShown, TypeOK, RequestsTyped
  <2>4. ASSUME NEW d \in Devices
        PROVE  \/ rows'[d] = rows[d] /\ approver'[d] = approver[d]
               \/ /\ rows[d].status = "pending" /\ rows'[d].status = "approved"
                  /\ rows'[d].user = reqs[r].user /\ approver'[d] = reqs[r].user
               \/ /\ rows[d].status = "pending" /\ rows'[d].status = "denied"
    <3>0. rows[d] \in Row
      BY <1>r
    <3>1. CASE ~Decides(d, reqs[r].uc)
      BY <1>8, <3>1 DEF SetDeviceCodeDecision
    <3>2. CASE Decides(d, reqs[r].uc) /\ reqs[r].verdict = "approved"
      <4>1. /\ rows'[d] = [rows[d] EXCEPT !.status = "approved", !.user = reqs[r].user]
            /\ approver'[d] = reqs[r].user
        BY <1>8, <2>3, <3>2 DEF SetDeviceCodeDecision
      <4> QED BY <3>0, <3>2, <4>1 DEF Decides, Row
    <3>3. CASE Decides(d, reqs[r].uc) /\ reqs[r].verdict = "denied"
      <4>1. rows'[d] = [rows[d] EXCEPT !.status = "denied", !.user = None]
        BY <1>8, <3>3 DEF SetDeviceCodeDecision
      <4> QED BY <3>0, <3>3, <4>1 DEF Decides, Row
    <3> QED BY <2>3, <3>1, <3>2, <3>3
  <2>5. RowsNameApprover'
    BY <1>g, <1>r, <2>1, <2>4 DEF RowsNameApprover, UntakenRows
  <2> QED BY <1>d, <1>p, <2>1, <2>2, <2>5 DEF ApproverInv
<1>9. ASSUME NEW b \in Browsers, NEW uc \in UserCodes, deviceLookup(b, uc) PROVE ApproverInv'
  <2>1. UNCHANGED <<rows, reqs, sessions, responses, subject, approver>>
    BY <1>9 DEF deviceLookup
  <2>2. ASSUME NEW c \in Browsers, page'[c].kind = "consent"
        PROVE  \/ page'[c] = page[c]
               \/ /\ page'[c].sid \in Sids /\ sessions[page'[c].sid].status = "live"
                  /\ page'[c].user = sessions[page'[c].sid].user
    BY <1>9, <1>r, <2>2 DEF deviceLookup, SessionValid
  <2>3. PagesNameSessions'
    BY <1>g, <2>1, <2>2 DEF PagesNameSessions
  <2> QED BY <1>d, <1>n, <2>1, <2>3 DEF ApproverInv
<1>10. ASSUME NEW b \in Browsers, NEW u \in Users, NEW s \in Sids,
              deviceSignIn(b, u, s) \/ SignInElsewhere(b, u, s)
       PROVE  ApproverInv'
  <2>1. UNCHANGED <<rows, reqs, responses, subject, approver>> /\ CreateSession(b, u, s)
    BY <1>10 DEF deviceSignIn, SignInElsewhere
  <2>2. ASSUME NEW c \in Browsers
        PROVE  page'[c] = page[c] \/ (page'[c].sid = s /\ page'[c].user = u)
    BY <1>10, <1>r DEF deviceSignIn, SignInElsewhere
  <2>3. PagesNameSessions'
    BY <1>g, <1>b, <1>s, <2>1, <2>2 DEF PagesNameSessions
  <2> QED BY <1>d, <1>n, <2>1, <2>3 DEF ApproverInv
<1>11. ASSUME NEW r \in Requests, NEW b \in Browsers, NEW verdict \in {"approved", "denied"},
              deviceDecide(r, b, verdict)
       PROVE  ApproverInv'
  <2>1. UNCHANGED <<rows, page, sessions, responses, subject, approver>>
    BY <1>11 DEF deviceDecide
  <2>2. sessions[cookie[b]].user = page[b].user
    BY <1>11, <1>g DEF deviceDecide, SessionMatches, PagesNameSessions
  <2>3. \A q \in Requests : reqs'[q] = reqs[q] \/ reqs'[q].seen = reqs'[q].user
    <3>1. reqs' = [reqs EXCEPT ![r] =
                     [Idle EXCEPT !.pc = "decide", !.uc = page[b].uc, !.verdict = verdict,
                                  !.user = page[b].user, !.seen = page[b].user]]
      BY <1>11, <2>2 DEF deviceDecide
    <3> QED BY <1>r, <3>1 DEF Idle
  <2>4. DecisionsAsShown'
    BY <1>g, <2>3 DEF DecisionsAsShown
  <2> QED BY <1>n, <1>p, <2>1, <2>4 DEF ApproverInv
<1>k. ASSUME UNCHANGED <<page, reqs>>,
             \A s \in Sids : /\ sessions'[s].user = sessions[s].user
                             /\ sessions'[s].status # sessions[s].status => sessions'[s].status # "unused"
      PROVE  PagesNameSessions' /\ DecisionsAsShown'
  BY <1>b, <1>g, <1>k DEF PagesNameSessions, DecisionsAsShown
<1>12. ASSUME NEW b \in Browsers, clearSession(b) PROVE ApproverInv'
  <2>1. UNCHANGED <<rows, page, reqs, responses, subject, approver>>
    BY <1>12 DEF clearSession
  <2>2. \A s \in Sids : /\ sessions'[s].user = sessions[s].user
                        /\ sessions'[s].status # sessions[s].status => sessions'[s].status # "unused"
    BY <1>12, <1>r DEF clearSession, Session
  <2> QED BY <1>k, <1>n, <2>1, <2>2 DEF ApproverInv
<1>13. ASSUME Directory PROVE ApproverInv'
  <2>1. UNCHANGED <<page, reqs, responses, subject, approver>>
    BY <1>13 DEF Directory, DeleteUser, SetAccountEnabled, RestoreUser, DeleteApp, RestoreApp
  <2>2. \A s \in Sids : /\ sessions'[s].user = sessions[s].user
                        /\ sessions'[s].status # sessions[s].status => sessions'[s].status # "unused"
    BY <1>13, <1>r DEF Directory, DeleteUser, SetAccountEnabled, RestoreUser, DeleteApp, RestoreApp, Session
  <2>3. \A d \in Devices :
          \/ rows'[d] = rows[d]
          \/ /\ Exists(d)
             /\ \/ rows'[d].status = "deleted"
                \/ rows'[d].status = rows[d].status /\ rows'[d].user = None
    BY <1>13, <1>r DEF Directory, DeleteUser, SetAccountEnabled, RestoreUser, DeleteApp, RestoreApp,
                       BlankRow, Row
  <2>4. RowsNameApprover'
    BY <1>n, <2>1, <2>3 DEF Exists
  <2> QED BY <1>k, <2>1, <2>2, <2>4 DEF ApproverInv
<1>14. ASSUME NEW n \in 0..MaxNow, SetClock(n) PROVE ApproverInv'
  BY <1>14, <1>d, <1>n, <1>p DEF SetClock, ApproverInv
<1>15. ASSUME Restart PROVE ApproverInv'
  <2>1. PagesNameSessions' /\ DecisionsAsShown'
    BY <1>15 DEF Restart, PagesNameSessions, DecisionsAsShown, NoPage, Idle
  <2> QED BY <1>15, <1>n, <2>1 DEF Restart, ApproverInv
<1>16. ASSUME UNCHANGED vars PROVE ApproverInv'
  BY <1>16, <1>d, <1>n, <1>p DEF vars, ApproverInv
<1> QED
  BY <1>1, <1>2, <1>3, <1>4, <1>5, <1>6, <1>7, <1>8, <1>9, <1>10, <1>11, <1>12, <1>13, <1>14, <1>15,
     <1>16 DEF Next, Poll, Step, Browse

\* Tokens are only ever issued to the user the consent page named when it was
\* approved, for every number of browsers, sessions and rival requests.
THEOREM MintedForApproverHolds == Spec => []MintedForApprover
<1>1. Init => ApproverInv
  BY DEF Init, ApproverInv, PagesNameSessions, DecisionsAsShown, RowsNameApprover, NoPage, Idle, BlankRow
<1>2. GrantInv /\ ApproverInv /\ [Next]_vars => ApproverInv'
  BY ApproverStep
<1>3. GrantInv /\ ApproverInv => MintedForApprover
  <2> SUFFICES ASSUME GrantInv, ApproverInv, NEW d \in Devices, responses[d] > 0
               PROVE  approver[d] # None /\ subject[d] = approver[d]
    BY DEF MintedForApprover
  <2>1. rows[d].status = "consumed"
    BY DEF GrantInv, UntakenRows
  <2> QED BY <2>1 DEF ApproverInv, RowsNameApprover
<1> QED BY <1>1, <1>2, <1>3, GrantInvariant, PTL DEF Spec

-----------------------------------------------------------------------------
\* The flow implements the abstract grant

\* The mapping row by row.
LEMMA MappingPointwise ==
    /\ grantPhase = [d \in Devices |-> grantPhase[d]]
    /\ grantOwner = [d \in Devices |-> grantOwner[d]]
    /\ \A d \in Devices :
          /\ grantOwner[d] = rows[d].user
          /\ rows[d].status = "unused" => grantPhase[d] = "none"
          /\ rows[d].status = "consumed" => grantPhase[d] = "redeemed"
          /\ rows[d].status = "deleted" => grantPhase[d] = "closed"
          /\ rows[d].status \in {"pending", "approved", "denied"} => grantPhase[d] = rows[d].status
<1>1. grantPhase = [d \in Devices |-> grantPhase[d]] /\ grantOwner = [d \in Devices |-> grantOwner[d]]
  BY DEF grantPhase, grantOwner
<1>2. ASSUME NEW d \in Devices
      PROVE  /\ grantOwner[d] = rows[d].user
             /\ rows[d].status = "unused" => grantPhase[d] = "none"
             /\ rows[d].status = "consumed" => grantPhase[d] = "redeemed"
             /\ rows[d].status = "deleted" => grantPhase[d] = "closed"
             /\ rows[d].status \in {"pending", "approved", "denied"} => grantPhase[d] = rows[d].status
  BY DEF grantPhase, grantOwner
<1> QED BY <1>1, <1>2

\* The same of the next state, and what an unchanged row maps to.
LEMMA MappingPointwiseNext ==
    /\ grantPhase' = [d \in Devices |-> grantPhase'[d]]
    /\ grantOwner' = [d \in Devices |-> grantOwner'[d]]
    /\ \A d \in Devices :
          /\ grantOwner'[d] = rows'[d].user
          /\ rows'[d].status = "unused" => grantPhase'[d] = "none"
          /\ rows'[d].status = "consumed" => grantPhase'[d] = "redeemed"
          /\ rows'[d].status = "deleted" => grantPhase'[d] = "closed"
          /\ rows'[d].status \in {"pending", "approved", "denied"} => grantPhase'[d] = rows'[d].status
          /\ rows'[d].status = rows[d].status => grantPhase'[d] = grantPhase[d]
<1>1. grantPhase' = [d \in Devices |-> grantPhase'[d]] /\ grantOwner' = [d \in Devices |-> grantOwner'[d]]
  BY DEF grantPhase, grantOwner
<1>2. ASSUME NEW d \in Devices
      PROVE  /\ grantOwner'[d] = rows'[d].user
             /\ rows'[d].status = "unused" => grantPhase'[d] = "none"
             /\ rows'[d].status = "consumed" => grantPhase'[d] = "redeemed"
             /\ rows'[d].status = "deleted" => grantPhase'[d] = "closed"
             /\ rows'[d].status \in {"pending", "approved", "denied"} => grantPhase'[d] = rows'[d].status
             /\ rows'[d].status = rows[d].status => grantPhase'[d] = grantPhase[d]
  BY DEF grantPhase, grantOwner
<1> QED BY <1>1, <1>2

\* Each step of the flow is a step of the abstract grant or changes nothing of it.
LEMMA RefinementStep ==
    ASSUME GrantInv, [Next]_vars PROVE [Grant!Next]_(Grant!grantVars)
<1> USE DeviceCodeAssumptions
<1>g. TypeOK /\ UserCodesUnique /\ PollsHoldRows /\ UntakenRows
  BY DEF GrantInv
<1>r. /\ rows \in [Devices -> Row] /\ reqs \in [Requests -> Request]
      /\ responses \in [Devices -> Nat] /\ subject \in [Devices -> Users \cup {None}]
  BY <1>g DEF TypeOK, VariablesTyped
<1>m. /\ grantPhase = [d \in Devices |-> grantPhase[d]]
      /\ grantOwner = [d \in Devices |-> grantOwner[d]]
      /\ grantPhase' = [d \in Devices |-> grantPhase'[d]]
      /\ grantOwner' = [d \in Devices |-> grantOwner'[d]]
  BY MappingPointwise, MappingPointwiseNext
<1>s. ASSUME UNCHANGED <<rows, responses, subject>> PROVE [Grant!Next]_(Grant!grantVars)
  BY <1>s DEF grantPhase, grantOwner, Grant!grantVars
<1>x. ASSUME NEW S \in SUBSET Devices, UNCHANGED <<responses, subject>>,
             \A d \in S : Exists(d) /\ rows'[d] = [BlankRow EXCEPT !.status = "deleted"],
             \A d \in Devices \ S : rows'[d] = rows[d]
      PROVE  [Grant!Next]_(Grant!grantVars)
  <2>1. \A d \in S : grantPhase[d] \in {"pending", "approved", "denied"}
    BY <1>x, MappingPointwise DEF Exists
  <2>2. \A d \in Devices : IF d \in S THEN grantPhase'[d] = "closed" /\ grantOwner'[d] = None
                                      ELSE grantPhase'[d] = grantPhase[d] /\ grantOwner'[d] = grantOwner[d]
    <3> TAKE d \in Devices
    <3>1. CASE d \in S
      <4>1. rows'[d].status = "deleted" /\ rows'[d].user = None
        BY <1>x, <3>1 DEF BlankRow
      <4> QED BY <3>1, <4>1, MappingPointwiseNext
    <3>2. CASE d \notin S
      BY <1>x, <3>2, MappingPointwise, MappingPointwiseNext
    <3> QED BY <3>1, <3>2
  <2>3. Grant!Close(S)
    BY <1>m, <1>x, <2>1, <2>2 DEF Grant!Close
  <2> QED BY <2>3 DEF Grant!Next
<1>1. ASSUME NEW r \in Requests, InsertDeviceCode(r) PROVE [Grant!Next]_(Grant!grantVars)
  <2>1. UNCHANGED <<responses, subject>>
    BY <1>1 DEF InsertDeviceCode
  <2>2. CASE rows' = rows
    BY <1>s, <2>1, <2>2
  <2>3. CASE rows' # rows
    <3> DEFINE row == [status |-> "pending", uc |-> reqs[r].uc, app |-> reqs[r].app, user |-> None,
                       expires |-> now + DeviceCodeLifetime]
    <3>1. PICK d \in Devices : rows[d].status = "unused" /\ rows' = [rows EXCEPT ![d] = row]
      BY <1>1, <2>3 DEF InsertDeviceCode
    <3>2. row.status = "pending" /\ row.user = None
      OBVIOUS
    <3> HIDE DEF row
    <3>3. \A x \in Devices : IF x = d THEN rows'[x] = row ELSE rows'[x] = rows[x]
      BY <1>r, <3>1
    <3>4. rows[d].user = None
      BY <1>g, <3>1 DEF UntakenRows
    <3>5. \A x \in Devices : /\ grantOwner'[x] = grantOwner[x]
                             /\ grantPhase'[x] = IF x = d THEN "pending" ELSE grantPhase[x]
      BY <3>2, <3>3, <3>4, MappingPointwise, MappingPointwiseNext
    <3>6. Grant!Offer(d)
      BY <1>m, <2>1, <3>1, <3>5, MappingPointwise DEF Grant!Offer
    <3> QED BY <3>6 DEF Grant!Next
  <2> QED BY <2>2, <2>3
<1>2. ASSUME NEW r \in Requests, DeleteDeviceCode(r) PROVE [Grant!Next]_(Grant!grantVars)
  <2>1. PICK d \in Devices : d = reqs[r].dev /\ UNCHANGED <<responses, subject>>
    BY <1>2, <1>g DEF DeleteDeviceCode, TypeOK, RequestsTyped
  <2>2. CASE ~Exists(d)
    BY <1>2, <1>s, <2>1, <2>2 DEF DeleteDeviceCode
  <2>3. CASE Exists(d)
    <3>1. rows' = [rows EXCEPT ![d] = [BlankRow EXCEPT !.status = "deleted"]]
      BY <1>2, <2>1, <2>3 DEF DeleteDeviceCode
    <3>2. /\ \A x \in {d} : Exists(x) /\ rows'[x] = [BlankRow EXCEPT !.status = "deleted"]
          /\ \A x \in Devices \ {d} : rows'[x] = rows[x]
      BY <1>r, <2>3, <3>1
    <3>3. {d} \in SUBSET Devices
      OBVIOUS
    <3> QED BY ONLY <1>x, <2>1, <3>2, <3>3
  <2> QED BY <2>2, <2>3
<1>3. ASSUME NEW r \in Requests, ConsumeApprovedDeviceCode(r) PROVE [Grant!Next]_(Grant!grantVars)
  <2>1. PICK d \in Devices : d = reqs[r].dev /\ UNCHANGED <<responses, subject>>
    BY <1>3, <1>g DEF ConsumeApprovedDeviceCode, TypeOK, RequestsTyped
  <2>2. CASE ~ConsumeWins(reqs[r])
    BY <1>3, <1>s, <2>1, <2>2 DEF ConsumeApprovedDeviceCode
  <2>3. CASE ConsumeWins(reqs[r])
    <3>1. rows[d].status = "approved" /\ rows' = [rows EXCEPT ![d].status = "consumed"]
      BY <1>3, <2>1, <2>3 DEF ConsumeApprovedDeviceCode, ConsumeWins
    <3>2. /\ \A x \in Devices : x # d => rows'[x] = rows[x]
          /\ rows'[d].status = "consumed" /\ rows'[d].user = rows[d].user
      BY <1>r, <3>1 DEF Row
    <3>3. \A x \in Devices : /\ grantOwner'[x] = grantOwner[x]
                             /\ grantPhase'[x] = IF x = d THEN "redeemed" ELSE grantPhase[x]
      BY <3>2, MappingPointwise, MappingPointwiseNext
    <3>4. Grant!Redeem(d)
      BY <1>m, <2>1, <3>1, <3>3, MappingPointwise DEF Grant!Redeem
    <3> QED BY <3>4 DEF Grant!Next
  <2> QED BY <2>2, <2>3
<1>4. ASSUME NEW r \in Requests, BuildDelegatedResponse(r) PROVE [Grant!Next]_(Grant!grantVars)
  <2>1. rows' = rows
    BY <1>4 DEF BuildDelegatedResponse
  <2>2. CASE UNCHANGED <<responses, subject>>
    BY <1>s, <2>1, <2>2
  <2>3. CASE ~UNCHANGED <<responses, subject>>
    <3>1. PICK d \in Devices : d = reqs[r].dev /\ reqs[r].user \in Users /\ Redeems(r, d)
      BY <1>4, <1>g DEF BuildDelegatedResponse, TypeOK, RequestsTyped, Redeems
    <3>2. rows[d].status = "consumed" /\ rows[d].user = reqs[r].user /\ responses[d] = 0
      BY <1>g, <3>1 DEF PollsHoldRows
    <3>3. /\ responses' = [responses EXCEPT ![d] = responses[d] + 1]
          /\ subject' = [subject EXCEPT ![d] = reqs[r].user]
      BY <1>4, <1>r, <2>3, <3>1 DEF BuildDelegatedResponse
    <3>4. responses' = [responses EXCEPT ![d] = 1]
      BY <3>2, <3>3
    <3>5. grantPhase' = grantPhase /\ grantOwner' = grantOwner
      BY <2>1 DEF grantPhase, grantOwner
    <3>6. grantPhase[d] = "redeemed" /\ grantOwner[d] = reqs[r].user /\ grantOwner[d] # None
      BY <3>1, <3>2, MappingPointwise
    <3>7. Grant!Respond(d)
      BY <3>2, <3>3, <3>4, <3>5, <3>6 DEF Grant!Respond
    <3> QED BY <3>7 DEF Grant!Next
  <2> QED BY <2>2, <2>3
<1>5. ASSUME NEW r \in Requests, SetDeviceCodeDecision(r) PROVE [Grant!Next]_(Grant!grantVars)
  <2> DEFINE q == reqs[r]
             verdictUser == IF q.verdict = "approved" THEN q.user ELSE None
  <2>1. UNCHANGED <<responses, subject>> /\ q.verdict \in {"approved", "denied"} /\ q.user \in Users
    BY <1>5, <1>g DEF SetDeviceCodeDecision, TypeOK, RequestsTyped
  <2>2. \A d \in Devices :
          rows'[d] = IF Decides(d, q.uc)
                     THEN [rows[d] EXCEPT !.status = q.verdict, !.user = verdictUser] ELSE rows[d]
    BY <1>5 DEF SetDeviceCodeDecision
  <2>3. CASE \A d \in Devices : ~Decides(d, q.uc)
    <3>1. rows' = rows
      BY <1>5, <1>r, <2>3 DEF SetDeviceCodeDecision
    <3> QED BY <1>s, <2>1, <3>1
  <2>4. ASSUME NEW d \in Devices, Decides(d, q.uc) PROVE [Grant!Next]_(Grant!grantVars)
    <3>1. \A x \in Devices : Decides(x, q.uc) => x = d
      BY <1>g, <2>4 DEF UserCodesUnique, Decides, Exists
    <3>2. \A x \in Devices : x # d => rows'[x] = rows[x]
      BY <2>2, <3>1
    <3>3. rows[d].status = "pending" /\ rows[d].user = None
      BY <1>g, <2>4 DEF Decides, UntakenRows
    <3>4. rows'[d].status = q.verdict /\ rows'[d].user = verdictUser
      <4>1. rows[d] \in Row
        BY <1>r
      <4> QED BY <2>2, <2>4, <4>1 DEF Row
    <3>5. CASE q.verdict = "approved"
      <4>1. \A x \in Devices : /\ grantOwner'[x] = IF x = d THEN q.user ELSE grantOwner[x]
                               /\ grantPhase'[x] = IF x = d THEN "approved" ELSE grantPhase[x]
        BY <3>2, <3>4, <3>5, MappingPointwise, MappingPointwiseNext
      <4>2. Grant!Approve(d, q.user)
        BY <1>m, <2>1, <3>3, <4>1, MappingPointwise DEF Grant!Approve
      <4> QED BY <2>1, <4>2 DEF Grant!Next
    <3>6. CASE q.verdict = "denied"
      <4>1. \A x \in Devices : /\ grantOwner'[x] = grantOwner[x]
                               /\ grantPhase'[x] = IF x = d THEN "denied" ELSE grantPhase[x]
        BY <3>2, <3>3, <3>4, <3>6, MappingPointwise, MappingPointwiseNext
      <4>2. Grant!Deny(d)
        BY <1>m, <2>1, <3>3, <4>1, MappingPointwise DEF Grant!Deny
      <4> QED BY <4>2 DEF Grant!Next
    <3> QED BY <2>1, <3>5, <3>6
  <2> QED BY <2>3, <2>4
<1>6. ASSUME NEW u \in Users, DeleteUser(u) PROVE [Grant!Next]_(Grant!grantVars)
  <2> DEFINE S == {d \in Devices : Exists(d) /\ rows[d].user = u}
  <2>1. UNCHANGED <<responses, subject>>
    BY <1>6 DEF DeleteUser
  <2>2. \A d \in S : rows[d].status = "approved"
    BY <1>g DEF UntakenRows, Exists
  <2>3. ASSUME NEW d \in Devices
        PROVE  /\ rows'[d].status = rows[d].status
               /\ rows'[d].user = IF d \in S THEN None ELSE rows[d].user
    BY <1>6, <1>r DEF DeleteUser, Row
  <2>4. ASSUME NEW d \in Devices
        PROVE  /\ grantPhase'[d] = grantPhase[d]
               /\ grantOwner'[d] = IF d \in S THEN None ELSE grantOwner[d]
    BY <2>3, MappingPointwise, MappingPointwiseNext
  <2>5. \A d \in S : grantPhase[d] = "approved"
    BY <2>2, MappingPointwise
  <2> HIDE DEF S
  <2>6. Grant!Orphan(S)
    BY <1>m, <2>1, <2>4, <2>5 DEF Grant!Orphan
  <2>7. S \in SUBSET Devices
    BY DEF S
  <2> QED BY <2>6, <2>7 DEF Grant!Next
<1>7. ASSUME NEW a \in Apps, DeleteApp(a) PROVE [Grant!Next]_(Grant!grantVars)
  <2> DEFINE S == {d \in Devices : Exists(d) /\ rows[d].app = a}
  <2>1. UNCHANGED <<responses, subject>> /\ S \in SUBSET Devices
    BY <1>7 DEF DeleteApp
  <2>2. /\ \A d \in S : Exists(d) /\ rows'[d] = [BlankRow EXCEPT !.status = "deleted"]
        /\ \A d \in Devices \ S : rows'[d] = rows[d]
    BY <1>7 DEF DeleteApp
  <2> HIDE DEF S
  <2> QED BY <1>x, <2>1, <2>2
<1>8. ASSUME \/ \E r \in Requests, a \in Apps, uc \in UserCodes : handleDeviceAuthorization(r, a, uc)
             \/ \E d \in Devices : Poll(d)
             \/ \E r \in Requests : GetUser(r)
             \/ Browse
             \/ \E u \in Users, state \in {"enabled", "disabled"} :
                   SetAccountEnabled(u, state) \/ RestoreUser(u, state)
             \/ \E a \in Apps : RestoreApp(a)
             \/ \E n \in 0..MaxNow : SetClock(n)
             \/ Restart
             \/ UNCHANGED vars
      PROVE  [Grant!Next]_(Grant!grantVars)
  <2>1. UNCHANGED <<rows, responses, subject>>
    BY <1>8 DEF handleDeviceAuthorization, Poll, grantDeviceCode, GetUser, Browse, deviceLookup,
                deviceSignIn, SignInElsewhere, deviceDecide, clearSession, SetAccountEnabled,
                RestoreUser, RestoreApp, SetClock, Restart, vars
  <2> QED BY <1>s, <2>1
<1> QED
  BY <1>1, <1>2, <1>3, <1>4, <1>5, <1>6, <1>7, <1>8 DEF Next, Step, Directory

\* The device flow implements the abstract device grant: each device code is
\* decided at most once, a denial never becomes tokens, and at most one
\* response is built, for the user who approved.
THEOREM DeviceGrantImplemented == Spec => ImplementsDeviceGrant
<1>1. Init => Grant!Init
  <2> SUFFICES ASSUME Init PROVE Grant!Init
    OBVIOUS
  <2>1. \A d \in Devices : rows[d].status = "unused" /\ rows[d].user = None
    BY DEF Init, BlankRow
  <2>2. \A d \in Devices : grantPhase[d] = "none" /\ grantOwner[d] = None
    BY <2>1, MappingPointwise
  <2> QED BY <2>2, MappingPointwise DEF Init, Grant!Init
<1>2. GrantInv /\ [Next]_vars => [Grant!Next]_(Grant!grantVars)
  BY RefinementStep
<1> QED BY <1>1, <1>2, GrantInvariant, PTL DEF Spec, ImplementsDeviceGrant, Grant!Spec
=============================================================================
