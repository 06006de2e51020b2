---------------------------- MODULE GrantsProofs ----------------------------
(***************************************************************************)
(* Safety of authorization codes and refresh tokens for every number of    *)
(* users, clients, codes, tokens and concurrent requests.                  *)
(***************************************************************************)
EXTENDS Grants, TLAPS

-----------------------------------------------------------------------------
\* Type correctness

\* The blank rows and the idle request are well typed.
LEMMA BlanksTyped ==
    /\ BlankCode \in CodeRow
    /\ BlankToken \in TokenRow
    /\ Idle \in Request
BY GrantsAssumptions DEF BlankCode, CodeRow, BlankToken, TokenRow, Idle, Request

\* Lifetimes are natural numbers.
LEMMA LifetimesTyped ==
    refreshSec \in Nat /\ RefreshLifetime \in Nat /\ AuthCodeLifetime \in Nat
BY GrantsAssumptions DEF refreshSec

\* Each step of the specification keeps every variable in its type.
LEMMA TypeStep == ASSUME TypeOK, [Next]_vars PROVE TypeOK'
<1> USE GrantsAssumptions, BlanksTyped, LifetimesTyped
<1>t. VariablesTyped /\ RequestsTyped /\ RowsTyped
  BY DEF TypeOK
<1>s. /\ \A t \in Tokens : [tokens[t] EXCEPT !.status = "revoked"] \in TokenRow
      /\ \A c \in Codes : [codes[c] EXCEPT !.status = "consumed"] \in CodeRow
  <2>1. ASSUME NEW t \in Tokens PROVE [tokens[t] EXCEPT !.status = "revoked"] \in TokenRow
    <3>1. tokens[t] \in TokenRow
      BY <1>t DEF VariablesTyped
    <3> QED BY <3>1 DEF TokenRow
  <2>2. ASSUME NEW c \in Codes PROVE [codes[c] EXCEPT !.status = "consumed"] \in CodeRow
    <3>1. codes[c] \in CodeRow
      BY <1>t DEF VariablesTyped
    <3> QED BY <3>1 DEF CodeRow
  <2> QED BY <2>1, <2>2
<1>1. ASSUME NEW c \in Codes, NEW a \in Apps, NEW u \in Users, NEW sc \in SUBSET Scopes,
             IssueAuthCode(c, a, u, sc)
      PROVE  TypeOK'
  <2> DEFINE row == [status |-> "issued", app |-> a, user |-> u, scopes |-> sc,
                     expires |-> now + AuthCodeLifetime]
  <2>1. row \in CodeRow
    BY <1>t DEF CodeRow, VariablesTyped
  <2>2. codes' = [codes EXCEPT ![c] = row]
    BY <1>1 DEF IssueAuthCode
  <2>3. VariablesTyped'
    BY <1>1, <1>t, <2>1, <2>2 DEF IssueAuthCode, VariablesTyped
  <2>4. RequestsTyped'
    BY <1>1, <1>t DEF IssueAuthCode, RequestsTyped
  <2>5. RowsTyped'
    BY <1>1, <1>t DEF IssueAuthCode, RowsTyped, CodeExists, TokenExists, VariablesTyped
  <2> QED BY <2>3, <2>4, <2>5 DEF TypeOK
<1>2. ASSUME NEW r \in Requests, NEW a \in Apps, NEW c \in Codes, NEW want \in SUBSET Scopes,
             RedeemAuthCode(r, a, c, want)
      PROVE  TypeOK'
  <2>1. PICK q \in Request :
          /\ reqs' = [reqs EXCEPT ![r] = q]
          /\ q.pc = "revokeCode" \/ (q.pc = "consume" /\ q.user \in Users /\ q.app \in Apps)
          /\ q.code \in Codes
    <3> DEFINE q1 == [Idle EXCEPT !.pc = "revokeCode", !.app = a, !.code = c]
               q2 == [pc |-> "consume", app |-> a, user |-> codes[c].user, code |-> c, token |-> None,
                      scopes |-> codes[c].scopes, want |-> want]
    <3>1. q1 \in Request /\ q1.pc = "revokeCode" /\ q1.code = c
      BY DEF Request, Idle
    <3>2. codes[c].user \in Users
      BY <1>2, <1>t DEF RedeemAuthCode, RowsTyped
    <3>3. q2 \in Request /\ q2.pc = "consume" /\ q2.code = c /\ q2.user \in Users /\ q2.app = a
      BY <1>t, <3>2 DEF Request, CodeRow, VariablesTyped
    <3>4. reqs' = [reqs EXCEPT ![r] = q1] \/ reqs' = [reqs EXCEPT ![r] = q2]
      BY <1>2 DEF RedeemAuthCode
    <3> HIDE DEF q1, q2
    <3> QED BY <3>1, <3>3, <3>4
  <2>2. VariablesTyped'
    BY <1>2, <1>t, <2>1 DEF RedeemAuthCode, VariablesTyped
  <2>3. RequestsTyped'
    BY <1>t, <2>1 DEF RequestsTyped, VariablesTyped
  <2>4. RowsTyped'
    BY <1>2, <1>t DEF RedeemAuthCode, RowsTyped, CodeExists, TokenExists
  <2> QED BY <2>2, <2>3, <2>4 DEF TypeOK
<1>3. ASSUME NEW r \in Requests, NEW a \in Apps, NEW t \in Tokens, NEW want \in SUBSET Scopes,
             RedeemRefreshToken(r, a, t, want)
      PROVE  TypeOK'
  <2>1. PICK q \in Request :
          /\ reqs' = [reqs EXCEPT ![r] = q]
          /\ q.pc \in {"revokeFamily", "rotate"} /\ q.token \in Tokens
    <3>1. [Idle EXCEPT !.pc = "revokeFamily", !.app = a, !.token = t] \in Request
      BY DEF Request, Idle
    <3>2. [Idle EXCEPT !.pc = "rotate", !.app = a, !.user = tokens[t].user, !.token = t,
                       !.scopes = IF want = {} THEN tokens[t].scopes ELSE want] \in Request
      BY ZenonT(60), <1>t DEF Request, Idle, TokenRow, VariablesTyped
    <3> QED BY <1>3, <3>1, <3>2 DEF RedeemRefreshToken, Idle
  <2>2. VariablesTyped'
    BY <1>3, <1>t, <2>1 DEF RedeemRefreshToken, VariablesTyped
  <2>3. RequestsTyped'
    BY <1>t, <2>1 DEF RequestsTyped, VariablesTyped
  <2>4. RowsTyped'
    BY <1>3, <1>t DEF RedeemRefreshToken, RowsTyped, CodeExists, TokenExists
  <2> QED BY <2>2, <2>3, <2>4 DEF TypeOK
<1>4. ASSUME NEW r \in Requests, NEW a \in Apps, NEW u \in Users, NEW sc \in SUBSET Scopes,
             GrantWithoutCode(r, a, u, sc)
      PROVE  TypeOK'
  <2>1. [Idle EXCEPT !.pc = "mint", !.app = a, !.user = u, !.scopes = sc] \in Request
    BY DEF Request, Idle
  <2>2. VariablesTyped'
    BY <1>4, <1>t, <2>1 DEF GrantWithoutCode, VariablesTyped
  <2>3. RequestsTyped'
    BY <1>4, <1>t DEF GrantWithoutCode, RequestsTyped, VariablesTyped, Idle
  <2>4. RowsTyped'
    BY <1>4, <1>t DEF GrantWithoutCode, RowsTyped, CodeExists, TokenExists
  <2> QED BY <2>2, <2>3, <2>4 DEF TypeOK
<1>5. ASSUME NEW r \in Requests, ConsumeAuthCode(r) PROVE TypeOK'
  <2>0. reqs[r].code \in Codes /\ reqs[r].user \in Users /\ reqs[r].app \in Apps
    BY <1>5, <1>t DEF ConsumeAuthCode, RequestsTyped
  <2>1. [reqs[r] EXCEPT !.pc = "user"] \in Request
    BY <1>t DEF Request, VariablesTyped
  <2>2. VariablesTyped'
    BY <1>5, <1>t, <1>s, <2>0, <2>1 DEF ConsumeAuthCode, VariablesTyped, Finish
  <2>3. RequestsTyped'
    BY <1>5, <1>t, <2>0 DEF ConsumeAuthCode, RequestsTyped, VariablesTyped, Finish, Idle, Request
  <2>4. RowsTyped'
    <3>1. /\ tokens' = tokens
          /\ codes' = codes \/ (/\ CodeExists(reqs[r].code)
                               /\ codes' = [codes EXCEPT ![reqs[r].code].status = "consumed"])
      BY <1>5 DEF ConsumeAuthCode, ConsumeAuthCodeWins, CodeExists
    <3>2. codes \in [Codes -> CodeRow]
      BY <1>t DEF VariablesTyped
    <3>3. ASSUME NEW c \in Codes, CodeExists(c)'
          PROVE CodeExists(c) /\ codes'[c].user = codes[c].user /\ codes'[c].app = codes[c].app
      BY <3>1, <3>2, <3>3, <2>0 DEF CodeExists, CodeRow
    <3> QED BY <1>t, <3>1, <3>3 DEF RowsTyped, TokenExists
  <2> QED BY <2>2, <2>3, <2>4 DEF TypeOK
<1>6. ASSUME NEW r \in Requests, RevokeRefreshTokensForAuthCode(r) PROVE TypeOK'
  <2>1. VariablesTyped'
    BY <1>6, <1>t, <1>s DEF RevokeRefreshTokensForAuthCode, VariablesTyped, Finish
  <2>2. RequestsTyped'
    BY <1>6, <1>t DEF RevokeRefreshTokensForAuthCode, RequestsTyped, VariablesTyped, Finish, Idle
  <2>3. RowsTyped'
    BY <1>6, <1>t DEF RevokeRefreshTokensForAuthCode, RowsTyped, CodeExists, TokenExists, Live,
                      VariablesTyped, TokenRow
  <2> QED BY <2>1, <2>2, <2>3 DEF TypeOK
<1>7. ASSUME NEW r \in Requests, CheckUserAndScopes(r) PROVE TypeOK'
  <2>1. PICK q \in Request :
          /\ reqs' = [reqs EXCEPT ![r] = q]
          /\ \/ q.pc = "idle"
             \/ q.pc = "mint" /\ q.user = reqs[r].user /\ q.app = reqs[r].app
    <3> DEFINE q1 == [reqs[r] EXCEPT !.pc = "mint", !.want = {},
                                    !.scopes = IF reqs[r].want = {} THEN reqs[r].scopes ELSE reqs[r].want]
    <3>1. q1 \in Request /\ q1.pc = "mint" /\ q1.user = reqs[r].user /\ q1.app = reqs[r].app
      BY ZenonT(60), <1>t DEF Request, VariablesTyped
    <3>2. reqs' = [reqs EXCEPT ![r] = q1] \/ reqs' = [reqs EXCEPT ![r] = Idle]
      BY <1>7 DEF CheckUserAndScopes, Finish
    <3>3. Idle.pc = "idle"
      BY DEF Idle
    <3> HIDE DEF q1
    <3> QED BY <3>1, <3>2, <3>3
  <2>2. VariablesTyped'
    BY <1>7, <1>t, <2>1 DEF CheckUserAndScopes, VariablesTyped
  <2>3. RequestsTyped'
    BY <1>7, <1>t, <2>1 DEF CheckUserAndScopes, RequestsTyped, VariablesTyped
  <2>4. RowsTyped'
    BY <1>7, <1>t DEF CheckUserAndScopes, RowsTyped, CodeExists, TokenExists
  <2> QED BY <2>2, <2>3, <2>4 DEF TypeOK
<1>8. ASSUME NEW r \in Requests, BuildDelegatedResponse(r) PROVE TypeOK'
  <2> DEFINE row == [status |-> "live", app |-> reqs[r].app, user |-> reqs[r].user,
                     code |-> reqs[r].code, from |-> None, scopes |-> reqs[r].scopes,
                     created |-> now, expires |-> now + refreshSec]
  <2>1. row \in TokenRow /\ reqs[r].user \in Users /\ reqs[r].app \in Apps
    BY <1>8, <1>t DEF TokenRow, Request, VariablesTyped, BuildDelegatedResponse, RequestsTyped
  <2>2. /\ reqs' = [reqs EXCEPT ![r] = Idle]
        /\ UNCHANGED <<users, apps, codes, now, burned, replayed>>
        /\ exchanges' \in [Codes -> Nat]
        /\ \/ UNCHANGED tokens /\ UNCHANGED delivered
           \/ \E t \in Tokens : /\ tokens' = [tokens EXCEPT ![t] = row]
                                /\ delivered' \subseteq delivered \cup {t}
    BY <1>8, <1>t DEF BuildDelegatedResponse, Finish, VariablesTyped
  <2> HIDE DEF row
  <2>3. VariablesTyped'
    BY <1>t, <2>1, <2>2 DEF VariablesTyped
  <2>4. RequestsTyped'
    BY <1>t, <2>2 DEF RequestsTyped, VariablesTyped, Idle
  <2>5. RowsTyped'
    BY <1>t, <2>1, <2>2 DEF RowsTyped, CodeExists, TokenExists, VariablesTyped, row
  <2> QED BY <2>3, <2>4, <2>5 DEF TypeOK
<1>9. ASSUME NEW r \in Requests, RotateRefreshToken(r) PROVE TypeOK'
  <2> DEFINE old == reqs[r].token
  <2>0. old \in Tokens
    BY <1>9, <1>t DEF RotateRefreshToken, RequestsTyped
  <2>1. [Successor(old) EXCEPT !.status = "live"] \in TokenRow
    <3>1. now \in Nat /\ now + RefreshLifetime \in Nat /\ tokens[old] \in TokenRow
      BY <1>t, <2>0 DEF VariablesTyped
    <3>2. Successor(old) \in TokenRow
      BY <2>0, <3>1 DEF TokenRow, Successor
    <3> QED BY <3>2 DEF TokenRow
  <2>2. CASE RotateWins(old)
    <3>1. PICK new \in Tokens :
            /\ tokens[new].status = "unused"
            /\ tokens' = [tokens EXCEPT ![old] = [@ EXCEPT !.status = "revoked"],
                                        ![new] = [Successor(old) EXCEPT !.status = "live"]]
            /\ reqs' = [reqs EXCEPT ![r] = [@ EXCEPT !.pc = "refreshUser", !.token = new]]
      BY <1>9, <2>2 DEF RotateRefreshToken
    <3>2. [reqs[r] EXCEPT !.pc = "refreshUser", !.token = new] \in Request
      BY ZenonT(60), <1>t DEF Request, VariablesTyped
    <3>3. VariablesTyped'
      BY <1>9, <1>t, <1>s, <2>0, <2>1, <3>1, <3>2 DEF RotateRefreshToken, VariablesTyped
    <3>4. RequestsTyped'
      BY <1>t, <3>1 DEF RequestsTyped, VariablesTyped, Request
    <3>5. RowsTyped'
      <4>1. ASSUME NEW t \in Tokens, TokenExists(t)'
            PROVE  tokens'[t].user \in Users /\ tokens'[t].app \in Apps
        <5>1. tokens[old].user \in Users /\ tokens[old].app \in Apps
          BY <1>t, <2>0, <2>2 DEF RotateWins, Live, RowsTyped, TokenExists
        <5>2. tokens'[t].user \in {tokens[t].user, tokens[old].user}
              /\ tokens'[t].app \in {tokens[t].app, tokens[old].app}
          BY <1>t, <2>0, <3>1 DEF Successor, VariablesTyped, TokenRow
        <5>3. t = new \/ t = old \/ tokens'[t] = tokens[t]
          BY <1>t, <3>1 DEF VariablesTyped
        <5>4. CASE t = new
          <6>1. tokens'[new] = [Successor(old) EXCEPT !.status = "live"]
            BY <1>t, <3>1 DEF VariablesTyped
          <6> QED BY <1>t, <2>0, <5>1, <5>4, <6>1 DEF Successor, VariablesTyped, TokenRow
        <5>5. CASE t # new
          BY <1>t, <3>1, <4>1, <5>1, <5>2, <5>3, <5>5 DEF RowsTyped, TokenExists
        <5> QED BY <5>4, <5>5
      <4>2. UNCHANGED codes
        BY <1>9 DEF RotateRefreshToken
      <4> QED BY <1>t, <4>1, <4>2 DEF RowsTyped, CodeExists
    <3> QED BY <3>3, <3>4, <3>5 DEF TypeOK
  <2>3. CASE ~RotateWins(old)
    <3> DEFINE q == [reqs[r] EXCEPT !.pc = "revokeFamily"]
    <3>1. q \in Request /\ q.pc = "revokeFamily" /\ q.token = old
      BY <1>t DEF Request, VariablesTyped
    <3>0. reqs' = [reqs EXCEPT ![r] = q]
      BY <1>9, <2>3 DEF RotateRefreshToken
    <3> HIDE DEF q
    <3>2. VariablesTyped'
      BY <1>9, <1>t, <2>3, <3>0, <3>1 DEF RotateRefreshToken, VariablesTyped
    <3>3. RequestsTyped'
      BY <1>t, <2>0, <3>0, <3>1 DEF RequestsTyped, VariablesTyped
    <3>4. RowsTyped'
      BY <1>9, <1>t, <2>3 DEF RotateRefreshToken, RowsTyped, CodeExists, TokenExists
    <3> QED BY <3>2, <3>3, <3>4 DEF TypeOK
  <2> QED BY <2>2, <2>3
<1>10. ASSUME NEW r \in Requests, RevokeRefreshTokenFamily(r) PROVE TypeOK'
  <2>0. reqs[r].token \in Tokens
    BY <1>10, <1>t DEF RevokeRefreshTokenFamily, RequestsTyped
  <2>1. VariablesTyped'
    BY <1>10, <1>t, <1>s, <2>0 DEF RevokeRefreshTokenFamily, VariablesTyped, Finish
  <2>2. RequestsTyped'
    BY <1>10, <1>t DEF RevokeRefreshTokenFamily, RequestsTyped, VariablesTyped, Finish, Idle
  <2>3. RowsTyped'
    BY <1>10, <1>t DEF RevokeRefreshTokenFamily, RowsTyped, CodeExists, TokenExists,
                       VariablesTyped, TokenRow
  <2> QED BY <2>1, <2>2, <2>3 DEF TypeOK
<1>11. ASSUME NEW r \in Requests, DeliverSuccessor(r) PROVE TypeOK'
  <2>0. reqs[r].token \in Tokens
    BY <1>11, <1>t DEF DeliverSuccessor, RequestsTyped
  <2>1. VariablesTyped'
    BY <1>11, <1>t, <2>0 DEF DeliverSuccessor, VariablesTyped, Finish
  <2>2. RequestsTyped'
    BY <1>11, <1>t DEF DeliverSuccessor, RequestsTyped, VariablesTyped, Finish, Idle
  <2>3. RowsTyped'
    BY <1>11, <1>t DEF DeliverSuccessor, RowsTyped, CodeExists, TokenExists
  <2> QED BY <2>1, <2>2, <2>3 DEF TypeOK
<1>12. ASSUME Directory PROVE TypeOK'
  <2>1. VariablesTyped'
    <3>1. [BlankCode EXCEPT !.status = "deleted"] \in CodeRow
          /\ [BlankToken EXCEPT !.status = "deleted"] \in TokenRow
      BY DEF BlankCode, BlankToken, CodeRow, TokenRow
    <3> QED BY <1>12, <1>t, <3>1 DEF Directory, DeleteUser, SetAccountEnabled, RestoreUser, DeleteApp,
                                     RestoreApp, ClearGrants, VariablesTyped
  <2>2. RequestsTyped'
    BY <1>12, <1>t DEF Directory, DeleteUser, SetAccountEnabled, RestoreUser, DeleteApp, RestoreApp,
                       RequestsTyped
  <2>3. RowsTyped'
    BY <1>12, <1>t DEF Directory, DeleteUser, SetAccountEnabled, RestoreUser, DeleteApp, RestoreApp,
                       ClearGrants, RowsTyped, CodeExists, TokenExists, VariablesTyped, BlankCode, BlankToken
  <2> QED BY <2>1, <2>2, <2>3 DEF TypeOK
<1>13. ASSUME NEW n \in 0..MaxNow, SetClock(n) PROVE TypeOK'
  BY <1>13, <1>t DEF SetClock, TypeOK, VariablesTyped, RequestsTyped, RowsTyped, CodeExists, TokenExists
<1>14. ASSUME Restart PROVE TypeOK'
  BY <1>14, <1>t DEF Restart, TypeOK, VariablesTyped, RequestsTyped, RowsTyped, CodeExists, TokenExists, Idle
<1>15. ASSUME UNCHANGED vars PROVE TypeOK'
  BY <1>15, <1>t DEF vars, TypeOK, VariablesTyped, RequestsTyped, RowsTyped, CodeExists, TokenExists
<1>16. \A sc \in Asked : sc \in SUBSET Scopes
  BY GrantsAssumptions
<1> QED
  BY <1>1, <1>2, <1>3, <1>4, <1>5, <1>6, <1>7, <1>8, <1>9, <1>10, <1>11, <1>12, <1>13, <1>14, <1>15, <1>16
     DEF Next, Step

\* Every reachable state is well typed.
THEOREM TypeCorrect == Spec => []TypeOK
<1>1. Init => TypeOK
  BY GrantsAssumptions, BlanksTyped
     DEF Init, TypeOK, VariablesTyped, RequestsTyped, RowsTyped, CodeExists, TokenExists,
         Idle, BlankCode, BlankToken
<1>2. TypeOK /\ [Next]_vars => TypeOK'
  BY TypeStep
<1> QED BY <1>1, <1>2, PTL DEF Spec

-----------------------------------------------------------------------------
\* Rotation families as sets closed under the walk

\* A token belongs to its own family.
LEMMA FamilyHasSelf == ASSUME NEW rows, NEW h \in Tokens PROVE h \in Family(rows, h)
BY DEF Family

\* The family is the least closed set that holds the token.
LEMMA FamilyLeast ==
    ASSUME NEW rows, NEW h, NEW S \in SUBSET Tokens, h \in S, Closed(rows, S)
    PROVE  Family(rows, h) \subseteq S
BY DEF Family

\* The walk never leaves a family.
LEMMA FamilyClosed == ASSUME NEW rows, NEW h PROVE Closed(rows, Family(rows, h))
<1> SUFFICES ASSUME NEW x \in Family(rows, h), NEW y \in Tokens, Linked(rows, x, y),
                    NEW S \in SUBSET Tokens, h \in S, Closed(rows, S)
             PROVE  y \in S
  BY DEF Closed, Family
<1>1. x \in S
  BY DEF Family
<1> QED BY <1>1 DEF Closed

\* Dropping links can only shrink a family.
LEMMA FamilyShrinks ==
    ASSUME NEW rows, NEW rows2, NEW h \in Tokens,
           \A x, y \in Tokens : Linked(rows2, x, y) => Linked(rows, x, y)
    PROVE  Family(rows2, h) \subseteq Family(rows, h)
<1>1. Closed(rows2, Family(rows, h))
  <2>1. Family(rows, h) \subseteq Tokens
    BY DEF Family
  <2> QED BY <2>1, FamilyClosed DEF Closed
<1>2. Family(rows, h) \in SUBSET Tokens
  BY DEF Family
<1> QED BY <1>1, <1>2, FamilyHasSelf, FamilyLeast

\* A rotation adds one link, from the parent to a value nothing was linked to:
\* the successor joins the parent's family and no other family changes.
LEMMA FamilyAfterRotation ==
    ASSUME NEW rows, NEW rows2, NEW old \in Tokens, NEW new \in Tokens,
           \A y \in Tokens : ~Linked(rows, new, y) /\ ~Linked(rows, y, new),
           \A x, y \in Tokens : Linked(rows2, x, y) =>
               \/ Linked(rows, x, y)
               \/ (x = old /\ y = new)
               \/ (x = new /\ y = old)
    PROVE  /\ Family(rows2, new) \subseteq Family(rows, old) \cup {new}
           /\ \A h \in Tokens : (h # new /\ old \notin Family(rows, h)) =>
                  Family(rows2, h) \subseteq Family(rows, h) \ {new}
<1>1. ASSUME NEW h \in Tokens PROVE Family(rows, h) \in SUBSET Tokens
  BY DEF Family
<1>2. Family(rows2, new) \subseteq Family(rows, old) \cup {new}
  <2> DEFINE S == Family(rows, old) \cup {new}
  <2>1. Closed(rows2, S)
    BY <1>1, FamilyClosed, FamilyHasSelf DEF Closed
  <2>2. S \in SUBSET Tokens /\ new \in S
    BY <1>1
  <2> QED BY <2>1, <2>2, FamilyLeast
<1>3. ASSUME NEW h \in Tokens, h # new, old \notin Family(rows, h)
      PROVE  Family(rows2, h) \subseteq Family(rows, h) \ {new}
  <2> DEFINE S == Family(rows, h) \ {new}
  <2>1. Closed(rows2, S)
    BY <1>1, <1>3, FamilyClosed DEF Closed
  <2>2. S \in SUBSET Tokens /\ h \in S
    BY <1>1, <1>3, FamilyHasSelf
  <2> QED BY <2>1, <2>2, FamilyLeast
<1> QED BY <1>2, <1>3

-----------------------------------------------------------------------------
\* At most one usable token per family; a burned family stays dead

\* A step that adds no link and makes no token usable keeps both properties.
LEMMA FewerLinksSafe ==
    ASSUME FamilyInv, burned' = burned,
           \A x, y \in Tokens : Linked(tokens', x, y) => Linked(tokens, x, y),
           \A t \in Tokens : Live(t)' => Live(t)
    PROVE  OneLivePerFamily' /\ BurnedFamilyDead'
<1>1. ASSUME NEW h \in Tokens PROVE Family(tokens', h) \subseteq Family(tokens, h)
  BY FamilyShrinks
<1>2. ASSUME NEW h \in Tokens PROVE Family(tokens', h) \subseteq Tokens
  BY DEF Family
<1>3. OneLivePerFamily'
  BY <1>1, <1>2 DEF FamilyInv, OneLivePerFamily
<1>4. BurnedFamilyDead'
  <2>1. burned \subseteq Tokens
    BY DEF FamilyInv, TypeOK, VariablesTyped
  <2> QED BY <1>1, <1>2, <2>1 DEF FamilyInv, BurnedFamilyDead
<1> QED BY <1>3, <1>4

\* A step that leaves the token table alone and learns of no undrawn token
\* keeps the whole invariant.
LEMMA TokensUnchangedSafe ==
    ASSUME FamilyInv, TypeOK', tokens' = tokens, burned' = burned, KnownTokensDrawn'
    PROVE  FamilyInv'
<1>1. BlankRowsUnlinked' /\ ChainsIntact'
  BY DEF FamilyInv, BlankRowsUnlinked, TokenExists, ChainsIntact
<1>2. OneLivePerFamily' /\ BurnedFamilyDead'
  BY FewerLinksSafe DEF Live
<1> QED BY <1>1, <1>2 DEF FamilyInv

\* A request that moves on with a drawn token, or with none, tells nobody of
\* an undrawn one.
LEMMA RequestMovesSafe ==
    ASSUME TypeOK, KnownTokensDrawn, tokens' = tokens, burned' = burned, delivered' = delivered,
           NEW r \in Requests, NEW q, reqs' = [reqs EXCEPT ![r] = q],
           q.pc \in {"rotate", "revokeFamily", "refreshUser"} => tokens[q.token].status # "unused"
    PROVE  KnownTokensDrawn'
BY DEF KnownTokensDrawn, TypeOK, VariablesTyped

\* Initially no token exists.
LEMMA FamilyInit == Init => FamilyInv
<1> SUFFICES ASSUME Init PROVE FamilyInv
  OBVIOUS
<1>1. TypeOK
  BY GrantsAssumptions, BlanksTyped
     DEF Init, TypeOK, VariablesTyped, RequestsTyped, RowsTyped, CodeExists, TokenExists,
         Idle, BlankCode, BlankToken
<1>2. \A t \in Tokens : tokens[t] = BlankToken
  BY DEF Init
<1>3. BlankRowsUnlinked /\ ChainsIntact
  BY <1>2 DEF BlankRowsUnlinked, ChainsIntact, BlankToken
<1>4. KnownTokensDrawn
  BY DEF Init, KnownTokensDrawn, Idle
<1>5. OneLivePerFamily /\ BurnedFamilyDead
  BY <1>2 DEF Init, OneLivePerFamily, BurnedFamilyDead, Live, BlankToken
<1> QED BY <1>1, <1>3, <1>4, <1>5 DEF FamilyInv

\* Each step of the specification preserves the family invariant.
LEMMA FamilyStep == ASSUME FamilyInv, [Next]_vars PROVE FamilyInv'
<1>t. TypeOK /\ TypeOK'
  BY TypeStep DEF FamilyInv
<1>v. /\ tokens \in [Tokens -> TokenRow] /\ burned \subseteq Tokens /\ delivered \subseteq Tokens
      /\ reqs \in [Requests -> Request]
  BY <1>t DEF TypeOK, VariablesTyped
<1>k. KnownTokensDrawn /\ BlankRowsUnlinked /\ ChainsIntact
  BY DEF FamilyInv
<1>1. ASSUME NEW c \in Codes, NEW a \in Apps, NEW u \in Users, NEW sc \in SUBSET Scopes,
             IssueAuthCode(c, a, u, sc)
      PROVE  FamilyInv'
  BY <1>1, <1>t, <1>k, TokensUnchangedSafe DEF IssueAuthCode, KnownTokensDrawn
<1>2. ASSUME NEW r \in Requests, NEW a \in Apps, NEW c \in Codes, NEW want \in SUBSET Scopes,
             RedeemAuthCode(r, a, c, want)
      PROVE  FamilyInv'
  <2>1. KnownTokensDrawn'
    <3> DEFINE q1 == [Idle EXCEPT !.pc = "revokeCode", !.app = a, !.code = c]
               q2 == [pc |-> "consume", app |-> a, user |-> codes[c].user, code |-> c, token |-> None,
                      scopes |-> codes[c].scopes, want |-> want]
    <3>1. q1.pc = "revokeCode" /\ q2.pc = "consume"
      BY DEF Idle
    <3>2. reqs' = [reqs EXCEPT ![r] = q1] \/ reqs' = [reqs EXCEPT ![r] = q2]
      BY <1>2 DEF RedeemAuthCode
    <3>3. UNCHANGED <<tokens, burned, delivered>>
      BY <1>2 DEF RedeemAuthCode
    <3> HIDE DEF q1, q2
    <3> QED BY <1>t, <1>k, <3>1, <3>2, <3>3, RequestMovesSafe
  <2> QED BY <1>2, <1>t, <2>1, TokensUnchangedSafe DEF RedeemAuthCode
<1>3. ASSUME NEW r \in Requests, NEW a \in Apps, NEW t \in Tokens, NEW want \in SUBSET Scopes,
             RedeemRefreshToken(r, a, t, want)
      PROVE  FamilyInv'
  <2>1. KnownTokensDrawn'
    <3> DEFINE q1 == [Idle EXCEPT !.pc = "revokeFamily", !.app = a, !.token = t]
               q2 == [Idle EXCEPT !.pc = "rotate", !.app = a, !.user = tokens[t].user, !.token = t,
                                  !.scopes = IF want = {} THEN tokens[t].scopes ELSE want]
    <3>1. q1.token = t /\ q2.token = t
      BY DEF Idle
    <3>2. reqs' = [reqs EXCEPT ![r] = q1] \/ reqs' = [reqs EXCEPT ![r] = q2]
      BY <1>3 DEF RedeemRefreshToken
    <3>3. UNCHANGED <<tokens, burned, delivered>> /\ tokens[t].status # "unused"
      BY <1>3 DEF RedeemRefreshToken, TokenExists
    <3> HIDE DEF q1, q2
    <3> QED BY <1>t, <1>k, <3>1, <3>2, <3>3, RequestMovesSafe
  <2> QED BY <1>3, <1>t, <2>1, TokensUnchangedSafe DEF RedeemRefreshToken
<1>4. ASSUME NEW r \in Requests, NEW a \in Apps, NEW u \in Users, NEW sc \in SUBSET Scopes,
             GrantWithoutCode(r, a, u, sc)
      PROVE  FamilyInv'
  <2>1. KnownTokensDrawn'
    BY <1>4, <1>k, <1>v DEF GrantWithoutCode, KnownTokensDrawn, Idle
  <2> QED BY <1>4, <1>t, <2>1, TokensUnchangedSafe DEF GrantWithoutCode
<1>5. ASSUME NEW r \in Requests, ConsumeAuthCode(r) \/ CheckUserAndScopes(r) PROVE FamilyInv'
  <2> DEFINE q1 == [reqs[r] EXCEPT !.pc = "user"]
             q2 == [reqs[r] EXCEPT !.pc = "mint", !.want = {},
                                   !.scopes = IF reqs[r].want = {} THEN reqs[r].scopes ELSE reqs[r].want]
  <2>1. q1.pc = "user" /\ q2.pc = "mint" /\ Idle.pc = "idle"
    BY <1>v DEF Idle, Request
  <2>2. \/ reqs' = [reqs EXCEPT ![r] = q1]
        \/ reqs' = [reqs EXCEPT ![r] = q2]
        \/ reqs' = [reqs EXCEPT ![r] = Idle]
    BY <1>5 DEF ConsumeAuthCode, CheckUserAndScopes, Finish
  <2>3. UNCHANGED <<tokens, burned, delivered>>
    BY <1>5 DEF ConsumeAuthCode, CheckUserAndScopes
  <2> HIDE DEF q1, q2
  <2>4. KnownTokensDrawn'
    BY <1>t, <1>k, <2>1, <2>2, <2>3, RequestMovesSafe
  <2> QED BY <1>t, <2>3, <2>4, TokensUnchangedSafe
<1>14. ASSUME NEW r \in Requests, DeliverSuccessor(r) PROVE FamilyInv'
  <2>1. KnownTokensDrawn'
    BY <1>14, <1>k, <1>v DEF DeliverSuccessor, KnownTokensDrawn, Finish, Idle
  <2> QED BY <1>14, <1>t, <2>1, TokensUnchangedSafe DEF DeliverSuccessor
<1>6. ASSUME NEW r \in Requests, RevokeRefreshTokensForAuthCode(r) PROVE FamilyInv'
  <2>1. ASSUME NEW t \in Tokens
        PROVE  /\ tokens'[t].from = tokens[t].from /\ tokens'[t].code = tokens[t].code
               /\ tokens'[t].app = tokens[t].app /\ tokens'[t].user = tokens[t].user
               /\ tokens'[t].status = tokens[t].status
                  \/ (tokens[t].status = "live" /\ tokens'[t].status = "revoked")
    BY <1>6, <1>v DEF RevokeRefreshTokensForAuthCode, TokenRow, Live
  <2>2. BlankRowsUnlinked' /\ ChainsIntact'
    BY <1>k, <1>v, <2>1 DEF BlankRowsUnlinked, ChainsIntact, TokenExists, TokenRow
  <2>3. KnownTokensDrawn'
    BY <1>6, <1>k, <1>v, <1>t, <2>1
       DEF KnownTokensDrawn, RevokeRefreshTokensForAuthCode, Finish, Idle, TypeOK, RequestsTyped
  <2>4. burned' = burned
    BY <1>6 DEF RevokeRefreshTokensForAuthCode
  <2>5. OneLivePerFamily' /\ BurnedFamilyDead'
    BY <2>1, <2>4, FewerLinksSafe DEF Linked, Live
  <2> QED BY <1>t, <2>2, <2>3, <2>5 DEF FamilyInv
<1>7. ASSUME NEW r \in Requests, RevokeRefreshTokenFamily(r) PROVE FamilyInv'
  <2> DEFINE h == reqs[r].token
  <2>0. h \in Tokens /\ tokens[h].status # "unused"
    BY <1>7, <1>t, <1>k DEF RevokeRefreshTokenFamily, TypeOK, RequestsTyped, KnownTokensDrawn
  <2>1. ASSUME NEW t \in Tokens
        PROVE  /\ tokens'[t].from = tokens[t].from /\ tokens'[t].code = tokens[t].code
               /\ tokens'[t].app = tokens[t].app /\ tokens'[t].user = tokens[t].user
               /\ tokens'[t].status = tokens[t].status
                  \/ (tokens[t].status \in {"live", "revoked"} /\ tokens'[t].status = "revoked")
               /\ t \in Family(tokens, h) => tokens'[t].status # "live"
    BY <1>7, <1>v DEF RevokeRefreshTokenFamily, TokenRow, TokenExists
  <2>2. BlankRowsUnlinked' /\ ChainsIntact'
    BY <1>k, <1>v, <2>1 DEF BlankRowsUnlinked, ChainsIntact, TokenExists, TokenRow
  <2>3. KnownTokensDrawn'
    BY <1>7, <1>k, <1>v, <1>t, <2>0, <2>1
       DEF KnownTokensDrawn, RevokeRefreshTokenFamily, Finish, Idle, TypeOK, RequestsTyped
  <2>4. \A x, y \in Tokens : Linked(tokens', x, y) => Linked(tokens, x, y)
    BY <2>1 DEF Linked
  <2>5. ASSUME NEW x \in Tokens PROVE Family(tokens', x) \subseteq Family(tokens, x)
    BY <2>4, FamilyShrinks
  <2>6. ASSUME NEW x \in Tokens PROVE Family(tokens', x) \subseteq Tokens
    BY DEF Family
  <2>7. OneLivePerFamily'
    BY <2>1, <2>5, <2>6 DEF FamilyInv, OneLivePerFamily, Live
  <2>8. BurnedFamilyDead'
    <3>1. burned' = burned \cup {h}
      BY <1>7 DEF RevokeRefreshTokenFamily
    <3>2. ASSUME NEW b \in burned, NEW y \in Family(tokens', b) PROVE ~Live(y)'
      <4>1. y \in Tokens /\ y \in Family(tokens, b)
        BY <1>v, <2>5, <2>6
      <4> QED BY <2>1, <4>1 DEF FamilyInv, BurnedFamilyDead, Live
    <3>3. ASSUME NEW y \in Family(tokens', h) PROVE ~Live(y)'
      BY <2>0, <2>1, <2>5, <2>6 DEF Live
    <3> QED BY <3>1, <3>2, <3>3 DEF BurnedFamilyDead
  <2> QED BY <1>t, <2>2, <2>3, <2>7, <2>8 DEF FamilyInv
<1>8. ASSUME NEW r \in Requests, BuildDelegatedResponse(r) PROVE FamilyInv'
  <2>0. burned' = burned /\ reqs' = [reqs EXCEPT ![r] = Idle] /\ Idle.pc = "idle"
    BY <1>8 DEF BuildDelegatedResponse, Finish, Idle
  <2>1. CASE UNCHANGED tokens /\ UNCHANGED delivered
    <3>1. KnownTokensDrawn'
      BY <1>t, <1>k, <2>0, <2>1, RequestMovesSafe
    <3> QED BY <1>t, <2>0, <2>1, <3>1, TokensUnchangedSafe
  <2>2. CASE \E t \in Tokens : /\ tokens[t].status = "unused"
                               /\ tokens'[t].status = "live" /\ tokens'[t].from = None
                               /\ \A x \in Tokens : x # t => tokens'[x] = tokens[x]
                               /\ delivered' \subseteq delivered \cup {t}
    <3>1. PICK t \in Tokens : /\ tokens[t].status = "unused"
                              /\ tokens'[t].status = "live" /\ tokens'[t].from = None
                              /\ \A x \in Tokens : x # t => tokens'[x] = tokens[x]
                              /\ delivered' \subseteq delivered \cup {t}
      BY <2>2
    <3>2. tokens[t].from = None /\ (\A x \in Tokens : tokens[x].from # t)
      BY GrantsAssumptions, <1>k, <3>1 DEF BlankRowsUnlinked, TokenExists, ChainsIntact
    <3>3. BlankRowsUnlinked' /\ ChainsIntact'
      BY <1>k, <1>v, <3>1, <3>2 DEF BlankRowsUnlinked, ChainsIntact, TokenExists, TokenRow
    <3>4. KnownTokensDrawn'
      BY <1>k, <1>v, <1>t, <2>0, <3>1 DEF KnownTokensDrawn, TypeOK, RequestsTyped
    <3>5. \A x, y \in Tokens : Linked(tokens', x, y) => Linked(tokens, x, y)
      BY GrantsAssumptions, <3>1, <3>2 DEF Linked
    <3>6. ASSUME NEW x \in Tokens PROVE Family(tokens', x) \subseteq Family(tokens, x)
      BY <3>5, FamilyShrinks
    <3>7. Family(tokens, t) \subseteq {t}
      <4>1. Closed(tokens, {t})
        BY GrantsAssumptions, <3>2 DEF Closed, Linked
      <4> QED BY <4>1, FamilyLeast
    <3>8. ASSUME NEW x \in Tokens, x # t PROVE t \notin Family(tokens, x)
      <4>1. Closed(tokens, Tokens \ {t})
        BY GrantsAssumptions, <3>2 DEF Closed, Linked
      <4>2. Family(tokens, x) \subseteq Tokens \ {t}
        BY <3>8, <4>1, FamilyLeast
      <4> QED BY <4>2
    <3>9. ASSUME NEW x \in Tokens PROVE Family(tokens', x) \subseteq Tokens
      BY DEF Family
    <3>10. OneLivePerFamily'
      BY <3>1, <3>6, <3>7, <3>8, <3>9 DEF FamilyInv, OneLivePerFamily, Live
    <3>11. BurnedFamilyDead'
      <4>1. t \notin burned
        BY <1>k, <3>1 DEF KnownTokensDrawn
      <4> QED BY <1>v, <2>0, <3>1, <3>6, <3>8, <3>9, <4>1 DEF FamilyInv, BurnedFamilyDead, Live
    <3> QED BY <1>t, <3>3, <3>4, <3>10, <3>11 DEF FamilyInv
  <2> QED BY <1>8, <1>v, <2>1, <2>2 DEF BuildDelegatedResponse
<1>9. ASSUME NEW r \in Requests, RotateRefreshToken(r) PROVE FamilyInv'
  <2> DEFINE old == reqs[r].token
  <2>0. old \in Tokens /\ tokens[old].status # "unused"
    BY <1>9, <1>t, <1>k DEF RotateRefreshToken, TypeOK, RequestsTyped, KnownTokensDrawn
  <2>1. burned' = burned /\ delivered' = delivered
    BY <1>9 DEF RotateRefreshToken
  <2>2. CASE ~RotateWins(old)
    <3> DEFINE q == [reqs[r] EXCEPT !.pc = "revokeFamily"]
    <3>1. q.token = old
      BY <1>v DEF Request
    <3>2. reqs' = [reqs EXCEPT ![r] = q] /\ tokens' = tokens
      BY <1>9, <2>2 DEF RotateRefreshToken
    <3> HIDE DEF q
    <3>3. KnownTokensDrawn'
      BY <1>t, <1>k, <2>0, <2>1, <3>1, <3>2, RequestMovesSafe
    <3> QED BY <1>t, <2>1, <3>2, <3>3, TokensUnchangedSafe
  <2>3. CASE RotateWins(old)
    <3>1. PICK new \in Tokens :
            /\ tokens[new].status = "unused"
            /\ tokens' = [tokens EXCEPT ![old] = [@ EXCEPT !.status = "revoked"],
                                        ![new] = [Successor(old) EXCEPT !.status = "live"]]
            /\ reqs' = [reqs EXCEPT ![r] = [@ EXCEPT !.pc = "refreshUser", !.token = new]]
      BY <1>9, <2>3 DEF RotateRefreshToken
    <3>2. old # new /\ Live(old)
      BY <2>0, <2>3, <3>1 DEF RotateWins
    <3>17. \A x \in Tokens : (x # old /\ x # new) => tokens'[x] = tokens[x]
      BY <1>v, <2>0, <3>1, <3>2
    <3>3. /\ tokens'[old] = [tokens[old] EXCEPT !.status = "revoked"]
          /\ tokens'[new] = [Successor(old) EXCEPT !.status = "live"]
      BY <1>v, <2>0, <3>1, <3>2
    <3>4. /\ tokens'[old].status = "revoked" /\ tokens'[old].from = tokens[old].from
          /\ tokens'[old].app = tokens[old].app /\ tokens'[old].user = tokens[old].user
          /\ tokens'[old].code = tokens[old].code
      BY <1>v, <2>0, <3>3 DEF TokenRow
    <3>5. /\ tokens'[new].status = "live" /\ tokens'[new].from = old
          /\ tokens'[new].app = tokens[old].app /\ tokens'[new].user = tokens[old].user
          /\ tokens'[new].code = tokens[old].code
      BY <1>v, <2>0, <3>3 DEF TokenRow, Successor
    <3>6. tokens[new].from = None /\ (\A x \in Tokens : tokens[x].from # new)
      BY GrantsAssumptions, <1>k, <3>1 DEF BlankRowsUnlinked, TokenExists, ChainsIntact
    <3> HIDE DEF old
    <3>7. BlankRowsUnlinked'
      BY <1>k, <2>0, <3>2, <3>17, <3>4, <3>5 DEF BlankRowsUnlinked, TokenExists, Live
    <3>8. ChainsIntact'
      <4>1. ASSUME NEW t \in Tokens, tokens'[t].from # None
            PROVE  /\ tokens'[tokens'[t].from].status = "revoked"
                   /\ tokens'[tokens'[t].from].app = tokens'[t].app
                   /\ tokens'[tokens'[t].from].user = tokens'[t].user
                   /\ tokens'[tokens'[t].from].code = tokens'[t].code
        <5>1. CASE t = new
          BY <3>4, <3>5, <5>1
        <5>2. CASE t # new
          <6>1. tokens'[t].from = tokens[t].from /\ tokens'[t].app = tokens[t].app
                /\ tokens'[t].user = tokens[t].user /\ tokens'[t].code = tokens[t].code
            BY <3>17, <3>4, <5>2
          <6> DEFINE p == tokens[t].from
          <6>2. p \in Tokens /\ p # new /\ p # None
            BY <1>v, <3>6, <4>1, <6>1 DEF TokenRow
          <6>3. /\ tokens[p].status = "revoked" /\ tokens[p].app = tokens[t].app
                /\ tokens[p].user = tokens[t].user /\ tokens[p].code = tokens[t].code
            BY <1>k, <6>2 DEF ChainsIntact
          <6>4. p # old
            BY <3>2, <6>3 DEF Live
          <6>5. tokens'[p] = tokens[p]
            BY <3>17, <6>2, <6>4
          <6> QED BY <6>1, <6>3, <6>5
        <5> QED BY <5>1, <5>2
      <4> QED BY <4>1 DEF ChainsIntact
    <3>9. KnownTokensDrawn'
      <4>1. \A x \in Tokens : tokens'[x].status = "unused" => tokens[x].status = "unused"
        BY <3>17, <3>4, <3>5
      <4>2. reqs'[r].token = new /\ \A q \in Requests : q # r => reqs'[q] = reqs[q]
        BY <1>v, <3>1 DEF Request
      <4> QED BY <1>t, <1>k, <1>v, <2>1, <3>5, <4>1, <4>2 DEF KnownTokensDrawn, TypeOK, RequestsTyped
    <3>10. \A y \in Tokens : ~Linked(tokens, new, y) /\ ~Linked(tokens, y, new)
      BY GrantsAssumptions, <3>6 DEF Linked
    <3>11. \A x, y \in Tokens : Linked(tokens', x, y) =>
              \/ Linked(tokens, x, y)
              \/ (x = old /\ y = new)
              \/ (x = new /\ y = old)
      BY <3>17, <3>4, <3>5 DEF Linked
    <3>12. /\ Family(tokens', new) \subseteq Family(tokens, old) \cup {new}
           /\ \A h \in Tokens : (h # new /\ old \notin Family(tokens, h)) =>
                  Family(tokens', h) \subseteq Family(tokens, h) \ {new}
      BY <2>0, <3>10, <3>11, FamilyAfterRotation
    <3>13. ASSUME NEW x \in Tokens PROVE Family(tokens', x) \subseteq Tokens
      BY DEF Family
    <3>14. \A x \in Tokens : (Live(x)' /\ x # new) => Live(x) /\ x # old
      BY <3>17, <3>4 DEF Live
    <3>15. OneLivePerFamily'
      <4> SUFFICES ASSUME NEW x \in Tokens, NEW y \in Family(tokens', x), Live(x)', Live(y)'
                   PROVE  x = y
        BY DEF OneLivePerFamily
      <4>1. CASE x = new
        BY <2>0, <3>2, <3>12, <3>13, <3>14, <4>1 DEF FamilyInv, OneLivePerFamily
      <4>2. CASE x # new
        BY <2>0, <3>2, <3>12, <3>13, <3>14, <4>2 DEF FamilyInv, OneLivePerFamily
      <4> QED BY <4>1, <4>2
    <3>16. BurnedFamilyDead'
      <4> SUFFICES ASSUME NEW b \in burned, NEW y \in Family(tokens', b) PROVE ~Live(y)'
        BY <2>1 DEF BurnedFamilyDead
      <4>1. b \in Tokens /\ b # new
        BY <1>k, <1>v, <3>1 DEF KnownTokensDrawn
      <4>2. old \notin Family(tokens, b)
        BY <3>2 DEF FamilyInv, BurnedFamilyDead
      <4>3. y \in Family(tokens, b) /\ y # new /\ y \in Tokens
        BY <3>12, <3>13, <4>1, <4>2
      <4> QED BY <3>14, <4>3 DEF FamilyInv, BurnedFamilyDead
    <3> QED BY <1>t, <3>7, <3>8, <3>9, <3>15, <3>16 DEF FamilyInv
  <2> QED BY <2>2, <2>3
<1>10. ASSUME Directory PROVE FamilyInv'
  <2>0. burned' = burned /\ delivered' = delivered /\ reqs' = reqs
    BY <1>10 DEF Directory, DeleteUser, SetAccountEnabled, RestoreUser, DeleteApp, RestoreApp
  <2>1. CASE tokens' = tokens
    BY <1>t, <1>k, <2>0, <2>1, TokensUnchangedSafe DEF KnownTokensDrawn
  \* Both deletions remove every token of one owner, and a chain has one owner.
  <2>2. ASSUME NEW Gone \in SUBSET Tokens,
               \A t \in Tokens :
                   tokens'[t] = IF TokenExists(t) /\ t \in Gone
                                THEN [BlankToken EXCEPT !.status = "deleted"] ELSE tokens[t],
               \A x, y \in Tokens :
                   (tokens[x].app = tokens[y].app /\ tokens[x].user = tokens[y].user) => (x \in Gone <=> y \in Gone)
        PROVE  FamilyInv'
    <3>1. ASSUME NEW t \in Tokens
          PROVE  \/ /\ tokens'[t].status = "deleted" /\ tokens'[t].from = None /\ tokens'[t].code = None
                    /\ TokenExists(t) /\ t \in Gone
                 \/ tokens'[t] = tokens[t] /\ ~(TokenExists(t) /\ t \in Gone)
      BY <2>2 DEF BlankToken
    <3>2. BlankRowsUnlinked'
      BY <1>k, <3>1 DEF BlankRowsUnlinked, TokenExists
    <3>3. ChainsIntact'
      <4>1. ASSUME NEW t \in Tokens, tokens'[t].from # None
            PROVE  tokens'[t] = tokens[t] /\ tokens'[tokens[t].from] = tokens[tokens[t].from]
        <5>1. tokens'[t] = tokens[t] /\ ~(TokenExists(t) /\ t \in Gone) /\ TokenExists(t)
          BY <1>k, <3>1, <4>1 DEF BlankRowsUnlinked
        <5>2. tokens[t].from \in Tokens
          BY <1>v, <4>1, <5>1 DEF TokenRow
        <5>3. tokens[tokens[t].from].app = tokens[t].app /\ tokens[tokens[t].from].user = tokens[t].user
          BY <1>k, <4>1, <5>1 DEF ChainsIntact
        <5>4. ~(tokens[t].from \in Gone)
          BY <2>2, <5>1, <5>2, <5>3
        <5> QED BY <3>1, <5>1, <5>2, <5>4
      <4> QED BY <1>k, <4>1 DEF ChainsIntact
    <3>4. KnownTokensDrawn'
      <4>1. \A t \in Tokens : tokens'[t].status = "unused" => tokens[t].status = "unused"
        BY <3>1
      <4> QED BY <1>k, <1>v, <1>t, <2>0, <4>1 DEF KnownTokensDrawn, TypeOK, RequestsTyped
    <3>5. \A x, y \in Tokens : Linked(tokens', x, y) => Linked(tokens, x, y)
      BY GrantsAssumptions, <3>1 DEF Linked
    <3>6. \A t \in Tokens : Live(t)' => Live(t)
      BY <3>1 DEF Live
    <3>7. OneLivePerFamily' /\ BurnedFamilyDead'
      BY <2>0, <3>5, <3>6, FewerLinksSafe
    <3> QED BY <1>t, <3>2, <3>3, <3>4, <3>7 DEF FamilyInv
  <2>3. ASSUME NEW u \in Users, DeleteUser(u) PROVE FamilyInv'
    <3> DEFINE Gone == {t \in Tokens : tokens[t].user = u}
    <3>1. \A t \in Tokens : tokens'[t] = IF TokenExists(t) /\ t \in Gone
                                       THEN [BlankToken EXCEPT !.status = "deleted"] ELSE tokens[t]
      BY <2>3 DEF DeleteUser, ClearGrants
    <3>2. \A x, y \in Tokens :
            (tokens[x].app = tokens[y].app /\ tokens[x].user = tokens[y].user) => (x \in Gone <=> y \in Gone)
      OBVIOUS
    <3>3. Gone \in SUBSET Tokens
      OBVIOUS
    <3> HIDE DEF Gone
    <3> QED BY <2>2, <3>1, <3>2, <3>3
  <2>4. ASSUME NEW a \in Apps, DeleteApp(a) PROVE FamilyInv'
    <3> DEFINE Gone == {t \in Tokens : tokens[t].app = a}
    <3>1. \A t \in Tokens : tokens'[t] = IF TokenExists(t) /\ t \in Gone
                                       THEN [BlankToken EXCEPT !.status = "deleted"] ELSE tokens[t]
      BY <2>4 DEF DeleteApp, ClearGrants
    <3>2. \A x, y \in Tokens :
            (tokens[x].app = tokens[y].app /\ tokens[x].user = tokens[y].user) => (x \in Gone <=> y \in Gone)
      OBVIOUS
    <3>3. Gone \in SUBSET Tokens
      OBVIOUS
    <3> HIDE DEF Gone
    <3> QED BY <2>2, <3>1, <3>2, <3>3
  <2> QED BY <1>10, <2>1, <2>3, <2>4 DEF Directory, SetAccountEnabled, RestoreUser, RestoreApp
<1>11. ASSUME NEW n \in 0..MaxNow, SetClock(n) PROVE FamilyInv'
  BY <1>11, <1>t, <1>k, TokensUnchangedSafe DEF SetClock, KnownTokensDrawn
<1>12. ASSUME Restart PROVE FamilyInv'
  BY <1>12, <1>t, <1>k, TokensUnchangedSafe DEF Restart, KnownTokensDrawn, Idle
<1>13. ASSUME UNCHANGED vars PROVE FamilyInv'
  BY <1>13, <1>t, <1>k, TokensUnchangedSafe DEF vars, KnownTokensDrawn
<1> QED
  BY <1>1, <1>2, <1>3, <1>4, <1>5, <1>6, <1>7, <1>8, <1>9, <1>10, <1>11, <1>12, <1>13, <1>14,
     GrantsAssumptions DEF Next, Step

\* In every reachable state the family invariant holds.
LEMMA FamilyInvariant == Spec => []FamilyInv
<1>1. FamilyInv /\ [Next]_vars => FamilyInv'
  BY FamilyStep
<1> QED BY <1>1, FamilyInit, PTL DEF Spec

\* No rotation family ever holds two usable refresh tokens.
THEOREM OneLivePerFamilyHolds == Spec => []OneLivePerFamily
<1>1. FamilyInv => OneLivePerFamily
  BY DEF FamilyInv
<1> QED BY <1>1, FamilyInvariant, PTL

\* Once reuse was detected, no token of the family is usable ever again.
THEOREM BurnedFamilyDeadHolds == Spec => []BurnedFamilyDead
<1>1. FamilyInv => BurnedFamilyDead
  BY DEF FamilyInv
<1> QED BY <1>1, FamilyInvariant, PTL

\* The chain of rotated_from links never has a gap or changes owner.
THEOREM ChainsIntactHolds == Spec => []ChainsIntact
<1>1. FamilyInv => ChainsIntact
  BY DEF FamilyInv
<1> QED BY <1>1, FamilyInvariant, PTL

-----------------------------------------------------------------------------
\* Authorization codes: single use, one usable token, replay

\* A step that starts no exchange, spends no code, makes no token usable and
\* hands no code to a token keeps what is known of codes.
LEMMA NoExchangeSafe ==
    ASSUME CodeInv, exchanges' = exchanges, replayed' = replayed,
           \A c \in Codes : Spent(c) => Spent(c)',
           \A c \in Codes : ~Spent(c)' => ~Spent(c),
           \A t \in Tokens : tokens'[t].code \in {tokens[t].code, None},
           \A t \in Tokens : Live(t)' => Live(t) /\ tokens'[t].code = tokens[t].code,
           \A r \in Requests, c \in Codes : Exchanges(r, c)' => Exchanges(r, c),
           RequestsHoldCodes'
    PROVE  CodeInv'
<1> USE GrantsAssumptions DEF CodeInv
<1>1. ExchangeIsExclusive'
  BY DEF ExchangeIsExclusive
<1>2. UnspentCodesUnused'
  BY DEF UnspentCodesUnused
<1>3. CleanReplayHadNoExchange'
  BY DEF CleanReplayHadNoExchange, Exchanging
<1>4. CodeSingleUse'
  BY DEF CodeSingleUse
<1>5. OneLivePerCode'
  BY DEF OneLivePerCode
<1>6. ReplayedChainDead'
  BY DEF ReplayedChainDead
<1> QED BY <1>1, <1>2, <1>3, <1>4, <1>5, <1>6

\* Initially there is no code.
LEMMA CodeInit == Init => CodeInv
<1> SUFFICES ASSUME Init PROVE CodeInv
  OBVIOUS
<1> USE GrantsAssumptions
<1>1. /\ \A r \in Requests : reqs[r].pc = "idle"
      /\ \A t \in Tokens : tokens[t].code = None /\ tokens[t].status = "unused"
      /\ \A c \in Codes : codes[c].status = "unused" /\ exchanges[c] = 0 /\ replayed[c] = "no"
  BY DEF Init, Idle, BlankToken, BlankCode
<1>2. RequestsHoldCodes /\ ExchangeIsExclusive /\ UnspentCodesUnused
  BY <1>1 DEF RequestsHoldCodes, ExchangeIsExclusive, UnspentCodesUnused, Exchanges
<1>3. CleanReplayHadNoExchange /\ CodeSingleUse /\ OneLivePerCode /\ ReplayedChainDead
  BY <1>1 DEF CleanReplayHadNoExchange, CodeSingleUse, OneLivePerCode, ReplayedChainDead, Live
<1> QED BY <1>2, <1>3 DEF CodeInv

\* Each step of the specification preserves the code invariant.
LEMMA CodeStep == ASSUME FamilyInv, CodeInv, [Next]_vars PROVE CodeInv'
<1> USE GrantsAssumptions
<1>t. TypeOK /\ TypeOK' /\ BlankRowsUnlinked /\ KnownTokensDrawn
  BY TypeStep DEF FamilyInv
<1>v. /\ tokens \in [Tokens -> TokenRow] /\ reqs \in [Requests -> Request]
      /\ codes \in [Codes -> CodeRow] /\ exchanges \in [Codes -> Nat]
      /\ replayed \in [Codes -> {"no", "raced", "clean"}]
  BY <1>t DEF TypeOK, VariablesTyped
<1>h. RequestsHoldCodes
  BY DEF CodeInv
<1>1. ASSUME NEW c \in Codes, NEW a \in Apps, NEW u \in Users, NEW sc \in SUBSET Scopes,
             IssueAuthCode(c, a, u, sc)
      PROVE  CodeInv'
  <2>1. \A d \in Codes : (d # c => codes'[d] = codes[d]) /\ (d = c => codes'[d].status = "issued")
    BY <1>1, <1>v DEF IssueAuthCode
  <2>2. codes[c].status = "unused" /\ UNCHANGED <<tokens, reqs, exchanges, replayed>>
    BY <1>1 DEF IssueAuthCode
  <2>3. \A d \in Codes : Spent(d)' <=> Spent(d)
    BY <2>1, <2>2 DEF Spent
  <2>4. RequestsHoldCodes'
    BY <1>h, <1>t, <2>1, <2>2, <2>3 DEF RequestsHoldCodes, Exchanges, TypeOK, RequestsTyped
  <2> QED BY <2>2, <2>3, <2>4, NoExchangeSafe DEF Live, Exchanges
<1>2. ASSUME NEW r \in Requests, NEW a \in Apps, NEW c \in Codes, NEW want \in SUBSET Scopes,
             RedeemAuthCode(r, a, c, want)
      PROVE  CodeInv'
  <2>1. UNCHANGED <<codes, tokens, exchanges, replayed>>
    BY <1>2 DEF RedeemAuthCode
  <2>2. /\ \A q \in Requests : q # r => reqs'[q] = reqs[q]
        /\ reqs'[r].code = c
        /\ \/ reqs'[r].pc = "revokeCode" /\ codes[c].status = "consumed"
           \/ reqs'[r].pc = "consume" /\ codes[c].status = "issued"
    <3> DEFINE q1 == [Idle EXCEPT !.pc = "revokeCode", !.app = a, !.code = c]
               q2 == [pc |-> "consume", app |-> a, user |-> codes[c].user, code |-> c, token |-> None,
                      scopes |-> codes[c].scopes, want |-> want]
    <3>1. q1.pc = "revokeCode" /\ q1.code = c /\ q2.pc = "consume" /\ q2.code = c
      BY DEF Idle
    <3>2. \/ reqs' = [reqs EXCEPT ![r] = q1] /\ codes[c].status = "consumed"
          \/ reqs' = [reqs EXCEPT ![r] = q2] /\ codes[c].status = "issued"
      BY <1>2 DEF RedeemAuthCode
    <3> HIDE DEF q1, q2
    <3> QED BY <1>v, <3>1, <3>2
  <2>3. \A q \in Requests, d \in Codes : Exchanges(q, d)' => Exchanges(q, d)
    BY <2>2 DEF Exchanges
  <2>4. RequestsHoldCodes'
    BY <1>h, <2>1, <2>2, <2>3 DEF RequestsHoldCodes, Spent
  <2> QED BY <2>1, <2>3, <2>4, NoExchangeSafe DEF Live, Spent
<1>3. ASSUME NEW r \in Requests, NEW a \in Apps, NEW t \in Tokens, NEW want \in SUBSET Scopes,
             RedeemRefreshToken(r, a, t, want)
      PROVE  CodeInv'
  <2>1. UNCHANGED <<codes, tokens, exchanges, replayed>>
    BY <1>3 DEF RedeemRefreshToken
  <2>2. /\ \A q \in Requests : q # r => reqs'[q] = reqs[q]
        /\ reqs'[r].pc \in {"revokeFamily", "rotate"}
    <3> DEFINE q1 == [Idle EXCEPT !.pc = "revokeFamily", !.app = a, !.token = t]
               q2 == [Idle EXCEPT !.pc = "rotate", !.app = a, !.user = tokens[t].user, !.token = t,
                                  !.scopes = IF want = {} THEN tokens[t].scopes ELSE want]
    <3>1. q1.pc = "revokeFamily" /\ q2.pc = "rotate"
      BY DEF Idle
    <3>2. reqs' = [reqs EXCEPT ![r] = q1] \/ reqs' = [reqs EXCEPT ![r] = q2]
      BY <1>3 DEF RedeemRefreshToken
    <3> HIDE DEF q1, q2
    <3> QED BY <1>v, <3>1, <3>2
  <2>3. \A q \in Requests, d \in Codes : Exchanges(q, d)' => Exchanges(q, d)
    BY <2>2 DEF Exchanges
  <2>4. RequestsHoldCodes'
    BY <1>h, <2>1, <2>2, <2>3 DEF RequestsHoldCodes, Spent
  <2> QED BY <2>1, <2>3, <2>4, NoExchangeSafe DEF Live, Spent
<1>4. ASSUME NEW r \in Requests, NEW a \in Apps, NEW u \in Users, NEW sc \in SUBSET Scopes,
             GrantWithoutCode(r, a, u, sc)
      PROVE  CodeInv'
  <2>1. UNCHANGED <<codes, tokens, exchanges, replayed>>
    BY <1>4 DEF GrantWithoutCode
  <2>2. /\ \A q \in Requests : q # r => reqs'[q] = reqs[q]
        /\ reqs'[r].pc = "mint" /\ reqs'[r].code = None
    BY <1>4, <1>v DEF GrantWithoutCode, Idle
  <2>3. \A q \in Requests, d \in Codes : Exchanges(q, d)' => Exchanges(q, d)
    BY <2>2 DEF Exchanges
  <2>4. RequestsHoldCodes'
    BY <1>h, <2>1, <2>2, <2>3 DEF RequestsHoldCodes, Spent
  <2> QED BY <2>1, <2>3, <2>4, NoExchangeSafe DEF Live, Spent
<1>5. ASSUME NEW r \in Requests, CheckUserAndScopes(r) \/ DeliverSuccessor(r) PROVE CodeInv'
  <2>1. UNCHANGED <<codes, tokens, exchanges, replayed>>
    BY <1>5 DEF CheckUserAndScopes, DeliverSuccessor
  <2>2. /\ \A q \in Requests : q # r => reqs'[q] = reqs[q]
        /\ \/ reqs'[r].pc = "idle"
           \/ reqs'[r].pc = "mint" /\ reqs'[r].code = reqs[r].code /\ reqs[r].pc = "user"
    <3> DEFINE q1 == [reqs[r] EXCEPT !.pc = "mint", !.want = {},
                                    !.scopes = IF reqs[r].want = {} THEN reqs[r].scopes ELSE reqs[r].want]
    <3>1. q1.pc = "mint" /\ q1.code = reqs[r].code /\ Idle.pc = "idle"
      BY <1>v DEF Idle, Request
    <3>2. \/ reqs' = [reqs EXCEPT ![r] = q1] /\ reqs[r].pc = "user"
          \/ reqs' = [reqs EXCEPT ![r] = Idle]
      BY <1>5 DEF CheckUserAndScopes, DeliverSuccessor, Finish
    <3> HIDE DEF q1
    <3> QED BY <1>v, <3>1, <3>2
  <2>3. \A q \in Requests, d \in Codes : Exchanges(q, d)' => Exchanges(q, d)
    BY <2>2 DEF Exchanges
  <2>4. RequestsHoldCodes'
    BY <1>h, <2>1, <2>2, <2>3 DEF RequestsHoldCodes, Spent
  <2> QED BY <2>1, <2>3, <2>4, NoExchangeSafe DEF Live, Spent
<1>6. ASSUME NEW r \in Requests, ConsumeAuthCode(r) PROVE CodeInv'
  <2> DEFINE c == reqs[r].code
  <2>0. c \in Codes /\ codes[c].status # "unused" /\ reqs[r].pc = "consume"
    BY <1>6, <1>t, <1>h DEF ConsumeAuthCode, TypeOK, RequestsTyped, RequestsHoldCodes
  <2>1. UNCHANGED <<tokens, exchanges, replayed>>
    BY <1>6 DEF ConsumeAuthCode
  <2>2. CASE ~ConsumeAuthCodeWins(c)
    <3>1. codes' = codes /\ reqs' = [reqs EXCEPT ![r] = Idle] /\ Idle.pc = "idle"
      BY <1>6, <2>2 DEF ConsumeAuthCode, Finish, Idle
    <3>2. \A q \in Requests : (q # r => reqs'[q] = reqs[q]) /\ (q = r => reqs'[q].pc = "idle")
      BY <1>v, <3>1
    <3>3. \A q \in Requests, d \in Codes : Exchanges(q, d)' => Exchanges(q, d)
      BY <3>2 DEF Exchanges
    <3>4. RequestsHoldCodes'
      BY <1>h, <3>1, <3>2, <3>3 DEF RequestsHoldCodes, Spent
    <3> QED BY <2>1, <3>1, <3>3, <3>4, NoExchangeSafe DEF Live, Spent
  <2>3. CASE ConsumeAuthCodeWins(c)
    <3>1. ~Spent(c)
      BY <2>3 DEF ConsumeAuthCodeWins, Spent
    <3>2. /\ codes'[c].status = "consumed"
          /\ \A d \in Codes : d # c => codes'[d] = codes[d]
      BY <1>6, <1>v, <2>0, <2>3 DEF ConsumeAuthCode, CodeRow
    <3>3. /\ \A q \in Requests : q # r => reqs'[q] = reqs[q]
          /\ reqs'[r].pc = "user" /\ reqs'[r].code = c
      BY <1>6, <1>v, <2>3 DEF ConsumeAuthCode, Request
    <3> HIDE DEF c
    <3>4. \A d \in Codes : Spent(d)' <=> (Spent(d) \/ d = c)
      BY <3>2 DEF Spent
    <3>5. \A q \in Requests, d \in Codes :
            Exchanges(q, d)' <=> (Exchanges(q, d) \/ (q = r /\ d = c))
      BY <2>0, <3>3 DEF Exchanges
    <3>6. RequestsHoldCodes'
      <4>1. \A d \in Codes : codes[d].status # "unused" => codes'[d].status # "unused"
        BY <3>2
      <4> QED BY <1>h, <1>t, <2>0, <3>3, <3>4, <3>5, <4>1 DEF RequestsHoldCodes, TypeOK, RequestsTyped
    <3>7. \A q \in Requests : ~Exchanges(q, c)
      BY <1>h, <2>0, <3>1 DEF RequestsHoldCodes
    <3>8. ExchangeIsExclusive'
      BY <2>0, <2>1, <3>1, <3>5, <3>7 DEF CodeInv, ExchangeIsExclusive, UnspentCodesUnused
    <3>9. UnspentCodesUnused' /\ CodeSingleUse'
      BY <2>1, <3>4 DEF CodeInv, UnspentCodesUnused, CodeSingleUse
    <3>10. CleanReplayHadNoExchange'
      BY <2>0, <2>1, <3>1, <3>4, <3>5 DEF CodeInv, CleanReplayHadNoExchange, Exchanging
    <3>11. OneLivePerCode' /\ ReplayedChainDead'
      BY <2>1 DEF CodeInv, OneLivePerCode, ReplayedChainDead, Live
    <3> QED BY <3>6, <3>8, <3>9, <3>10, <3>11 DEF CodeInv
  <2> QED BY <2>2, <2>3
<1>7. ASSUME NEW r \in Requests, RevokeRefreshTokensForAuthCode(r) PROVE CodeInv'
  <2> DEFINE c == reqs[r].code
  <2>0. c \in Codes /\ Spent(c) /\ reqs[r].pc = "revokeCode"
    BY <1>7, <1>t, <1>h DEF RevokeRefreshTokensForAuthCode, TypeOK, RequestsTyped, RequestsHoldCodes
  <2>1. UNCHANGED <<codes, exchanges>>
    BY <1>7 DEF RevokeRefreshTokensForAuthCode
  <2>2. /\ replayed'[c] \in {"clean", "raced"}
        /\ replayed'[c] = "clean" => replayed[c] = "clean" \/ ~Exchanging(c)
        /\ \A d \in Codes : d # c => replayed'[d] = replayed[d]
    BY <1>7, <1>v, <2>0 DEF RevokeRefreshTokensForAuthCode
  <2>3. \A q \in Requests : (q # r => reqs'[q] = reqs[q]) /\ (q = r => reqs'[q].pc = "idle")
    BY <1>7, <1>v DEF RevokeRefreshTokensForAuthCode, Finish, Idle
  <2>4. ASSUME NEW t \in Tokens
        PROVE  /\ tokens'[t].code = tokens[t].code
               /\ Live(t)' => Live(t) /\ tokens[t].code # c
    BY <1>7, <1>v DEF RevokeRefreshTokensForAuthCode, TokenRow, Live
  <2> HIDE DEF c
  <2>5. \A q \in Requests, d \in Codes : Exchanges(q, d)' => Exchanges(q, d)
    BY <2>3 DEF Exchanges
  <2>6. RequestsHoldCodes'
    BY <1>h, <2>1, <2>3, <2>5 DEF RequestsHoldCodes, Spent
  <2>7. ExchangeIsExclusive' /\ UnspentCodesUnused' /\ CodeSingleUse'
    BY <2>1, <2>4, <2>5 DEF CodeInv, ExchangeIsExclusive, UnspentCodesUnused, CodeSingleUse, Spent
  <2>8. CleanReplayHadNoExchange'
    BY <2>0, <2>1, <2>2, <2>5 DEF CodeInv, CleanReplayHadNoExchange, Exchanging, Spent
  <2>9. OneLivePerCode' /\ ReplayedChainDead'
    BY <2>2, <2>4 DEF CodeInv, OneLivePerCode, ReplayedChainDead
  <2> QED BY <2>6, <2>7, <2>8, <2>9 DEF CodeInv
<1>8. ASSUME NEW r \in Requests, BuildDelegatedResponse(r) PROVE CodeInv'
  <2> DEFINE c == reqs[r].code
  <2>0. reqs[r].pc = "mint" /\ UNCHANGED <<codes, replayed>>
    BY <1>8 DEF BuildDelegatedResponse
  <2>1. \A q \in Requests : (q # r => reqs'[q] = reqs[q]) /\ (q = r => reqs'[q].pc = "idle")
    BY <1>8, <1>v DEF BuildDelegatedResponse, Finish, Idle
  <2>2. \A d \in Codes : /\ exchanges'[d] \in {exchanges[d], exchanges[d] + 1}
                         /\ d # c => exchanges'[d] = exchanges[d]
    BY <1>8, <1>v DEF BuildDelegatedResponse
  <2>3. \E n \in Tokens \cup {None} :
          /\ \A t \in Tokens : t # n => tokens'[t] = tokens[t]
          /\ n \in Tokens => tokens'[n].code = c
    <3>1. CASE tokens' = tokens
      BY <3>1
    <3>2. CASE tokens' # tokens
      BY <1>8, <1>v, <3>2 DEF BuildDelegatedResponse
    <3> QED BY <3>1, <3>2
  <2>4. PICK n \in Tokens \cup {None} :
          /\ \A t \in Tokens : t # n => tokens'[t] = tokens[t]
          /\ n \in Tokens => tokens'[n].code = c
    BY <2>3
  <2>5. c \in Codes => Exchanges(r, c)
    BY <2>0 DEF Exchanges
  <2>6. c \in Codes \/ c = None
    BY <1>v DEF Request
  <2> HIDE DEF c
  <2>7. \A q \in Requests, d \in Codes : Exchanges(q, d)' => Exchanges(q, d) /\ q # r
    BY <2>1 DEF Exchanges
  <2>8. c \in Codes =>
          /\ exchanges[c] = 0 /\ Spent(c) /\ replayed[c] # "clean"
          /\ \A t \in Tokens : tokens[t].code # c
          /\ \A q \in Requests : Exchanges(q, c) => q = r
    BY <2>5 DEF CodeInv, ExchangeIsExclusive, RequestsHoldCodes, CleanReplayHadNoExchange, Exchanging
  <2>9. RequestsHoldCodes'
    BY <1>h, <2>0, <2>1, <2>7 DEF RequestsHoldCodes, Spent
  <2>10. ExchangeIsExclusive'
    <3> SUFFICES ASSUME NEW d \in Codes, NEW q \in Requests, Exchanges(q, d)'
                 PROVE  /\ exchanges'[d] = 0
                        /\ \A t \in Tokens : tokens'[t].code # d
                        /\ \A p \in Requests : Exchanges(p, d)' => p = q
      BY DEF ExchangeIsExclusive
    <3>1. Exchanges(q, d) /\ d # c
      <4>1. Exchanges(q, d) /\ q # r
        BY <2>7
      <4>2. d # c
        BY <2>8, <4>1
      <4> QED BY <4>1, <4>2
    <3>2. /\ exchanges[d] = 0
          /\ \A t \in Tokens : tokens[t].code # d
          /\ \A p \in Requests : Exchanges(p, d) => p = q
      BY <3>1 DEF CodeInv, ExchangeIsExclusive
    <3> QED BY <2>2, <2>4, <2>7, <3>1, <3>2
  <2>11. UnspentCodesUnused'
    BY <2>0, <2>2, <2>4, <2>8 DEF CodeInv, UnspentCodesUnused, Spent
  <2>12. CodeSingleUse'
    BY <1>v, <2>2, <2>8 DEF CodeInv, CodeSingleUse
  <2>13. CleanReplayHadNoExchange'
    BY <2>0, <2>7 DEF CodeInv, CleanReplayHadNoExchange, Exchanging, Spent
  <2>14. OneLivePerCode'
    BY <2>4, <2>6, <2>8 DEF CodeInv, OneLivePerCode, Live
  <2>15. ReplayedChainDead'
    BY <2>0, <2>4, <2>6, <2>8 DEF CodeInv, ReplayedChainDead, Live
  <2> QED BY <2>9, <2>10, <2>11, <2>12, <2>13, <2>14, <2>15 DEF CodeInv
<1>9. ASSUME NEW r \in Requests, RotateRefreshToken(r) PROVE CodeInv'
  <2> DEFINE old == reqs[r].token
  <2>0. old \in Tokens /\ UNCHANGED <<codes, exchanges, replayed>>
    BY <1>9, <1>t DEF RotateRefreshToken, TypeOK, RequestsTyped
  <2>1. \A q \in Requests :
          (q # r => reqs'[q] = reqs[q]) /\ (q = r => reqs'[q].pc \in {"refreshUser", "revokeFamily"})
    <3> DEFINE q1(new) == [reqs[r] EXCEPT !.pc = "refreshUser", !.token = new]
               q2 == [reqs[r] EXCEPT !.pc = "revokeFamily"]
    <3>1. q2.pc = "revokeFamily" /\ \A new \in Tokens : q1(new).pc = "refreshUser"
      BY <1>v DEF Request
    <3>2. \/ \E new \in Tokens : reqs' = [reqs EXCEPT ![r] = q1(new)]
          \/ reqs' = [reqs EXCEPT ![r] = q2]
      <4>1. CASE RotateWins(old)
        BY <1>9, <4>1 DEF RotateRefreshToken
      <4>2. CASE ~RotateWins(old)
        BY <1>9, <4>2 DEF RotateRefreshToken
      <4> QED BY <4>1, <4>2
    <3> HIDE DEF q1, q2
    <3> QED BY <1>v, <3>1, <3>2
  <2>2. \A q \in Requests, d \in Codes : Exchanges(q, d)' => Exchanges(q, d)
    BY <2>1 DEF Exchanges
  <2>3. RequestsHoldCodes'
    BY <1>h, <2>0, <2>1, <2>2 DEF RequestsHoldCodes, Spent
  <2>4. CASE ~RotateWins(old)
    <3>1. tokens' = tokens
      BY <1>9, <2>4 DEF RotateRefreshToken
    <3> QED BY <2>0, <2>2, <2>3, <3>1, NoExchangeSafe DEF Live, Spent
  <2>5. CASE RotateWins(old)
    <3>1. PICK new \in Tokens :
            /\ tokens[new].status = "unused"
            /\ tokens' = [tokens EXCEPT ![old] = [@ EXCEPT !.status = "revoked"],
                                        ![new] = [Successor(old) EXCEPT !.status = "live"]]
      BY <1>9, <2>5 DEF RotateRefreshToken
    <3>2. old # new /\ Live(old)
      BY <2>5, <3>1 DEF RotateWins, Live
    <3>3. /\ \A x \in Tokens : (x # old /\ x # new) => tokens'[x] = tokens[x]
          /\ tokens'[old] = [tokens[old] EXCEPT !.status = "revoked"]
          /\ tokens'[new] = [Successor(old) EXCEPT !.status = "live"]
      BY <1>v, <2>0, <3>1, <3>2
    <3>4. /\ tokens'[old].status = "revoked" /\ tokens'[old].code = tokens[old].code
          /\ tokens'[new].code = tokens[old].code
      BY <1>v, <2>0, <3>3 DEF TokenRow, Successor
    <3>5. \A x \in Tokens : (x # old /\ x # new) => tokens'[x] = tokens[x]
      BY <3>3
    <3> HIDE DEF old
    <3>6. ExchangeIsExclusive'
      BY <2>0, <2>2, <3>4, <3>5 DEF CodeInv, ExchangeIsExclusive
    <3>7. UnspentCodesUnused' /\ CodeSingleUse'
      BY <2>0, <3>4, <3>5 DEF CodeInv, UnspentCodesUnused, CodeSingleUse, Spent
    <3>8. CleanReplayHadNoExchange'
      BY <2>0, <2>2 DEF CodeInv, CleanReplayHadNoExchange, Exchanging, Spent
    <3>9. \A x \in Tokens : (Live(x)' /\ x # new) => Live(x) /\ x # old /\ tokens'[x].code = tokens[x].code
      BY <3>4, <3>5 DEF Live
    <3>10. OneLivePerCode'
      BY <2>0, <3>2, <3>4, <3>9 DEF CodeInv, OneLivePerCode
    <3>11. ReplayedChainDead'
      BY <2>0, <3>2, <3>4, <3>9 DEF CodeInv, ReplayedChainDead
    <3> QED BY <2>3, <3>6, <3>7, <3>8, <3>10, <3>11 DEF CodeInv
  <2> QED BY <2>4, <2>5
<1>10. ASSUME NEW r \in Requests, RevokeRefreshTokenFamily(r) PROVE CodeInv'
  <2>1. UNCHANGED <<codes, exchanges, replayed>>
    BY <1>10 DEF RevokeRefreshTokenFamily
  <2>2. \A q \in Requests : (q # r => reqs'[q] = reqs[q]) /\ (q = r => reqs'[q].pc = "idle")
    BY <1>10, <1>v DEF RevokeRefreshTokenFamily, Finish, Idle
  <2>3. ASSUME NEW t \in Tokens
        PROVE  tokens'[t].code = tokens[t].code /\ (Live(t)' => Live(t))
    BY <1>10, <1>v DEF RevokeRefreshTokenFamily, TokenRow, Live, TokenExists
  <2>4. \A q \in Requests, d \in Codes : Exchanges(q, d)' => Exchanges(q, d)
    BY <2>2 DEF Exchanges
  <2>5. RequestsHoldCodes'
    BY <1>h, <2>1, <2>2, <2>4 DEF RequestsHoldCodes, Spent
  <2> QED BY <2>1, <2>3, <2>4, <2>5, NoExchangeSafe DEF Spent
<1>11. ASSUME Directory PROVE CodeInv'
  <2>1. UNCHANGED <<reqs, exchanges, replayed>>
    BY <1>11 DEF Directory, DeleteUser, SetAccountEnabled, RestoreUser, DeleteApp, RestoreApp
  <2>2. ASSUME NEW t \in Tokens
        PROVE  tokens'[t] = tokens[t] \/ (tokens'[t].status = "deleted" /\ tokens'[t].code = None)
    BY <1>11, <1>v DEF Directory, DeleteUser, SetAccountEnabled, RestoreUser, DeleteApp, RestoreApp,
                       ClearGrants, BlankToken
  <2>3. ASSUME NEW c \in Codes
        PROVE  codes'[c] = codes[c]
               \/ (codes'[c].status = "deleted" /\ codes[c].status \in {"issued", "consumed"})
    BY <1>11, <1>v DEF Directory, DeleteUser, SetAccountEnabled, RestoreUser, DeleteApp, RestoreApp,
                       ClearGrants, BlankCode, CodeExists
  <2>4. RequestsHoldCodes'
    BY <1>h, <1>t, <2>1, <2>3 DEF RequestsHoldCodes, Spent, Exchanges, TypeOK, RequestsTyped
  <2> QED BY <2>1, <2>2, <2>3, <2>4, NoExchangeSafe DEF Live, Spent, Exchanges
<1>12. ASSUME NEW n \in 0..MaxNow, SetClock(n) \/ UNCHANGED vars PROVE CodeInv'
  <2>1. UNCHANGED <<codes, tokens, reqs, exchanges, replayed>>
    BY <1>12 DEF SetClock, vars
  <2> QED BY <1>h, <2>1, NoExchangeSafe DEF Live, Spent, Exchanges, RequestsHoldCodes
<1>13. ASSUME Restart PROVE CodeInv'
  <2>1. UNCHANGED <<codes, tokens, exchanges, replayed>> /\ \A q \in Requests : reqs'[q].pc = "idle"
    BY <1>13 DEF Restart, Idle
  <2> QED BY <2>1, NoExchangeSafe DEF Live, Spent, Exchanges, RequestsHoldCodes
<1>14. 0 \in 0..MaxNow
  OBVIOUS
<1> QED
  BY <1>1, <1>2, <1>3, <1>4, <1>5, <1>6, <1>7, <1>8, <1>9, <1>10, <1>11, <1>12, <1>13, <1>14
     DEF Next, Step

\* In every reachable state the code invariant holds.
LEMMA CodeInvariant == Spec => []CodeInv
<1>1. FamilyInv /\ CodeInv /\ [Next]_vars => CodeInv'
  BY CodeStep
<1> QED BY <1>1, CodeInit, FamilyInvariant, PTL DEF Spec

\* An authorization code is exchanged at most once.
THEOREM CodeSingleUseHolds == Spec => []CodeSingleUse
<1>1. CodeInv => CodeSingleUse
  BY DEF CodeInv
<1> QED BY <1>1, CodeInvariant, PTL

\* At most one usable refresh token descends from a code.
THEOREM OneLivePerCodeHolds == Spec => []OneLivePerCode
<1>1. CodeInv => OneLivePerCode
  BY DEF CodeInv
<1> QED BY <1>1, CodeInvariant, PTL

\* A replay after the exchange leaves no usable token of the code, ever.
THEOREM ReplayedChainDeadHolds == Spec => []ReplayedChainDead
<1>1. CodeInv => ReplayedChainDead
  BY DEF CodeInv
<1> QED BY <1>1, CodeInvariant, PTL

-----------------------------------------------------------------------------
\* Scopes within the grant

\* A step keeps scopes within the grant when codes keep their scopes, a request
\* that still works on a code is as it was, and a row's code and scopes are
\* those of a row that was there before.
LEMMA InheritedScopesSafe ==
    ASSUME ScopeInv, reqs \in [Requests -> Request],
           \A c \in Codes : CodeExists(c)' => CodeExists(c) /\ codes'[c].scopes = codes[c].scopes,
           \A r \in Requests : reqs'[r] = reqs[r] \/ reqs'[r].pc \notin {"consume", "user", "mint"},
           \A t \in Tokens : TokenExists(t)' =>
              \E s \in Tokens : /\ TokenExists(s)
                                /\ tokens'[t].code = tokens[s].code
                                /\ tokens'[t].scopes = tokens[s].scopes
    PROVE  ScopeInv'
<1>1. RequestsWithinGrant'
  BY DEF ScopeInv, RequestsWithinGrant
<1>2. ScopesWithinGrant'
  BY DEF ScopeInv, ScopesWithinGrant
<1> QED BY <1>1, <1>2 DEF ScopeInv

\* Each step keeps what requests and tokens carry within the grant.
LEMMA ScopeStep ==
    ASSUME FamilyInv, CodeInv, ScopeInv, [Next]_vars PROVE ScopeInv'
<1> USE GrantsAssumptions
<1>t. TypeOK /\ BlankRowsUnlinked
  BY DEF FamilyInv
<1>v. /\ tokens \in [Tokens -> TokenRow] /\ reqs \in [Requests -> Request]
      /\ codes \in [Codes -> CodeRow]
  BY <1>t DEF TypeOK, VariablesTyped
<1>h. RequestsHoldCodes /\ UnspentCodesUnused
  BY DEF CodeInv
<1>g. RequestsWithinGrant /\ ScopesWithinGrant
  BY DEF ScopeInv
<1>1. ASSUME NEW c \in Codes, NEW a \in Apps, NEW u \in Users, NEW sc \in SUBSET Scopes,
             IssueAuthCode(c, a, u, sc)
      PROVE  ScopeInv'
  <2>1. \A d \in Codes : d # c => codes'[d] = codes[d]
    BY <1>1, <1>v DEF IssueAuthCode
  <2>2. codes[c].status = "unused" /\ UNCHANGED <<tokens, reqs>>
    BY <1>1 DEF IssueAuthCode
  <2>3. \A t \in Tokens : tokens[t].code # c
    BY <1>h, <2>2 DEF UnspentCodesUnused, Spent
  <2>4. \A r \in Requests : reqs[r].pc \in {"consume", "user", "mint"} => reqs[r].code # c
    BY <1>h, <2>2 DEF RequestsHoldCodes, Spent, Exchanges
  <2>5. RequestsWithinGrant'
    BY <1>g, <2>1, <2>2, <2>4 DEF RequestsWithinGrant, CodeExists
  <2>6. ScopesWithinGrant'
    BY <1>g, <2>1, <2>2, <2>3 DEF ScopesWithinGrant, CodeExists, TokenExists
  <2> QED BY <2>5, <2>6 DEF ScopeInv
<1>2. ASSUME NEW r \in Requests, NEW a \in Apps, NEW c \in Codes, NEW want \in SUBSET Scopes,
             RedeemAuthCode(r, a, c, want)
      PROVE  ScopeInv'
  <2>1. UNCHANGED <<codes, tokens>>
    BY <1>2 DEF RedeemAuthCode
  <2>2. /\ \A q \in Requests : q # r => reqs'[q] = reqs[q]
        /\ \/ reqs'[r].pc = "revokeCode"
           \/ /\ reqs'[r].pc = "consume" /\ reqs'[r].code = c
              /\ reqs'[r].scopes = codes[c].scopes
    <3> DEFINE q1 == [Idle EXCEPT !.pc = "revokeCode", !.app = a, !.code = c]
               q2 == [pc |-> "consume", app |-> a, user |-> codes[c].user, code |-> c, token |-> None,
                      scopes |-> codes[c].scopes, want |-> want]
    <3>1. /\ q1.pc = "revokeCode"
          /\ q2.pc = "consume" /\ q2.code = c /\ q2.scopes = codes[c].scopes
      BY DEF Idle
    <3>2. reqs' = [reqs EXCEPT ![r] = q1] \/ reqs' = [reqs EXCEPT ![r] = q2]
      BY <1>2 DEF RedeemAuthCode
    <3> HIDE DEF q1, q2
    <3> QED BY <1>v, <3>1, <3>2
  <2>3. RequestsWithinGrant'
    BY <1>g, <2>1, <2>2 DEF RequestsWithinGrant, CodeExists
  <2>4. ScopesWithinGrant'
    BY <1>g, <2>1 DEF ScopesWithinGrant, CodeExists, TokenExists
  <2> QED BY <2>3, <2>4 DEF ScopeInv
<1>3. ASSUME NEW r \in Requests, NEW a \in Apps, NEW t \in Tokens, NEW want \in SUBSET Scopes,
             RedeemRefreshToken(r, a, t, want)
      PROVE  ScopeInv'
  <2>1. UNCHANGED <<codes, tokens>>
    BY <1>3 DEF RedeemRefreshToken
  <2>2. \A q \in Requests : reqs'[q] = reqs[q] \/ reqs'[q].pc \in {"revokeFamily", "rotate"}
    <3> DEFINE q1 == [Idle EXCEPT !.pc = "revokeFamily", !.app = a, !.token = t]
               q2 == [Idle EXCEPT !.pc = "rotate", !.app = a, !.user = tokens[t].user, !.token = t,
                                  !.scopes = IF want = {} THEN tokens[t].scopes ELSE want]
    <3>1. q1.pc = "revokeFamily" /\ q2.pc = "rotate"
      BY DEF Idle
    <3>2. reqs' = [reqs EXCEPT ![r] = q1] \/ reqs' = [reqs EXCEPT ![r] = q2]
      BY <1>3 DEF RedeemRefreshToken
    <3> HIDE DEF q1, q2
    <3> QED BY <1>v, <3>1, <3>2
  <2> QED BY <1>v, <2>1, <2>2, InheritedScopesSafe DEF CodeExists, TokenExists
<1>4. ASSUME NEW r \in Requests, NEW a \in Apps, NEW u \in Users, NEW sc \in SUBSET Scopes,
             GrantWithoutCode(r, a, u, sc)
      PROVE  ScopeInv'
  <2>1. UNCHANGED <<codes, tokens>>
    BY <1>4 DEF GrantWithoutCode
  <2>2. /\ \A q \in Requests : q # r => reqs'[q] = reqs[q]
        /\ reqs'[r].code = None
    BY <1>4, <1>v DEF GrantWithoutCode, Idle
  <2>3. RequestsWithinGrant'
    BY <1>g, <2>1, <2>2 DEF RequestsWithinGrant, CodeExists
  <2>4. ScopesWithinGrant'
    BY <1>g, <2>1 DEF ScopesWithinGrant, CodeExists, TokenExists
  <2> QED BY <2>3, <2>4 DEF ScopeInv
<1>5. ASSUME NEW r \in Requests, CheckUserAndScopes(r) PROVE ScopeInv'
  <2>1. UNCHANGED <<codes, tokens>>
    BY <1>5 DEF CheckUserAndScopes
  <2>2. /\ \A q \in Requests : q # r => reqs'[q] = reqs[q]
        /\ \/ reqs'[r].pc = "idle"
           \/ /\ reqs'[r].pc = "mint" /\ reqs'[r].code = reqs[r].code /\ reqs[r].pc = "user"
              /\ reqs'[r].scopes \in {reqs[r].scopes, reqs[r].want}
              /\ reqs[r].want \ OidcScopes \subseteq reqs[r].scopes
    <3> DEFINE q1 == [reqs[r] EXCEPT !.pc = "mint", !.want = {},
                                    !.scopes = IF reqs[r].want = {} THEN reqs[r].scopes ELSE reqs[r].want]
    <3>1. /\ q1.pc = "mint" /\ q1.code = reqs[r].code /\ Idle.pc = "idle"
          /\ q1.scopes \in {reqs[r].scopes, reqs[r].want}
      BY <1>v DEF Idle, Request
    <3>2. \/ /\ reqs' = [reqs EXCEPT ![r] = q1] /\ reqs[r].pc = "user"
             /\ reqs[r].want \ OidcScopes \subseteq reqs[r].scopes
          \/ reqs' = [reqs EXCEPT ![r] = Idle]
      BY <1>5 DEF CheckUserAndScopes, Finish, NarrowingAllowed
    <3> HIDE DEF q1
    <3> QED BY <1>v, <3>1, <3>2
  <2>3. RequestsWithinGrant'
    BY <1>g, <2>1, <2>2 DEF RequestsWithinGrant, CodeExists
  <2>4. ScopesWithinGrant'
    BY <1>g, <2>1 DEF ScopesWithinGrant, CodeExists, TokenExists
  <2> QED BY <2>3, <2>4 DEF ScopeInv
<1>6. ASSUME NEW r \in Requests, ConsumeAuthCode(r) PROVE ScopeInv'
  <2>0. reqs[r].code \in Codes /\ reqs[r].pc = "consume" /\ UNCHANGED tokens
    BY <1>6, <1>t DEF ConsumeAuthCode, TypeOK, RequestsTyped
  <2>1. \A c \in Codes : codes'[c].scopes = codes[c].scopes /\ (CodeExists(c)' => CodeExists(c))
    BY <1>6, <1>v, <2>0 DEF ConsumeAuthCode, ConsumeAuthCodeWins, CodeExists, CodeRow
  <2>2. /\ \A q \in Requests : q # r => reqs'[q] = reqs[q]
        /\ \/ reqs'[r].pc = "idle"
           \/ /\ reqs'[r].pc = "user" /\ reqs'[r].code = reqs[r].code
              /\ reqs'[r].scopes = reqs[r].scopes
    BY <1>6, <1>v DEF ConsumeAuthCode, Finish, Idle, Request
  <2>3. RequestsWithinGrant'
    BY <1>g, <2>0, <2>1, <2>2 DEF RequestsWithinGrant
  <2>4. ScopesWithinGrant'
    BY <1>g, <2>0, <2>1 DEF ScopesWithinGrant, TokenExists
  <2> QED BY <2>3, <2>4 DEF ScopeInv
<1>7. ASSUME NEW r \in Requests, BuildDelegatedResponse(r) PROVE ScopeInv'
  <2>0. reqs[r].pc = "mint" /\ UNCHANGED codes
    BY <1>7 DEF BuildDelegatedResponse
  <2>1. \A q \in Requests : (q # r => reqs'[q] = reqs[q]) /\ (q = r => reqs'[q].pc = "idle")
    BY <1>7, <1>v DEF BuildDelegatedResponse, Finish, Idle
  <2>2. \A t \in Tokens :
          \/ tokens'[t] = tokens[t]
          \/ tokens'[t].code = reqs[r].code /\ tokens'[t].scopes = reqs[r].scopes
    <3>1. CASE tokens' = tokens
      BY <3>1
    <3>2. CASE tokens' # tokens
      BY <1>7, <1>v, <3>2 DEF BuildDelegatedResponse
    <3> QED BY <3>1, <3>2
  <2>3. RequestsWithinGrant'
    BY <1>g, <2>0, <2>1 DEF RequestsWithinGrant, CodeExists
  <2>4. ScopesWithinGrant'
    BY <1>g, <2>0, <2>2 DEF ScopesWithinGrant, RequestsWithinGrant, TokenExists, CodeExists
  <2> QED BY <2>3, <2>4 DEF ScopeInv
<1>8. ASSUME NEW r \in Requests,
             RevokeRefreshTokensForAuthCode(r) \/ RevokeRefreshTokenFamily(r) \/ DeliverSuccessor(r)
      PROVE  ScopeInv'
  <2>1. /\ UNCHANGED codes
        /\ \A q \in Requests : reqs'[q] = reqs[q] \/ reqs'[q].pc = "idle"
    BY <1>8, <1>v DEF RevokeRefreshTokensForAuthCode, RevokeRefreshTokenFamily, DeliverSuccessor,
                      Finish, Idle
  <2>2. ASSUME NEW t \in Tokens
        PROVE  /\ tokens'[t].code = tokens[t].code /\ tokens'[t].scopes = tokens[t].scopes
               /\ TokenExists(t)' => TokenExists(t)
    BY <1>8, <1>v DEF RevokeRefreshTokensForAuthCode, RevokeRefreshTokenFamily, DeliverSuccessor,
                      TokenRow, TokenExists, Live
  <2> QED BY <1>v, <2>1, <2>2, InheritedScopesSafe DEF CodeExists
<1>9. ASSUME NEW r \in Requests, RotateRefreshToken(r) PROVE ScopeInv'
  <2> DEFINE old == reqs[r].token
  <2>0. old \in Tokens /\ UNCHANGED codes
    BY <1>9, <1>t DEF RotateRefreshToken, TypeOK, RequestsTyped
  <2>1. \A q \in Requests :
          reqs'[q] = reqs[q] \/ reqs'[q].pc \in {"refreshUser", "revokeFamily"}
    <3> DEFINE q1(new) == [reqs[r] EXCEPT !.pc = "refreshUser", !.token = new]
               q2 == [reqs[r] EXCEPT !.pc = "revokeFamily"]
    <3>1. q2.pc = "revokeFamily" /\ \A new \in Tokens : q1(new).pc = "refreshUser"
      BY <1>v DEF Request
    <3>2. \/ \E new \in Tokens : reqs' = [reqs EXCEPT ![r] = q1(new)]
          \/ reqs' = [reqs EXCEPT ![r] = q2]
      <4>1. CASE RotateWins(old)
        BY <1>9, <4>1 DEF RotateRefreshToken
      <4>2. CASE ~RotateWins(old)
        BY <1>9, <4>2 DEF RotateRefreshToken
      <4> QED BY <4>1, <4>2
    <3> HIDE DEF q1, q2
    <3> QED BY <1>v, <3>1, <3>2
  <2>2. CASE ~RotateWins(old)
    <3>1. tokens' = tokens
      BY <1>9, <2>2 DEF RotateRefreshToken
    <3> QED BY <1>v, <2>0, <2>1, <3>1, InheritedScopesSafe DEF CodeExists, TokenExists
  <2>3. CASE RotateWins(old)
    <3>1. PICK new \in Tokens :
            /\ tokens[new].status = "unused"
            /\ tokens' = [tokens EXCEPT ![old] = [@ EXCEPT !.status = "revoked"],
                                        ![new] = [Successor(old) EXCEPT !.status = "live"]]
      BY <1>9, <2>3 DEF RotateRefreshToken
    <3>2. old # new /\ TokenExists(old)
      BY <2>3, <3>1 DEF RotateWins, Live, TokenExists
    <3>3. /\ \A x \in Tokens : (x # old /\ x # new) => tokens'[x] = tokens[x]
          /\ tokens'[old] = [tokens[old] EXCEPT !.status = "revoked"]
          /\ tokens'[new] = [Successor(old) EXCEPT !.status = "live"]
      BY <1>v, <2>0, <3>1, <3>2
    <3>4. /\ tokens'[old].code = tokens[old].code /\ tokens'[old].scopes = tokens[old].scopes
          /\ tokens'[new].code = tokens[old].code /\ tokens'[new].scopes = tokens[old].scopes
      BY <1>v, <2>0, <3>3 DEF TokenRow, Successor
    <3>5. \A x \in Tokens : (x # old /\ x # new) => tokens'[x] = tokens[x]
      BY <3>3
    <3> HIDE DEF old
    <3>6. ASSUME NEW x \in Tokens, TokenExists(x)'
          PROVE  \E s \in Tokens : /\ TokenExists(s)
                                   /\ tokens'[x].code = tokens[s].code
                                   /\ tokens'[x].scopes = tokens[s].scopes
      <4>1. CASE x = old \/ x = new
        BY <2>0, <3>2, <3>4, <4>1
      <4>2. CASE x # old /\ x # new
        BY <3>5, <3>6, <4>2 DEF TokenExists
      <4> QED BY <4>1, <4>2
    <3> QED BY <1>v, <2>0, <2>1, <3>6, InheritedScopesSafe DEF CodeExists
  <2> QED BY <2>2, <2>3
<1>10. ASSUME Directory PROVE ScopeInv'
  <2>1. UNCHANGED reqs
    BY <1>10 DEF Directory, DeleteUser, SetAccountEnabled, RestoreUser, DeleteApp, RestoreApp
  <2>2. \A t \in Tokens : tokens'[t] = tokens[t] \/ tokens'[t].status = "deleted"
    BY <1>10, <1>v DEF Directory, DeleteUser, SetAccountEnabled, RestoreUser, DeleteApp, RestoreApp,
                       ClearGrants, BlankToken
  <2>3. \A c \in Codes : codes'[c] = codes[c] \/ codes'[c].status = "deleted"
    BY <1>10, <1>v DEF Directory, DeleteUser, SetAccountEnabled, RestoreUser, DeleteApp, RestoreApp,
                       ClearGrants, BlankCode
  <2> QED BY <1>v, <2>1, <2>2, <2>3, InheritedScopesSafe DEF CodeExists, TokenExists
<1>11. ASSUME NEW n \in 0..MaxNow, SetClock(n) \/ UNCHANGED vars PROVE ScopeInv'
  <2>1. UNCHANGED <<codes, tokens, reqs>>
    BY <1>11 DEF SetClock, vars
  <2> QED BY <1>v, <2>1, InheritedScopesSafe DEF CodeExists, TokenExists
<1>12. ASSUME Restart PROVE ScopeInv'
  <2>1. UNCHANGED <<codes, tokens>> /\ \A q \in Requests : reqs'[q].pc = "idle"
    BY <1>12 DEF Restart, Idle
  <2> QED BY <1>v, <2>1, InheritedScopesSafe DEF CodeExists, TokenExists
<1>13. 0 \in 0..MaxNow
  OBVIOUS
<1> QED
  BY <1>1, <1>2, <1>3, <1>4, <1>5, <1>6, <1>7, <1>8, <1>9, <1>10, <1>11, <1>12, <1>13 DEF Next, Step

\* A refresh token never carries a resource scope its code did not grant, through
\* the narrowing of the exchange and any number of rotations.
THEOREM ScopesWithinGrantHolds == Spec => []ScopesWithinGrant
<1>1. Init => ScopeInv
  BY DEF Init, ScopeInv, RequestsWithinGrant, ScopesWithinGrant, CodeExists, BlankCode
<1>2. FamilyInv /\ CodeInv /\ ScopeInv /\ [Next]_vars => ScopeInv'
  BY ScopeStep
<1>3. ScopeInv => ScopesWithinGrant
  BY DEF ScopeInv
<1> QED BY <1>1, <1>2, <1>3, FamilyInvariant, CodeInvariant, PTL DEF Spec
=============================================================================
