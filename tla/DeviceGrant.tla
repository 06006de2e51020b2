---------------------------- MODULE DeviceGrant -----------------------------
(***************************************************************************)
(* What the device authorization grant promises about one device code,     *)
(* whatever polls, browsers and administrators do at the same time: it is  *)
(* decided at most once, a denial is never turned into tokens, at most one *)
(* token response is built, and that response is for the user who approved *)
(* the request.  DeviceCode is shown to implement this.                    *)
(***************************************************************************)
EXTENDS Naturals

CONSTANTS Devices, Users, None

VARIABLES
    phase,      \* where the code is in its life
    owner,      \* who approved it
    responses,  \* token responses built from it
    subject     \* the user those responses are about

grantVars == <<phase, owner, responses, subject>>

Phases == {"none", "pending", "approved", "denied", "redeemed", "closed"}

Init ==
    /\ phase = [d \in Devices |-> "none"]
    /\ owner = [d \in Devices |-> None]
    /\ responses = [d \in Devices |-> 0]
    /\ subject = [d \in Devices |-> None]

\* The device starts the flow.
Offer(d) ==
    /\ phase[d] = "none"
    /\ phase' = [phase EXCEPT ![d] = "pending"]
    /\ UNCHANGED <<owner, responses, subject>>

\* A signed-in user answers; only a pending request can be answered.
Approve(d, u) ==
    /\ phase[d] = "pending"
    /\ phase' = [phase EXCEPT ![d] = "approved"]
    /\ owner' = [owner EXCEPT ![d] = u]
    /\ UNCHANGED <<responses, subject>>

Deny(d) ==
    /\ phase[d] = "pending"
    /\ phase' = [phase EXCEPT ![d] = "denied"]
    /\ UNCHANGED <<owner, responses, subject>>

\* The approving account is deleted: its approvals lose their owner, and an
\* approval without one is worth nothing.
Orphan(S) ==
    /\ \A d \in S : phase[d] = "approved"
    /\ owner' = [d \in Devices |-> IF d \in S THEN None ELSE owner[d]]
    /\ UNCHANGED <<phase, responses, subject>>

\* A poll takes the approval; nobody else can.
Redeem(d) ==
    /\ phase[d] = "approved"
    /\ phase' = [phase EXCEPT ![d] = "redeemed"]
    /\ UNCHANGED <<owner, responses, subject>>

\* The response for the owner, once per redemption.
Respond(d) ==
    /\ phase[d] = "redeemed"
    /\ owner[d] # None
    /\ responses[d] = 0
    /\ responses' = [responses EXCEPT ![d] = 1]
    /\ subject' = [subject EXCEPT ![d] = owner[d]]
    /\ UNCHANGED <<phase, owner>>

\* Expiry, a delivered denial or the deletion of the client end the flow; a
\* deletion may end several at once.
Close(S) ==
    /\ \A d \in S : phase[d] \in {"pending", "approved", "denied"}
    /\ phase' = [d \in Devices |-> IF d \in S THEN "closed" ELSE phase[d]]
    /\ owner' = [d \in Devices |-> IF d \in S THEN None ELSE owner[d]]
    /\ UNCHANGED <<responses, subject>>

Next ==
    \/ \E d \in Devices : Offer(d) \/ Deny(d) \/ Redeem(d) \/ Respond(d)
    \/ \E d \in Devices, u \in Users : Approve(d, u)
    \/ \E S \in SUBSET Devices : Orphan(S) \/ Close(S)

Spec == Init /\ [][Next]_grantVars
=============================================================================
