----------------------------- MODULE KeysProofs -----------------------------
(***************************************************************************)
(* Proofs about the components that keep keys.  SigningKeys: retired keys  *)
(* are published as promised, signed tokens verify and the signer in       *)
(* memory agrees with the table.  Accounts and Passkeys: updates, member   *)
(* lists, externalIds and counters go wrong only where requests overlap.   *)
(* Certificates: a listening server has a matching pair, and undisturbed   *)
(* clients see one certificate for ever.                                   *)
(***************************************************************************)
EXTENDS SigningKeys, Passkeys, Certificates, FiniteSetTheorems, TLAPS

-----------------------------------------------------------------------------
\* What the steps do, row by row and process by process

\* The rows and processes that steps write are well typed.
LEMMA BlanksTyped ==
    /\ BlankKey \in KeyRow
    /\ Idle \in Process /\ Idle.pc = "idle" /\ Idle.caches = FALSE
    /\ \A t \in Tenants : [status |-> "active", tenant |-> t, notAfter |-> 0] \in KeyRow
    /\ \A t \in Tenants, k \in Kids \cup {None}, c \in BOOLEAN, pc \in {"ensure", "generate", "use"} :
          [pc |-> pc, tenant |-> t, kid |-> k, caches |-> c] \in Process
BY DEF BlankKey, KeyRow, Idle, Process

\* Rotate's first step.
LEMMA DemoteEffect ==
    ASSUME TypeOK, NEW p \in Rotators, rotateSigningKey(p)
    PROVE  /\ UNCHANGED <<tenants, signer, now, used>>
           /\ keys' \in [Kids -> KeyRow] /\ promised' \in [Kids -> Nat]
           /\ \A k \in Kids :
                 \/ ~Active(k, Home) /\ keys'[k] = keys[k] /\ promised'[k] = promised[k]
                 \/ /\ Active(k, Home)
                    /\ keys'[k].status = "retired" /\ keys'[k].tenant = Home
                    /\ keys'[k].notAfter = promised'[k]
           /\ procs[p].pc = "idle"
           /\ procs' \in [Procs -> Process]
           /\ \A q \in Procs : q # p => procs'[q] = procs[q]
           /\ procs'[p].pc = "generate" /\ procs'[p].tenant = Home /\ ~procs'[p].caches
           /\ faults' = faults \/ faults' = faults \cup {"overlap"}
           /\ (\E q \in Rotators : procs[q].pc # "idle") => faults' = faults \cup {"overlap"}
<1> USE SigningKeysAssumptions
<1>1. PICK grace \in Graces : grace >= 0 /\ DemoteActiveSigningKeys(p, grace)
  BY DEF rotateSigningKey
<1>2. now + grace \in Nat
  <2>1. now \in Nat
    BY DEF TypeOK
  <2>2. grace \in Int /\ grace >= 0
    BY <1>1
  <2> QED BY <2>1, <2>2
<1>3. keys \in [Kids -> KeyRow] /\ procs \in [Procs -> Process] /\ promised \in [Kids -> Nat] /\ p \in Procs
  BY DEF TypeOK, Procs
<1> DEFINE q0 == [Idle EXCEPT !.pc = "generate", !.tenant = Home]
<1>4. q0 \in Process /\ q0.pc = "generate" /\ q0.tenant = Home /\ q0.caches = FALSE
  BY DEF Idle, Process
<1>5. procs' = [procs EXCEPT ![p] = q0] /\ procs[p].pc = "idle"
  BY <1>1 DEF DemoteActiveSigningKeys
<1> HIDE DEF q0
<1>6. ASSUME NEW k \in Kids
      PROVE  [keys[k] EXCEPT !.status = "retired", !.notAfter = now + grace] \in KeyRow
  BY ZenonT(60), <1>2, <1>3 DEF KeyRow
<1>7. keys' \in [Kids -> KeyRow] /\ promised' \in [Kids -> Nat]
  BY <1>1, <1>2, <1>3, <1>6 DEF DemoteActiveSigningKeys
<1>8. ASSUME NEW k \in Kids
      PROVE  \/ ~Active(k, Home) /\ keys'[k] = keys[k] /\ promised'[k] = promised[k]
             \/ /\ Active(k, Home)
                /\ keys'[k].status = "retired" /\ keys'[k].tenant = Home
                /\ keys'[k].notAfter = promised'[k]
  <2>1. CASE ~Active(k, Home)
    BY <1>1, <2>1 DEF DemoteActiveSigningKeys, Demoted
  <2>2. CASE Active(k, Home)
    <3>1. /\ keys'[k] = [keys[k] EXCEPT !.status = "retired", !.notAfter = now + grace]
          /\ promised'[k] = now + grace
      BY <1>1, <2>2 DEF DemoteActiveSigningKeys, Demoted
    <3>2. keys[k] \in KeyRow /\ keys[k].tenant = Home
      BY <1>3, <2>2 DEF Active
    <3> QED BY <2>2, <3>1, <3>2 DEF KeyRow
  <2> QED BY <2>1, <2>2
<1>9. /\ UNCHANGED <<tenants, signer, now, used>>
      /\ faults' = faults \/ faults' = faults \cup {"overlap"}
      /\ (\E q \in Rotators : procs[q].pc # "idle") => faults' = faults \cup {"overlap"}
  BY <1>1 DEF DemoteActiveSigningKeys
<1> QED BY <1>3, <1>4, <1>5, <1>7, <1>8, <1>9

\* A key is generated and stored, or that fails.
LEMMA GenerateEffect ==
    ASSUME TypeOK, NEW p \in Procs, generateAndActivate(p)
    PROVE  /\ UNCHANGED <<tenants, signer, now, used, promised>>
           /\ procs[p].pc = "generate"
           /\ keys' \in [Kids -> KeyRow] /\ procs' \in [Procs -> Process]
           /\ \A q \in Procs : q # p => procs'[q] = procs[q]
           /\ \/ /\ keys' = keys /\ procs'[p] = Idle /\ faults' = faults \cup {"failed"}
              \/ /\ faults' = faults
                 /\ procs'[p].pc = IF p \in Rotators THEN "swap" ELSE "use"
                 /\ procs'[p].tenant = procs[p].tenant /\ procs'[p].caches = procs[p].caches
                 /\ procs'[p].kid \in Kids
                 /\ keys[procs'[p].kid].status = "unused"
                 /\ keys'[procs'[p].kid] = [status |-> "active", tenant |-> procs[p].tenant, notAfter |-> 0]
                 /\ \A k \in Kids : k # procs'[p].kid => keys'[k] = keys[k]
<1> USE SigningKeysAssumptions
<1>0. procs[p].pc = "generate" /\ UNCHANGED <<tenants, signer, now, used, promised>>
  BY DEF generateAndActivate
<1>3. /\ keys \in [Kids -> KeyRow] /\ procs \in [Procs -> Process] /\ procs[p] \in Process
      /\ procs[p].tenant \in Tenants
  BY <1>0 DEF TypeOK
<1>1. CASE keys' = keys /\ Finish(p) /\ faults' = faults \cup {"failed"}
  BY <1>0, <1>1, <1>3, BlanksTyped DEF Finish
<1>2. ASSUME NEW k \in Kids, Fresh(k), faults' = faults,
             keys' = [keys EXCEPT ![k] = [status |-> "active", tenant |-> procs[p].tenant, notAfter |-> 0]],
             procs' = [procs EXCEPT ![p] =
                         [procs[p] EXCEPT !.pc = IF p \in Rotators THEN "swap" ELSE "use", !.kid = k]]
      PROVE  /\ keys' \in [Kids -> KeyRow] /\ procs' \in [Procs -> Process]
             /\ \A q \in Procs : q # p => procs'[q] = procs[q]
             /\ procs'[p].pc = IF p \in Rotators THEN "swap" ELSE "use"
             /\ procs'[p].tenant = procs[p].tenant /\ procs'[p].caches = procs[p].caches
             /\ procs'[p].kid = k
             /\ keys[k].status = "unused"
             /\ keys'[k] = [status |-> "active", tenant |-> procs[p].tenant, notAfter |-> 0]
             /\ \A x \in Kids : x # k => keys'[x] = keys[x]
  <2> DEFINE pc == IF p \in Rotators THEN "swap" ELSE "use"
             q == [procs[p] EXCEPT !.pc = pc, !.kid = k]
             row == [status |-> "active", tenant |-> procs[p].tenant, notAfter |-> 0]
  <2>1. pc \in {"swap", "use"}
    OBVIOUS
  <2>2. /\ q \in Process /\ q.pc = pc /\ q.kid = k
        /\ q.tenant = procs[p].tenant /\ q.caches = procs[p].caches
    <3> HIDE DEF pc
    <3> QED BY <1>3, <2>1 DEF Process
  <2>3. row \in KeyRow
    BY <1>3 DEF KeyRow
  <2>4. procs' = [procs EXCEPT ![p] = q] /\ keys' = [keys EXCEPT ![k] = row]
    BY <1>2
  <2>5. keys[k].status = "unused"
    BY <1>2 DEF Fresh
  <2> HIDE DEF q, row
  <2>6. keys' \in [Kids -> KeyRow] /\ keys'[k] = row /\ \A x \in Kids : x # k => keys'[x] = keys[x]
    BY <1>3, <2>3, <2>4
  <2>7. procs' \in [Procs -> Process] /\ procs'[p] = q /\ \A x \in Procs : x # p => procs'[x] = procs[x]
    BY <1>3, <2>2, <2>4
  <2> QED BY <2>2, <2>5, <2>6, <2>7 DEF row
<1> QED
  <2>1. CASE \E k \in Kids :
                /\ Fresh(k)
                /\ keys' = [keys EXCEPT ![k] = [status |-> "active", tenant |-> procs[p].tenant, notAfter |-> 0]]
                /\ procs' = [procs EXCEPT ![p] =
                               [procs[p] EXCEPT !.pc = IF p \in Rotators THEN "swap" ELSE "use", !.kid = k]]
                /\ faults' = faults
    BY <1>0, <1>2, <2>1
  <2> QED BY <1>1, <2>1 DEF generateAndActivate

\* A look-up ends with the cached signer, finds a key or goes on to make one.
LEMMA EnsureEffect ==
    ASSUME TypeOK, NEW p \in Signers, NEW t \in Tenants, NEW c \in BOOLEAN, EnsureActiveKey(p, t, c)
    PROVE  /\ UNCHANGED <<tenants, keys, signer, now, used, promised, faults>>
           /\ procs' \in [Procs -> Process]
           /\ \A q \in Procs : q # p => procs'[q] = procs[q]
           /\ procs'[p].pc \in {"idle", "generate", "use"}
           /\ procs'[p].pc # "idle" => procs'[p].tenant = t
           /\ procs'[p].pc = "use" => procs'[p].kid \in Kids /\ Active(procs'[p].kid, t)
           /\ (procs'[p].pc # "idle" /\ procs'[p].caches) => signer[t] = None
<1> USE SigningKeysAssumptions
<1>1. procs \in [Procs -> Process] /\ p \in Procs
  BY DEF TypeOK, Procs
<1>2. UNCHANGED <<tenants, keys, signer, now, used, promised, faults>>
  BY DEF EnsureActiveKey
<1>3. CASE procs' = [procs EXCEPT ![p] = Idle]
  BY <1>1, <1>2, <1>3, BlanksTyped
<1>4. ASSUME NEW k \in GetActiveSigningKey(t), c => signer[t] = None,
             procs' = [procs EXCEPT ![p] = [pc |-> "use", tenant |-> t, kid |-> k, caches |-> c]]
      PROVE  /\ procs' \in [Procs -> Process]
             /\ \A q \in Procs : q # p => procs'[q] = procs[q]
             /\ procs'[p].pc = "use" /\ procs'[p].tenant = t
             /\ procs'[p].kid \in Kids /\ Active(procs'[p].kid, t)
             /\ procs'[p].caches => signer[t] = None
  <2> DEFINE q == [pc |-> "use", tenant |-> t, kid |-> k, caches |-> c]
  <2>1. k \in Kids /\ Active(k, t)
    BY <1>4 DEF GetActiveSigningKey
  <2>2. q \in Process /\ q.pc = "use" /\ q.tenant = t /\ q.kid = k /\ q.caches = c
    BY <2>1 DEF Process
  <2> HIDE DEF q
  <2>3. procs' \in [Procs -> Process] /\ procs'[p] = q /\ \A x \in Procs : x # p => procs'[x] = procs[x]
    BY <1>1, <1>4, <2>2 DEF q
  <2> QED BY <1>4, <2>1, <2>2, <2>3
<1>5. ASSUME c => signer[t] = None,
             procs' = [procs EXCEPT ![p] = [pc |-> "generate", tenant |-> t, kid |-> None, caches |-> c]]
      PROVE  /\ procs' \in [Procs -> Process]
             /\ \A q \in Procs : q # p => procs'[q] = procs[q]
             /\ procs'[p].pc = "generate" /\ procs'[p].tenant = t
             /\ procs'[p].caches => signer[t] = None
  <2> DEFINE q == [pc |-> "generate", tenant |-> t, kid |-> None, caches |-> c]
  <2>1. q \in Process /\ q.pc = "generate" /\ q.tenant = t /\ q.caches = c
    BY DEF Process
  <2> HIDE DEF q
  <2>2. procs' \in [Procs -> Process] /\ procs'[p] = q /\ \A x \in Procs : x # p => procs'[x] = procs[x]
    BY <1>1, <1>5, <2>1 DEF q
  <2> QED BY <1>5, <2>1, <2>2
<1>6. \/ procs' = [procs EXCEPT ![p] = Idle]
      \/ /\ c => signer[t] = None
         /\ \E k \in GetActiveSigningKey(t) :
               procs' = [procs EXCEPT ![p] = [pc |-> "use", tenant |-> t, kid |-> k, caches |-> c]]
      \/ /\ c => signer[t] = None
         /\ procs' = [procs EXCEPT ![p] = [pc |-> "generate", tenant |-> t, kid |-> None, caches |-> c]]
  BY DEF EnsureActiveKey, Finish
<1> QED BY <1>2, <1>3, <1>4, <1>5, <1>6

\* Deleting a tenant or resetting the keys marks stored rows deleted.
LEMMA DeleteEffect ==
    ASSUME TypeOK,
           NEW D \in SUBSET {k \in Kids : Stored(k)},
           keys' = [k \in Kids |-> IF k \in D THEN [keys[k] EXCEPT !.status = "deleted"] ELSE keys[k]]
    PROVE  /\ keys' \in [Kids -> KeyRow]
           /\ \A k \in D : keys'[k].status = "deleted" /\ keys'[k].tenant = keys[k].tenant
           /\ \A k \in Kids \ D : keys'[k] = keys[k]
<1>1. keys \in [Kids -> KeyRow]
  BY DEF TypeOK
<1>2. ASSUME NEW k \in Kids
      PROVE  /\ [keys[k] EXCEPT !.status = "deleted"] \in KeyRow
             /\ [keys[k] EXCEPT !.status = "deleted"].status = "deleted"
             /\ [keys[k] EXCEPT !.status = "deleted"].tenant = keys[k].tenant
  BY <1>1 DEF KeyRow
<1> QED BY <1>1, <1>2

\* Start-up takes an active key of the home tenant or makes one.
LEMMA RestartEffect ==
    ASSUME TypeOK, Restart
    PROVE  /\ UNCHANGED <<tenants, now, used, promised>> /\ faults' = {}
           /\ procs' \in [Procs -> Process] /\ \A p \in Procs : procs'[p] = Idle
           /\ keys' \in [Kids -> KeyRow]
           /\ \A k \in Kids : keys'[k] = keys[k] \/ (keys[k].status = "unused" /\ Active(k, Home)')
           /\ signer' \in [Tenants -> Kids \cup {None}]
           /\ \A t \in Tenants \ {Home} : signer'[t] = None
           /\ signer'[Home] \in Kids
           /\ keys'[signer'[Home]].status = "active" /\ keys'[signer'[Home]].tenant = Home
<1> USE SigningKeysAssumptions
<1>1. keys \in [Kids -> KeyRow]
  BY DEF TypeOK
<1>2. /\ UNCHANGED <<tenants, now, used, promised>> /\ faults' = {}
      /\ procs' = [p \in Procs |-> Idle]
  BY DEF Restart
<1>3. procs' \in [Procs -> Process] /\ \A p \in Procs : procs'[p] = Idle
  BY <1>2, BlanksTyped
<1> DEFINE row == [status |-> "active", tenant |-> Home, notAfter |-> 0]
<1>4. row \in KeyRow /\ row.status = "active" /\ row.tenant = Home
  BY DEF KeyRow
<1>5. PICK k \in Kids :
        /\ \/ Active(k, Home) /\ keys' = keys
           \/ keys[k].status = "unused" /\ keys' = [keys EXCEPT ![k] = row]
        /\ signer' = [t \in Tenants |-> IF t = Home THEN k ELSE None]
  BY DEF Restart, GetActiveSigningKey, Fresh
<1> HIDE DEF row
<1>6. /\ keys' \in [Kids -> KeyRow]
      /\ keys'[k].status = "active" /\ keys'[k].tenant = Home
      /\ \A x \in Kids : keys'[x] = keys[x] \/ (keys[x].status = "unused" /\ Active(x, Home)')
  BY <1>1, <1>4, <1>5 DEF Active
<1>7. /\ signer' \in [Tenants -> Kids \cup {None}]
      /\ \A t \in Tenants \ {Home} : signer'[t] = None
      /\ signer'[Home] = k
  BY <1>5
<1> QED BY <1>2, <1>3, <1>6, <1>7

\* The first boot satisfies the key invariant.
LEMMA KeyInit == Init => KeyInv
<1> SUFFICES ASSUME Init PROVE KeyInv
  OBVIOUS
<1> USE SigningKeysAssumptions, BlanksTyped
<1> DEFINE k0 == CHOOSE k \in Kids : TRUE
           row == [status |-> "active", tenant |-> Home, notAfter |-> 0]
<1>1. k0 \in Kids
  OBVIOUS
<1>2. /\ keys = [k \in Kids |-> IF k = k0 THEN row ELSE BlankKey]
      /\ signer = [t \in Tenants |-> IF t = Home THEN k0 ELSE None]
      /\ procs = [p \in Procs |-> Idle]
  BY DEF Init
<1>3. row \in KeyRow /\ row.status = "active" /\ row.tenant = Home
  BY DEF KeyRow
<1> HIDE DEF k0, row
<1>4. /\ keys \in [Kids -> KeyRow] /\ signer \in [Tenants -> Kids \cup {None}]
      /\ procs \in [Procs -> Process] /\ \A p \in Procs : procs[p].pc = "idle"
      /\ signer[Home] = k0
      /\ \A k \in Kids : keys[k] = IF k = k0 THEN row ELSE BlankKey
  BY <1>1, <1>2, <1>3
<1>5. TypeOK
  BY <1>1, <1>4 DEF Init, TypeOK
<1>6. RetiredAsPromised
  BY <1>3, <1>4 DEF RetiredAsPromised, BlankKey
<1>7. HeldKeysStored
  BY <1>2, <1>3, <1>4 DEF Init, HeldKeysStored, BlankKey
<1>8. RotatorsOwnHome /\ RotationsTakeTurns
  BY <1>4 DEF Init, RotatorsOwnHome, RotationsTakeTurns, Procs
<1>9. SignerActive
  BY <1>1, <1>3, <1>4 DEF SignerActive, Active
<1> QED BY <1>5, <1>6, <1>7, <1>8, <1>9 DEF KeyInv

\* What is held stays stored when no row becomes unused again.
LEMMA HeldKeysFrame ==
    ASSUME TypeOK, HeldKeysStored, used' = used, signer' = signer,
           \A k \in Kids :
              /\ keys[k].status # "unused" => keys'[k].status # "unused"
              /\ keys'[k].status # "unused" => keys'[k].tenant \in Tenants
              /\ keys'[k].status = "deleted" => tenants'[keys'[k].tenant] = "deleted" \/ AllowKeyReset,
           \A p \in Procs :
              \/ procs'[p] = procs[p]
              \/ procs'[p].pc \in {"swap", "use"} => keys'[procs'[p].kid].status # "unused"
    PROVE  HeldKeysStored'
<1>1. /\ used \subseteq Kids /\ \A t \in Tenants : signer[t] # None => signer[t] \in Kids
      /\ \A p \in Procs : procs[p].pc \in {"swap", "use"} => procs[p].kid \in Kids
  BY DEF TypeOK
<1>2. /\ \A k \in used' : keys'[k].status # "unused"
      /\ \A t \in Tenants : signer'[t] # None => keys'[signer'[t]].status # "unused"
  BY <1>1 DEF HeldKeysStored
<1>3. \A p \in Procs : procs'[p].pc \in {"swap", "use"} => keys'[procs'[p].kid].status # "unused"
  BY <1>1 DEF HeldKeysStored
<1> QED BY <1>2, <1>3 DEF HeldKeysStored

\* Each step of the specification keeps the key invariant.
LEMMA KeyStep == ASSUME KeyInv, [Next]_vars PROVE KeyInv'
<1> USE SigningKeysAssumptions, BlanksTyped
<1>k. /\ TypeOK /\ RetiredAsPromised /\ HeldKeysStored
      /\ RotatorsOwnHome /\ RotationsTakeTurns /\ SignerActive
  BY DEF KeyInv
<1>t. /\ tenants \in [Tenants -> {"absent", "present", "deleted"}]
      /\ keys \in [Kids -> KeyRow]
      /\ signer \in [Tenants -> Kids \cup {None}] /\ signer[Home] \in Kids
      /\ procs \in [Procs -> Process]
      /\ used \subseteq Kids
  BY <1>k DEF TypeOK
<1>p. Rotators \subseteq Procs /\ Signers \subseteq Procs
  BY DEF Procs
<1>1. ASSUME NEW p \in Rotators, rotateSigningKey(p) PROVE KeyInv'
  <2>e. /\ UNCHANGED <<tenants, signer, now, used>>
        /\ keys' \in [Kids -> KeyRow] /\ promised' \in [Kids -> Nat]
        /\ \A k \in Kids :
              \/ ~Active(k, Home) /\ keys'[k] = keys[k] /\ promised'[k] = promised[k]
              \/ /\ Active(k, Home)
                 /\ keys'[k].status = "retired" /\ keys'[k].tenant = Home
                 /\ keys'[k].notAfter = promised'[k]
        /\ procs[p].pc = "idle"
        /\ procs' \in [Procs -> Process]
        /\ \A q \in Procs : q # p => procs'[q] = procs[q]
        /\ procs'[p].pc = "generate" /\ procs'[p].tenant = Home /\ ~procs'[p].caches
        /\ faults' = faults \/ faults' = faults \cup {"overlap"}
        /\ (\E q \in Rotators : procs[q].pc # "idle") => faults' = faults \cup {"overlap"}
    BY <1>1, <1>k, DemoteEffect
  <2>1. TypeOK'
    BY <1>k, <1>p, <2>e DEF TypeOK
  <2>2. RetiredAsPromised'
    BY <1>k, <2>e DEF RetiredAsPromised
  <2>3. HeldKeysStored'
    <3>1. \A k \in Kids :
              /\ keys[k].status # "unused" => keys'[k].status # "unused"
              /\ keys'[k].status # "unused" => keys'[k].tenant \in Tenants
              /\ keys'[k].status = "deleted" => tenants'[keys'[k].tenant] = "deleted" \/ AllowKeyReset
      BY <1>k, <2>e DEF HeldKeysStored
    <3> QED BY <1>k, <2>e, <3>1, HeldKeysFrame
  <2>4. RotatorsOwnHome'
    BY <1>k, <1>p, <2>e DEF RotatorsOwnHome
  <2>5. faults' = {} => faults = {} /\ \A q \in Rotators : procs[q].pc = "idle"
    BY <2>e
  <2>6. RotationsTakeTurns' /\ SignerActive'
    BY <1>p, <2>5, <2>e DEF RotationsTakeTurns, SignerActive
  <2> QED BY <2>1, <2>2, <2>3, <2>4, <2>6 DEF KeyInv
<1>2. ASSUME NEW p \in Procs, generateAndActivate(p) PROVE KeyInv'
  <2>e. /\ UNCHANGED <<tenants, signer, now, used, promised>>
        /\ procs[p].pc = "generate"
        /\ keys' \in [Kids -> KeyRow] /\ procs' \in [Procs -> Process]
        /\ \A q \in Procs : q # p => procs'[q] = procs[q]
    BY <1>2, <1>k, GenerateEffect
  <2>1. CASE keys' = keys /\ procs'[p] = Idle /\ faults' = faults \cup {"failed"}
    <3>1. TypeOK'
      BY <1>k, <2>1, <2>e DEF TypeOK
    <3>2. RetiredAsPromised'
      BY <1>k, <2>1, <2>e DEF RetiredAsPromised
    <3>3. HeldKeysStored'
      BY <1>k, <2>1, <2>e DEF HeldKeysStored
    <3>4. RotatorsOwnHome'
      BY <1>k, <1>p, <2>1, <2>e DEF RotatorsOwnHome
    <3>5. RotationsTakeTurns' /\ SignerActive'
      BY <2>1 DEF RotationsTakeTurns, SignerActive
    <3> QED BY <3>1, <3>2, <3>3, <3>4, <3>5 DEF KeyInv
  <2>2. CASE keys' # keys \/ procs'[p] # Idle \/ faults' # faults \cup {"failed"}
    <3>1. PICK k \in Kids :
            /\ faults' = faults
            /\ procs'[p].pc = IF p \in Rotators THEN "swap" ELSE "use"
            /\ procs'[p].tenant = procs[p].tenant /\ procs'[p].caches = procs[p].caches
            /\ procs'[p].kid = k
            /\ keys[k].status = "unused"
            /\ keys'[k] = [status |-> "active", tenant |-> procs[p].tenant, notAfter |-> 0]
            /\ \A x \in Kids : x # k => keys'[x] = keys[x]
      BY <1>2, <1>k, <2>2, GenerateEffect
    <3>2. /\ keys'[k].status = "active" /\ keys'[k].tenant = procs[p].tenant
          /\ procs[p].tenant \in Tenants
      BY <1>k, <2>e, <3>1 DEF TypeOK
    <3>3. TypeOK'
      BY <1>k, <2>e, <3>1, <3>2 DEF TypeOK
    <3>4. RetiredAsPromised'
      BY <1>k, <2>e, <3>1, <3>2 DEF RetiredAsPromised
    <3>5. HeldKeysStored'
      <4>1. \A x \in Kids :
              /\ keys[x].status # "unused" => keys'[x].status # "unused"
              /\ keys'[x].status # "unused" => keys'[x].tenant \in Tenants
              /\ keys'[x].status = "deleted" => tenants'[keys'[x].tenant] = "deleted" \/ AllowKeyReset
        BY <1>k, <2>e, <3>1, <3>2 DEF HeldKeysStored
      <4>2. keys'[procs'[p].kid].status # "unused"
        BY <3>1, <3>2
      <4> QED BY <1>k, <2>e, <4>1, <4>2, HeldKeysFrame
    <3>6. RotatorsOwnHome'
      BY <1>k, <1>p, <2>e, <3>1 DEF RotatorsOwnHome
    <3>7. RotationsTakeTurns'
      <4> SUFFICES ASSUME faults' = {}
                   PROVE  /\ \A x, q \in Rotators : (procs'[x].pc # "idle" /\ procs'[q].pc # "idle") => x = q
                          /\ \A x \in Rotators : procs'[x].pc = "swap" => Active(procs[x].kid, Home)'
        BY DEF RotationsTakeTurns
      <4>1. \A x, q \in Rotators : (procs'[x].pc # "idle" /\ procs'[q].pc # "idle") => x = q
        BY <1>k, <1>p, <2>e, <3>1 DEF RotationsTakeTurns
      <4>2. ASSUME NEW x \in Rotators, procs'[x].pc = "swap" PROVE Active(procs[x].kid, Home)'
        <5>1. CASE x = p
          BY <1>k, <2>e, <3>1, <3>2, <4>2, <5>1 DEF Active, RotatorsOwnHome
        <5>2. CASE x # p
          <6>1. procs'[x] = procs[x] /\ Active(procs[x].kid, Home) /\ procs[x].kid \in Kids
            BY <1>k, <1>p, <2>e, <3>1, <4>2, <5>2 DEF RotationsTakeTurns, TypeOK
          <6>2. keys'[procs[x].kid] = keys[procs[x].kid]
            BY <3>1, <6>1 DEF Active
          <6> QED BY <6>1, <6>2 DEF Active
        <5> QED BY <5>1, <5>2
      <4> QED BY <4>1, <4>2
    <3>8. SignerActive'
      <4> SUFFICES ASSUME faults' = {}, \A q \in Rotators : procs'[q].pc = "idle"
                   PROVE  Active(signer[Home], Home)'
        BY DEF SignerActive
      <4>1. \A q \in Rotators : procs[q].pc = "idle"
        BY <1>p, <2>e, <3>1
      <4>2. Active(signer[Home], Home)
        BY <1>k, <3>1, <4>1 DEF SignerActive
      <4> QED BY <1>t, <2>e, <3>1, <4>2 DEF Active
    <3> QED BY <3>3, <3>4, <3>5, <3>6, <3>7, <3>8 DEF KeyInv
  <2> QED BY <2>1, <2>2
<1>3. ASSUME NEW p \in Procs, SwapSigner(p) PROVE KeyInv'
  <2>1. /\ procs[p].pc = "swap" /\ procs[p].kid \in Kids
        /\ signer' = [signer EXCEPT ![Home] = procs[p].kid]
        /\ procs' = [procs EXCEPT ![p] = Idle]
        /\ UNCHANGED <<tenants, keys, now, used, promised, faults>>
    BY <1>3, <1>k DEF SwapSigner, Finish, TypeOK
  <2>2. /\ procs' \in [Procs -> Process] /\ procs'[p] = Idle
        /\ \A q \in Procs : q # p => procs'[q] = procs[q]
        /\ signer' \in [Tenants -> Kids \cup {None}] /\ signer'[Home] = procs[p].kid
        /\ \A t \in Tenants : t # Home => signer'[t] = signer[t]
    BY <1>t, <2>1
  <2>3. TypeOK'
    BY <1>k, <2>1, <2>2 DEF TypeOK
  <2>4. RetiredAsPromised'
    BY <1>k, <2>1 DEF RetiredAsPromised
  <2>5. HeldKeysStored'
    BY <1>k, <2>1, <2>2 DEF HeldKeysStored
  <2>6. RotatorsOwnHome'
    BY <1>k, <1>p, <2>1, <2>2 DEF RotatorsOwnHome
  <2>7. RotationsTakeTurns'
    BY <1>k, <1>p, <2>1, <2>2 DEF RotationsTakeTurns, Active
  <2>8. SignerActive'
    <3>1. p \in Rotators
      BY <1>k, <2>1 DEF Procs, RotatorsOwnHome
    <3> QED BY <1>k, <2>1, <2>2, <3>1 DEF RotationsTakeTurns, SignerActive, Active
  <2> QED BY <2>3, <2>4, <2>5, <2>6, <2>7, <2>8 DEF KeyInv
<1>4. ASSUME NEW p \in Procs, UseKey(p) PROVE KeyInv'
  <2>1. /\ procs[p].pc = "use" /\ procs[p].kid \in Kids /\ procs[p].tenant \in Tenants
        /\ signer' = IF procs[p].caches THEN [signer EXCEPT ![procs[p].tenant] = procs[p].kid] ELSE signer
        /\ used' = used \cup {procs[p].kid}
        /\ procs' = [procs EXCEPT ![p] = Idle]
        /\ UNCHANGED <<tenants, keys, now, promised, faults>>
    BY <1>4, <1>k DEF UseKey, Finish, TypeOK
  <2>2. procs[p].caches => procs[p].tenant # Home
    BY <1>k, <2>1 DEF RotatorsOwnHome
  <2>3. /\ procs' \in [Procs -> Process] /\ procs'[p] = Idle
        /\ \A q \in Procs : q # p => procs'[q] = procs[q]
        /\ signer' \in [Tenants -> Kids \cup {None}] /\ signer'[Home] = signer[Home]
        /\ \A t \in Tenants : signer'[t] \in {signer[t], procs[p].kid}
    BY <1>t, <2>1, <2>2
  <2>4. TypeOK'
    BY <1>k, <1>t, <2>1, <2>3 DEF TypeOK
  <2>5. RetiredAsPromised'
    BY <1>k, <2>1 DEF RetiredAsPromised
  <2>6. HeldKeysStored'
    BY <1>k, <2>1, <2>3 DEF HeldKeysStored
  <2>7. RotatorsOwnHome'
    BY <1>k, <1>p, <2>1, <2>3 DEF RotatorsOwnHome
  <2>8. p \notin Rotators
    BY <1>k, <2>1 DEF RotatorsOwnHome
  <2>9. RotationsTakeTurns' /\ SignerActive'
    BY <1>k, <1>p, <2>1, <2>3, <2>8 DEF RotationsTakeTurns, SignerActive, Active
  <2> QED BY <2>4, <2>5, <2>6, <2>7, <2>9 DEF KeyInv
<1>5. ASSUME NEW p \in Signers, NEW t \in Tenants, NEW c \in BOOLEAN, EnsureActiveKey(p, t, c)
      PROVE  KeyInv'
  <2>e. /\ UNCHANGED <<tenants, keys, signer, now, used, promised, faults>>
        /\ procs' \in [Procs -> Process]
        /\ \A q \in Procs : q # p => procs'[q] = procs[q]
        /\ procs'[p].pc \in {"idle", "generate", "use"}
        /\ procs'[p].pc # "idle" => procs'[p].tenant = t
        /\ procs'[p].pc = "use" => procs'[p].kid \in Kids /\ Active(procs'[p].kid, t)
        /\ (procs'[p].pc # "idle" /\ procs'[p].caches) => signer[t] = None
    BY <1>5, <1>k, EnsureEffect
  <2>1. TypeOK'
    BY <1>k, <2>e DEF TypeOK
  <2>2. RetiredAsPromised'
    BY <1>k, <2>e DEF RetiredAsPromised
  <2>3. HeldKeysStored'
    BY <1>k, <2>e DEF HeldKeysStored, Active
  <2>4. p \notin Rotators /\ p \in Procs
    BY <1>p
  <2>5. RotatorsOwnHome'
    <3>1. (procs'[p].pc \in {"generate", "use"} /\ procs'[p].caches) => procs'[p].tenant # Home
      BY <1>t, <2>e
    <3> QED BY <1>k, <1>p, <2>4, <2>e, <3>1 DEF RotatorsOwnHome
  <2>6. RotationsTakeTurns' /\ SignerActive'
    BY <1>k, <1>p, <2>4, <2>e DEF RotationsTakeTurns, SignerActive, Active
  <2> QED BY <2>1, <2>2, <2>3, <2>5, <2>6 DEF KeyInv
<1>6. ASSUME NEW p \in Signers, NEW t \in Tenants, CreateTenant(p, t) PROVE KeyInv'
  <2> DEFINE q0 == [pc |-> "ensure", tenant |-> t, kid |-> None, caches |-> TRUE]
  <2>1. q0 \in Process /\ q0.pc = "ensure" /\ q0.tenant = t
    BY DEF Process
  <2>2. /\ tenants[t] = "absent" /\ tenants' = [tenants EXCEPT ![t] = "present"]
        /\ procs' = [procs EXCEPT ![p] = q0]
        /\ UNCHANGED <<keys, signer, now, used, promised, faults>>
    BY <1>6 DEF CreateTenant
  <2> HIDE DEF q0
  <2>3. /\ p \in Procs /\ p \notin Rotators
        /\ procs' \in [Procs -> Process] /\ procs'[p] = q0
        /\ \A q \in Procs : q # p => procs'[q] = procs[q]
    BY <1>p, <1>t, <2>1, <2>2
  <2>4. /\ tenants' \in [Tenants -> {"absent", "present", "deleted"}]
        /\ \A x \in Tenants : tenants[x] # "absent" => tenants'[x] = tenants[x]
    BY <1>t, <2>2
  <2>5. TypeOK'
    BY <1>k, <2>1, <2>2, <2>3, <2>4 DEF TypeOK
  <2>6. RetiredAsPromised'
    BY <1>k, <2>2 DEF RetiredAsPromised
  <2>7. HeldKeysStored'
    BY <1>k, <2>1, <2>2, <2>3, <2>4 DEF HeldKeysStored
  <2>8. RotatorsOwnHome'
    BY <1>k, <1>p, <2>1, <2>2, <2>3, <2>4 DEF RotatorsOwnHome
  <2>9. RotationsTakeTurns' /\ SignerActive'
    BY <1>k, <1>p, <2>2, <2>3 DEF RotationsTakeTurns, SignerActive, Active
  <2> QED BY <2>5, <2>6, <2>7, <2>8, <2>9 DEF KeyInv
<1>7. ASSUME NEW t \in Tenants, Sign(t) PROVE KeyInv'
  <2>1. /\ signer[t] \in Kids /\ used' = used \cup {signer[t]}
        /\ UNCHANGED <<tenants, keys, signer, procs, now, promised, faults>>
    BY <1>7, <1>t DEF Sign
  <2>2. TypeOK'
    BY <1>k, <1>t, <2>1 DEF TypeOK
  <2>3. HeldKeysStored'
    BY <1>k, <2>1 DEF HeldKeysStored
  <2>4. RetiredAsPromised' /\ RotatorsOwnHome' /\ RotationsTakeTurns' /\ SignerActive'
    BY <1>k, <2>1 DEF RetiredAsPromised, RotatorsOwnHome, RotationsTakeTurns, SignerActive, Active
  <2> QED BY <2>2, <2>3, <2>4 DEF KeyInv
<1>8. ASSUME NEW t \in Tenants, DeleteTenant(t) PROVE KeyInv'
  <2> DEFINE D == {k \in Kids : Stored(k) /\ keys[k].tenant = t}
  <2>1. /\ t # Home /\ tenants' = [tenants EXCEPT ![t] = "deleted"]
        /\ keys' = [k \in Kids |-> IF k \in D THEN [keys[k] EXCEPT !.status = "deleted"] ELSE keys[k]]
        /\ UNCHANGED <<signer, procs, now, used, promised, faults>>
    BY <1>8 DEF DeleteTenant
  <2>2. /\ keys' \in [Kids -> KeyRow]
        /\ \A k \in D : keys'[k].status = "deleted" /\ keys'[k].tenant = keys[k].tenant
        /\ \A k \in Kids \ D : keys'[k] = keys[k]
    <3>1. D \in SUBSET {k \in Kids : Stored(k)}
      OBVIOUS
    <3> HIDE DEF D
    <3> QED BY <1>k, <2>1, <3>1, DeleteEffect
  <2>3. \A k \in Kids : k \in D <=> (Stored(k) /\ keys[k].tenant = t)
    OBVIOUS
  <2> HIDE DEF D
  <2>4. /\ tenants' \in [Tenants -> {"absent", "present", "deleted"}] /\ tenants'[t] = "deleted"
        /\ \A x \in Tenants : x # t => tenants'[x] = tenants[x]
    BY <1>t, <2>1
  <2>5. TypeOK'
    BY <1>k, <2>1, <2>2, <2>4 DEF TypeOK
  <2>6. RetiredAsPromised'
    BY <1>k, <2>1, <2>2 DEF RetiredAsPromised
  <2>7. \A k \in Kids : /\ keys'[k].status = "unused" => keys[k].status = "unused"
                        /\ keys[k].status = "unused" => keys'[k] = keys[k]
                        /\ keys'[k].tenant = keys[k].tenant
                        /\ Active(k, Home) => keys'[k] = keys[k]
    BY <2>1, <2>2, <2>3 DEF Stored, Active
  <2>8. HeldKeysStored'
    <3>1. \A k \in Kids : keys'[k].status # "unused" => keys'[k].tenant \in Tenants
      BY <1>k, <2>7 DEF HeldKeysStored
    <3>2. \A k \in Kids : keys'[k].status = "deleted" => tenants'[keys'[k].tenant] = "deleted" \/ AllowKeyReset
      BY <1>k, <2>2, <2>3, <2>4 DEF HeldKeysStored
    <3> QED BY <1>k, <2>1, <2>7, <3>1, <3>2, HeldKeysFrame
  <2>9. RotatorsOwnHome'
    BY <1>k, <2>1, <2>4 DEF RotatorsOwnHome
  <2>10. RotationsTakeTurns' /\ SignerActive'
    <3>1. \A p \in Procs : procs[p].pc = "swap" => procs[p].kid \in Kids
      BY <1>k DEF TypeOK
    <3>2. \A k \in Kids : Active(k, Home) => Active(k, Home)'
      BY <2>7 DEF Active
    <3>3. RotationsTakeTurns'
      BY <1>k, <1>p, <2>1, <3>1, <3>2 DEF RotationsTakeTurns, Active
    <3>4. SignerActive'
      BY <1>k, <1>t, <2>1, <3>2 DEF SignerActive, Active
    <3> QED BY <3>3, <3>4
  <2> QED BY <2>5, <2>6, <2>8, <2>9, <2>10 DEF KeyInv
<1>9. ASSUME Reset PROVE KeyInv'
  <2> DEFINE D == {k \in Kids : Stored(k)}
  <2>1. /\ AllowKeyReset /\ faults' = faults \cup {"reset"}
        /\ keys' = [k \in Kids |-> IF k \in D THEN [keys[k] EXCEPT !.status = "deleted"] ELSE keys[k]]
        /\ UNCHANGED <<tenants, signer, procs, now, used, promised>>
    BY <1>9 DEF Reset
  <2>2. /\ keys' \in [Kids -> KeyRow]
        /\ \A k \in D : keys'[k].status = "deleted" /\ keys'[k].tenant = keys[k].tenant
        /\ \A k \in Kids \ D : keys'[k] = keys[k]
    BY <1>k, <2>1, DeleteEffect
  <2>3. TypeOK'
    BY <1>k, <2>1, <2>2 DEF TypeOK
  <2>4. RetiredAsPromised'
    BY <1>k, <2>1, <2>2 DEF RetiredAsPromised
  <2>5. \A k \in Kids : /\ keys'[k].status = "unused" => keys[k].status = "unused"
                        /\ keys[k].status = "unused" => keys'[k] = keys[k]
                        /\ keys'[k].tenant = keys[k].tenant
    BY <2>2 DEF Stored
  <2>6. HeldKeysStored'
    <3>1. \A k \in Kids : keys'[k].status # "unused" => keys'[k].tenant \in Tenants
      BY <1>k, <2>5 DEF HeldKeysStored
    <3> QED BY <1>k, <2>1, <2>5, <3>1, HeldKeysFrame
  <2>7. RotatorsOwnHome' /\ RotationsTakeTurns' /\ SignerActive'
    BY <1>k, <2>1 DEF RotatorsOwnHome, RotationsTakeTurns, SignerActive
  <2> QED BY <2>3, <2>4, <2>6, <2>7 DEF KeyInv
<1>10. ASSUME (\E n \in 0..MaxNow : SetClock(n)) \/ UNCHANGED vars PROVE KeyInv'
  <2>1. UNCHANGED <<tenants, keys, signer, procs, used, promised, faults>> /\ now' \in 0..MaxNow
    BY <1>10, <1>k DEF SetClock, vars, TypeOK
  <2>2. TypeOK'
    BY <1>k, <2>1 DEF TypeOK
  <2> QED BY <1>k, <2>1, <2>2 DEF KeyInv, RetiredAsPromised, HeldKeysStored, RotatorsOwnHome,
                                  RotationsTakeTurns, SignerActive, Active
<1>11. ASSUME Restart PROVE KeyInv'
  <2>e. /\ UNCHANGED <<tenants, now, used, promised>> /\ faults' = {}
        /\ procs' \in [Procs -> Process] /\ \A p \in Procs : procs'[p] = Idle
        /\ keys' \in [Kids -> KeyRow]
        /\ \A k \in Kids : keys'[k] = keys[k] \/ (keys[k].status = "unused" /\ Active(k, Home)')
        /\ signer' \in [Tenants -> Kids \cup {None}]
        /\ \A t \in Tenants \ {Home} : signer'[t] = None
        /\ signer'[Home] \in Kids
        /\ keys'[signer'[Home]].status = "active" /\ keys'[signer'[Home]].tenant = Home
    BY <1>11, <1>k, RestartEffect
  <2>1. TypeOK'
    BY <1>k, <2>e DEF TypeOK
  <2>2. RetiredAsPromised'
    BY <1>k, <2>e DEF RetiredAsPromised, Active
  <2>3. HeldKeysStored'
    BY SMTT(30), <1>k, <1>t, <2>e DEF HeldKeysStored, Active
  <2>4. RotatorsOwnHome' /\ RotationsTakeTurns' /\ SignerActive'
    BY <1>k, <1>p, <2>e DEF RotatorsOwnHome, RotationsTakeTurns, SignerActive, Active
  <2> QED BY <2>1, <2>2, <2>3, <2>4 DEF KeyInv
<1> QED
  BY <1>1, <1>2, <1>3, <1>4, <1>5, <1>6, <1>7, <1>8, <1>9, <1>10, <1>11
     DEF Next, Step, signTenant, handleJWKS

\* In every reachable state the key invariant holds.
LEMMA KeyInvariant == Spec => []KeyInv
<1>1. KeyInv /\ [Next]_vars => KeyInv'
  BY KeyStep
<1> QED BY <1>1, KeyInit, PTL DEF Spec

\* Every variable keeps its type, and the home tenant always has a signer.
THEOREM SigningKeysTyped == Spec => []TypeOK
<1>1. KeyInv => TypeOK
  BY DEF KeyInv
<1> QED BY <1>1, KeyInvariant, PTL

\* A retired key is published exactly until the end of the grace period of the
\* rotation that retired it, however many rotations overlap or follow.
THEOREM GraceHonouredHolds == Spec => []GraceHonoured
<1>1. KeyInv => GraceHonoured
  <2> SUFFICES ASSUME KeyInv, NEW k \in Kids, keys[k].status = "retired"
               PROVE  k \in JWKS(keys[k].tenant) <=> now < promised[k]
    BY DEF GraceHonoured
  <2>1. keys[k].notAfter = promised[k] /\ ~Active(k, keys[k].tenant)
    BY DEF KeyInv, RetiredAsPromised, Active
  <2>2. now \in Int /\ promised[k] \in Int
    BY SigningKeysAssumptions DEF KeyInv, TypeOK
  <2>3. k \in JWKS(keys[k].tenant) <=> keys[k].notAfter > now
    BY <2>1 DEF JWKS
  <2> QED BY <2>1, <2>2, <2>3
<1> QED BY <1>1, KeyInvariant, PTL

\* No token is signed with a key that was not stored before, and only the
\* deletion of the tenant or a key reset takes the row away again.
THEOREM SignedTokensVerifyHolds == Spec => []SignedTokensVerify
<1>1. KeyInv => SignedTokensVerify
  <2> SUFFICES ASSUME KeyInv, NEW k \in used
               PROVE  \/ VerificationKey(k)
                      \/ keys[k].status = "deleted" /\ (tenants[keys[k].tenant] = "deleted" \/ AllowKeyReset)
    BY DEF SignedTokensVerify
  <2>1. k \in Kids /\ keys[k] \in KeyRow /\ keys[k].status # "unused"
    BY DEF KeyInv, TypeOK, HeldKeysStored
  <2>2. keys[k].status \in {"active", "retired", "deleted"}
    BY <2>1 DEF KeyRow
  <2> QED BY <2>1, <2>2 DEF KeyInv, HeldKeysStored, VerificationKey, Stored
<1> QED BY <1>1, KeyInvariant, PTL

\* With no rotation under way, the home tenant's in-memory signer is active in
\* the table, unless rotations overlapped, a generation failed or a reset ran.
THEOREM SignerActiveHolds == Spec => []SignerActive
<1>1. KeyInv => SignerActive
  BY DEF KeyInv
<1> QED BY <1>1, KeyInvariant, PTL

(***************************************************************************)
(* Proofs about Accounts and Passkeys: types, what is lost only to         *)
(* overlapping requests, and ceremonies and counters.                      *)
(***************************************************************************)

-----------------------------------------------------------------------------
\* Requests

RowType == [UserAttrs -> Values] \cup [GroupAttrs -> Values] \cup {NoRow}

LEMMA NewRequestTyped ==
    /\ NewRequest \in Request /\ NewRequest.pc = "new" /\ NewRequest.after = "done" /\ NewRequest.back = "setext"
    /\ NewRequest.todo = {} /\ NewRequest.ops = <<>> /\ NewRequest.named = {}
    /\ Done \in Request /\ Done.pc = "done" /\ Done.after = "done" /\ Done.back = "setext"
<1>1. (CHOOSE o \in Objects : TRUE) \in Objects
  BY AccountsAssumptions DEF Objects
<1>2. "" \in Values
  BY AccountsAssumptions
<1>0. <<>> \in Seq(UserOp \cup GroupOp)
  OBVIOUS
<1>3. NewRequest \in Request
  BY <1>0, <1>1, <1>2 DEF NewRequest, Request
<1>4. /\ NewRequest.pc = "new" /\ NewRequest.after = "done" /\ NewRequest.back = "setext"
      /\ NewRequest.todo = {} /\ NewRequest.ops = <<>> /\ NewRequest.named = {}
  BY DEF NewRequest
<1>5. Done \in Request
  BY <1>3 DEF Done, Request
<1>6. Done.pc = "done" /\ Done.after = "done" /\ Done.back = "setext"
  BY <1>4, <1>3 DEF Done, Request
<1> QED BY <1>3, <1>4, <1>5, <1>6

\* What a request that creates o goes on as.
CreateReq(o, q) ==
    /\ q \in Request /\ q.after = "done"
    /\ \/ q.pc = "done"
       \/ /\ q.pc \in {"setext", "members"} /\ q.obj = o /\ q.back \in {"done", "setext"}
          /\ q.pc = "members" => o \in Groups

\* What a request that has read the row of o goes on as.
ReadReq(o, q) ==
    /\ q \in Request
    /\ q.after = "list" => q.back = "setext" /\ o \in Groups /\ q.pc # "ext"
    /\ \/ q.pc = "done"
       \/ /\ q.pc \in {"update", "ext"} /\ q.row \in [Attrs(o) -> Values]
          /\ q.ops \in IF o \in Users THEN Seq(UserOp) ELSE Seq(GroupOp)
          /\ \A a \in Attrs(o) \ q.named : q.row[a] = rows[o][a]

LEMMA OverrideTyped ==
    ASSUME NEW A, NEW row \in [A -> Values], NEW p, \A a \in DOMAIN p : p[a] \in Values
    PROVE  /\ Override(row, p) \in [A -> Values]
           /\ \A a \in A \ DOMAIN p : Override(row, p)[a] = row[a]
BY DEF Override

LEMMA CreateScimUser ==
    ASSUME NEW u \in Users, NEW ext \in Values
    PROVE  CreateReq(u, [NewRequest EXCEPT !.pc = "setext", !.obj = u, !.ext = ext])
BY NewRequestTyped DEF CreateReq, Request, Objects

LEMMA CreateScimGroup ==
    ASSUME NEW g \in Groups, NEW ext \in Values, NEW want \in SUBSET Users
    PROVE  CreateReq(g, [NewRequest EXCEPT !.pc = "members", !.obj = g, !.ext = ext,
                             !.todo = {<<"add", u>> : u \in want},
                             !.back = IF ext = "" THEN "done" ELSE "setext"])
<1>1. {<<"add", u>> : u \in want} \in SUBSET ({"add", "remove"} \X Users)
  OBVIOUS
<1> QED BY <1>1, NewRequestTyped DEF CreateReq, Request, Objects

LEMMA DropReq ==
    ASSUME NEW o \in Objects, NEW q, q = [NewRequest EXCEPT !.pc = "dropext", !.obj = o]
    PROVE  q \in Request /\ q.pc = "dropext" /\ q.obj = o /\ q.after = "done" /\ q # Done
BY NewRequestTyped DEF Request

\* A row that was read, changed by p.
LEMMA WritingReads ==
    ASSUME NEW o \in Objects, rows[o] \in [Attrs(o) -> Values],
           NEW p, DOMAIN p \subseteq UserAttrs \cup GroupAttrs, \A a \in DOMAIN p : p[a] \in Values
    PROVE  /\ ReadReq(o, Writing(o, p)) /\ Writing(o, p).pc = "update"
           /\ Writing(o, p).after = "done" /\ Writing(o, p).back = "setext"
<1> DEFINE row == Override(rows[o], p)
<1>1. row \in [Attrs(o) -> Values] /\ \A a \in Attrs(o) \ DOMAIN p : row[a] = rows[o][a]
  BY OverrideTyped
<1>2. row \in [UserAttrs -> Values] \cup [GroupAttrs -> Values] \cup {NoRow}
  BY <1>1 DEF Attrs
<1> HIDE DEF row
<1>3. Writing(o, p) = [NewRequest EXCEPT !.pc = "update", !.row = row, !.named = DOMAIN p]
  BY DEF Writing, row
<1>4. /\ Writing(o, p) \in Request /\ Writing(o, p).pc = "update" /\ Writing(o, p).after = "done"
      /\ Writing(o, p).back = "setext" /\ Writing(o, p).ops = <<>>
      /\ Writing(o, p).row = row /\ Writing(o, p).named = DOMAIN p
  BY <1>2, <1>3, NewRequestTyped, ZenonT(60) DEF Request
<1>5. <<>> \in Seq(UserOp) /\ <<>> \in Seq(GroupOp)
  OBVIOUS
<1> QED BY <1>1, <1>4, <1>5 DEF ReadReq

LEMMA ReplaceReads ==
    ASSUME NEW o, NEW q, ReadReq(o, q), q.back = "setext", q.pc = "update",
           NEW ext \in Values, NEW want \in SUBSET Users
    PROVE  /\ ReadReq(o, [q EXCEPT !.ext = ext, !.after = "setext"])
           /\ o \in Groups => ReadReq(o, [q EXCEPT !.ext = ext, !.want = want, !.after = "list"])
<1> USE DEF ReadReq
<1> DEFINE r == [q EXCEPT !.ext = ext, !.after = "setext"]
           s == [q EXCEPT !.ext = ext, !.want = want, !.after = "list"]
<1>1. /\ r \in Request /\ r.back = "setext" /\ r.pc = "update" /\ r.row = q.row /\ r.ops = q.ops /\ r.named = q.named
  BY DEF Request
<1>2. /\ s \in Request /\ s.back = "setext" /\ s.pc = "update" /\ s.row = q.row /\ s.ops = q.ops /\ s.named = q.named
  BY DEF Request
<1> HIDE DEF r, s
<1> QED BY <1>1, <1>2 DEF r, s

LEMMA PatchReads ==
    ASSUME NEW o \in Objects, rows[o] \in [Attrs(o) -> Values], NEW ops,
           ops \in IF o \in Users THEN Seq(UserOp) ELSE Seq(GroupOp), NEW q,
           \/ q = [NewRequest EXCEPT !.pc = "ext", !.row = rows[o], !.ops = ops, !.after = "setext"]
           \/ q = [NewRequest EXCEPT !.pc = "ext", !.row = rows[o], !.ops = ops, !.after = "setext", !.back = "ops"]
    PROVE  ReadReq(o, q)
<1>1. rows[o] \in [UserAttrs -> Values] \cup [GroupAttrs -> Values] \cup {NoRow}
  BY DEF Attrs
<1>2. ops \in Seq(UserOp \cup GroupOp)
  <2>1. Seq(UserOp) \subseteq Seq(UserOp \cup GroupOp) /\ Seq(GroupOp) \subseteq Seq(UserOp \cup GroupOp)
    OBVIOUS
  <2> QED BY <2>1
<1>3. /\ q \in Request /\ q.after = "setext" /\ q.pc = "ext" /\ q.row = rows[o] /\ q.ops = ops
  BY <1>1, <1>2, NewRequestTyped, ZenonT(60) DEF Request
<1> QED BY <1>3 DEF ReadReq

-----------------------------------------------------------------------------
\* The invariant of Accounts, one form of step after the other

\* Request w goes on as q, and only it.
LEMMA GoesOn ==
    ASSUME AccountsTypeOK, NEW w \in Requests, NEW q \in Request, Goto(w, q)
    PROVE  /\ reqs' \in [Requests -> Request] /\ reqs'[w] = q
           /\ \A v \in Requests : v # w => reqs'[v] = reqs[v]
BY DEF AccountsTypeOK, Goto

LEMMA InsertKeeps ==
    ASSUME AccountsInv, NEW w \in Requests, NEW o \in Objects, NEW row \in [Attrs(o) -> Values],
           NEW q, CreateReq(o, q), InsertRow(w, o, row, q)
    PROVE  AccountsInv'
<1>t. /\ AccountsTypeOK /\ live \subseteq Objects /\ fresh \subseteq Objects /\ live \cap fresh = {}
      /\ rows \in [Objects -> RowType]
      /\ members \subseteq (live \cap Groups) \X (live \cap Users)
      /\ extid \in [Objects -> Values] /\ reqs \in [Requests -> Request]
      /\ touched \in [Requests -> SUBSET Users]
  BY DEF AccountsInv, AccountsTypeOK, RowType
<1>1. /\ reqs[w].pc = "new" /\ o \in fresh /\ fresh' = fresh \ {o}
      /\ UNCHANGED <<members, extid, since, foreign>>
  BY DEF InsertRow, Begins
<1>2. /\ reqs' \in [Requests -> Request] /\ \A v \in Requests : v # w => reqs'[v] = reqs[v]
      /\ \/ reqs'[w].pc = "done"
         \/ /\ o \in live' /\ reqs'[w].pc \in {"setext", "members"} /\ reqs'[w].obj = o
            /\ reqs'[w].back \in {"done", "setext"} /\ (reqs'[w].pc = "members" => o \in Groups)
      /\ reqs'[w].after = "done"
  <2>1. CASE UpnTaken(o, row)
    <3>1. Goto(w, Done)
      BY <2>1 DEF InsertRow
    <3> QED BY <1>t, <3>1, NewRequestTyped, GoesOn
  <2>2. CASE ~UpnTaken(o, row)
    <3>1. Goto(w, q) /\ live' = live \cup {o}
      BY <2>2 DEF InsertRow
    <3>2. q \in Request
      BY DEF CreateReq
    <3>3. /\ reqs' \in [Requests -> Request] /\ reqs'[w] = q /\ \A v \in Requests : v # w => reqs'[v] = reqs[v]
      BY <1>t, <3>1, <3>2, GoesOn
    <3> QED BY <3>1, <3>3 DEF CreateReq
  <2> QED BY <2>1, <2>2
<1>3. \/ live' = live /\ rows' = rows /\ touched' = touched
      \/ /\ live' = live \cup {o} /\ rows' = [rows EXCEPT ![o] = row]
         /\ touched' = [v \in Requests |-> touched[v] \cup ({o} \cap Users)]
  BY DEF InsertRow
<1>4. /\ live \subseteq live' /\ live' \subseteq live \cup {o}
      /\ \A x \in Objects : x # o => rows'[x] = rows[x]
      /\ \A v \in Requests : touched[v] \subseteq touched'[v] /\ (o \in live' /\ o \in Users => o \in touched'[v])
      /\ o \notin live
  BY <1>1, <1>3, <1>t
<1>r. \A v \in Requests : Reads(v)' \/ Reconciles(v)' => v # w
  BY <1>2 DEF Reads, Reconciles, At
<1>5. AccountsTypeOK'
  <2>1. row \in RowType
    BY DEF RowType, Attrs
  <2>2. rows' \in [Objects -> RowType] /\ \A x \in live' : rows'[x] \in [Attrs(x) -> Values]
    BY <1>t, <1>3, <2>1, SMTT(30) DEF AccountsTypeOK
  <2>3. \A v \in Requests : Reads(v)' =>
          /\ reqs'[v].row \in [Attrs(reqs'[v].obj) -> Values]
          /\ reqs'[v].ops \in IF reqs'[v].obj \in Users THEN Seq(UserOp) ELSE Seq(GroupOp)
    BY <1>t, <1>2, <1>r DEF AccountsTypeOK, Reads, At
  <2>4. live' \subseteq Objects /\ fresh' \subseteq Objects /\ live' \cap fresh' = {}
    BY <1>t, <1>1, <1>4
  <2>5. members' \subseteq (live' \cap Groups) \X (live' \cap Users)
    BY <1>t, <1>1, <1>4
  <2>6. touched' \in [Requests -> SUBSET Users]
    BY <1>t, <1>3
  <2>7. /\ extid' \in [Objects -> Values] /\ since' \in [Requests -> SUBSET (UserAttrs \cup GroupAttrs)]
        /\ foreign' \subseteq Objects /\ reqs' \in [Requests -> Request]
    BY <1>t, <1>1, <1>2 DEF AccountsTypeOK
  <2> QED BY <2>2, <2>3, <2>4, <2>5, <2>6, <2>7 DEF AccountsTypeOK, RowType
<1>6. OnceThere'
  <2> SUFFICES ASSUME NEW v \in Requests, InFlight(v)' PROVE reqs'[v].obj \notin fresh'
    BY DEF OnceThere
  <2>1. CASE v = w
    BY <1>1, <1>2, <2>1 DEF InFlight
  <2>2. CASE v # w
    BY <1>1, <1>2, <2>2 DEF AccountsInv, OnceThere, InFlight
  <2> QED BY <2>1, <2>2
<1>o. \A v \in Requests : v # w /\ InFlight(v) => reqs[v].obj # o /\ reqs[v].obj \in Objects
  BY <1>t, <1>1 DEF AccountsInv, OnceThere, Request
<1>7. RowsRead'
  <2> SUFFICES ASSUME NEW v \in Requests, Reads(v)', reqs'[v].obj \in live'
               PROVE  \A a \in Attrs(reqs'[v].obj) \ (reqs'[v].named \cup since'[v]) :
                          reqs'[v].row[a] = rows'[reqs'[v].obj][a]
    BY DEF RowsRead
  <2>1. v # w /\ reqs'[v] = reqs[v] /\ Reads(v) /\ InFlight(v)
    BY <1>2, <1>r DEF Reads, At, InFlight
  <2>2. reqs[v].obj \in live /\ rows'[reqs[v].obj] = rows[reqs[v].obj]
    BY <1>4, <1>o, <2>1
  <2> QED BY <1>1, <2>1, <2>2 DEF AccountsInv, RowsRead
<1>8. MembersDue'
  <2> SUFFICES ASSUME NEW v \in Requests
               PROVE  LET p == reqs'[v] IN
                      /\ p.after = "list" => p.back = "setext" /\ p.obj \in Groups /\ p.pc \notin {"ext", "ops"}
                      /\ At(v, "members")' => p.obj \in Groups
                      /\ At(v, "list")' => p.after = "list"
                      /\ Reconciles(v)' /\ At(v, "setext")' => p.todo = {}
                      /\ Reconciles(v)' /\ p.obj \in live' => \A u \in Users \ touched'[v] :
                            /\ <<"add", u>> \in p.todo => u \in p.want /\ <<p.obj, u>> \notin members'
                            /\ <<"remove", u>> \in p.todo => u \notin p.want
                            /\ {<<"add", u>>, <<"remove", u>>} \cap p.todo = {} =>
                                  (<<p.obj, u>> \in members' <=> u \in p.want \cap live')
    BY DEF MembersDue
  <2>1. CASE v = w
    BY <1>2, <1>r, <2>1 DEF At
  <2>2. CASE v # w
    <3>1. /\ reqs'[v] = reqs[v] /\ (Reconciles(v)' <=> Reconciles(v)) /\ (\A l : At(v, l)' <=> At(v, l))
          /\ Reconciles(v) => reqs[v].obj # o
      BY <1>2, <1>o, <2>2 DEF Reconciles, At, InFlight
    <3>2. \A u \in Users \ touched'[v] : u \notin touched[v] /\ (u \in live' <=> u \in live)
      BY <1>4
    <3>3. reqs[v].obj # o => (reqs[v].obj \in live' <=> reqs[v].obj \in live)
      BY <1>4
    <3> QED BY <1>1, <3>1, <3>2, <3>3 DEF AccountsInv, MembersDue
  <2> QED BY <2>1, <2>2
<1>9. MappingsDue'
  <2> SUFFICES ASSUME foreign = {}
               PROVE  /\ \A v \in Requests : InFlight(v)' /\ ~At(v, "dropext")' => reqs'[v].obj \in live'
                      /\ \A u \in Users \ live' : extid[u] # "" =>
                            \E v \in Requests : At(v, "dropext")' /\ reqs'[v].obj = u
    BY <1>1 DEF MappingsDue
  <2>1. ASSUME NEW v \in Requests, InFlight(v)', ~At(v, "dropext")' PROVE reqs'[v].obj \in live'
    <3>1. CASE v = w
      BY <1>2, <2>1, <3>1 DEF InFlight
    <3>2. CASE v # w
      BY <1>2, <1>4, <2>1, <3>2 DEF AccountsInv, MappingsDue, InFlight, At
    <3> QED BY <3>1, <3>2
  <2>2. ASSUME NEW u \in Users \ live', extid[u] # ""
        PROVE  \E v \in Requests : At(v, "dropext")' /\ reqs'[v].obj = u
    <3>1. PICK v \in Requests : At(v, "dropext") /\ reqs[v].obj = u
      BY <1>4, <2>2 DEF AccountsInv, MappingsDue
    <3>2. v # w
      BY <1>1, <3>1 DEF At
    <3> QED BY <1>2, <3>1, <3>2 DEF At
  <2> QED BY <2>1, <2>2
<1> QED BY <1>5, <1>6, <1>7, <1>8, <1>9 DEF AccountsInv

LEMMA DeleteKeeps ==
    ASSUME AccountsInv, NEW w \in Requests, NEW o \in Objects, NEW q, DeleteRow(w, o, q),
           q = Done \/ q = [NewRequest EXCEPT !.pc = "dropext", !.obj = o]
    PROVE  AccountsInv'
<1>t. /\ AccountsTypeOK /\ live \subseteq Objects /\ fresh \subseteq Objects /\ live \cap fresh = {}
      /\ rows \in [Objects -> RowType]
      /\ members \subseteq (live \cap Groups) \X (live \cap Users)
      /\ extid \in [Objects -> Values] /\ reqs \in [Requests -> Request]
      /\ touched \in [Requests -> SUBSET Users] /\ foreign \subseteq Objects
  BY DEF AccountsInv, AccountsTypeOK, RowType
<1>1. /\ reqs[w].pc = "new" /\ UNCHANGED <<fresh, extid, since>>
  BY DEF DeleteRow, Begins
<1>q. /\ q \in Request /\ q.after = "done"
      /\ \/ q = Done /\ q.pc = "done"
         \/ q # Done /\ q.pc = "dropext" /\ q.obj = o
  BY NewRequestTyped, DropReq, ZenonT(60)
<1>2. /\ reqs' \in [Requests -> Request] /\ \A v \in Requests : v # w => reqs'[v] = reqs[v]
      /\ reqs'[w].pc = "done" \/ (o \in live /\ reqs'[w] = q)
      /\ o \in live => reqs'[w] = q
      /\ reqs'[w].after = "done"
  <2>1. CASE o \notin live
    <3>1. Goto(w, Done)
      BY <2>1 DEF DeleteRow
    <3> QED BY <1>t, <2>1, <3>1, NewRequestTyped, GoesOn
  <2>2. CASE o \in live
    <3>1. Goto(w, q)
      BY <2>2 DEF DeleteRow
    <3> QED BY <1>t, <1>q, <2>2, <3>1, GoesOn
  <2> QED BY <2>1, <2>2
<1>3. \/ o \notin live /\ UNCHANGED <<live, rows, members, touched, foreign>>
      \/ /\ o \in live /\ live' = live \ {o} /\ rows' = [rows EXCEPT ![o] = NoRow]
         /\ members' = {m \in members : o \notin {m[1], m[2]}}
         /\ touched' = [v \in Requests |-> touched[v] \cup ({o} \cap Users)]
         /\ foreign' = IF q = Done \/ \E v \in Requests \ {w} : InFlight(v) /\ reqs[v].obj = o
                       THEN foreign \cup {o} ELSE foreign
  BY DEF DeleteRow
<1>4. /\ live' = live \ {o}
      /\ \A x \in Objects : x # o => rows'[x] = rows[x]
      /\ members' \subseteq members /\ \A x, y : x # o /\ y # o => (<<x, y>> \in members' <=> <<x, y>> \in members)
      /\ \A v \in Requests : touched[v] \subseteq touched'[v] /\ (o \in live /\ o \in Users => o \in touched'[v])
      /\ foreign \subseteq foreign'
  BY <1>3, <1>t
<1>r. \A v \in Requests : Reads(v)' \/ Reconciles(v)' => v # w
  BY <1>2, <1>q DEF Reads, Reconciles, At
<1>5. AccountsTypeOK'
  <2>1. rows' \in [Objects -> RowType] /\ \A x \in live' : rows'[x] \in [Attrs(x) -> Values]
    <3>1. NoRow \in RowType
      BY DEF RowType
    <3> QED BY <1>t, <1>3, <3>1 DEF AccountsTypeOK
  <2>3. \A v \in Requests : Reads(v)' =>
          /\ reqs'[v].row \in [Attrs(reqs'[v].obj) -> Values]
          /\ reqs'[v].ops \in IF reqs'[v].obj \in Users THEN Seq(UserOp) ELSE Seq(GroupOp)
    BY <1>t, <1>2, <1>r DEF AccountsTypeOK, Reads, At
  <2>4. live' \subseteq Objects /\ fresh' \subseteq Objects /\ live' \cap fresh' = {}
    BY <1>t, <1>1, <1>4
  <2>5. members' \subseteq (live' \cap Groups) \X (live' \cap Users)
    BY <1>t, <1>3
  <2>6. touched' \in [Requests -> SUBSET Users]
    BY <1>t, <1>3
  <2>7. /\ extid' \in [Objects -> Values] /\ since' \in [Requests -> SUBSET (UserAttrs \cup GroupAttrs)]
        /\ foreign' \subseteq Objects /\ reqs' \in [Requests -> Request]
    BY <1>t, <1>1, <1>2, <1>3 DEF AccountsTypeOK
  <2> QED BY <2>1, <2>3, <2>4, <2>5, <2>6, <2>7 DEF AccountsTypeOK, RowType
<1>6. OnceThere'
  <2> SUFFICES ASSUME NEW v \in Requests, InFlight(v)' PROVE reqs'[v].obj \notin fresh'
    BY DEF OnceThere
  <2>1. CASE v = w
    BY <1>t, <1>1, <1>2, <1>q, <2>1 DEF InFlight
  <2>2. CASE v # w
    BY <1>1, <1>2, <2>2 DEF AccountsInv, OnceThere, InFlight
  <2> QED BY <2>1, <2>2
<1>7. RowsRead'
  <2> SUFFICES ASSUME NEW v \in Requests, Reads(v)', reqs'[v].obj \in live'
               PROVE  \A a \in Attrs(reqs'[v].obj) \ (reqs'[v].named \cup since'[v]) :
                          reqs'[v].row[a] = rows'[reqs'[v].obj][a]
    BY DEF RowsRead
  <2>1. v # w /\ reqs'[v] = reqs[v] /\ Reads(v) /\ reqs[v].obj \in live /\ reqs[v].obj # o
    BY <1>2, <1>4, <1>r DEF Reads, At
  <2>2. rows'[reqs[v].obj] = rows[reqs[v].obj]
    BY <1>t, <1>4, <2>1
  <2> QED BY <1>1, <2>1, <2>2 DEF AccountsInv, RowsRead
<1>8. MembersDue'
  <2> SUFFICES ASSUME NEW v \in Requests
               PROVE  LET p == reqs'[v] IN
                      /\ p.after = "list" => p.back = "setext" /\ p.obj \in Groups /\ p.pc \notin {"ext", "ops"}
                      /\ At(v, "members")' => p.obj \in Groups
                      /\ At(v, "list")' => p.after = "list"
                      /\ Reconciles(v)' /\ At(v, "setext")' => p.todo = {}
                      /\ Reconciles(v)' /\ p.obj \in live' => \A u \in Users \ touched'[v] :
                            /\ <<"add", u>> \in p.todo => u \in p.want /\ <<p.obj, u>> \notin members'
                            /\ <<"remove", u>> \in p.todo => u \notin p.want
                            /\ {<<"add", u>>, <<"remove", u>>} \cap p.todo = {} =>
                                  (<<p.obj, u>> \in members' <=> u \in p.want \cap live')
    BY DEF MembersDue
  <2>1. CASE v = w
    BY <1>2, <1>q, <1>r, <2>1 DEF At
  <2>2. CASE v # w
    <3>1. /\ reqs'[v] = reqs[v] /\ (Reconciles(v)' <=> Reconciles(v)) /\ (\A l : At(v, l)' <=> At(v, l))
      BY <1>2, <2>2 DEF Reconciles, At
    <3>2. \A u \in Users \ touched'[v] : u \notin touched[v] /\ (u \in live' <=> u \in live) /\ (o \in live => u # o)
      BY <1>4
    <3>3. reqs[v].obj \in live' => reqs[v].obj \in live /\ reqs[v].obj # o
      BY <1>4
    <3>4. o \notin live => members' = members
      BY <1>3
    <3> QED BY <1>4, <3>1, <3>2, <3>3, <3>4 DEF AccountsInv, MembersDue
  <2> QED BY <2>1, <2>2
<1>9. MappingsDue'
  <2> SUFFICES ASSUME foreign' = {}
               PROVE  /\ \A v \in Requests : InFlight(v)' /\ ~At(v, "dropext")' => reqs'[v].obj \in live'
                      /\ \A u \in Users \ live' : extid[u] # "" =>
                            \E v \in Requests : At(v, "dropext")' /\ reqs'[v].obj = u
    BY <1>1 DEF MappingsDue
  <2>0. /\ foreign = {}
        /\ o \in live => q # Done /\ \A v \in Requests \ {w} : ~(InFlight(v) /\ reqs[v].obj = o)
    BY <1>3, <1>4
  <2>1. ASSUME NEW v \in Requests, InFlight(v)', ~At(v, "dropext")' PROVE reqs'[v].obj \in live'
    <3>1. CASE v = w
      BY <1>2, <1>q, <2>1, <3>1 DEF InFlight, At
    <3>2. CASE v # w
      <4>1. reqs'[v] = reqs[v] /\ InFlight(v) /\ ~At(v, "dropext")
        BY <1>2, <2>1, <3>2 DEF InFlight, At
      <4>2. reqs[v].obj \in live
        BY <2>0, <4>1 DEF AccountsInv, MappingsDue
      <4> QED BY <1>4, <2>0, <3>2, <4>1, <4>2
    <3> QED BY <3>1, <3>2
  <2>2. ASSUME NEW u \in Users \ live', extid[u] # ""
        PROVE  \E v \in Requests : At(v, "dropext")' /\ reqs'[v].obj = u
    <3>1. CASE u \notin live
      <4>1. PICK v \in Requests : At(v, "dropext") /\ reqs[v].obj = u
        BY <2>0, <2>2, <3>1 DEF AccountsInv, MappingsDue
      <4>2. v # w
        BY <1>1, <4>1 DEF At
      <4> QED BY <1>2, <4>1, <4>2 DEF At
    <3>2. CASE u \in live
      BY <1>2, <1>4, <1>q, <2>0, <2>2, <3>2 DEF At
    <3> QED BY <3>1, <3>2
  <2> QED BY <2>1, <2>2
<1> QED BY <1>5, <1>6, <1>7, <1>8, <1>9 DEF AccountsInv

-----------------------------------------------------------------------------
\* Steps that neither create nor delete

OnlyMoves(w) ==
    /\ UNCHANGED <<live, fresh, foreign>>
    /\ reqs' \in [Requests -> Request] /\ \A v \in Requests : v # w => reqs'[v] = reqs[v]

\* The others learn which rows ...
RowsFrame(w) ==
    /\ rows' \in [Objects -> RowType] /\ \A o \in live : rows'[o] \in [Attrs(o) -> Values]
    /\ since' \in [Requests -> SUBSET (UserAttrs \cup GroupAttrs)]
    /\ \A v \in Requests : v # w =>
          /\ since[v] \subseteq since'[v]
          /\ InFlight(v) /\ reqs[v].obj \in live => \A a \in Attrs(reqs[v].obj) \ since'[v] :
                rows'[reqs[v].obj][a] = rows[reqs[v].obj][a]

\* ... and which members have changed.
MembersFrame(w) ==
    /\ members' \subseteq (live \cap Groups) \X (live \cap Users)
    /\ touched' \in [Requests -> SUBSET Users]
    /\ \A v \in Requests : v # w =>
          /\ touched[v] \subseteq touched'[v]
          /\ InFlight(v) => \A u \in Users \ touched'[v] :
                <<reqs[v].obj, u>> \in members' <=> <<reqs[v].obj, u>> \in members

ExtFrame(w) ==
    /\ extid' \in [Objects -> Values]
    /\ foreign = {} => \A u \in Users \ live : extid'[u] # "" =>
          extid[u] # "" /\ ~(At(w, "dropext") /\ reqs[w].obj = u)

\* The clauses of the invariant that are about request w.
OwnRead(w) ==
    Reads(w) =>
        /\ reqs[w].row \in [Attrs(reqs[w].obj) -> Values]
        /\ reqs[w].ops \in IF reqs[w].obj \in Users THEN Seq(UserOp) ELSE Seq(GroupOp)
        /\ reqs[w].obj \in live => \A a \in Attrs(reqs[w].obj) \ (reqs[w].named \cup since[w]) :
              reqs[w].row[a] = rows[reqs[w].obj][a]

OwnDue(w) ==
    LET q == reqs[w] IN
    /\ q.after = "list" => q.back = "setext" /\ q.obj \in Groups /\ q.pc \notin {"ext", "ops"}
    /\ At(w, "members") => q.obj \in Groups
    /\ At(w, "list") => q.after = "list"
    /\ Reconciles(w) /\ At(w, "setext") => q.todo = {}
    /\ Reconciles(w) /\ q.obj \in live => \A u \in Users \ touched[w] :
          /\ <<"add", u>> \in q.todo => u \in q.want /\ <<q.obj, u>> \notin members
          /\ <<"remove", u>> \in q.todo => u \notin q.want
          /\ {<<"add", u>>, <<"remove", u>>} \cap q.todo = {} =>
                (<<q.obj, u>> \in members <=> u \in q.want \cap live)

OwnObj(w) ==
    InFlight(w) => reqs[w].obj \notin fresh /\ (foreign = {} /\ ~At(w, "dropext") => reqs[w].obj \in live)

LEMMA FrameKeeps ==
    ASSUME AccountsInv, NEW w \in Requests, OnlyMoves(w), RowsFrame(w), MembersFrame(w), ExtFrame(w),
           OwnRead(w)', OwnDue(w)', OwnObj(w)'
    PROVE  AccountsInv'
<1>1. /\ UNCHANGED <<live, fresh, foreign>> /\ reqs' \in [Requests -> Request]
      /\ \A v \in Requests : v # w => reqs'[v] = reqs[v]
  BY DEF OnlyMoves
<1>2. \A v \in Requests : v # w =>
        /\ (Reads(v)' <=> Reads(v)) /\ (Reconciles(v)' <=> Reconciles(v)) /\ (InFlight(v)' <=> InFlight(v))
        /\ \A l : At(v, l)' <=> At(v, l)
        /\ Reads(v) \/ Reconciles(v) => InFlight(v)
  BY <1>1 DEF Reads, Reconciles, InFlight, At
<1>3. AccountsTypeOK'
  <2>1. \A v \in Requests : Reads(v)' =>
          /\ reqs'[v].row \in [Attrs(reqs'[v].obj) -> Values]
          /\ reqs'[v].ops \in IF reqs'[v].obj \in Users THEN Seq(UserOp) ELSE Seq(GroupOp)
    BY <1>1, <1>2 DEF AccountsInv, AccountsTypeOK, OwnRead
  <2>2. /\ live' \subseteq Objects /\ fresh' \subseteq Objects /\ live' \cap fresh' = {}
        /\ foreign' \subseteq Objects
    BY <1>1 DEF AccountsInv, AccountsTypeOK
  <2>3. /\ members' \subseteq (live' \cap Groups) \X (live' \cap Users) /\ touched' \in [Requests -> SUBSET Users]
    BY <1>1 DEF MembersFrame
  <2>4. /\ rows' \in [Objects -> RowType] /\ \A o \in live' : rows'[o] \in [Attrs(o) -> Values]
        /\ since' \in [Requests -> SUBSET (UserAttrs \cup GroupAttrs)]
    BY <1>1 DEF RowsFrame
  <2>5. extid' \in [Objects -> Values]
    BY DEF ExtFrame
  <2> QED BY <1>1, <2>1, <2>2, <2>3, <2>4, <2>5 DEF AccountsTypeOK, RowType
<1>4. OnceThere'
  BY <1>1, <1>2 DEF AccountsInv, OnceThere, OwnObj
<1>5. RowsRead'
  <2> SUFFICES ASSUME NEW v \in Requests, Reads(v)', reqs'[v].obj \in live'
               PROVE  \A a \in Attrs(reqs'[v].obj) \ (reqs'[v].named \cup since'[v]) :
                          reqs'[v].row[a] = rows'[reqs'[v].obj][a]
    BY DEF RowsRead
  <2>1. CASE v = w
    BY <2>1 DEF OwnRead
  <2>2. CASE v # w
    BY <1>1, <1>2, <2>2 DEF AccountsInv, RowsRead, RowsFrame
  <2> QED BY <2>1, <2>2
<1>6. MembersDue'
  <2> SUFFICES ASSUME NEW v \in Requests PROVE OwnDue(v)'
    BY DEF MembersDue, OwnDue
  <2>1. CASE v = w
    BY <2>1
  <2>2. CASE v # w
    <3>1. OwnDue(v)
      BY DEF AccountsInv, MembersDue, OwnDue
    <3> QED BY <1>1, <1>2, <2>2, <3>1 DEF OwnDue, MembersFrame
  <2> QED BY <2>1, <2>2
<1>7. MappingsDue'
  <2> SUFFICES ASSUME foreign = {}
               PROVE  /\ \A v \in Requests : InFlight(v)' /\ ~At(v, "dropext")' => reqs'[v].obj \in live
                      /\ \A u \in Users \ live : extid'[u] # "" =>
                            \E v \in Requests : At(v, "dropext")' /\ reqs'[v].obj = u
    BY <1>1 DEF MappingsDue
  <2>1. ASSUME NEW v \in Requests, InFlight(v)', ~At(v, "dropext")' PROVE reqs'[v].obj \in live
    <3>1. CASE v = w
      BY <1>1, <2>1, <3>1 DEF OwnObj
    <3>2. CASE v # w
      BY <1>1, <1>2, <2>1, <3>2 DEF AccountsInv, MappingsDue
    <3> QED BY <3>1, <3>2
  <2>2. ASSUME NEW u \in Users \ live, extid'[u] # ""
        PROVE  \E v \in Requests : At(v, "dropext")' /\ reqs'[v].obj = u
    <3>1. extid[u] # "" /\ ~(At(w, "dropext") /\ reqs[w].obj = u)
      BY <2>2 DEF ExtFrame
    <3>2. PICK v \in Requests : At(v, "dropext") /\ reqs[v].obj = u
      BY <3>1 DEF AccountsInv, MappingsDue
    <3> QED BY <1>1, <1>2, <3>1, <3>2
  <2> QED BY <2>1, <2>2
<1> QED BY <1>3, <1>4, <1>5, <1>6, <1>7 DEF AccountsInv

LEMMA SameRows ==
    ASSUME AccountsInv, NEW w \in Requests, rows' = rows, since' = since \/ since' = [since EXCEPT ![w] = {}]
    PROVE  RowsFrame(w)
BY DEF AccountsInv, AccountsTypeOK, RowsFrame, RowType

LEMMA SameMembers ==
    ASSUME AccountsInv, NEW w \in Requests, members' = members, touched' = touched \/ touched' = [touched EXCEPT ![w] = {}]
    PROVE  MembersFrame(w)
BY DEF AccountsInv, AccountsTypeOK, MembersFrame

LEMMA SameExt ==
    ASSUME AccountsInv, NEW w \in Requests, extid' = extid, ~At(w, "dropext")
    PROVE  ExtFrame(w)
BY DEF AccountsInv, AccountsTypeOK, ExtFrame

\* Others on the group learn of a membership that has changed.
LEMMA MovedFrame ==
    ASSUME AccountsInv, NEW w \in Requests, NEW g, NEW u \in Users,
           (members' = WithMember(g, u) /\ g \in Groups) \/ members' = WithoutMember(g, u),
           touched' = IF members' = members THEN touched ELSE Moved(g, {u}, w)
    PROVE  MembersFrame(w)
<1>1. /\ members \subseteq (live \cap Groups) \X (live \cap Users) /\ touched \in [Requests -> SUBSET Users]
  BY DEF AccountsInv, AccountsTypeOK
<1>2. members' \subseteq (live \cap Groups) \X (live \cap Users)
  BY <1>1 DEF WithMember, WithoutMember
<1>3. \A x, y : x # g \/ y # u => (<<x, y>> \in members' <=> <<x, y>> \in members)
  BY DEF WithMember, WithoutMember
<1>4. CASE members' = members
  BY <1>1, <1>2, <1>4 DEF MembersFrame
<1>5. CASE members' # members
  <2>1. touched' = [v \in Requests |-> IF v # w /\ InFlight(v) /\ reqs[v].obj = g THEN touched[v] \cup {u} ELSE touched[v]]
    BY <1>5 DEF Moved
  <2>2. touched' \in [Requests -> SUBSET Users]
    BY <1>1, <2>1
  <2>3. \A v \in Requests : /\ touched[v] \subseteq touched'[v]
                            /\ v # w /\ InFlight(v) /\ reqs[v].obj = g => u \in touched'[v]
    BY <2>1
  <2> QED BY <1>2, <1>3, <2>2, <2>3 DEF MembersFrame
<1> QED BY <1>4, <1>5

\* A request that is over.
LEMMA OverKeeps ==
    ASSUME AccountsInv, NEW w \in Requests, Goto(w, Done), UNCHANGED <<live, fresh, foreign>>,
           RowsFrame(w), MembersFrame(w), ExtFrame(w)
    PROVE  AccountsInv'
<1>1. /\ reqs' \in [Requests -> Request] /\ reqs'[w] = Done /\ \A v \in Requests : v # w => reqs'[v] = reqs[v]
  BY GoesOn, NewRequestTyped DEF AccountsInv
<1>2. OnlyMoves(w)
  BY <1>1 DEF OnlyMoves
<1>3. OwnRead(w)' /\ OwnDue(w)' /\ OwnObj(w)'
  BY <1>1, NewRequestTyped DEF OwnRead, OwnDue, OwnObj, Reads, Reconciles, InFlight, At
<1> QED BY <1>2, <1>3, FrameKeeps

LEMMA ReadKeeps ==
    ASSUME AccountsInv, NEW w \in Requests, NEW o \in Objects, NEW q, o \in live => ReadReq(o, q), ReadRow(w, o, q)
    PROVE  AccountsInv'
<1>1. /\ reqs[w].pc = "new" /\ UNCHANGED <<live, fresh, rows, members, extid, touched, foreign>>
      /\ since' = [since EXCEPT ![w] = {}]
  BY DEF ReadRow, Begins, tables
<1>2. RowsFrame(w) /\ MembersFrame(w) /\ ExtFrame(w)
  <2>1. ~At(w, "dropext")
    BY <1>1 DEF At
  <2> QED BY <1>1, <2>1, SameRows, SameMembers, SameExt
<1>3. CASE o \notin live
  <2>1. Goto(w, Done)
    BY <1>3 DEF ReadRow
  <2> QED BY <1>1, <1>2, <2>1, OverKeeps
<1>4. CASE o \in live
  <2> DEFINE p == [q EXCEPT !.obj = o]
  <2>0. Goto(w, p)
    BY <1>4 DEF ReadRow
  <2>1. /\ p \in Request /\ p.obj = o /\ p.pc = q.pc /\ p.row = q.row /\ p.ops = q.ops
        /\ p.named = q.named /\ p.after = q.after /\ p.back = q.back
    BY <1>4 DEF ReadReq, Request
  <2> HIDE DEF p
  <2>2. /\ reqs' \in [Requests -> Request] /\ reqs'[w] = p /\ \A v \in Requests : v # w => reqs'[v] = reqs[v]
    BY <2>0, <2>1, GoesOn DEF AccountsInv
  <2>3. OnlyMoves(w)
    BY <1>1, <2>2 DEF OnlyMoves
  <2>4. OwnRead(w)'
    <3>1. since'[w] = {}
      BY <1>1 DEF AccountsInv, AccountsTypeOK
    <3>2. q.pc \in {"done", "update", "ext"}
      BY <1>4 DEF ReadReq
    <3>3. CASE q.pc = "done"
      BY <2>1, <2>2, <3>3 DEF OwnRead, Reads, At
    <3>4. CASE q.pc # "done"
      BY <1>1, <1>4, <2>1, <2>2, <3>1, <3>4 DEF OwnRead, ReadReq
    <3> QED BY <3>3, <3>4
  <2>5. OwnDue(w)' /\ OwnObj(w)'
    <3>1. q.pc \in {"done", "update", "ext"} /\ (q.after = "list" => q.back = "setext" /\ o \in Groups /\ q.pc # "ext")
      BY <1>4 DEF ReadReq
    <3>2. o \notin fresh' /\ o \in live'
      BY <1>1, <1>4 DEF AccountsInv, AccountsTypeOK
    <3> QED BY <2>1, <2>2, <3>1, <3>2 DEF OwnDue, OwnObj, Reconciles, At
  <2> QED BY <1>2, <2>3, <2>4, <2>5, FrameKeeps
<1> QED BY <1>3, <1>4

LEMMA MembershipKeeps ==
    ASSUME AccountsInv, NEW w \in Requests, NEW g \in Groups, NEW u \in Users, NEW new,
           new = WithMember(g, u) \/ new = WithoutMember(g, u), ChangeMembership(w, g, u, new)
    PROVE  AccountsInv'
<1>1. /\ reqs[w].pc = "new" /\ UNCHANGED <<live, fresh, rows, extid, since, foreign>>
      /\ Goto(w, Done) /\ members' = new
      /\ touched' = IF members' = members THEN touched ELSE Moved(g, {u}, w)
  BY DEF ChangeMembership, Begins
<1>2. ~At(w, "dropext")
  BY <1>1 DEF At
<1>3. RowsFrame(w) /\ ExtFrame(w)
  BY <1>1, <1>2, SameRows, SameExt
<1>4. MembersFrame(w)
  BY <1>1, MovedFrame
<1> QED BY <1>1, <1>3, <1>4, OverKeeps

-----------------------------------------------------------------------------
\* The first statement of a request

LEMMA BeginKeeps ==
    ASSUME AccountsInv, NEW w \in Requests, BeginRequest(w)
    PROVE  AccountsInv'
<1> USE AccountsAssumptions
<1>d. Done \in Request /\ \A o : CreateReq(o, Done) /\ ReadReq(o, Done)
  BY NewRequestTyped DEF CreateReq, ReadReq
<1>o. /\ \A u \in Users : u \in Objects /\ Attrs(u) = UserAttrs
      /\ \A g \in Groups : g \in Objects /\ g \notin Users /\ Attrs(g) = GroupAttrs
  BY DEF Objects, Attrs
<1>r. \A o \in Objects : o \in live => rows[o] \in [Attrs(o) -> Values]
  BY DEF AccountsInv, AccountsTypeOK
<1>p. \A p \in Patches : DOMAIN p \subseteq UserAttrs \cup GroupAttrs /\ \A a \in DOMAIN p : p[a] \in Values
  OBVIOUS
<1>e. \A p \in Patches : /\ DOMAIN Replacing(p) \subseteq UserAttrs
                         /\ \A a \in DOMAIN Replacing(p) : Replacing(p)[a] \in Values
  BY <1>p DEF Replacing, UserAttrs
<1>1. ASSUME NEW u \in Users, NEW p \in Patches, CreateUser(w, u, p) \/ GraphCreateUser(w, u, p)
      PROVE  AccountsInv'
  <2>1. Override(Row0[u], p) \in [Attrs(u) -> Values]
    BY <1>o, <1>p, OverrideTyped
  <2>2. InsertRow(w, u, Override(Row0[u], p), Done)
    BY <1>1 DEF CreateUser, GraphCreateUser
  <2> QED BY <1>d, <1>o, <2>1, <2>2, InsertKeeps
<1>2. ASSUME NEW u \in Users, NEW p \in Patches, NEW ext \in ExternalIds, ScimCreateUser(w, u, p, ext)
      PROVE  AccountsInv'
  <2>1. Override(Row0[u], Replacing(p)) \in [Attrs(u) -> Values]
    BY <1>o, <1>e, OverrideTyped
  <2> DEFINE q == IF ext = "" THEN Done ELSE [NewRequest EXCEPT !.pc = "setext", !.obj = u, !.ext = ext]
  <2>2. CreateReq(u, q)
    BY <1>d, CreateScimUser
  <2>3. InsertRow(w, u, Override(Row0[u], Replacing(p)), q)
    BY <1>2 DEF ScimCreateUser
  <2> HIDE DEF q
  <2> QED BY <1>o, <2>1, <2>2, <2>3, InsertKeeps
<1>3. ASSUME NEW u \in Users, CreateInvitation(w, u) PROVE AccountsInv'
  <2> DEFINE p == [state |-> "PendingAcceptance"]
  <2>1. \A a \in DOMAIN p : p[a] \in Values
    <3>1. DOMAIN p = {"state"}
      OBVIOUS
    <3>2. p["state"] = "PendingAcceptance"
      OBVIOUS
    <3> HIDE DEF p
    <3> QED BY <3>1, <3>2
  <2>2. InsertRow(w, u, Override(Row0[u], p), Done)
    BY <1>3 DEF CreateInvitation
  <2> HIDE DEF p
  <2>3. Override(Row0[u], p) \in [Attrs(u) -> Values]
    BY <1>o, <2>1, OverrideTyped
  <2> QED BY <1>d, <1>o, <2>2, <2>3, InsertKeeps
<1>4. ASSUME NEW g \in Groups, CreateGroup(w, g) \/ GraphCreateGroup(w, g) PROVE AccountsInv'
  <2>1. InsertRow(w, g, Row0[g], Done)
    BY <1>4 DEF CreateGroup, GraphCreateGroup
  <2> QED BY <1>d, <1>o, <2>1, InsertKeeps
<1>5. ASSUME NEW g \in Groups, NEW ext \in ExternalIds, NEW want \in SUBSET Users, ScimCreateGroup(w, g, ext, want)
      PROVE  AccountsInv'
  <2> DEFINE p == [description |-> ""]
             q == [NewRequest EXCEPT !.pc = "members", !.obj = g, !.ext = ext,
                      !.todo = {<<"add", u>> : u \in want}, !.back = IF ext = "" THEN "done" ELSE "setext"]
  <2>1. \A a \in DOMAIN p : p[a] \in Values
    <3>1. DOMAIN p = {"description"}
      OBVIOUS
    <3>2. p["description"] = ""
      OBVIOUS
    <3> HIDE DEF p
    <3> QED BY <3>1, <3>2
  <2>2. InsertRow(w, g, Override(Row0[g], p), q)
    BY <1>5 DEF ScimCreateGroup
  <2>3. CreateReq(g, q)
    BY CreateScimGroup
  <2> HIDE DEF p, q
  <2>4. Override(Row0[g], p) \in [Attrs(g) -> Values]
    BY <1>o, <2>1, OverrideTyped
  <2> QED BY <1>o, <2>2, <2>3, <2>4, InsertKeeps
<1>w. ASSUME NEW o \in Objects, NEW p, DOMAIN p \subseteq UserAttrs \cup GroupAttrs, \A a \in DOMAIN p : p[a] \in Values,
             ReadRow(w, o, Writing(o, p))
      PROVE  AccountsInv'
  <2>1. o \in live => ReadReq(o, Writing(o, p))
    BY <1>r, <1>w, WritingReads
  <2> QED BY <1>w, <2>1, ReadKeeps
<1>6. ASSUME NEW u \in Users, NEW p \in Patches, PatchUser(w, u, p) \/ UpdateUser(w, u, p) PROVE AccountsInv'
  <2>1. ReadRow(w, u, Writing(u, p))
    BY <1>6 DEF PatchUser, UpdateUser
  <2> QED BY <1>o, <1>p, <1>w, <2>1
<1>7. ASSUME NEW g \in Groups, NEW p \in Patches, PatchGroup(w, g, p) \/ UpdateGroup(w, g, p) PROVE AccountsInv'
  <2>1. ReadRow(w, g, Writing(g, p))
    BY <1>7 DEF PatchGroup, UpdateGroup
  <2> QED BY <1>o, <1>p, <1>w, <2>1
<1>8. ASSUME NEW u \in Users, ResetPassword(w, u) PROVE AccountsInv'
  <2> DEFINE p == [password |-> "reset"]
  <2>1. DOMAIN p \subseteq UserAttrs \cup GroupAttrs /\ \A a \in DOMAIN p : p[a] \in Values
    <3>1. DOMAIN p = {"password"}
      OBVIOUS
    <3>2. p["password"] = "reset"
      OBVIOUS
    <3> HIDE DEF p
    <3> QED BY <3>1, <3>2 DEF UserAttrs
  <2>2. ReadRow(w, u, Writing(u, p))
    BY <1>8 DEF ResetPassword
  <2> HIDE DEF p
  <2> QED BY <1>o, <1>w, <2>1, <2>2
<1>9. ASSUME NEW u \in Users, RedeemInvitation(w, u) PROVE AccountsInv'
  <2> DEFINE p == [state |-> "Accepted"]
             q == IF u \in live /\ rows[u].state = "Accepted" THEN Done ELSE Writing(u, p)
  <2>1. DOMAIN p \subseteq UserAttrs \cup GroupAttrs /\ \A a \in DOMAIN p : p[a] \in Values
    <3>1. DOMAIN p = {"state"}
      OBVIOUS
    <3>2. p["state"] = "Accepted"
      OBVIOUS
    <3> HIDE DEF p
    <3> QED BY <3>1, <3>2 DEF UserAttrs
  <2>2. ReadRow(w, u, q)
    BY <1>9 DEF RedeemInvitation
  <2> HIDE DEF p
  <2>3. u \in live => ReadReq(u, q)
    BY <1>d, <1>o, <1>r, <2>1, WritingReads
  <2> HIDE DEF q
  <2> QED BY <1>o, <2>2, <2>3, ReadKeeps
<1>10. ASSUME NEW u \in Users, NEW p \in Patches, NEW ext \in ExternalIds, ReplaceUser(w, u, p, ext)
       PROVE  AccountsInv'
  <2> DEFINE q == Writing(u, Replacing(p))
             r == [q EXCEPT !.ext = ext, !.after = "setext"]
  <2>1. u \in live => ReadReq(u, q) /\ q.pc = "update" /\ q.back = "setext"
    BY <1>e, <1>o, <1>r, WritingReads
  <2>2. ReadRow(w, u, r)
    BY <1>10 DEF ReplaceUser
  <2> HIDE DEF q
  <2>3. u \in live => ReadReq(u, r)
    BY <2>1, ReplaceReads
  <2> HIDE DEF r
  <2> QED BY <1>o, <2>2, <2>3, ReadKeeps
<1>11. ASSUME NEW g \in Groups, NEW p \in Patches, NEW ext \in ExternalIds, NEW want \in SUBSET Users,
              ReplaceGroup(w, g, p, ext, want)
       PROVE  AccountsInv'
  <2> DEFINE q == Writing(g, p)
             r == [q EXCEPT !.ext = ext, !.want = want, !.after = "list"]
  <2>1. g \in live => ReadReq(g, q) /\ q.pc = "update" /\ q.back = "setext"
    BY <1>p, <1>o, <1>r, WritingReads
  <2>2. ReadRow(w, g, r)
    BY <1>11 DEF ReplaceGroup
  <2> HIDE DEF q
  <2>3. g \in live => ReadReq(g, r)
    BY <2>1, ReplaceReads
  <2> HIDE DEF r
  <2> QED BY <1>o, <2>2, <2>3, ReadKeeps
<1>12. ASSUME NEW u \in Users, NEW ops \in UserOps, ScimPatchUser(w, u, ops) PROVE AccountsInv'
  <2> DEFINE q == [NewRequest EXCEPT !.pc = "ext", !.row = rows[u], !.ops = ops, !.after = "setext"]
  <2>1. q = [NewRequest EXCEPT !.pc = "ext", !.row = rows[u], !.ops = ops, !.after = "setext"]
    OBVIOUS
  <2>2. ReadRow(w, u, q)
    BY <1>12 DEF ScimPatchUser
  <2> HIDE DEF q
  <2>3. u \in live => ReadReq(u, q)
    BY <1>o, <1>r, <2>1, PatchReads
  <2> QED BY <1>o, <2>2, <2>3, ReadKeeps
<1>13. ASSUME NEW g \in Groups, NEW ops \in GroupOps, ScimPatchGroup(w, g, ops) PROVE AccountsInv'
  <2> DEFINE q == [NewRequest EXCEPT !.pc = "ext", !.row = rows[g], !.ops = ops, !.after = "setext", !.back = "ops"]
  <2>1. q = [NewRequest EXCEPT !.pc = "ext", !.row = rows[g], !.ops = ops, !.after = "setext", !.back = "ops"]
    OBVIOUS
  <2>2. ReadRow(w, g, q)
    BY <1>13 DEF ScimPatchGroup
  <2> HIDE DEF q
  <2>3. g \in live => ReadReq(g, q)
    BY <1>o, <1>r, <2>1, PatchReads
  <2> QED BY <1>o, <2>2, <2>3, ReadKeeps
<1>14. ASSUME NEW o \in Objects, DeleteRow(w, o, Done) \/ DeleteRow(w, o, [NewRequest EXCEPT !.pc = "dropext", !.obj = o])
       PROVE  AccountsInv'
  BY <1>14, DeleteKeeps
<1>15. ASSUME NEW u \in Users, DeleteUser(w, u) \/ ScimDeleteUser(w, u) PROVE AccountsInv'
  BY <1>o, <1>14, <1>15 DEF DeleteUser, ScimDeleteUser
<1>16. ASSUME NEW g \in Groups, DeleteGroup(w, g) \/ ScimDeleteGroup(w, g) PROVE AccountsInv'
  BY <1>o, <1>14, <1>16 DEF DeleteGroup, ScimDeleteGroup
<1>17. ASSUME NEW o \in Objects, SoftDelete(w, o) PROVE AccountsInv'
  BY <1>14, <1>17 DEF SoftDelete
<1>18. ASSUME NEW g \in Groups, NEW u \in Users, AddMember(w, g, u) \/ RemoveMember(w, g, u) PROVE AccountsInv'
  BY <1>18, MembershipKeeps DEF AddMember, RemoveMember
<1>19. BeginCreate(w) => AccountsInv'
  BY <1>1, <1>2, <1>3, <1>4, <1>5 DEF BeginCreate
<1>20. BeginUpdate(w) => AccountsInv'
  BY <1>6, <1>7, <1>8, <1>9, <1>10, <1>11, <1>12, <1>13 DEF BeginUpdate
<1> QED BY <1>15, <1>16, <1>17, <1>18, <1>19, <1>20 DEF BeginRequest

-----------------------------------------------------------------------------
\* The statements after the first

\* What holds of a request in flight.
LEMMA Standing ==
    ASSUME AccountsInv, NEW w \in Requests
    PROVE  /\ OwnRead(w) /\ OwnDue(w) /\ OwnObj(w)
           /\ reqs \in [Requests -> Request] /\ reqs[w] \in Request
BY DEF AccountsInv, AccountsTypeOK, OnceThere, RowsRead, MembersDue, MappingsDue, OwnRead, OwnDue, OwnObj

\* A request that goes on with the same object, having touched no table.
LEMMA InMemoryKeeps ==
    ASSUME AccountsInv, NEW w \in Requests, InFlight(w), ~At(w, "dropext"), UNCHANGED <<tables, history>>,
           NEW q \in Request, Goto(w, q), q.obj = reqs[w].obj, q.pc # "dropext", OwnRead(w)', OwnDue(w)'
    PROVE  AccountsInv'
<1>1. UNCHANGED <<live, fresh, foreign, rows, since, members, touched, extid>>
  BY DEF tables, history
<1>2. /\ reqs' \in [Requests -> Request] /\ reqs'[w] = q /\ \A v \in Requests : v # w => reqs'[v] = reqs[v]
  BY GoesOn DEF AccountsInv
<1>3. OnlyMoves(w)
  BY <1>1, <1>2 DEF OnlyMoves
<1>4. OwnObj(w)'
  BY <1>1, <1>2, Standing DEF OwnObj
<1> QED BY <1>1, <1>3, <1>4, SameRows, SameMembers, SameExt, FrameKeeps

LEMMA ReadExternalKeeps ==
    ASSUME AccountsInv, NEW w \in Requests, ReadExternalID(w)
    PROVE  AccountsInv'
<1> DEFINE p == reqs[w]
           q == [p EXCEPT !.pc = "ops", !.ext = extid[p.obj]]
<1>1. p.pc = "ext" /\ Goto(w, q) /\ UNCHANGED <<tables, history>>
  BY DEF ReadExternalID, At
<1>2. OwnRead(w) /\ OwnDue(w) /\ p \in Request /\ extid[p.obj] \in Values
  BY Standing DEF AccountsInv, AccountsTypeOK, Request
<1>3. /\ q \in Request /\ q.pc = "ops" /\ q.obj = p.obj /\ q.row = p.row /\ q.named = p.named
      /\ q.ops = p.ops /\ q.after = p.after /\ q.back = p.back
  BY <1>2 DEF Request
<1> HIDE DEF q
<1>4. reqs'[w] = q
  BY <1>1, <1>3, GoesOn DEF AccountsInv
<1>5. OwnRead(w)'
  BY <1>1, <1>2, <1>3, <1>4 DEF OwnRead, Reads, tables, history
<1>6. OwnDue(w)'
  BY <1>1, <1>2, <1>3, <1>4 DEF OwnDue, Reconciles, At
<1>7. InFlight(w) /\ ~At(w, "dropext")
  BY <1>1 DEF InFlight, At
<1> QED BY <1>1, <1>3, <1>5, <1>6, <1>7, InMemoryKeeps

LEMMA MembersChangedKeeps ==
    ASSUME AccountsInv, NEW w \in Requests, MembersChanged(w)
    PROVE  AccountsInv'
<1> DEFINE p == reqs[w]
           q == [p EXCEPT !.pc = p.back]
<1>1. p.pc = "members" /\ p.todo = {} /\ Goto(w, q) /\ UNCHANGED <<tables, history>>
  BY DEF MembersChanged, At
<1>2. OwnRead(w) /\ OwnDue(w) /\ p \in Request
  BY Standing
<1>3. /\ q \in Request /\ q.pc = p.back /\ q.obj = p.obj /\ q.row = p.row /\ q.named = p.named
      /\ q.ops = p.ops /\ q.after = p.after /\ q.back = p.back /\ q.todo = p.todo /\ q.want = p.want
      /\ p.back \in {"done", "setext", "ops"}
  BY <1>2 DEF Request
<1> HIDE DEF q
<1>4. reqs'[w] = q
  BY <1>1, <1>3, GoesOn DEF AccountsInv
<1>5. OwnRead(w)'
  <2>1. Reads(w)' => Reads(w)
    BY <1>1, <1>3, <1>4 DEF Reads, At
  <2> QED BY <1>1, <1>2, <1>3, <1>4, <2>1 DEF OwnRead, tables, history
<1>6. OwnDue(w)'
  <2>1. Reconciles(w)' => Reconciles(w)
    BY <1>1, <1>3, <1>4 DEF Reconciles
  <2> QED BY <1>1, <1>2, <1>3, <1>4, <2>1 DEF OwnDue, At, tables, history
<1>7. InFlight(w) /\ ~At(w, "dropext")
  BY <1>1 DEF InFlight, At
<1> QED BY <1>1, <1>3, <1>5, <1>6, <1>7, InMemoryKeeps

LEMMA SetExternalKeeps ==
    ASSUME AccountsInv, NEW w \in Requests, SetExternalID(w) \/ DeleteExternalID(w)
    PROVE  AccountsInv'
<1>1. /\ Goto(w, Done) /\ UNCHANGED <<live, fresh, rows, members, since, touched, foreign>>
  BY DEF SetExternalID, DeleteExternalID, history
<1>2. /\ OwnObj(w) /\ reqs[w].obj \in Objects /\ reqs[w].ext \in Values
      /\ extid \in [Objects -> Values] /\ "" \in Values
  BY Standing, AccountsAssumptions DEF Request, AccountsInv, AccountsTypeOK
<1>3. ExtFrame(w)
  <2>1. CASE SetExternalID(w)
    <3>1. reqs[w].pc = "setext" /\ extid' = [extid EXCEPT ![reqs[w].obj] = reqs[w].ext]
      BY <2>1 DEF SetExternalID, At
    <3>2. foreign = {} => reqs[w].obj \in live
      BY <1>2, <3>1 DEF OwnObj, InFlight, At
    <3> QED BY <1>2, <3>1, <3>2 DEF ExtFrame, At, Objects
  <2>2. CASE DeleteExternalID(w)
    <3>1. extid' = [extid EXCEPT ![reqs[w].obj] = ""]
      BY <2>2 DEF DeleteExternalID
    <3> QED BY <1>2, <3>1 DEF ExtFrame, Objects
  <2> QED BY <2>1, <2>2
<1> QED BY <1>1, <1>3, SameRows, SameMembers, OverKeeps

\* What one Operation makes of a request, but for its members.
Applied(p, q) ==
    /\ q \in Request /\ q.obj = p.obj /\ q.ops = p.ops /\ q.after = p.after /\ q.back = p.back
    /\ q.row \in [Attrs(p.obj) -> Values] /\ p.named \subseteq q.named
    /\ \A a \in Attrs(p.obj) \ q.named : q.row[a] = p.row[a]

\* What an operation did to the request without that operation, it did to the
\* request with all of them.
LEMMA AppliedToWhole ==
    ASSUME NEW p \in Request, NEW r, NEW q, Applied(r, q),
           r.obj = p.obj, r.after = p.after, r.back = p.back, r.named = p.named, r.row = p.row
    PROVE  Applied(p, [q EXCEPT !.ops = p.ops])
<1> DEFINE s == [q EXCEPT !.ops = p.ops]
<1>1. q \in Request
  BY DEF Applied
<1>2. p.ops \in Seq(UserOp \cup GroupOp)
  BY DEF Request
<1>3. s \in Request
  BY <1>1, <1>2 DEF Request
<1>4. /\ s.obj = q.obj /\ s.ops = p.ops /\ s.after = q.after /\ s.back = q.back
      /\ s.row = q.row /\ s.named = q.named
  BY <1>1 DEF Request
<1> HIDE DEF s
<1>5. Applied(p, s)
  BY <1>3, <1>4 DEF Applied
<1> QED BY <1>5 DEF s

LEMMA UserOpApplied ==
    ASSUME NEW p \in Request, p.obj \in Users, p.row \in [UserAttrs -> Values], NEW op \in UserOp
    PROVE  Applied(p, ApplyUserOp(p, op)) /\ ApplyUserOp(p, op).pc = p.pc
<1>a. Attrs(p.obj) = UserAttrs
  BY DEF Attrs
<1>0. op.value \in Values /\ op.path \in {"upn", "profile", "active", "externalId"} /\ "" \in Values /\ "true" \in Values
  BY AccountsAssumptions DEF UserOp
<1>1. ValueOrEmpty(op) \in Values
  BY <1>0 DEF ValueOrEmpty
<1>2. CASE op.path = "externalId"
  <2>1. ApplyUserOp(p, op) = [p EXCEPT !.ext = ValueOrEmpty(op)]
    BY <1>2 DEF ApplyUserOp
  <2> QED BY <1>a, <1>1, <2>1 DEF Applied, Request
<1>3. CASE op.path = "upn" /\ op.op = "remove"
  <2>1. ApplyUserOp(p, op) = p
    BY <1>3 DEF ApplyUserOp
  <2> QED BY <1>a, <2>1 DEF Applied
<1>4. CASE op.path # "externalId" /\ ~(op.path = "upn" /\ op.op = "remove")
  <2> DEFINE f == [a \in {op.path} |-> IF a = "active" /\ op.op = "remove" THEN "true" ELSE ValueOrEmpty(op)]
             row == Override(p.row, f)
  <2>1. ApplyUserOp(p, op) = [p EXCEPT !.named = @ \cup {op.path}, !.row = Override(@, f)]
    BY <1>4 DEF ApplyUserOp
  <2>2. DOMAIN f = {op.path} /\ \A a \in DOMAIN f : f[a] \in Values
    BY <1>0, <1>1
  <2> HIDE DEF f
  <2>3. row \in [UserAttrs -> Values] /\ \A a \in UserAttrs \ {op.path} : row[a] = p.row[a]
    BY <2>2, OverrideTyped
  <2>4. ApplyUserOp(p, op) = [p EXCEPT !.named = p.named \cup {op.path}, !.row = row]
    BY <2>1
  <2> HIDE DEF row
  <2>5. p.named \cup {op.path} \in SUBSET (UserAttrs \cup GroupAttrs)
    BY <1>0, <1>4 DEF Request, UserAttrs
  <2> QED BY <1>a, <2>3, <2>4, <2>5, ZenonT(60) DEF Applied, Request
<1> QED BY <1>2, <1>3, <1>4

LEMMA GroupOpApplied ==
    ASSUME NEW p \in Request, p.obj \in Groups, p.row \in [GroupAttrs -> Values], NEW op \in GroupOp, p.pc = "ops"
    PROVE  Applied(p, ApplyGroupOp(p, op)) /\ ApplyGroupOp(p, op).pc \in {"ops", "members"}
<1>a. Attrs(p.obj) = GroupAttrs /\ p.obj \notin Users
  BY AccountsAssumptions DEF Attrs
<1>0. /\ op.path \in {"profile", "externalId", "members"} /\ "" \in Values
      /\ op.path \in {"profile", "externalId"} => op.value \in Values
      /\ op.path = "members" => op.value \in SUBSET Users
  BY AccountsAssumptions DEF GroupOp
<1>2. CASE op.path = "externalId"
  <2>1. ApplyGroupOp(p, op) = [p EXCEPT !.ext = ValueOrEmpty(op)]
    BY <1>2 DEF ApplyGroupOp
  <2>2. ValueOrEmpty(op) \in Values
    BY <1>0, <1>2 DEF ValueOrEmpty
  <2> QED BY <1>a, <2>1, <2>2 DEF Applied, Request
<1>3. CASE op.path = "profile" /\ op.op = "remove"
  <2>1. ApplyGroupOp(p, op) = p
    BY <1>3 DEF ApplyGroupOp
  <2> QED BY <1>a, <2>1 DEF Applied
<1>4. CASE op.path = "profile" /\ op.op # "remove"
  <2> DEFINE f == [profile |-> op.value]
             row == Override(p.row, f)
  <2>1. ApplyGroupOp(p, op) = [p EXCEPT !.named = @ \cup {"profile"}, !.row = Override(@, f)]
    BY <1>4 DEF ApplyGroupOp
  <2>2. DOMAIN f = {"profile"} /\ f["profile"] = op.value
    OBVIOUS
  <2> HIDE DEF f
  <2>3. \A a \in DOMAIN f : f[a] \in Values
    BY <1>0, <1>4, <2>2
  <2>4. row \in [GroupAttrs -> Values] /\ \A a \in GroupAttrs \ {"profile"} : row[a] = p.row[a]
    BY <2>2, <2>3, OverrideTyped
  <2>5. ApplyGroupOp(p, op) = [p EXCEPT !.named = p.named \cup {"profile"}, !.row = row]
    BY <2>1
  <2> HIDE DEF row
  <2>6. p.named \cup {"profile"} \in SUBSET (UserAttrs \cup GroupAttrs)
    BY DEF Request, UserAttrs
  <2> QED BY <1>a, <2>4, <2>5, <2>6, ZenonT(60) DEF Applied, Request
<1>5. CASE op.path = "members"
  <2> DEFINE S == IF op.op = "remove" /\ op.value = {} THEN {u \in Users : <<p.obj, u>> \in members} ELSE op.value
             verb == IF op.op = "remove" THEN "remove" ELSE "add"
             todo == {<<verb, u>> : u \in S}
  <2>1. ApplyGroupOp(p, op) = [p EXCEPT !.pc = "members", !.todo = todo]
    BY <1>5 DEF ApplyGroupOp
  <2>2. S \subseteq Users /\ verb \in {"add", "remove"}
    BY <1>0, <1>5
  <2> HIDE DEF S, verb
  <2>3. todo \in SUBSET ({"add", "remove"} \X Users)
    BY <2>2
  <2> HIDE DEF todo
  <2> QED BY <1>a, <2>1, <2>3 DEF Applied, Request
<1> QED BY <1>0, <1>2, <1>3, <1>4, <1>5

LEMMA ApplyOpsKeeps ==
    ASSUME AccountsInv, NEW w \in Requests, ApplyOps(w)
    PROVE  AccountsInv'
<1> DEFINE p == reqs[w]
           r == [p EXCEPT !.ops = Tail(@)]
<1>1. p.pc = "ops" /\ UNCHANGED <<tables, history>>
  BY DEF ApplyOps, At
<1>2. /\ OwnRead(w) /\ OwnDue(w) /\ p \in Request /\ Reads(w) /\ InFlight(w) /\ ~At(w, "dropext")
      /\ p.obj \in Objects /\ p.after # "list"
  BY <1>1, Standing DEF Reads, InFlight, At, OwnDue, Request
<1>3. /\ p.row \in [Attrs(p.obj) -> Values] /\ p.ops \in IF p.obj \in Users THEN Seq(UserOp) ELSE Seq(GroupOp)
  BY <1>2 DEF OwnRead
<1>k. ASSUME NEW q, Goto(w, q), Applied(p, [q EXCEPT !.ops = p.ops]), q \in Request, q.pc \in {"ops", "members", "update"},
             q.pc = "members" => p.obj \in Groups,
             q.ops \in IF p.obj \in Users THEN Seq(UserOp) ELSE Seq(GroupOp)
      PROVE  AccountsInv'
  <2>1. /\ q.obj = p.obj /\ q.after = p.after /\ q.back = p.back /\ q.row \in [Attrs(p.obj) -> Values]
        /\ p.named \subseteq q.named /\ \A a \in Attrs(p.obj) \ q.named : q.row[a] = p.row[a]
    BY <1>k DEF Applied, Request
  <2>2. reqs'[w] = q
    BY <1>k, GoesOn DEF AccountsInv
  <2>3. OwnRead(w)'
    BY <1>1, <1>2, <1>k, <2>1, <2>2 DEF OwnRead, tables, history
  <2>4. OwnDue(w)'
    BY <1>2, <1>k, <2>1, <2>2 DEF OwnDue, Reconciles, At
  <2> QED BY <1>1, <1>2, <1>k, <2>1, <2>3, <2>4, InMemoryKeeps
<1>4. CASE p.ops = <<>>
  <2> DEFINE q == [p EXCEPT !.pc = "update"]
  <2>1. Goto(w, q)
    BY <1>4 DEF ApplyOps
  <2>2. q \in Request /\ q.pc = "update" /\ q.ops = p.ops
    BY <1>2 DEF Request
  <2>3. Applied(p, [q EXCEPT !.ops = p.ops])
    BY <1>2, <1>3 DEF Applied, Request
  <2> HIDE DEF q
  <2> QED BY <1>3, <1>k, <2>1, <2>2, <2>3
<1>5. CASE p.ops # <<>> /\ p.obj \in Users
  <2> DEFINE op == Head(p.ops)
             q == ApplyUserOp(r, op)
  <2>1. Goto(w, q)
    BY <1>5 DEF ApplyOps
  <2>2. op \in UserOp /\ Tail(p.ops) \in Seq(UserOp)
    BY <1>3, <1>5
  <2>3. Tail(p.ops) \in Seq(UserOp \cup GroupOp)
    BY <1>2, <1>5 DEF Request
  <2>4. /\ r \in Request /\ r.obj = p.obj /\ r.row = p.row /\ r.ops = Tail(p.ops) /\ r.after = p.after
        /\ r.back = p.back /\ r.named = p.named /\ r.pc = "ops"
    BY <1>1, <1>2, <2>3 DEF Request
  <2> HIDE DEF r
  <2>5. Attrs(p.obj) = UserAttrs
    BY <1>5 DEF Attrs
  <2>6. Applied(r, q) /\ q.pc = "ops"
    BY <1>3, <1>5, <2>2, <2>4, <2>5, UserOpApplied
  <2> HIDE DEF q, op
  <2>7. q \in Request /\ q.ops \in Seq(UserOp)
    BY <2>2, <2>4, <2>6 DEF Applied
  <2>8. Applied(p, [q EXCEPT !.ops = p.ops])
    BY <1>2, <2>4, <2>6, AppliedToWhole
  <2> QED BY <1>5, <1>k, <2>1, <2>6, <2>7, <2>8
<1>6. CASE p.ops # <<>> /\ p.obj \notin Users
  <2> DEFINE op == Head(p.ops)
             q == ApplyGroupOp(r, op)
  <2>0. p.obj \in Groups
    BY <1>2, <1>6 DEF Objects
  <2>1. Goto(w, q)
    BY <1>6 DEF ApplyOps
  <2>2. op \in GroupOp /\ Tail(p.ops) \in Seq(GroupOp)
    BY <1>3, <1>6
  <2>3. Tail(p.ops) \in Seq(UserOp \cup GroupOp)
    BY <1>2, <1>6 DEF Request
  <2>4. /\ r \in Request /\ r.obj = p.obj /\ r.row = p.row /\ r.ops = Tail(p.ops) /\ r.after = p.after
        /\ r.back = p.back /\ r.named = p.named /\ r.pc = "ops"
    BY <1>1, <1>2, <2>3 DEF Request
  <2> HIDE DEF r
  <2>5. Attrs(p.obj) = GroupAttrs
    BY <1>6 DEF Attrs
  <2>6. Applied(r, q) /\ q.pc \in {"ops", "members"}
    BY <1>3, <2>0, <2>2, <2>4, <2>5, GroupOpApplied
  <2> HIDE DEF q, op
  <2>7. q \in Request /\ q.ops \in Seq(GroupOp)
    BY <2>2, <2>4, <2>6 DEF Applied
  <2>8. Applied(p, [q EXCEPT !.ops = p.ops])
    BY <1>2, <2>4, <2>6, AppliedToWhole
  <2> QED BY <1>6, <1>k, <2>0, <2>1, <2>6, <2>7, <2>8
<1> QED BY <1>4, <1>5, <1>6

LEMMA WriteRowKeeps ==
    ASSUME AccountsInv, NEW w \in Requests, WriteRow(w)
    PROVE  AccountsInv'
<1> DEFINE p == reqs[w]
           A == {a \in Attrs(p.obj) : p.row[a] # rows[p.obj][a]}
<1>1. /\ p.pc = "update" /\ UNCHANGED <<live, fresh, members, extid, touched, foreign>>
  BY DEF WriteRow, At
<1>2. /\ OwnRead(w) /\ OwnDue(w) /\ OwnObj(w) /\ p \in Request /\ Reads(w) /\ InFlight(w) /\ ~At(w, "dropext")
      /\ p.obj \in Objects
  BY <1>1, Standing DEF Reads, InFlight, At, Request
<1>3. p.row \in [Attrs(p.obj) -> Values]
  BY <1>2 DEF OwnRead
<1>4. MembersFrame(w) /\ ExtFrame(w)
  BY <1>1, <1>2, SameMembers, SameExt
<1>5. CASE Goto(w, Done) /\ rows' = rows /\ since' = since
  BY <1>1, <1>4, <1>5, SameRows, OverKeeps
<1>6. CASE /\ p.obj \in live /\ rows' = [rows EXCEPT ![p.obj] = p.row] /\ since' = Noted(p.obj, A, w)
           /\ Goto(w, IF p.after = "done" THEN Done ELSE [p EXCEPT !.pc = p.after])
  <2>1. /\ rows \in [Objects -> RowType] /\ \A o \in live : rows[o] \in [Attrs(o) -> Values]
        /\ since \in [Requests -> SUBSET (UserAttrs \cup GroupAttrs)]
    BY DEF AccountsInv, AccountsTypeOK, RowType
  <2>2. /\ rows' \in [Objects -> RowType] /\ \A o \in live : rows'[o] \in [Attrs(o) -> Values]
    <3>1. p.row \in RowType
      BY <1>2 DEF Request, RowType
    <3> QED BY <1>2, <1>3, <1>6, <2>1, <3>1
  <2>3. since' = [v \in Requests |-> IF v # w /\ InFlight(v) /\ reqs[v].obj = p.obj THEN since[v] \cup A ELSE since[v]]
    BY <1>6 DEF Noted
  <2>4. A \subseteq UserAttrs \cup GroupAttrs
    BY DEF Attrs
  <2>5. \A a \in Attrs(p.obj) \ A : p.row[a] = rows[p.obj][a]
    OBVIOUS
  <2> HIDE DEF A
  <2>6. since' \in [Requests -> SUBSET (UserAttrs \cup GroupAttrs)]
    BY <2>1, <2>3, <2>4
  <2>7. ASSUME NEW v \in Requests, v # w
        PROVE  /\ since[v] \subseteq since'[v]
               /\ InFlight(v) /\ reqs[v].obj \in live => \A a \in Attrs(reqs[v].obj) \ since'[v] :
                     rows'[reqs[v].obj][a] = rows[reqs[v].obj][a]
    <3>1. CASE reqs[v].obj # p.obj
      BY <1>6, <2>1, <2>3, <2>7, <3>1 DEF AccountsInv, AccountsTypeOK
    <3>2. CASE reqs[v].obj = p.obj
      <4>1. since[v] \subseteq since'[v] /\ (InFlight(v) => A \subseteq since'[v])
        BY <2>3, <2>7, <3>2
      <4>2. rows'[p.obj] = p.row
        BY <1>2, <1>6, <2>1
      <4> QED BY <2>5, <3>2, <4>1, <4>2
    <3> QED BY <3>1, <3>2
  <2>8. RowsFrame(w)
    BY <2>2, <2>6, <2>7 DEF RowsFrame
  <2>9. CASE p.after = "done"
    BY <1>1, <1>4, <1>6, <2>8, <2>9, OverKeeps
  <2>10. CASE p.after # "done"
    <3> DEFINE q == [p EXCEPT !.pc = p.after]
    <3>1. /\ q \in Request /\ q.pc = p.after /\ q.pc \in {"setext", "list"} /\ q.obj = p.obj /\ q.after = p.after
          /\ q.back = p.back
      BY <1>2, <2>10 DEF Request
    <3>2. Goto(w, q)
      BY <1>6, <2>10
    <3> HIDE DEF q
    <3>3. /\ reqs' \in [Requests -> Request] /\ reqs'[w] = q /\ \A v \in Requests : v # w => reqs'[v] = reqs[v]
      BY <3>1, <3>2, GoesOn DEF AccountsInv
    <3>4. OnlyMoves(w)
      BY <1>1, <3>3 DEF OnlyMoves
    <3>5. OwnRead(w)' /\ OwnDue(w)' /\ OwnObj(w)'
      BY <1>1, <1>2, <3>1, <3>3 DEF OwnRead, OwnDue, OwnObj, Reads, Reconciles, InFlight, At
    <3> QED BY <1>4, <2>8, <3>4, <3>5, FrameKeeps
  <2> QED BY <2>9, <2>10
<1> QED BY <1>5, <1>6 DEF WriteRow

LEMMA ListKeeps ==
    ASSUME AccountsInv, NEW w \in Requests, ListGroupMembers(w)
    PROVE  AccountsInv'
<1> DEFINE p == reqs[w]
           have == {u \in Users : <<p.obj, u>> \in members}
           todo == Reconciled(have, p.want)
           q == [p EXCEPT !.pc = "members", !.todo = todo]
<1>1. /\ p.pc = "list" /\ Goto(w, q) /\ UNCHANGED <<live, fresh, rows, members, extid, since, foreign>>
      /\ touched' = [touched EXCEPT ![w] = {}]
  BY DEF ListGroupMembers, At, tables
<1>2. /\ OwnDue(w) /\ OwnObj(w) /\ p \in Request /\ InFlight(w) /\ ~At(w, "dropext") /\ p.want \subseteq Users
  BY <1>1, Standing DEF InFlight, At, Request
<1>3. p.after = "list" /\ p.back = "setext" /\ p.obj \in Groups
  BY <1>1, <1>2 DEF OwnDue, At
<1>4. have \subseteq live /\ have \subseteq Users
  BY DEF AccountsInv, AccountsTypeOK
<1>5. \A u : /\ u \in have <=> u \in Users /\ <<p.obj, u>> \in members
  OBVIOUS
<1> HIDE DEF have
<1>6. /\ todo \in SUBSET ({"add", "remove"} \X Users)
      /\ \A u : (<<"add", u>> \in todo <=> u \in p.want \ have) /\ (<<"remove", u>> \in todo <=> u \in have \ p.want)
  BY <1>2, <1>4 DEF Reconciled
<1> HIDE DEF todo
<1>7. /\ q \in Request /\ q.pc = "members" /\ q.obj = p.obj /\ q.after = "list" /\ q.back = "setext"
      /\ q.todo = todo /\ q.want = p.want
  BY <1>2, <1>3, <1>6 DEF Request
<1> HIDE DEF q
<1>8. /\ reqs' \in [Requests -> Request] /\ reqs'[w] = q /\ \A v \in Requests : v # w => reqs'[v] = reqs[v]
  BY <1>1, <1>7, GoesOn DEF AccountsInv
<1>9. OnlyMoves(w) /\ OwnRead(w)' /\ OwnObj(w)'
  BY <1>1, <1>2, <1>7, <1>8 DEF OnlyMoves, OwnRead, OwnObj, Reads, InFlight, At
<1>10. OwnDue(w)'
  BY <1>1, <1>3, <1>4, <1>5, <1>6, <1>7, <1>8 DEF OwnDue, Reconciles, At
<1> QED BY <1>1, <1>2, <1>9, <1>10, SameRows, SameMembers, SameExt, FrameKeeps

LEMMA ChangeMemberKeeps ==
    ASSUME AccountsInv, NEW w \in Requests, ChangeMember(w)
    PROVE  AccountsInv'
<1> DEFINE p == reqs[w]
<1>0. PICK t \in p.todo :
        /\ Goto(w, [p EXCEPT !.todo = @ \ {t}])
        /\ members' = IF t[1] = "add" THEN WithMember(p.obj, t[2]) ELSE WithoutMember(p.obj, t[2])
        /\ touched' = IF members' = members THEN touched ELSE Moved(p.obj, {t[2]}, w)
  BY DEF ChangeMember
<1> DEFINE q == [p EXCEPT !.todo = p.todo \ {t}]
<1>1. /\ p.pc = "members" /\ UNCHANGED <<live, fresh, rows, extid, since, foreign>>
  BY DEF ChangeMember, At
<1>2. /\ OwnRead(w) /\ OwnDue(w) /\ OwnObj(w) /\ p \in Request /\ InFlight(w) /\ ~At(w, "dropext")
      /\ p.todo \subseteq {"add", "remove"} \X Users
  BY <1>1, Standing DEF InFlight, At, Request
<1>3. p.obj \in Groups
  BY <1>1, <1>2 DEF OwnDue, At
<1>4. PICK u \in Users : t = <<"add", u>> \/ t = <<"remove", u>>
  BY <1>2
<1>5. /\ t = <<"add", u>> => members' = WithMember(p.obj, u)
      /\ t = <<"remove", u>> => members' = WithoutMember(p.obj, u)
      /\ touched' = IF members' = members THEN touched ELSE Moved(p.obj, {u}, w)
  BY <1>0, <1>4
<1>6. MembersFrame(w)
  BY <1>3, <1>4, <1>5, MovedFrame
<1>7. /\ q \in Request /\ q.pc = "members" /\ q.obj = p.obj /\ q.after = p.after /\ q.back = p.back
      /\ q.todo = p.todo \ {t} /\ q.want = p.want /\ q.row = p.row /\ q.named = p.named /\ q.ops = p.ops
  BY <1>1, <1>2 DEF Request
<1>8. Goto(w, q)
  BY <1>0
<1> HIDE DEF q
<1>9. /\ reqs' \in [Requests -> Request] /\ reqs'[w] = q /\ \A v \in Requests : v # w => reqs'[v] = reqs[v]
  BY <1>7, <1>8, GoesOn DEF AccountsInv
<1>10. OnlyMoves(w) /\ OwnObj(w)'
  BY <1>1, <1>2, <1>7, <1>9 DEF OnlyMoves, OwnObj, InFlight, At
<1>11. OwnRead(w)'
  <2>1. Reads(w)' <=> Reads(w)
    BY <1>1, <1>7, <1>9 DEF Reads, At
  <2> QED BY <1>1, <1>2, <1>7, <1>9, <2>1 DEF OwnRead
<1>12. OwnDue(w)'
  <2>1. touched'[w] = touched[w]
    BY <1>5 DEF Moved, AccountsInv, AccountsTypeOK
  <2>2. (Reconciles(w)' <=> Reconciles(w)) /\ ~At(w, "setext")' /\ ~At(w, "list")'
    BY <1>1, <1>7, <1>9 DEF Reconciles, At
  <2>3. ASSUME Reconciles(w), p.obj \in live, NEW v \in Users \ touched[w]
        PROVE  /\ <<"add", v>> \in q.todo => v \in p.want /\ <<p.obj, v>> \notin members'
               /\ <<"remove", v>> \in q.todo => v \notin p.want
               /\ {<<"add", v>>, <<"remove", v>>} \cap q.todo = {} =>
                     (<<p.obj, v>> \in members' <=> v \in p.want \cap live)
    <3>1. /\ <<"add", v>> \in p.todo => v \in p.want /\ <<p.obj, v>> \notin members
          /\ <<"remove", v>> \in p.todo => v \notin p.want
          /\ {<<"add", v>>, <<"remove", v>>} \cap p.todo = {} => (<<p.obj, v>> \in members <=> v \in p.want \cap live)
      BY <1>2, <2>3 DEF OwnDue
    <3>2. CASE v # u
      <4>1. <<p.obj, v>> \in members' <=> <<p.obj, v>> \in members
        BY <1>4, <1>5, <3>2 DEF WithMember, WithoutMember
      <4>2. <<"add", v>> # t /\ <<"remove", v>> # t
        BY <1>4, <3>2
      <4> QED BY <1>7, <3>1, <4>1, <4>2
    <3>3. CASE v = u /\ t = <<"add", u>>
      <4>1. <<p.obj, u>> \in members' <=> u \in live \/ <<p.obj, u>> \in members
        BY <1>5, <2>3, <3>3 DEF WithMember
      <4>2. v \in p.want /\ <<p.obj, v>> \notin members /\ <<"remove", v>> \notin p.todo
        BY <3>1, <3>3
      <4> QED BY <1>7, <3>3, <4>1, <4>2
    <3>4. CASE v = u /\ t = <<"remove", u>>
      <4>1. <<p.obj, u>> \notin members'
        BY <1>5, <3>4 DEF WithoutMember
      <4>2. v \notin p.want /\ <<"add", v>> \notin p.todo
        BY <3>1, <3>4
      <4> QED BY <1>7, <3>4, <4>1, <4>2
    <3> QED BY <1>4, <3>2, <3>3, <3>4
  <2> QED BY <1>1, <1>2, <1>3, <1>7, <1>9, <2>1, <2>2, <2>3 DEF OwnDue
<1> QED BY <1>1, <1>2, <1>6, <1>10, <1>11, <1>12, SameRows, SameExt, FrameKeeps

LEMMA GoOnKeeps ==
    ASSUME AccountsInv, NEW w \in Requests, GoOn(w)
    PROVE  AccountsInv'
BY ReadExternalKeeps, ApplyOpsKeeps, WriteRowKeeps, ListKeeps, ChangeMemberKeeps, MembersChangedKeeps,
   SetExternalKeeps DEF GoOn

LEMMA AccountsInitially == ASSUME AccountsInit PROVE AccountsInv
<1> USE AccountsAssumptions
<1>1. /\ fresh \subseteq Objects /\ live = Objects \ fresh
      /\ rows = [o \in Objects |-> IF o \in live THEN Row0[o] ELSE NoRow]
      /\ members = {<<g, CHOOSE u \in Users : TRUE>> : g \in Groups} \cap (live \X live)
      /\ extid = [o \in Objects |-> IF o \in live THEN Ext0[o] ELSE ""]
      /\ reqs = [w \in Requests |-> NewRequest]
      /\ since = [w \in Requests |-> {}] /\ touched = [w \in Requests |-> {}] /\ foreign = {}
  BY DEF AccountsInit
<1>2. \A w \in Requests : reqs[w] = NewRequest
  BY <1>1
<1>3. \A w \in Requests : ~Reads(w) /\ ~Reconciles(w) /\ ~InFlight(w) /\ ~At(w, "members") /\ ~At(w, "list")
  BY <1>2, NewRequestTyped DEF Reads, Reconciles, InFlight, At
<1>4. members \subseteq (live \cap Groups) \X (live \cap Users)
  <2> DEFINE c == CHOOSE u \in Users : TRUE
  <2>1. c \in Users
    OBVIOUS
  <2>2. members = {<<g, c>> : g \in Groups} \cap (live \X live)
    BY <1>1
  <2> HIDE DEF c, AccountsAssumptions
  <2>3. ASSUME NEW m \in members PROVE m \in (live \cap Groups) \X (live \cap Users)
    <3>1. PICK g \in Groups : m = <<g, c>>
      BY <2>2
    <3>2. g \in live /\ c \in live
      BY <2>2, <3>1
    <3> QED BY <2>1, <3>1, <3>2
  <2> QED BY <2>3
<1>5. /\ rows \in [Objects -> RowType] /\ \A o \in live : rows[o] \in [Attrs(o) -> Values]
  <2>1. \A o \in Objects : Row0[o] \in RowType
    BY DEF RowType, Attrs
  <2>2. NoRow \in RowType
    BY DEF RowType
  <2> QED BY <1>1, <2>1, <2>2
<1>6. extid \in [Objects -> Values] /\ \A u \in Users \ live : extid[u] = ""
  BY <1>1 DEF Objects
<1>7. /\ reqs \in [Requests -> Request] /\ since \in [Requests -> SUBSET (UserAttrs \cup GroupAttrs)]
      /\ touched \in [Requests -> SUBSET Users]
  BY <1>1, NewRequestTyped
<1>8. AccountsTypeOK
  BY <1>1, <1>3, <1>4, <1>5, <1>6, <1>7 DEF AccountsTypeOK, RowType
<1>9. OnceThere /\ RowsRead
  BY <1>3 DEF OnceThere, RowsRead
<1>10. MembersDue
  BY <1>2, <1>3, NewRequestTyped DEF MembersDue
<1>11. MappingsDue
  BY <1>3, <1>6 DEF MappingsDue
<1> QED BY <1>8, <1>9, <1>10, <1>11 DEF AccountsInv

LEMMA AccountsStep == ASSUME AccountsInv, [PasskeysNext]_passkeysVars PROVE AccountsInv'
<1>1. CASE UNCHANGED accountVars
  <2>1. UNCHANGED <<live, fresh, rows, members, extid, reqs, since, touched, foreign>>
    BY <1>1 DEF accountVars, tables, history
  <2>2. \A w \in Requests : /\ (Reads(w)' <=> Reads(w)) /\ (Reconciles(w)' <=> Reconciles(w))
                            /\ (InFlight(w)' <=> InFlight(w)) /\ \A l : At(w, l)' <=> At(w, l)
    BY <2>1 DEF Reads, Reconciles, InFlight, At
  <2>3. AccountsTypeOK'
    BY <2>1, <2>2 DEF AccountsInv, AccountsTypeOK
  <2>4. OnceThere' /\ RowsRead'
    BY <2>1, <2>2 DEF AccountsInv, OnceThere, RowsRead
  <2>5. MembersDue'
    BY <2>1, <2>2 DEF AccountsInv, MembersDue
  <2>6. MappingsDue'
    BY <2>1, <2>2 DEF AccountsInv, MappingsDue
  <2> QED BY <2>3, <2>4, <2>5, <2>6 DEF AccountsInv
<1> QED BY <1>1, BeginKeeps, GoOnKeeps DEF PasskeysNext, passkeysVars

\* Types (store/directory.go, store/scimext.go).
THEOREM AccountsTyped == PasskeysSpec => []AccountsTypeOK
<1>1. PasskeysInit => AccountsInv
  BY AccountsInitially DEF PasskeysInit
<1>2. AccountsInv /\ [PasskeysNext]_passkeysVars => AccountsInv'
  BY AccountsStep
<1>3. AccountsInv => AccountsTypeOK
  BY DEF AccountsInv
<1> QED BY <1>1, <1>2, <1>3, PTL DEF PasskeysSpec

\* A PUT of a group makes its members the submitted ones, but for those that
\* others changed meanwhile (replaceGroup).
THEOREM MembershipIsExact == PasskeysSpec => []MembershipExact
<1>1. PasskeysInit => AccountsInv
  BY AccountsInitially DEF PasskeysInit
<1>2. AccountsInv /\ [PasskeysNext]_passkeysVars => AccountsInv'
  BY AccountsStep
<1>3. AccountsInv => MembershipExact
  <2> SUFFICES ASSUME AccountsInv, NEW w \in Requests, At(w, "setext"), reqs[w].after = "list", reqs[w].obj \in live,
                      NEW u \in Users \ touched[w]
               PROVE  <<reqs[w].obj, u>> \in members <=> u \in reqs[w].want \cap live
    BY DEF MembershipExact
  <2>1. Reconciles(w) /\ reqs[w].todo = {}
    BY DEF AccountsInv, MembersDue, Reconciles, At
  <2> QED BY <2>1 DEF AccountsInv, MembersDue
<1> QED BY <1>1, <1>2, <1>3, PTL DEF PasskeysSpec

\* A provisioning client finds a live user by its externalId as long as every
\* deletion came through SCIM and met no other request (listUsers).
THEOREM CorrelationIsFound == PasskeysSpec => []CorrelationFinds
<1>1. PasskeysInit => AccountsInv
  BY AccountsInitially DEF PasskeysInit
<1>2. AccountsInv /\ [PasskeysNext]_passkeysVars => AccountsInv'
  BY AccountsStep
<1>3. AccountsInv => CorrelationFinds
  BY DEF AccountsInv, MappingsDue, CorrelationFinds, ListUsers, FindByExternalID
<1> QED BY <1>1, <1>2, <1>3, PTL DEF PasskeysSpec

\* Who changes a request: its own steps, each at its place.
LEMMA BeginMoves ==
    ASSUME AccountsTypeOK, NEW v \in Requests, NEW w \in Requests, BeginRequest(v), reqs'[w] # reqs[w]
    PROVE  v = w /\ reqs[w].pc = "new"
<1>1. /\ Begins(v) /\ \E q : Goto(v, q)
  BY DEF BeginRequest, BeginCreate, BeginUpdate, CreateUser, GraphCreateUser, ScimCreateUser, CreateInvitation,
         CreateGroup, GraphCreateGroup, ScimCreateGroup, InsertRow, PatchUser, UpdateUser, PatchGroup, UpdateGroup,
         ResetPassword, RedeemInvitation, ReplaceUser, ReplaceGroup, ScimPatchUser, ScimPatchGroup, ReadRow,
         DeleteUser, ScimDeleteUser, DeleteGroup, ScimDeleteGroup, SoftDelete, DeleteRow, AddMember, RemoveMember,
         ChangeMembership
<1> QED BY <1>1 DEF Begins, Goto, AccountsTypeOK

LEMMA GoOnMoves ==
    ASSUME AccountsTypeOK, NEW v \in Requests, NEW w \in Requests, GoOn(v), reqs'[w] # reqs[w], reqs[w].pc = "update"
    PROVE  v = w /\ WriteRow(w)
<1>1. \E q : Goto(v, q)
  BY DEF GoOn, ReadExternalID, ApplyOps, WriteRow, ListGroupMembers, ChangeMember, MembersChanged, SetExternalID,
         DeleteExternalID
<1>2. v = w
  BY <1>1 DEF Goto, AccountsTypeOK
<1> QED BY <1>2 DEF GoOn, ReadExternalID, ApplyOps, ListGroupMembers, ChangeMember, MembersChanged, SetExternalID,
                    DeleteExternalID, At

\* An update undoes nothing that was written before the request read the row
\* (UpdateUser and UpdateGroup write the whole row).
THEOREM UpdatesAreSafe == PasskeysSpec => UpdatesLostOnlyToOverlap
<1>1. PasskeysInit => AccountsInv
  BY AccountsInitially DEF PasskeysInit
<1>2. AccountsInv /\ [PasskeysNext]_passkeysVars => AccountsInv'
  BY AccountsStep
<1>3. AccountsInv /\ [PasskeysNext]_passkeysVars =>
        [\A w \in Requests :
            LET q == reqs[w] IN
            At(w, "update") /\ q.obj \in live /\ reqs'[w] # q =>
                \A a \in Attrs(q.obj) \ (q.named \cup since[w]) :
                    rows'[q.obj][a] = rows[q.obj][a]]_accountVars
  <2> SUFFICES ASSUME AccountsInv, [PasskeysNext]_passkeysVars, NEW w \in Requests, At(w, "update"), reqs[w].obj \in live,
                      reqs'[w] # reqs[w], NEW a \in Attrs(reqs[w].obj) \ (reqs[w].named \cup since[w])
               PROVE  rows'[reqs[w].obj][a] = rows[reqs[w].obj][a]
    OBVIOUS
  <2>0. /\ AccountsTypeOK /\ reqs[w].pc = "update" /\ reqs[w].obj \in Objects
        /\ rows \in [Objects -> RowType] /\ RowsRead
    BY DEF AccountsInv, AccountsTypeOK, At, RowType
  <2>1. WriteRow(w)
    <3>1. ~UNCHANGED accountVars
      BY DEF accountVars
    <3>2. CASE \E v \in Requests : BeginRequest(v)
      BY <2>0, <3>2, BeginMoves
    <3>3. CASE \E v \in Requests : GoOn(v)
      BY <2>0, <3>3, GoOnMoves
    <3> QED BY <3>1, <3>2, <3>3 DEF PasskeysNext, passkeysVars
  <2>2. rows' = rows \/ rows' = [rows EXCEPT ![reqs[w].obj] = reqs[w].row]
    BY <2>1 DEF WriteRow
  <2>3. reqs[w].row[a] = rows[reqs[w].obj][a]
    BY <2>0 DEF RowsRead, Reads
  <2> QED BY <2>0, <2>2, <2>3
<1> QED BY <1>1, <1>2, <1>3, PTL DEF PasskeysSpec, UpdatesLostOnlyToOverlap

-----------------------------------------------------------------------------
\* Ceremonies and counters

LEMMA NewFinishTyped ==
    /\ NewFinish \in FinishRequest /\ NewFinish.pc = "new" /\ NoSession \in Session /\ NoSession.kind = "none"
    /\ NoKey \in [user: Users, count: Nat, stored: BOOLEAN] /\ NoKey.stored = FALSE
    /\ FinDone \in FinishRequest /\ FinDone.pc = "done"
<1>1. /\ (CHOOSE u \in Users : TRUE) \in Users /\ (CHOOSE c \in Ceremonies : TRUE) \in Ceremonies
      /\ (CHOOSE k \in Keys : TRUE) \in Keys /\ "" \in Values
  BY AccountsAssumptions, PasskeysAssumptions
<1>2. NoSession \in Session /\ NoSession.kind = "none"
  BY <1>1 DEF NoSession, Session
<1>3. NoKey \in [user: Users, count: Nat, stored: BOOLEAN] /\ NoKey.stored = FALSE
  BY <1>1 DEF NoKey
<1>4. NewFinish \in FinishRequest /\ NewFinish.pc = "new"
  BY <1>1, <1>2 DEF NewFinish, FinishRequest
<1>5. FinDone \in FinishRequest /\ FinDone.pc = "done"
  BY <1>4 DEF FinDone, FinishRequest
<1> QED BY <1>2, <1>3, <1>4, <1>5

\* FinishRequest request f goes on as q, and only it.
FinMoves(f, q) ==
    /\ q \in FinishRequest /\ fins' \in [Finishes -> FinishRequest] /\ fins'[f] = q
    /\ \A g \in Finishes : g # f => fins'[g] = fins[g]

LEMMA FinGoesOn ==
    ASSUME KeysTypeOK, NEW f \in Finishes, NEW q \in FinishRequest, Fin(f, q)
    PROVE  FinMoves(f, q)
BY DEF KeysTypeOK, Fin, FinMoves

\* A finish request stays with the ceremony it has taken.
LEMMA TakenStays ==
    ASSUME KeysInv, NEW f \in Finishes, NEW q, FinMoves(f, q), UNCHANGED <<waSess, begun>>,
           fins[f].pc \notin {"new", "take", "done"},
           q.pc = "done" \/ (q.pc \notin {"new", "take", "done"} /\ q.c = fins[f].c),
           outcomes' = outcomes \/ outcomes' = outcomes \cup {<<fins[f].c, f>>}
    PROVE  TakenOnce'
<1>1. \A g \in Finishes, c \in Ceremonies : Taken(g, c)' => Taken(g, c)
  <2> SUFFICES ASSUME NEW g \in Finishes, NEW c \in Ceremonies, Taken(g, c)' PROVE Taken(g, c)
    OBVIOUS
  <2>1. CASE <<c, g>> \in outcomes'
    BY <2>1 DEF Taken
  <2>2. CASE <<c, g>> \notin outcomes'
    BY <2>2 DEF Taken, FinMoves
  <2> QED BY <2>1, <2>2
<1> QED BY <1>1 DEF KeysInv, TakenOnce

\* The clauses about counters when a finish request goes on or ends and the passkeys
\* stay.
LEMMA CountersStay ==
    ASSUME KeysInv, NEW f \in Finishes, NEW q, FinMoves(f, q), UNCHANGED <<passkeys, signed, begun>>,
           fins[f].pc \notin {"new", "done"}, q.pc \notin {"new", "take"},
           q.pc # "done" => q.key = fins[f].key /\ q.count = fins[f].count,
           q.pc \in {"register", "insert"} => fins[f].pc \in {"take", "register", "insert"} /\ q.count = 0,
           q.pc = "count" => passkeys[q.key].stored /\ q.new >= passkeys[q.key].count,
           stale \subseteq stale' \cup {f}
    PROVE  CountersDue'
<1>1. fins' \in [Finishes -> FinishRequest] /\ fins'[f] = q /\ \A g \in Finishes : g # f => fins'[g] = fins[g]
  BY DEF FinMoves
<1>2. \A g \in Finishes, k \in Keys : Registers(g, k)' => Registers(g, k)
  BY <1>1 DEF Registers
<1>3. \A g \in Finishes, k \in Keys : fins'[g].pc = "count" /\ fins'[g].key = k /\ (g # f \/ q.pc # "count") =>
        fins[g].pc = "count" /\ fins[g].key = k
  BY <1>1
<1>4. \A g \in Finishes : fins'[g].pc \notin {"new", "done"} => signed[fins'[g].key] # NotMade
  BY <1>1 DEF KeysInv, CountersDue
<1>5. \A g \in Finishes : fins'[g].pc = "take" => begun[fins'[g].c] = IF fins'[g].count = 0 THEN "register" ELSE "assert"
  BY <1>1 DEF KeysInv, CountersDue
<1>6. \A g \in Finishes : fins'[g].pc \in {"register", "insert"} => fins'[g].count = 0
  BY <1>1 DEF KeysInv, CountersDue
<1>7. \A g, h \in Finishes, k \in Keys : Registers(g, k)' /\ Registers(h, k)' => g = h
  BY <1>2 DEF KeysInv, CountersDue
<1>8. \A g, h \in Finishes, k \in Keys : Registers(g, k)' => ~passkeys[k].stored /\ ~(fins'[h].pc = "count" /\ fins'[h].key = k)
  BY <1>1, <1>2, <1>3 DEF KeysInv, CountersDue
<1>9. \A g \in Finishes : fins'[g].pc = "count" /\ g \notin stale' /\ passkeys[fins'[g].key].stored =>
        fins'[g].new >= passkeys[fins'[g].key].count
  BY <1>1 DEF KeysInv, CountersDue
<1>10. \A k \in Keys : passkeys[k].stored => signed[k] # NotMade
  BY DEF KeysInv, CountersDue
<1> QED BY <1>4, <1>5, <1>6, <1>7, <1>8, <1>9, <1>10 DEF CountersDue

LEMMA StoreKeeps ==
    ASSUME KeysInv, NEW c \in Ceremonies, NEW sess \in Session, sess.kind # "none", StoreCeremony(c, sess)
    PROVE  KeysInv'
<1>1. /\ begun[c] = "none" /\ begun' = [begun EXCEPT ![c] = sess.kind] /\ waSess' = [waSess EXCEPT ![c] = sess]
      /\ UNCHANGED <<passkeys, fins, signed, outcomes, stale>>
  BY DEF StoreCeremony
<1>2. /\ waSess \in [Ceremonies -> Session] /\ begun \in [Ceremonies -> {"none", "register", "assert"}]
      /\ fins \in [Finishes -> FinishRequest] /\ sess.kind \in {"none", "register", "assert"}
  BY DEF KeysInv, KeysTypeOK, Session
<1>3. KeysTypeOK'
  BY <1>1, <1>2 DEF KeysInv, KeysTypeOK
<1>4. \A f \in Finishes, d \in Ceremonies : Taken(f, d)' <=> Taken(f, d)
  BY <1>1 DEF Taken
<1>5. TakenOnce'
  BY <1>1, <1>2, <1>4 DEF KeysInv, TakenOnce
<1>6. \A f \in Finishes : fins[f].pc = "take" => fins[f].c # c /\ fins[f].c \in Ceremonies
  BY <1>1, <1>2 DEF KeysInv, CountersDue, FinishRequest
<1>7. CountersDue'
  <2>1. \A f \in Finishes : fins'[f].pc = "take" =>
          begun'[fins'[f].c] = IF fins'[f].count = 0 THEN "register" ELSE "assert"
    BY <1>1, <1>2, <1>6 DEF KeysInv, CountersDue
  <2> QED BY <1>1, <2>1 DEF KeysInv, CountersDue, Registers
<1> QED BY <1>3, <1>5, <1>7 DEF KeysInv

LEMMA SignKeeps ==
    ASSUME KeysInv, NEW f \in Finishes, NEW c \in Ceremonies, NEW k \in Keys, SignChallenge(f, c, k)
    PROVE  KeysInv'
<1> DEFINE q == [NewFinish EXCEPT !.pc = "take", !.c = c, !.key = k, !.count = signed[k] + 1]
<1>1. /\ fins[f].pc = "new" /\ begun[c] = (IF signed[k] = NotMade THEN "register" ELSE "assert")
      /\ signed' = [signed EXCEPT ![k] = @ + 1] /\ Fin(f, q)
      /\ UNCHANGED <<passkeys, waSess, begun, outcomes, stale>>
  BY DEF SignChallenge
<1>2. /\ signed \in [Keys -> {-1} \cup Nat] /\ fins \in [Finishes -> FinishRequest]
      /\ NotMade = -1
  BY DEF KeysInv, KeysTypeOK, NotMade
<1> DEFINE n == signed[k] + 1
           q0 == NewFinish
<1>n. n \in Nat
  BY <1>2
<1>q. q0 \in FinishRequest
  BY NewFinishTyped
<1>3. /\ q \in FinishRequest /\ q.pc = "take" /\ q.c = c /\ q.key = k /\ q.count = signed[k] + 1
  <2>1. q = [q0 EXCEPT !.pc = "take", !.c = c, !.key = k, !.count = n]
    OBVIOUS
  <2>2. q.count = n /\ n = signed[k] + 1
    BY <1>q, <2>1 DEF FinishRequest
  <2> HIDE DEF q, n, q0
  <2>3. q \in FinishRequest /\ q.pc = "take" /\ q.c = c /\ q.key = k
    BY <1>n, <1>q, <2>1 DEF FinishRequest
  <2> QED BY <2>2, <2>3
<1> HIDE DEF q
<1>4. fins' \in [Finishes -> FinishRequest] /\ fins'[f] = q /\ \A g \in Finishes : g # f => fins'[g] = fins[g]
  BY <1>1, <1>3, FinGoesOn DEF KeysInv, FinMoves
<1>5. signed' \in [Keys -> {-1} \cup Nat] /\ (\A j \in Keys : signed[j] # -1 => signed'[j] # -1) /\ signed'[k] # -1
  BY <1>1, <1>2
<1>6. KeysTypeOK'
  BY <1>1, <1>2, <1>4, <1>5 DEF KeysInv, KeysTypeOK
<1>7. TakenOnce'
  <2>1. \A g \in Finishes, d \in Ceremonies : Taken(g, d)' => Taken(g, d)
    BY <1>1, <1>3, <1>4 DEF Taken
  <2> QED BY <1>1, <2>1 DEF KeysInv, TakenOnce
<1>8. CountersDue'
  <2>1. \A g \in Finishes : fins'[g].pc \notin {"new", "done"} => signed'[fins'[g].key] # NotMade
    BY <1>2, <1>3, <1>4, <1>5 DEF KeysInv, CountersDue, FinishRequest
  <2>2. \A j \in Keys : passkeys'[j].stored => signed'[j] # NotMade
    BY <1>1, <1>2, <1>5 DEF KeysInv, CountersDue
  <2>3. \A g \in Finishes : fins'[g].pc = "take" =>
          begun'[fins'[g].c] = IF fins'[g].count = 0 THEN "register" ELSE "assert"
    BY <1>1, <1>2, <1>3, <1>4 DEF KeysInv, CountersDue
  <2>4. \A g \in Finishes : fins'[g].pc \in {"register", "insert"} => fins'[g].count = 0
    BY <1>3, <1>4 DEF KeysInv, CountersDue
  <2>5. \A g \in Finishes, j \in Keys : Registers(g, j)' => Registers(g, j) \/ (g = f /\ j = k /\ signed[k] = NotMade)
    BY <1>2, <1>3, <1>4 DEF Registers
  <2>6. signed[k] = NotMade => /\ ~passkeys[k].stored
                               /\ \A g \in Finishes : fins[g].pc \notin {"new", "done"} => fins[g].key # k
    BY DEF KeysInv, CountersDue
  <2>7. \A g, h \in Finishes, j \in Keys : Registers(g, j)' /\ Registers(h, j)' => g = h
    BY <2>5, <2>6 DEF KeysInv, CountersDue, Registers
  <2>8. \A g \in Finishes : fins'[g].pc = "count" => fins'[g] = fins[g]
    BY <1>3, <1>4
  <2>9. \A g, h \in Finishes, j \in Keys : Registers(g, j)' =>
          ~passkeys'[j].stored /\ ~(fins'[h].pc = "count" /\ fins'[h].key = j)
    BY <1>1, <2>5, <2>6, <2>8 DEF KeysInv, CountersDue
  <2>10. \A g \in Finishes : fins'[g].pc = "count" /\ g \notin stale' /\ passkeys'[fins'[g].key].stored =>
           fins'[g].new >= passkeys'[fins'[g].key].count
    BY <1>1, <2>8 DEF KeysInv, CountersDue
  <2> QED BY <2>1, <2>2, <2>3, <2>4, <2>7, <2>9, <2>10 DEF CountersDue
<1> QED BY <1>6, <1>7, <1>8 DEF KeysInv

\* A step of a finish request that leaves the passkeys and the map alone.
LEMMA OwnStepKeeps ==
    ASSUME KeysInv, NEW f \in Finishes, NEW q \in FinishRequest, Fin(f, q), UNCHANGED <<passkeys, waSess, begun, signed>>,
           fins[f].pc \notin {"new", "take", "done"},
           q.pc = "done" \/ (/\ q.pc \notin {"new", "take", "done"} /\ q.c = fins[f].c
                             /\ q.key = fins[f].key /\ q.count = fins[f].count),
           q.pc \in {"register", "insert"} => fins[f].pc \in {"register", "insert"},
           q.pc = "count" => passkeys[q.key].stored /\ q.new >= passkeys[q.key].count,
           outcomes' = outcomes \/ outcomes' = outcomes \cup {<<fins[f].c, f>>},
           stale' = stale \/ stale' = stale \ {f}
    PROVE  KeysInv'
<1>1. FinMoves(f, q) /\ fins[f] \in FinishRequest
  BY FinGoesOn DEF KeysInv, KeysTypeOK
<1>2. <<fins[f].c, f>> \in Ceremonies \X Finishes
  BY <1>1 DEF FinishRequest
<1>3. KeysTypeOK'
  BY <1>1, <1>2 DEF KeysInv, KeysTypeOK, FinMoves
<1>4. TakenOnce'
  BY <1>1, TakenStays
<1>5. q.pc \in {"register", "insert"} => q.count = 0
  BY DEF KeysInv, CountersDue
<1>6. CountersDue'
  BY <1>1, <1>5, CountersStay
<1> QED BY <1>3, <1>4, <1>6 DEF KeysInv

LEMMA TakeKeeps ==
    ASSUME KeysInv, NEW f \in Finishes, TakeCeremony(f)
    PROVE  KeysInv'
<1> DEFINE q == fins[f]
           c == q.c
           sess == waSess[c]
           r == CASE sess.kind = "none" -> FinDone
                  [] sess.kind = "register" -> [q EXCEPT !.pc = "register", !.sess = sess]
                  [] sess.kind = "assert" -> [q EXCEPT !.pc = "byid", !.sess = sess]
<1>1. /\ q.pc = "take" /\ waSess' = [waSess EXCEPT ![c] = NoSession] /\ Fin(f, r)
      /\ UNCHANGED <<passkeys, begun, signed, outcomes, stale>>
  BY DEF TakeCeremony, LoadAndDelete
<1>2. /\ waSess \in [Ceremonies -> Session] /\ begun \in [Ceremonies -> {"none", "register", "assert"}]
      /\ fins \in [Finishes -> FinishRequest] /\ q \in FinishRequest /\ c \in Ceremonies /\ sess \in Session
      /\ sess.kind \in {"none", "register", "assert"}
  BY DEF KeysInv, KeysTypeOK, Session, FinishRequest
<1>3. sess.kind \in {"none", begun[c]} /\ begun[c] = IF q.count = 0 THEN "register" ELSE "assert"
  BY <1>1, <1>2 DEF KeysInv, TakenOnce, CountersDue
<1>4. /\ r \in FinishRequest /\ r.pc \notin {"new", "take", "count", "insert"}
      /\ sess.kind = "none" => r.pc = "done"
      /\ sess.kind # "none" => r.pc # "done" /\ r.c = c /\ r.key = q.key /\ r.count = q.count
      /\ r.pc = "register" => q.count = 0 /\ r.count = 0
  <2>1. CASE sess.kind = "none"
    <3>1. r = FinDone
      BY <2>1
    <3> QED BY <2>1, <3>1, NewFinishTyped
  <2>2. CASE sess.kind = "register"
    <3>1. r = [q EXCEPT !.pc = "register", !.sess = sess]
      BY <2>2
    <3>2. q.count = 0
      BY <2>2, <1>3
    <3> HIDE DEF r, q, sess, c
    <3>3. r \in FinishRequest /\ r.pc = "register" /\ r.c = q.c /\ r.key = q.key /\ r.count = q.count
      BY <1>2, <3>1 DEF FinishRequest
    <3> QED BY <2>2, <3>2, <3>3 DEF c
  <2>3. CASE sess.kind = "assert"
    <3>1. r = [q EXCEPT !.pc = "byid", !.sess = sess]
      BY <2>3
    <3> HIDE DEF r, q, sess, c
    <3>2. r \in FinishRequest /\ r.pc = "byid" /\ r.c = q.c /\ r.key = q.key /\ r.count = q.count
      BY <1>2, <3>1 DEF FinishRequest
    <3> QED BY <2>3, <3>2 DEF c
  <2> QED BY <1>2, <2>1, <2>2, <2>3
<1> HIDE DEF r
<1>5. FinMoves(f, r)
  BY <1>1, <1>4, FinGoesOn DEF KeysInv
<1>6. KeysTypeOK'
  BY <1>1, <1>2, <1>5, NewFinishTyped DEF KeysInv, KeysTypeOK, FinMoves
<1>7. TakenOnce'
  <2>1. \A g \in Finishes, d \in Ceremonies :
          Taken(g, d)' => Taken(g, d) \/ (g = f /\ d = c /\ sess.kind # "none")
    BY <1>1, <1>4, <1>5 DEF Taken, FinMoves
  <2>2. \A d \in Ceremonies : waSess'[d] = IF d = c THEN NoSession ELSE waSess[d]
    BY <1>1, <1>2
  <2>3. sess.kind # "none" => \A g \in Finishes : ~Taken(g, c)
    BY <1>2 DEF KeysInv, TakenOnce
  <2>4. \A d \in Ceremonies : waSess'[d].kind \in {"none", begun'[d]}
    BY <1>1, <2>2, NewFinishTyped DEF KeysInv, TakenOnce
  <2>5. \A d \in Ceremonies, g \in Finishes : Taken(g, d)' => begun'[d] # "none" /\ waSess'[d].kind = "none"
    BY <1>1, <1>3, <2>1, <2>2, NewFinishTyped DEF KeysInv, TakenOnce
  <2>6. \A d \in Ceremonies, g, h \in Finishes : Taken(g, d)' /\ Taken(h, d)' => g = h
    BY <2>1, <2>3 DEF KeysInv, TakenOnce
  <2> QED BY <2>4, <2>5, <2>6 DEF TakenOnce
<1>8. CountersDue'
  BY <1>1, <1>4, <1>5, CountersStay
<1> QED BY <1>6, <1>7, <1>8 DEF KeysInv

LEMMA RegisterUserKeeps ==
    ASSUME KeysInv, NEW f \in Finishes, RegisterUser(f)
    PROVE  KeysInv'
<1> DEFINE q == fins[f]
           r == IF q.sess.user \in live THEN [q EXCEPT !.pc = "insert"] ELSE FinDone
<1>1. q.pc = "register" /\ Fin(f, r) /\ UNCHANGED <<passkeys, waSess, begun, signed, outcomes, stale>>
  BY DEF RegisterUser
<1>2. q \in FinishRequest
  BY DEF KeysInv, KeysTypeOK
<1>3. r \in FinishRequest /\ (r.pc = "done" \/ (r.pc = "insert" /\ r.c = q.c /\ r.key = q.key /\ r.count = q.count))
  BY <1>2, NewFinishTyped DEF FinishRequest
<1> HIDE DEF r
<1> QED BY <1>1, <1>3, OwnStepKeeps

LEMMA LookUpKeeps ==
    ASSUME KeysInv, AccountsInv, NEW f \in Finishes, LoadWAUserByID(f) \/ LoadWAUser(f)
    PROVE  KeysInv'
<1> DEFINE q == fins[f]
<1>1. q \in FinishRequest /\ q.sess \in Session /\ q.sess.user \in Users
  BY DEF KeysInv, KeysTypeOK, FinishRequest, Session
<1>2. CASE LoadWAUserByID(f)
  <2> DEFINE n == rows[q.sess.user].upn
             r == IF q.sess.user \in live THEN [q EXCEPT !.pc = "byupn", !.upn = n] ELSE FinDone
  <2>1. q.pc = "byid" /\ Fin(f, r) /\ UNCHANGED <<passkeys, waSess, begun, signed, outcomes, stale>>
    BY <1>2 DEF LoadWAUserByID
  <2>2. q.sess.user \in live => n \in Values
    BY <1>1 DEF AccountsInv, AccountsTypeOK, Attrs, UserAttrs
  <2> HIDE DEF n
  <2>3. r \in FinishRequest /\ (r.pc = "done" \/ (r.pc = "byupn" /\ r.c = q.c /\ r.key = q.key /\ r.count = q.count))
    BY <1>1, <2>2, NewFinishTyped DEF FinishRequest
  <2> HIDE DEF r
  <2> QED BY <2>1, <2>3, OwnStepKeeps
<1>3. CASE LoadWAUser(f)
  <2>1. PICK r : /\ r = FinDone \/ \E u \in Users : r = [q EXCEPT !.pc = "creds", !.user = u]
                 /\ Fin(f, r)
    BY <1>3 DEF LoadWAUser, GetUserByUPN
  <2>2. q.pc = "byupn" /\ UNCHANGED <<passkeys, waSess, begun, signed, outcomes, stale>>
    BY <1>3 DEF LoadWAUser
  <2> HIDE DEF q
  <2>3. CASE r = FinDone
    <3>1. r \in FinishRequest /\ r.pc = "done"
      BY <2>3, NewFinishTyped
    <3> QED BY <2>1, <2>2, <3>1, OwnStepKeeps DEF q
  <2>4. CASE \E u \in Users : r = [q EXCEPT !.pc = "creds", !.user = u]
    <3>1. PICK u \in Users : r = [q EXCEPT !.pc = "creds", !.user = u]
      BY <2>4
    <3>2. r \in FinishRequest
      BY <1>1, <3>1 DEF FinishRequest
    <3>3. r.pc = "creds" /\ r.c = q.c /\ r.key = q.key /\ r.count = q.count
      BY <1>1, <3>1 DEF FinishRequest
    <3> QED BY <2>1, <2>2, <3>2, <3>3, OwnStepKeeps DEF q
  <2> QED BY <2>1, <2>3, <2>4
<1> QED BY <1>2, <1>3

LEMMA ListCredentialsKeeps ==
    ASSUME KeysInv, NEW f \in Finishes, ListCredentials(f)
    PROVE  KeysInv'
<1> DEFINE q == fins[f]
           n == UpdateCounter(passkeys[q.key].count, q.count)
           r == IF FinishLogin(q) THEN [q EXCEPT !.pc = "count", !.new = n] ELSE FinDone
<1>1. q.pc = "creds" /\ Fin(f, r) /\ stale' = stale \ {f} /\ UNCHANGED <<passkeys, waSess, begun, signed, outcomes>>
  BY DEF ListCredentials
<1>2. q \in FinishRequest /\ q.key \in Keys /\ q.count \in Nat /\ passkeys[q.key].count \in Nat
  BY DEF KeysInv, KeysTypeOK, FinishRequest
<1>3. n \in Nat /\ n >= passkeys[q.key].count
  BY <1>2 DEF UpdateCounter
<1>4. FinishLogin(q) => passkeys[q.key].stored
  BY <1>2 DEF FinishLogin, KeysOf
<1> HIDE DEF n
<1>5. /\ r \in FinishRequest
      /\ r.pc = "done" \/ (/\ r.pc = "count" /\ r.c = q.c /\ r.key = q.key /\ r.count = q.count /\ r.new = n
                           /\ FinishLogin(q))
  BY <1>2, <1>3, NewFinishTyped DEF FinishRequest
<1> HIDE DEF r
<1>6. r.pc = "count" => passkeys[r.key].stored /\ r.new >= passkeys[r.key].count
  BY <1>3, <1>4, <1>5
<1>7. r.pc \notin {"register", "insert"}
  BY <1>5
<1>8. r.pc = "done" \/ (/\ r.pc \notin {"new", "take", "done"} /\ r.c = fins[f].c
                        /\ r.key = fins[f].key /\ r.count = fins[f].count)
  BY <1>5
<1> QED BY <1>1, <1>5, <1>6, <1>7, <1>8, OwnStepKeeps

LEMMA AssertFinishKeeps ==
    ASSUME KeysInv, NEW f \in Finishes, AssertFinish(f)
    PROVE  KeysInv'
<1>1. fins[f].pc = "session" /\ Fin(f, FinDone) /\ UNCHANGED <<passkeys, waSess, begun, signed, stale>>
  BY DEF AssertFinish
<1>2. outcomes' = outcomes \/ outcomes' = outcomes \cup {<<fins[f].c, f>>}
  BY DEF AssertFinish
<1> QED BY <1>1, <1>2, NewFinishTyped, OwnStepKeeps
LEMMA AddCredentialKeeps ==
    ASSUME KeysInv, NEW f \in Finishes, AddWebAuthnCredential(f)
    PROVE  KeysInv'
<1> DEFINE q == fins[f]
           k == q.key
           new == [user |-> q.sess.user, count |-> q.count, stored |-> TRUE]
           ok == ~passkeys[k].stored /\ q.sess.user \in live
<1>1. /\ q.pc = "insert" /\ Fin(f, FinDone) /\ UNCHANGED <<waSess, begun, signed, stale>>
      /\ passkeys' = IF ok THEN [passkeys EXCEPT ![k] = new] ELSE passkeys
      /\ outcomes' = IF ok THEN outcomes \cup {<<q.c, f>>} ELSE outcomes
  BY DEF AddWebAuthnCredential
<1>2. /\ q \in FinishRequest /\ k \in Keys /\ q.count \in Nat /\ q.sess \in Session /\ q.sess.user \in Users
      /\ q.c \in Ceremonies /\ passkeys \in [Keys -> [user: Users, count: Nat, stored: BOOLEAN]]
  BY DEF KeysInv, KeysTypeOK, FinishRequest, Session
<1>3. FinMoves(f, FinDone) /\ FinDone.pc = "done"
  BY <1>1, NewFinishTyped, FinGoesOn DEF KeysInv
<1>4. CASE ~ok
  BY <1>1, <1>4, NewFinishTyped, OwnStepKeeps
<1>5. CASE ok
  <2>1. new \in [user: Users, count: Nat, stored: BOOLEAN]
    BY <1>2
  <2>2. passkeys' = [passkeys EXCEPT ![k] = new] /\ outcomes' = outcomes \cup {<<q.c, f>>}
    BY <1>1, <1>5
  <2> HIDE DEF new
  <2>3. /\ passkeys' \in [Keys -> [user: Users, count: Nat, stored: BOOLEAN]]
        /\ \A j \in Keys : j # k => passkeys'[j] = passkeys[j]
    BY <1>2, <2>1, <2>2
  <2>4. Registers(f, k)
    BY <1>1 DEF KeysInv, CountersDue, Registers
  <2>5. \A g \in Finishes : fins[g].pc = "count" => fins[g].key # k
    BY <1>2, <2>4 DEF KeysInv, CountersDue
  <2>6. signed[k] # NotMade
    BY <1>1 DEF KeysInv, CountersDue
  <2>7. KeysTypeOK'
    BY <1>1, <1>2, <1>3, <2>2, <2>3 DEF KeysInv, KeysTypeOK, FinMoves
  <2>8. TakenOnce'
    BY <1>1, <1>3, <2>2, TakenStays
  <2>9. /\ fins' \in [Finishes -> FinishRequest] /\ fins'[f].pc = "done"
        /\ \A g \in Finishes : g # f => fins'[g] = fins[g]
    BY <1>3 DEF FinMoves
  <2>10. CountersDue'
    <3>1. \A g \in Finishes : fins'[g].pc \notin {"new", "done"} => signed'[fins'[g].key] # NotMade
      BY <1>1, <2>9 DEF KeysInv, CountersDue
    <3>2. \A j \in Keys : passkeys'[j].stored => signed'[j] # NotMade
      BY <1>1, <2>3, <2>6 DEF KeysInv, CountersDue
    <3>3. \A g \in Finishes : fins'[g].pc = "take" =>
            begun'[fins'[g].c] = IF fins'[g].count = 0 THEN "register" ELSE "assert"
      BY <1>1, <2>9 DEF KeysInv, CountersDue
    <3>4. \A g \in Finishes : fins'[g].pc \in {"register", "insert"} => fins'[g].count = 0
      BY <2>9 DEF KeysInv, CountersDue
    <3>5. \A g \in Finishes, j \in Keys : Registers(g, j)' => Registers(g, j) /\ g # f
      BY <2>9 DEF Registers
    <3>6. \A g, h \in Finishes, j \in Keys : Registers(g, j)' /\ Registers(h, j)' => g = h
      BY <3>5 DEF KeysInv, CountersDue
    <3>7. \A g \in Finishes, j \in Keys : Registers(g, j)' => j # k
      BY <1>2, <2>4, <3>5 DEF KeysInv, CountersDue
    <3>8. \A g \in Finishes : fins'[g].pc = "count" => fins'[g] = fins[g] /\ fins'[g].key \in Keys \ {k}
      BY <2>5, <2>9 DEF FinishRequest
    <3>9. \A g, h \in Finishes, j \in Keys : Registers(g, j)' =>
            ~passkeys'[j].stored /\ ~(fins'[h].pc = "count" /\ fins'[h].key = j)
      BY <2>3, <3>5, <3>7, <3>8 DEF KeysInv, CountersDue
    <3>10. \A g \in Finishes : fins'[g].pc = "count" /\ g \notin stale' /\ passkeys'[fins'[g].key].stored =>
             fins'[g].new >= passkeys'[fins'[g].key].count
      BY <1>1, <2>3, <3>8 DEF KeysInv, CountersDue
    <3> QED BY <3>1, <3>2, <3>3, <3>4, <3>6, <3>9, <3>10 DEF CountersDue
  <2> QED BY <2>7, <2>8, <2>10 DEF KeysInv
<1> QED BY <1>4, <1>5

\* What storing a counter does to the passkeys and to the finish requests.
LEMMA CountMoves ==
    ASSUME KeysTypeOK, NEW f \in Finishes, UpdateSignCount(f)
    PROVE  /\ fins[f].pc = "count" /\ fins[f].key \in Keys /\ fins[f].new \in Nat
           /\ \E q \in FinishRequest :
                 FinMoves(f, q) /\ q.pc = "session" /\ q.c = fins[f].c /\ q.key = fins[f].key
           /\ passkeys' \in [Keys -> [user: Users, count: Nat, stored: BOOLEAN]]
           /\ \A j \in Keys : /\ passkeys'[j].stored = passkeys[j].stored
                              /\ passkeys'[j].count = IF j = fins[f].key /\ passkeys[j].stored THEN fins[f].new
                                                  ELSE passkeys[j].count
<1> DEFINE q == fins[f]
           k == q.key
           n == q.new
           r == [q EXCEPT !.pc = "session"]
<1>1. /\ q.pc = "count" /\ Fin(f, r)
      /\ passkeys' = IF passkeys[k].stored THEN [passkeys EXCEPT ![k].count = n] ELSE passkeys
  BY DEF UpdateSignCount
<1>2. /\ q \in FinishRequest /\ k \in Keys /\ n \in Nat
      /\ passkeys \in [Keys -> [user: Users, count: Nat, stored: BOOLEAN]]
  BY DEF KeysTypeOK, FinishRequest
<1>3. r \in FinishRequest /\ r.pc = "session" /\ r.c = q.c /\ r.key = k
  BY <1>2 DEF FinishRequest
<1> HIDE DEF r
<1>4. FinMoves(f, r)
  BY <1>1, <1>3, FinGoesOn
<1> HIDE DEF q, k, n
<1>5. /\ passkeys' \in [Keys -> [user: Users, count: Nat, stored: BOOLEAN]]
      /\ \A j \in Keys : /\ passkeys'[j].stored = passkeys[j].stored
                         /\ passkeys'[j].count = IF j = k /\ passkeys[j].stored THEN n ELSE passkeys[j].count
  <2>1. CASE passkeys[k].stored
    <3> DEFINE row == [passkeys[k] EXCEPT !.count = n]
    <3>1. passkeys' = [passkeys EXCEPT ![k] = row]
      BY <1>1, <2>1
    <3>2. /\ row \in [user: Users, count: Nat, stored: BOOLEAN] /\ row.count = n
          /\ row.stored = passkeys[k].stored
      BY <1>2
    <3> HIDE DEF row
    <3> QED BY <1>2, <2>1, <3>1, <3>2
  <2>2. CASE ~passkeys[k].stored
    BY <1>1, <1>2, <2>2
  <2> QED BY <2>1, <2>2
<1> QED BY <1>1, <1>2, <1>3, <1>4, <1>5 DEF q, k, n

LEMMA UpdateSignCountKeeps ==
    ASSUME KeysInv, NEW f \in Finishes, UpdateSignCount(f)
    PROVE  KeysInv'
<1> DEFINE k == fins[f].key
<1>0. KeysTypeOK /\ fins \in [Finishes -> FinishRequest]
  BY DEF KeysInv, KeysTypeOK
<1>1. /\ stale' = stale \cup {g \in Finishes \ {f} : fins[g].pc = "count" /\ fins[g].key = k}
      /\ UNCHANGED <<waSess, begun, signed, outcomes>>
  BY DEF UpdateSignCount
<1>2. /\ fins[f].pc = "count" /\ k \in Keys /\ passkeys' \in [Keys -> [user: Users, count: Nat, stored: BOOLEAN]]
      /\ \A j \in Keys : passkeys'[j].stored = passkeys[j].stored
      /\ \A j \in Keys : j # k => passkeys'[j].count = passkeys[j].count
  BY <1>0, CountMoves
<1>3. PICK q \in FinishRequest : FinMoves(f, q) /\ q.pc = "session" /\ q.c = fins[f].c /\ q.key = k
  BY <1>0, CountMoves
<1>4. KeysTypeOK'
  BY <1>0, <1>1, <1>2, <1>3 DEF KeysTypeOK, FinMoves
<1>5. TakenOnce'
  BY <1>1, <1>2, <1>3, TakenStays
<1>6. /\ fins' \in [Finishes -> FinishRequest] /\ fins'[f] = q
      /\ \A g \in Finishes : g # f => fins'[g] = fins[g]
  BY <1>3 DEF FinMoves
<1>7. CountersDue'
  <2>1. \A g \in Finishes : fins'[g].pc \notin {"new", "done"} => signed'[fins'[g].key] # NotMade
    BY <1>1, <1>2, <1>3, <1>6 DEF KeysInv, CountersDue
  <2>2. \A j \in Keys : passkeys'[j].stored => signed'[j] # NotMade
    BY <1>1, <1>2 DEF KeysInv, CountersDue
  <2>3. \A g \in Finishes : fins'[g].pc = "take" =>
          begun'[fins'[g].c] = IF fins'[g].count = 0 THEN "register" ELSE "assert"
    BY <1>1, <1>3, <1>6 DEF KeysInv, CountersDue
  <2>4. \A g \in Finishes : fins'[g].pc \in {"register", "insert"} => fins'[g].count = 0
    BY <1>3, <1>6 DEF KeysInv, CountersDue
  <2>5. \A g \in Finishes, j \in Keys : Registers(g, j)' => Registers(g, j)
    BY <1>3, <1>6 DEF Registers
  <2>6. \A g, h \in Finishes, j \in Keys : Registers(g, j)' /\ Registers(h, j)' => g = h
    BY <2>5 DEF KeysInv, CountersDue
  <2>7. \A g \in Finishes : fins'[g].pc = "count" => g # f /\ fins'[g] = fins[g] /\ fins'[g].key \in Keys
    BY <1>3, <1>6 DEF FinishRequest
  <2>8. \A g, h \in Finishes, j \in Keys : Registers(g, j)' =>
          ~passkeys'[j].stored /\ ~(fins'[h].pc = "count" /\ fins'[h].key = j)
    BY <1>2, <2>5, <2>7 DEF KeysInv, CountersDue
  <2>9. \A g \in Finishes : fins'[g].pc = "count" /\ g \notin stale' /\ passkeys'[fins'[g].key].stored =>
           fins'[g].new >= passkeys'[fins'[g].key].count
    <3> SUFFICES ASSUME NEW g \in Finishes, fins'[g].pc = "count", g \notin stale', passkeys'[fins'[g].key].stored
                 PROVE  fins'[g].new >= passkeys'[fins'[g].key].count
      OBVIOUS
    <3>1. g # f /\ fins'[g] = fins[g] /\ fins[g].key \in Keys
      BY <2>7
    <3>2. fins[g].key # k /\ g \notin stale
      BY <1>1, <3>1
    <3>3. passkeys[fins[g].key].stored /\ passkeys'[fins[g].key].count = passkeys[fins[g].key].count
      BY <1>2, <3>1, <3>2
    <3> QED BY <3>1, <3>2, <3>3 DEF KeysInv, CountersDue
  <2> QED BY <2>1, <2>2, <2>3, <2>4, <2>6, <2>8, <2>9 DEF CountersDue
<1> QED BY <1>4, <1>5, <1>7 DEF KeysInv

\* A step in which passkeys are only deleted, by a request or by cascade.
LEMMA DeletingKeeps ==
    ASSUME KeysInv, passkeys' \in [Keys -> [user: Users, count: Nat, stored: BOOLEAN]],
           \A k \in Keys : passkeys'[k] = passkeys[k] \/ ~passkeys'[k].stored,
           UNCHANGED <<waSess, begun, fins, signed, outcomes, stale>>
    PROVE  KeysInv'
<1>1. KeysTypeOK'
  BY DEF KeysInv, KeysTypeOK
<1>2. TakenOnce'
  BY DEF KeysInv, TakenOnce, Taken
<1>3. \A f \in Finishes : fins[f].key \in Keys
  BY DEF KeysInv, KeysTypeOK, FinishRequest
<1>4. CountersDue'
  <2>1. \A f \in Finishes, k \in Keys : Registers(f, k)' <=> Registers(f, k)
    BY DEF Registers
  <2> QED BY <1>3, <2>1 DEF KeysInv, CountersDue
<1> QED BY <1>1, <1>2, <1>4 DEF KeysInv

LEMMA DeleteMethodKeeps ==
    ASSUME KeysInv, NEW u \in Users, NEW k \in Keys, DeleteFido2Method(u, k)
    PROVE  KeysInv'
<1>1. passkeys' = [passkeys EXCEPT ![k] = NoKey] /\ UNCHANGED <<waSess, begun, fins, signed, outcomes, stale>>
  BY DEF DeleteFido2Method
<1>2. passkeys \in [Keys -> [user: Users, count: Nat, stored: BOOLEAN]]
  BY DEF KeysInv, KeysTypeOK
<1>3. /\ passkeys' \in [Keys -> [user: Users, count: Nat, stored: BOOLEAN]]
      /\ \A j \in Keys : passkeys'[j] = passkeys[j] \/ ~passkeys'[j].stored
  BY <1>1, <1>2, NewFinishTyped
<1> QED BY <1>1, <1>3, DeletingKeeps

LEMMA CascadeKeeps ==
    ASSUME KeysInv, Cascade
    PROVE  KeysInv'
<1>1. /\ passkeys' = [k \in Keys |-> IF passkeys[k].stored /\ passkeys[k].user \notin live' THEN NoKey ELSE passkeys[k]]
      /\ UNCHANGED <<waSess, begun, fins, signed, outcomes, stale>>
  BY DEF Cascade
<1>2. passkeys \in [Keys -> [user: Users, count: Nat, stored: BOOLEAN]]
  BY DEF KeysInv, KeysTypeOK
<1>3. /\ passkeys' \in [Keys -> [user: Users, count: Nat, stored: BOOLEAN]]
      /\ \A j \in Keys : passkeys'[j] = passkeys[j] \/ ~passkeys'[j].stored
  BY <1>1, <1>2, NewFinishTyped
<1> QED BY <1>1, <1>3, DeletingKeeps
LEMMA KeysInitially == ASSUME PasskeysInit PROVE KeysInv
<1>1. PICK u \in live \cap Users :
        /\ passkeys = [k \in Keys |-> IF k \in Keys0 THEN [user |-> u, count |-> 0, stored |-> TRUE] ELSE NoKey]
        /\ begun = [c \in Ceremonies |-> IF c \in DOMAIN Begun THEN Begun[c] ELSE "none"]
        /\ waSess = [c \in Ceremonies |->
               IF c \notin DOMAIN Begun THEN NoSession
               ELSE [kind |-> Begun[c], user |-> u, allowed |-> IF Begun[c] = "assert" THEN Keys0 ELSE {}]]
  BY DEF PasskeysInit
<1>2. /\ fins = [f \in Finishes |-> NewFinish] /\ outcomes = {} /\ stale = {}
      /\ signed = [k \in Keys |-> IF k \in Keys0 THEN 0 ELSE NotMade]
  BY DEF PasskeysInit
<1>3. \A c \in DOMAIN Begun : Begun[c] \in {"register", "assert"}
  BY PasskeysAssumptions
<1>4. /\ passkeys \in [Keys -> [user: Users, count: Nat, stored: BOOLEAN]]
      /\ \A k \in Keys : passkeys[k].stored <=> k \in Keys0
  <2> DEFINE key == [user |-> u, count |-> 0, stored |-> TRUE]
  <2>1. key \in [user: Users, count: Nat, stored: BOOLEAN] /\ key.stored = TRUE
    OBVIOUS
  <2> HIDE DEF key
  <2>2. passkeys = [k \in Keys |-> IF k \in Keys0 THEN key ELSE NoKey]
    BY <1>1 DEF key
  <2> QED BY <2>1, <2>2, NewFinishTyped
<1>5. \A c \in Ceremonies : waSess[c] \in Session /\ waSess[c].kind \in {"none", begun[c]}
  <2> SUFFICES ASSUME NEW c \in Ceremonies PROVE waSess[c] \in Session /\ waSess[c].kind \in {"none", begun[c]}
    OBVIOUS
  <2>1. CASE c \notin DOMAIN Begun
    BY <1>1, <2>1, NewFinishTyped
  <2>2. CASE c \in DOMAIN Begun
    <3> DEFINE S == IF Begun[c] = "assert" THEN Keys0 ELSE {}
               s == [kind |-> Begun[c], user |-> u, allowed |-> S]
    <3>1. waSess[c] = s /\ begun[c] = Begun[c]
      BY <1>1, <2>2
    <3>2. S \in SUBSET Keys
      BY PasskeysAssumptions
    <3> HIDE DEF S
    <3>3. s \in Session /\ s.kind = Begun[c]
      BY <1>3, <2>2, <3>2 DEF Session
    <3> QED BY <3>1, <3>3
  <2> QED BY <2>1, <2>2
<1>6. waSess \in [Ceremonies -> Session] /\ begun \in [Ceremonies -> {"none", "register", "assert"}]
  BY <1>1, <1>3, <1>5
<1>7. fins \in [Finishes -> FinishRequest] /\ \A f \in Finishes : fins[f].pc = "new"
  BY <1>2, NewFinishTyped
<1>8. signed \in [Keys -> {NotMade} \cup Nat] /\ \A k \in Keys0 : signed[k] # NotMade
  BY <1>2, PasskeysAssumptions DEF NotMade
<1>9. KeysTypeOK
  BY <1>2, <1>4, <1>6, <1>7, <1>8 DEF KeysTypeOK
<1>10. TakenOnce
  BY <1>2, <1>5, <1>7 DEF TakenOnce, Taken
<1>11. CountersDue
  BY <1>4, <1>7, <1>8 DEF CountersDue, Registers
<1> QED BY <1>9, <1>10, <1>11 DEF KeysInv

LEMMA FinishKeeps ==
    ASSUME KeysInv, AccountsInv, NEW f \in Finishes, FinishStep(f)
    PROVE  KeysInv'
BY TakeKeeps, RegisterUserKeeps, AddCredentialKeeps, LookUpKeeps, ListCredentialsKeeps, UpdateSignCountKeeps,
   AssertFinishKeeps DEF FinishStep

LEMMA BeginCeremonyKeeps ==
    ASSUME KeysInv, NEW c \in Ceremonies, NEW u \in Users, RegisterBegin(c, u) \/ AssertBegin(c, u)
    PROVE  KeysInv'
<1> DEFINE r == [kind |-> "register", user |-> u, allowed |-> {}]
           a == [kind |-> "assert", user |-> u, allowed |-> KeysOf(u)]
<1>1. r \in Session /\ r.kind = "register" /\ a \in Session /\ a.kind = "assert"
  BY DEF Session, KeysOf
<1>2. StoreCeremony(c, r) \/ StoreCeremony(c, a)
  BY DEF RegisterBegin, AssertBegin
<1> HIDE DEF r, a
<1> QED BY <1>1, <1>2, StoreKeeps

LEMMA KeysStep == ASSUME KeysInv, AccountsInv, [PasskeysNext]_passkeysVars PROVE KeysInv'
<1>1. CASE UNCHANGED keyVars
  <2>1. UNCHANGED <<passkeys, waSess, begun, fins, signed, outcomes, stale>>
    BY <1>1 DEF keyVars
  <2>2. passkeys' \in [Keys -> [user: Users, count: Nat, stored: BOOLEAN]]
    BY <2>1 DEF KeysInv, KeysTypeOK
  <2> QED BY <2>1, <2>2, DeletingKeeps
<1>2. CASE Cascade
  BY <1>2, CascadeKeeps
<1>3. CASE KeysNext
  BY <1>3, FinishKeeps, BeginCeremonyKeeps, SignKeeps, DeleteMethodKeeps DEF KeysNext
<1> QED BY <1>1, <1>2, <1>3 DEF PasskeysNext, passkeysVars

\* Types of the passkey tables and of the ceremonies (store/webauthn.go,
\* identity/webauthn.go).
THEOREM PasskeysTyped == PasskeysSpec => []KeysTypeOK
<1>1. PasskeysInit => AccountsInv /\ KeysInv
  BY AccountsInitially, KeysInitially DEF PasskeysInit
<1>2. (AccountsInv /\ KeysInv) /\ [PasskeysNext]_passkeysVars => (AccountsInv /\ KeysInv)'
  BY AccountsStep, KeysStep
<1>3. AccountsInv /\ KeysInv => KeysTypeOK
  BY DEF KeysInv
<1> QED BY <1>1, <1>2, <1>3, PTL DEF PasskeysSpec

\* A ceremony makes at most one session or one passkey, however often its finish
\* request is sent (takeCeremony).
THEOREM CeremonyIsUsedOnce == PasskeysSpec => []CeremonyUsedOnce
<1>1. PasskeysInit => AccountsInv /\ KeysInv
  BY AccountsInitially, KeysInitially DEF PasskeysInit
<1>2. (AccountsInv /\ KeysInv) /\ [PasskeysNext]_passkeysVars => (AccountsInv /\ KeysInv)'
  BY AccountsStep, KeysStep
<1>3. AccountsInv /\ KeysInv => CeremonyUsedOnce
  BY DEF KeysInv, TakenOnce, Taken, CeremonyUsedOnce
<1> QED BY <1>1, <1>2, <1>3, PTL DEF PasskeysSpec

\* Only storing its counter takes a finish request from "count" to "session".
LEMMA OnlyCounting ==
    ASSUME KeysTypeOK, NEW f \in Finishes, fins[f].pc = "count", fins'[f].pc = "session", [PasskeysNext]_passkeysVars
    PROVE  UpdateSignCount(f)
<1>0. fins \in [Finishes -> FinishRequest] /\ FinDone.pc = "done"
  BY NewFinishTyped DEF KeysTypeOK
<1>1. fins' # fins
  BY <1>0
<1>2. PICK g \in Finishes : FinishStep(g) \/ \E c \in Ceremonies, k \in Keys : SignChallenge(g, c, k)
  BY <1>1 DEF PasskeysNext, passkeysVars, keyVars, KeysNext, Cascade, RegisterBegin, AssertBegin, StoreCeremony, DeleteFido2Method
<1>3. \E q : Fin(g, q)
  BY <1>2 DEF FinishStep, SignChallenge, TakeCeremony, RegisterUser, AddWebAuthnCredential, LoadWAUserByID, LoadWAUser,
              ListCredentials, UpdateSignCount, AssertFinish
<1>4. g = f
  BY <1>0, <1>3 DEF Fin
<1> QED BY <1>2, <1>4 DEF FinishStep, SignChallenge, TakeCeremony, RegisterUser, AddWebAuthnCredential, LoadWAUserByID,
                          LoadWAUser, ListCredentials, AssertFinish

\* The stored counter of a passkey goes back only if two sign-ins with it overlap
\* (handleWebAuthnAssertFinish, UpdateSignCount).
THEOREM CountersAreSafe == PasskeysSpec => CounterOnlyBackByOverlap
<1>1. PasskeysInit => AccountsInv /\ KeysInv
  BY AccountsInitially, KeysInitially DEF PasskeysInit
<1>2. (AccountsInv /\ KeysInv) /\ [PasskeysNext]_passkeysVars => (AccountsInv /\ KeysInv)'
  BY AccountsStep, KeysStep
<1>3. AccountsInv /\ KeysInv /\ [PasskeysNext]_passkeysVars =>
        [\A f \in Finishes : fins[f].pc = "count" /\ f \notin stale =>
            \A k \in Keys : passkeys'[k].stored /\ passkeys[k].stored /\ fins'[f].pc = "session"
                                => passkeys'[k].count >= passkeys[k].count]_passkeysVars
  <2> SUFFICES ASSUME KeysInv, [PasskeysNext]_passkeysVars, NEW f \in Finishes, fins[f].pc = "count", f \notin stale,
                      NEW k \in Keys, passkeys[k].stored, fins'[f].pc = "session"
               PROVE  passkeys'[k].count >= passkeys[k].count
    OBVIOUS
  <2>1. KeysTypeOK /\ passkeys[k].count \in Nat
    BY DEF KeysInv, KeysTypeOK
  <2>2. UpdateSignCount(f)
    BY <2>1, OnlyCounting
  <2>3. passkeys'[k].count = IF k = fins[f].key THEN fins[f].new ELSE passkeys[k].count
    BY <2>1, <2>2, CountMoves
  <2>4. k = fins[f].key => fins[f].new >= passkeys[k].count
    BY DEF KeysInv, CountersDue
  <2> QED BY <2>1, <2>3, <2>4
<1> QED BY <1>1, <1>2, <1>3, PTL DEF PasskeysSpec, CounterOnlyBackByOverlap

(***************************************************************************)
(* Safety of the certificate files and the reloader for every number of    *)
(* generated pairs: a listening server has a matching pair, and            *)
(* undisturbed clients see one certificate for ever.                       *)
(***************************************************************************)

Writers == Loaders \cup {"renewer"}
Todos == {<<>>, <<"cert">>, <<"key">>, <<"cert", "key">>, <<"key", "cert">>}
FileWrites == [gen: Gen, todo: Todos, torn: BOOLEAN]
Loading == [pc: {"idle", "key", "write"}, cert: Gen]
Reloading == [pc: {"idle", "start", "lock", "cert", "key"}, cert: Gen]

-----------------------------------------------------------------------------
\* Facts about the values that steps write

\* The values that steps write are well typed.
LEMMA CertificateValuesTyped ==
    /\ Gen \subseteq Nat /\ 0 \in Gen /\ 1 \in Gen
    /\ Nothing \in Material /\ Nothing.cert = 0
    /\ NoWrite \in FileWrites /\ NoWrite.todo = <<>> /\ ~NoWrite.torn
    /\ AtRest \in Loading /\ AtRest \in Reloading /\ AtRest.pc = "idle"
    /\ \A c, k \in Gen : [cert |-> c, key |-> k] \in Material
    /\ \A pc \in {"idle", "key", "write"}, c \in Gen : [pc |-> pc, cert |-> c] \in Loading
    /\ \A pc \in {"idle", "start", "lock", "cert", "key"}, c \in Gen : [pc |-> pc, cert |-> c] \in Reloading
<1>1. Gen \subseteq Nat /\ 0 \in Gen /\ 1 \in Gen
  BY CertificatesAssumptions DEF Gen
<1>2. Nothing \in Material /\ Nothing.cert = 0
  BY <1>1 DEF Nothing, Material
<1>3. NoWrite \in FileWrites /\ NoWrite.todo = <<>> /\ ~NoWrite.torn
  BY <1>1 DEF NoWrite, FileWrites, Todos
<1>4. AtRest \in Loading /\ AtRest \in Reloading /\ AtRest.pc = "idle"
  BY <1>1 DEF AtRest, Loading, Reloading
<1> QED BY <1>1, <1>2, <1>3, <1>4 DEF Material, Loading, Reloading

\* What is written next, and what is left afterwards.
LEMMA Progress ==
    /\ Head(<<"cert">>) = "cert" /\ Tail(<<"cert">>) = <<>>
    /\ Head(<<"key">>) = "key" /\ Tail(<<"key">>) = <<>>
    /\ Head(<<"cert", "key">>) = "cert" /\ Tail(<<"cert", "key">>) = <<"key">>
    /\ Head(<<"key", "cert">>) = "key" /\ Tail(<<"key", "cert">>) = <<"cert">>
    /\ <<"cert">> # <<>> /\ <<"key">> # <<>> /\ <<"cert", "key">> # <<>> /\ <<"key", "cert">> # <<>>
    /\ <<"key">> # <<"cert", "key">> /\ <<"cert">> # <<"cert", "key">>
OBVIOUS

\* The same of any work list.
LEMMA ProgressTyped ==
    ASSUME NEW todo \in Todos, todo # <<>>
    PROVE  Head(todo) \in {"cert", "key"} /\ Tail(todo) \in Todos
BY Progress DEF Todos

\* The type invariant with the abbreviations above.
LEMMA CertificateTypeParts ==
    CertificatesTypeOK <=>
        /\ mode \in Modes
        /\ file \in Material /\ newer \in BOOLEAN /\ made \in Gen
        /\ out \in [Writers -> FileWrites]
        /\ load \in [Loaders -> Loading]
        /\ server \in {"down", "boot", "loaded", "serving"}
        /\ cur \in Material /\ sum \in Gen /\ mu \in Threads \cup {"free"}
        /\ thread \in [Threads -> Reloading]
        /\ hup \in BOOLEAN
        /\ served \subseteq Gen /\ renewed \in BOOLEAN /\ contended \in BOOLEAN
BY DEF CertificatesTypeOK, Writers, Todos, FileWrites, Loading, Reloading

\* The same of the next state.
LEMMA CertificateTypePartsNext ==
    CertificatesTypeOK' <=>
        /\ mode' \in Modes
        /\ file' \in Material /\ newer' \in BOOLEAN /\ made' \in Gen
        /\ out' \in [Writers -> FileWrites]
        /\ load' \in [Loaders -> Loading]
        /\ server' \in {"down", "boot", "loaded", "serving"}
        /\ cur' \in Material /\ sum' \in Gen /\ mu' \in Threads \cup {"free"}
        /\ thread' \in [Threads -> Reloading]
        /\ hup' \in BOOLEAN
        /\ served' \subseteq Gen /\ renewed' \in BOOLEAN /\ contended' \in BOOLEAN
BY DEF CertificatesTypeOK, Writers, Todos, FileWrites, Loading, Reloading

\* A file is truncated: it is unusable, and its writer is to write it.
LEMMA TruncateEffect ==
    ASSUME CertificatesTypeOK, NEW w \in Writers, Truncate(w)
    PROVE  /\ UNCHANGED <<mode, made, load, proc, served, renewed, contended>>
           /\ out[w].todo # <<>> /\ Head(out[w].todo) \in {"cert", "key"}
           /\ file' \in Material /\ newer' \in BOOLEAN /\ out' \in [Writers -> FileWrites]
           /\ Head(out[w].todo) = "cert" => file'.key = file.key
           /\ Head(out[w].todo) = "key" => file'.cert = file.cert
           /\ \A x \in Writers : x # w => out'[x] = out[x]
           /\ out'[w].todo = out[w].todo /\ out'[w].gen = out[w].gen
<1>1. file \in Material /\ newer \in BOOLEAN /\ out \in [Writers -> FileWrites] /\ out[w] \in FileWrites
  BY CertificateTypeParts
<1>2. /\ UNCHANGED <<mode, made, load, proc, served, renewed, contended>>
      /\ out[w].todo # <<>> /\ out' = [out EXCEPT ![w].torn = TRUE]
      /\ file' = [file EXCEPT ![Head(out[w].todo)] = 0]
      /\ newer' = (newer \/ Head(out[w].todo) = "cert")
  BY DEF Truncate
<1>3. Head(out[w].todo) \in {"cert", "key"}
  BY <1>1, <1>2, ProgressTyped DEF FileWrites
<1>4. /\ file' \in Material
      /\ Head(out[w].todo) = "cert" => file'.key = file.key
      /\ Head(out[w].todo) = "key" => file'.cert = file.cert
  BY <1>1, <1>2, <1>3, CertificateValuesTyped DEF Material
<1>5. /\ out' \in [Writers -> FileWrites]
      /\ \A x \in Writers : x # w => out'[x] = out[x]
      /\ out'[w].todo = out[w].todo /\ out'[w].gen = out[w].gen
  BY <1>1, <1>2 DEF FileWrites
<1> QED BY <1>1, <1>2, <1>3, <1>4, <1>5

\* A truncated file is written, and the writer goes on to the next.
LEMMA WriteEffect ==
    ASSUME CertificatesTypeOK, NEW w \in Writers, Write(w), out[w].todo # <<>>
    PROVE  /\ UNCHANGED <<mode, made, load, proc, served, renewed, contended>>
           /\ out[w].torn
           /\ file' \in Material /\ newer' \in BOOLEAN /\ out' \in [Writers -> FileWrites]
           /\ Head(out[w].todo) = "cert" => file'.cert = out[w].gen /\ file'.key = file.key
           /\ Head(out[w].todo) = "key" => file'.key = out[w].gen /\ file'.cert = file.cert
           /\ \A x \in Writers : x # w => out'[x] = out[x]
           /\ out'[w].todo = Tail(out[w].todo) /\ out'[w].gen = out[w].gen /\ ~out'[w].torn
<1>1. file \in Material /\ newer \in BOOLEAN /\ out \in [Writers -> FileWrites] /\ out[w] \in FileWrites
  BY CertificateTypeParts
<1>2. /\ UNCHANGED <<mode, made, load, proc, served, renewed, contended>>
      /\ out[w].torn /\ out' = [out EXCEPT ![w].todo = Tail(@), ![w].torn = FALSE]
      /\ file' = [file EXCEPT ![Head(out[w].todo)] = out[w].gen]
      /\ newer' = (newer \/ Head(out[w].todo) = "cert")
  BY DEF Write
<1>3. Head(out[w].todo) \in {"cert", "key"} /\ Tail(out[w].todo) \in Todos /\ out[w].gen \in Gen
  BY <1>1, <1>2, ProgressTyped DEF FileWrites
<1>4. /\ file' \in Material
      /\ Head(out[w].todo) = "cert" => file'.cert = out[w].gen /\ file'.key = file.key
      /\ Head(out[w].todo) = "key" => file'.key = out[w].gen /\ file'.cert = file.cert
  BY <1>1, <1>2, <1>3 DEF Material
<1> DEFINE o == [out[w] EXCEPT !.todo = Tail(out[w].todo), !.torn = FALSE]
<1>5. o \in FileWrites /\ o.todo = Tail(out[w].todo) /\ o.gen = out[w].gen /\ o.torn = FALSE
  BY <1>1, <1>3 DEF FileWrites
<1>6. out' = [out EXCEPT ![w] = o]
  BY <1>1, <1>2 DEF FileWrites
<1> HIDE DEF o
<1>7. out' \in [Writers -> FileWrites] /\ out'[w] = o /\ \A x \in Writers : x # w => out'[x] = out[x]
  BY <1>1, <1>5, <1>6
<1> QED BY <1>1, <1>2, <1>4, <1>5, <1>7

\* A writer is given a new pair to write.
LEMMA NewPairEffect ==
    ASSUME CertificatesTypeOK, NEW w \in Writers, NEW todo \in Todos, Generate(w, todo)
    PROVE  /\ made + 1 \in Gen /\ made + 1 # 0 /\ made' = made + 1
           /\ out' \in [Writers -> FileWrites]
           /\ \A x \in Writers : x # w => out'[x] = out[x]
           /\ out'[w].gen = made + 1 /\ out'[w].todo = todo /\ out'[w].torn = FALSE
<1>1. out \in [Writers -> FileWrites] /\ made \in Gen
  BY CertificateTypeParts
<1>2. made + 1 \in Gen /\ made + 1 # 0
  BY <1>1, CertificatesAssumptions DEF Generate, Gen
<1> DEFINE o == [gen |-> made + 1, todo |-> todo, torn |-> FALSE]
<1>3. o \in FileWrites /\ o.gen = made + 1 /\ o.todo = todo /\ o.torn = FALSE
  BY <1>2 DEF FileWrites
<1>4. out' = [out EXCEPT ![w] = o] /\ made' = made + 1
  BY DEF Generate
<1> HIDE DEF o
<1> QED BY <1>1, <1>2, <1>3, <1>4

\* A call returns, and the server goes on with what it returned.
LEMMA ReturnEffect ==
    ASSUME CertificatesTypeOK, NEW p \in Loaders, NEW m \in Material, Return(p, m)
    PROVE  /\ load' \in [Loaders -> Loading] /\ load'[p] = AtRest
           /\ \A q \in Loaders : q # p => load'[q] = load[q]
           /\ p = "server" => server' = "loaded" /\ cur' = m
           /\ p # "server" => UNCHANGED <<server, cur>>
           /\ server' \in {"down", "boot", "loaded", "serving"} /\ cur' \in Material
<1>1. /\ load \in [Loaders -> Loading] /\ cur \in Material
      /\ server \in {"down", "boot", "loaded", "serving"}
  BY CertificateTypeParts
<1>2. load' = [load EXCEPT ![p] = AtRest]
  BY DEF Return
<1>3. p = "server" => server' = "loaded" /\ cur' = m
  BY DEF Return
<1>4. p # "server" => UNCHANGED <<server, cur>>
  BY DEF Return
<1>5. server' \in {"down", "boot", "loaded", "serving"} /\ cur' \in Material
  BY <1>1, <1>3, <1>4
<1>6. load' \in [Loaders -> Loading] /\ load'[p] = AtRest /\ \A q \in Loaders : q # p => load'[q] = load[q]
  BY <1>1, <1>2, CertificateValuesTyped
<1> QED BY <1>3, <1>4, <1>5, <1>6

\* A goroutine of watchCert moves on.
LEMMA GotoEffect ==
    ASSUME CertificatesTypeOK, NEW t \in Threads, NEW pc \in {"idle", "start", "lock", "cert", "key"}, NEW c \in Gen,
           ThreadAt(t, pc, c)
    PROVE  /\ thread' \in [Threads -> Reloading]
           /\ thread'[t].pc = pc /\ thread'[t].cert = c
           /\ \A x \in Threads : x # t => thread'[x] = thread[x]
<1>1. thread \in [Threads -> Reloading]
  BY CertificateTypeParts
<1> DEFINE r == [pc |-> pc, cert |-> c]
<1>2. r \in Reloading /\ r.pc = pc /\ r.cert = c
  BY DEF Reloading
<1>3. thread' = [thread EXCEPT ![t] = r]
  BY DEF ThreadAt
<1> HIDE DEF r
<1> QED BY <1>1, <1>2, <1>3

-----------------------------------------------------------------------------
\* The inductive invariant

\* Nothing changes on disk or in a loader: what is settled stays settled.
LEMMA SettledFrame ==
    ASSUME DiskSettled, UNCHANGED <<mode, file, out, load, served, renewed, contended>>,
           server' \in {"loaded", "serving"} => server \in {"loaded", "serving"} /\ cur' = cur,
           Undisturbed /\ server' = "serving" => sum' = cur.cert /\ \A t \in Threads : thread'[t].pc # "key"
    PROVE  DiskSettled'
<1> SUFFICES ASSUME Undisturbed' PROVE DiskSettled'
  BY DEF DiskSettled
<1>1. Undisturbed
  BY DEF Undisturbed
<1>2. \A p \in Loaders : WritesInOrder(p) => WritesInOrder(p)'
  BY DEF WritesInOrder, OnDisk
<1>3. /\ \A p, q \in Loaders : (load'[p].pc # "idle" /\ load'[q].pc # "idle") => p = q
      /\ out'["renewer"].todo = <<>> /\ ~out'["renewer"].torn
      /\ \A p \in Loaders :
              /\ load'[p].pc # "write" => out'[p].todo = <<>> /\ ~out'[p].torn
              /\ load'[p].pc = "key" => load'[p].cert = file'.cert
              /\ load'[p].pc = "write" => WritesInOrder(p)'
  BY <1>1, <1>2 DEF DiskSettled
<1>4. /\ server' \in {"loaded", "serving"} => OnDisk(cur.cert)'
      /\ served' # {} => \E g \in 1..MaxGen : OnDisk(g)' /\ served' = {g}
  BY <1>1 DEF DiskSettled, OnDisk
<1>5. server' = "serving" => sum' = cur'.cert /\ \A t \in Threads : thread'[t].pc # "key"
  BY <1>1
<1> QED BY <1>3, <1>4, <1>5 DEF DiskSettled

\* A pair is undisturbed as long as it was before.
LEMMA UndisturbedBefore ==
    ASSUME mode' = mode, renewed => renewed', contended => contended', Undisturbed'
    PROVE  Undisturbed
BY DEF Undisturbed

\* The initial states satisfy the certificate invariant.
LEMMA CertInit == CertificatesInit => CertInv
<1> SUFFICES ASSUME CertificatesInit PROVE CertInv
  OBVIOUS
<1> USE CertificatesAssumptions, CertificateValuesTyped
<1>1. file \in Material /\ file.cert \in Gen
  BY DEF CertificatesInit, Material
<1>2. \A w \in Writers : out[w] = NoWrite
  BY DEF CertificatesInit, Writers
<1>3. out \in [Writers -> FileWrites] /\ load \in [Loaders -> Loading] /\ thread \in [Threads -> Reloading]
  BY DEF CertificatesInit, Writers
<1>4. \A p \in Loaders : load[p].pc = "idle"
  BY DEF CertificatesInit
<1>5. \A t \in Threads : thread[t].pc = "idle"
  BY DEF CertificatesInit
<1>6. CertificatesTypeOK
  BY <1>1, <1>3, CertificateTypeParts DEF CertificatesInit
<1>7. PairsMatch
  BY <1>4 DEF CertificatesInit, PairsMatch
<1>8. ProcessesInPhase
  BY <1>2, <1>4, <1>5 DEF CertificatesInit, ProcessesInPhase, Loaders, Writers
<1>9. DiskSettled
  BY <1>2, <1>4 DEF CertificatesInit, DiskSettled, Loaders, Writers
<1> QED BY <1>6, <1>7, <1>8, <1>9 DEF CertInv

\* FileWrites the files keeps the certificate invariant.
LEMMA FilesStep ==
    ASSUME CertInv, NEW w \in Writers, Truncate(w) \/ Write(w) PROVE CertInv'
<1> USE CertificatesAssumptions
<1>c. CertificatesTypeOK /\ PairsMatch /\ ProcessesInPhase /\ DiskSettled
  BY DEF CertInv
<1>0. out[w].todo # <<>>
  BY <1>c DEF ProcessesInPhase, Truncate, Write, Writers
<1>1. /\ UNCHANGED <<mode, made, load, proc, served, renewed, contended>>
      /\ file' \in Material /\ newer' \in BOOLEAN /\ out' \in [Writers -> FileWrites]
      /\ \A x \in Writers : x # w => out'[x] = out[x]
      /\ out'[w].gen = out[w].gen
  BY <1>c, <1>0, TruncateEffect, WriteEffect
<1>2. UNCHANGED <<mode, made, load, server, cur, sum, mu, thread, hup, served, renewed, contended>>
  BY <1>1 DEF proc
<1>3. CertificatesTypeOK'
  BY <1>c, <1>1, <1>2, CertificateTypeParts, CertificateTypePartsNext
<1>4. PairsMatch'
  BY <1>c, <1>2 DEF PairsMatch
<1>5. ProcessesInPhase'
  <2>1. out'[w].torn => out'[w].todo # <<>>
    <3>1. CASE Truncate(w)
      BY <1>0, <1>c, <3>1, TruncateEffect
    <3>2. CASE Write(w)
      BY <1>0, <1>c, <3>2, WriteEffect
    <3> QED BY <3>1, <3>2
  <2>2. \A x \in Writers : out'[x].torn => out'[x].todo # <<>>
    BY <1>c, <1>1, <2>1 DEF ProcessesInPhase, Writers
  <2> QED BY <1>c, <1>2, <2>2 DEF ProcessesInPhase, Writers
<1>6. DiskSettled'
  <2> SUFFICES ASSUME Undisturbed' PROVE DiskSettled'
    BY DEF DiskSettled
  <2>1. Undisturbed
    BY <1>2, UndisturbedBefore
  <2>2. w \in Loaders /\ load[w].pc = "write" /\ WritesInOrder(w)
    BY <1>c, <1>0, <2>1 DEF DiskSettled, Writers
  <2>3. \A p \in Loaders : p # w => load[p].pc = "idle"
    BY <1>c, <2>1, <2>2 DEF DiskSettled
  <2>4. out[w].todo = <<"cert", "key">> \/ (out[w].todo = <<"key">> /\ file.cert = load[w].cert)
    BY <1>0, <2>2 DEF WritesInOrder
  <2>5. /\ served' = {} /\ server' \notin {"loaded", "serving"} /\ out'[w].gen = load'[w].cert
    BY <1>1, <1>2, <2>2 DEF WritesInOrder
  <2>6. \/ out'[w].todo = <<"cert", "key">>
        \/ out'[w].todo = <<"key">> /\ file'.cert = load'[w].cert
        \/ out'[w].todo = <<>> /\ ~out'[w].torn /\ OnDisk(load[w].cert)'
    <3>1. CASE Truncate(w)
      <4>1. out'[w].todo = out[w].todo /\ (Head(out[w].todo) = "key" => file'.cert = file.cert)
        BY <1>c, <3>1, TruncateEffect
      <4> QED BY <1>2, <2>4, <4>1, Progress
    <3>2. CASE Write(w)
      <4>1. /\ out'[w].todo = Tail(out[w].todo) /\ ~out'[w].torn
            /\ Head(out[w].todo) = "cert" => file'.cert = out[w].gen
            /\ Head(out[w].todo) = "key" => file'.key = out[w].gen /\ file'.cert = file.cert
        BY <1>0, <1>c, <3>2, WriteEffect
      <4>2. out[w].gen = load[w].cert
        BY <2>2 DEF WritesInOrder
      <4>3. CASE out[w].todo = <<"cert", "key">>
        BY <1>2, <4>1, <4>2, <4>3, Progress
      <4>4. CASE out[w].todo = <<"key">> /\ file.cert = load[w].cert
        BY <1>2, <4>1, <4>2, <4>4, Progress DEF OnDisk
      <4> QED BY <2>4, <4>3, <4>4
    <3> QED BY <3>1, <3>2
  <2>7. WritesInOrder(w)'
    BY <2>5, <2>6 DEF WritesInOrder
  <2>8. \A p \in Loaders :
              /\ load'[p].pc # "write" => out'[p].todo = <<>> /\ ~out'[p].torn
              /\ load'[p].pc = "key" => load'[p].cert = file'.cert
              /\ load'[p].pc = "write" => WritesInOrder(p)'
    BY <1>c, <1>1, <1>2, <2>1, <2>2, <2>3, <2>7 DEF DiskSettled, Writers
  <2>9. /\ \A p, q \in Loaders : (load'[p].pc # "idle" /\ load'[q].pc # "idle") => p = q
        /\ out'["renewer"].todo = <<>> /\ ~out'["renewer"].torn
    BY <1>c, <1>1, <1>2, <2>1, <2>2 DEF DiskSettled, Writers, Loaders
  <2> QED BY <2>5, <2>8, <2>9 DEF DiskSettled
<1> QED BY <1>3, <1>4, <1>5, <1>6 DEF CertInv

\* A renewal keeps the certificate invariant; from then on nothing is undisturbed.
LEMMA RenewStep == ASSUME CertInv, Renew PROVE CertInv'
<1>c. CertificatesTypeOK /\ PairsMatch /\ ProcessesInPhase
  BY DEF CertInv
<1>1. /\ UNCHANGED <<mode, file, newer, load, server, cur, sum, mu, thread, hup, served, contended>>
      /\ renewed' = TRUE
  BY DEF Renew, proc
<1>2. PICK todo \in {<<"cert", "key">>, <<"key", "cert">>} : Generate("renewer", todo)
  BY DEF Renew
<1>3. todo \in Todos /\ "renewer" \in Writers
  BY DEF Todos, Writers
<1>4. /\ made' \in Gen /\ out' \in [Writers -> FileWrites]
      /\ \A x \in Writers : x # "renewer" => out'[x] = out[x]
      /\ out'["renewer"].torn = FALSE
  BY <1>2, <1>3, <1>c, NewPairEffect
<1>5. CertificatesTypeOK'
  BY <1>1, <1>4, <1>c, CertificateTypeParts, CertificateTypePartsNext
<1>6. PairsMatch'
  BY <1>1, <1>c DEF PairsMatch
<1>7. ProcessesInPhase'
  BY <1>1, <1>4, <1>c DEF ProcessesInPhase, Writers
<1>8. DiskSettled'
  BY <1>1 DEF DiskSettled, Undisturbed
<1> QED BY <1>5, <1>6, <1>7, <1>8 DEF CertInv

\* Starting a call of LoadOrCreate or LoadCustom keeps the certificate invariant.
LEMMA BeginLoadStep == ASSUME CertInv, NEW p \in Loaders, BeginLoad(p) PROVE CertInv'
<1>c. CertificatesTypeOK /\ PairsMatch /\ ProcessesInPhase /\ DiskSettled
  BY DEF CertInv
<1>1. /\ UNCHANGED <<mode, file, newer, made, out, cur, sum, mu, thread, hup, served, renewed>>
      /\ load[p].pc = "idle"
      /\ load' = [load EXCEPT ![p] = [pc |-> "key", cert |-> file.cert]]
      /\ contended' = (contended \/ \E q \in Loaders \ {p} : load[q].pc # "idle")
  BY DEF BeginLoad, disk
<1>2. IF p = "server" THEN server = "down" /\ server' = "boot" ELSE mode = "dir" /\ server' = server
  BY DEF BeginLoad
<1> DEFINE l == [pc |-> "key", cert |-> file.cert]
<1>3. l \in Loading /\ l.pc = "key" /\ l.cert = file.cert
  BY <1>c, CertificateTypeParts DEF Loading, Material
<1>4. load' = [load EXCEPT ![p] = l]
  BY <1>1
<1> HIDE DEF l
<1>5. load' \in [Loaders -> Loading] /\ load'[p] = l /\ \A q \in Loaders : q # p => load'[q] = load[q]
  BY <1>3, <1>4, <1>c, CertificateTypeParts
<1>6. server' \in {"down", "boot", "loaded", "serving"} /\ contended' \in BOOLEAN
  BY <1>1, <1>2, <1>c, CertificateTypeParts
<1>7. CertificatesTypeOK'
  BY <1>1, <1>5, <1>6, <1>c, CertificateTypeParts, CertificateTypePartsNext
<1>8. PairsMatch'
  BY <1>1, <1>2, <1>3, <1>5, <1>c DEF PairsMatch
<1>9. ProcessesInPhase'
  BY <1>1, <1>2, <1>3, <1>5, <1>c DEF ProcessesInPhase, Loaders
<1>10. DiskSettled'
  <2> SUFFICES ASSUME Undisturbed' PROVE DiskSettled'
    BY DEF DiskSettled
  <2>1. Undisturbed /\ \A q \in Loaders : q # p => load[q].pc = "idle"
    BY <1>1 DEF Undisturbed
  <2>2. server' \in {"loaded", "serving"} => server' = server
    BY <1>2
  <2>3. \A q \in Loaders :
              /\ load'[q].pc # "write"
              /\ out'[q].todo = <<>> /\ ~out'[q].torn
              /\ load'[q].pc = "key" => load'[q].cert = file'.cert
    BY <1>1, <1>3, <1>5, <1>c, <2>1 DEF DiskSettled
  <2>4. /\ \A q, x \in Loaders : (load'[q].pc # "idle" /\ load'[x].pc # "idle") => q = x
        /\ out'["renewer"].todo = <<>> /\ ~out'["renewer"].torn
    BY <1>1, <1>5, <1>c, <2>1 DEF DiskSettled
  <2>5. /\ server' \in {"loaded", "serving"} => OnDisk(cur.cert)'
        /\ server' = "serving" => sum' = cur'.cert /\ \A t \in Threads : thread'[t].pc # "key"
        /\ served' # {} => \E g \in 1..MaxGen : OnDisk(g)' /\ served' = {g}
    BY <1>1, <1>c, <2>1, <2>2 DEF DiskSettled, OnDisk
  <2> QED BY <2>3, <2>4, <2>5 DEF DiskSettled
<1> QED BY <1>7, <1>8, <1>9, <1>10 DEF CertInv

\* A call that returns a pair keeps the certificate invariant, when the pair
\* matches and, undisturbed, is the one on disk.
LEMMA ReturnStep ==
    ASSUME CertInv, NEW p \in Loaders, NEW m \in Material, Return(p, m), load[p].pc # "idle",
           m.cert # 0 /\ m.cert = m.key,
           Undisturbed => OnDisk(m.cert) /\ out'[p].todo = <<>> /\ ~out'[p].torn,
           UNCHANGED <<mode, file, newer, sum, mu, thread, hup, served, renewed, contended>>,
           made' \in Gen /\ out' \in [Writers -> FileWrites],
           \A w \in Writers : out'[w].torn => out'[w].todo # <<>>,
           \A w \in Writers : w # p => out'[w] = out[w]
    PROVE  CertInv'
<1>c. CertificatesTypeOK /\ PairsMatch /\ ProcessesInPhase /\ DiskSettled
  BY DEF CertInv
<1>1. /\ load' \in [Loaders -> Loading] /\ load'[p] = AtRest
      /\ \A q \in Loaders : q # p => load'[q] = load[q]
      /\ p = "server" => server' = "loaded" /\ cur' = m
      /\ p # "server" => UNCHANGED <<server, cur>>
      /\ server' \in {"down", "boot", "loaded", "serving"} /\ cur' \in Material
  BY <1>c, ReturnEffect
<1>2. load'[p].pc = "idle"
  BY <1>1, CertificateValuesTyped
<1>3. CertificatesTypeOK'
  BY <1>1, <1>c, CertificateTypeParts, CertificateTypePartsNext
<1>4. PairsMatch'
  BY <1>1, <1>2, <1>c DEF PairsMatch
<1>5. p = "server" => server = "boot"
  BY <1>c DEF ProcessesInPhase
<1>6. ProcessesInPhase'
  <2>1. /\ load'["server"].pc # "idle" => server' = "boot"
        /\ load'["cli"].pc # "idle" => mode' = "dir"
    BY <1>1, <1>2, <1>c DEF ProcessesInPhase, Loaders
  <2>2. server' # "serving" => ~hup' /\ \A t \in Threads : thread'[t].pc = "idle"
    BY <1>1, <1>5, <1>c DEF ProcessesInPhase
  <2> QED BY <2>1, <2>2 DEF ProcessesInPhase, Writers
<1>7. DiskSettled'
  <2> SUFFICES ASSUME Undisturbed' PROVE DiskSettled'
    BY DEF DiskSettled
  <2>1. Undisturbed
    BY UndisturbedBefore
  <2>2. \A q \in Loaders : load'[q].pc = "idle"
    BY <1>1, <1>2, <1>c, <2>1 DEF DiskSettled
  <2>3. \A q \in Loaders : out'[q].todo = <<>> /\ ~out'[q].torn
    BY <1>1, <1>c, <2>1, <2>2 DEF DiskSettled, Writers
  <2>4. out'["renewer"].todo = <<>> /\ ~out'["renewer"].torn
    BY <1>c, <2>1 DEF DiskSettled, Writers, Loaders
  <2>5. server' \in {"loaded", "serving"} => OnDisk(cur.cert)'
    BY <1>1, <1>c, <2>1 DEF DiskSettled, OnDisk
  <2>6. /\ server' = "serving" => sum' = cur'.cert /\ \A t \in Threads : thread'[t].pc # "key"
        /\ served' # {} => \E g \in 1..MaxGen : OnDisk(g)' /\ served' = {g}
    BY <1>1, <1>c, <2>1 DEF DiskSettled, OnDisk
  <2> QED BY <2>2, <2>3, <2>4, <2>5, <2>6 DEF DiskSettled
<1> QED BY <1>3, <1>4, <1>6, <1>7 DEF CertInv

\* LoadOrCreate's and LoadCustom's second read keeps the certificate invariant.
LEMMA LoadKeyStep == ASSUME CertInv, NEW p \in Loaders, LoadKey(p) PROVE CertInv'
<1> USE CertificatesAssumptions
<1>c. CertificatesTypeOK /\ PairsMatch /\ ProcessesInPhase /\ DiskSettled
  BY DEF CertInv
<1>t. /\ load \in [Loaders -> Loading] /\ load[p].cert \in Gen /\ file \in Material /\ file.key \in Gen
      /\ out \in [Writers -> FileWrites] /\ made \in Gen /\ mode \in {"dir", "custom", "memory"}
  BY <1>c, CertificateTypeParts DEF Loading, Material
<1>p. p \in Writers
  BY DEF Writers
<1>0. /\ load[p].pc = "key"
      /\ UNCHANGED <<mode, file, newer, sum, mu, thread, hup, served, renewed, contended>>
  BY DEF LoadKey
<1>d. Undisturbed => load[p].cert = file.cert /\ out[p].todo = <<>> /\ ~out[p].torn
  BY <1>0, <1>c DEF DiskSettled
<1>w. \A w \in Writers : out[w].torn => out[w].todo # <<>>
  BY <1>c DEF ProcessesInPhase, Writers
<1>1. CASE X509KeyPair(load[p].cert, file.key)
  <2> DEFINE m == [cert |-> load[p].cert, key |-> file.key]
  <2>1. Return(p, m) /\ UNCHANGED <<made, out>>
    BY <1>1 DEF LoadKey
  <2>2. m \in Material /\ m.cert = load[p].cert /\ m.key = file.key
    BY <1>t DEF Material
  <2>3. m.cert # 0 /\ m.cert = m.key
    BY <1>1, <2>2 DEF X509KeyPair
  <2> HIDE DEF m
  <2>4. Undisturbed => OnDisk(m.cert) /\ out'[p].todo = <<>> /\ ~out'[p].torn
    BY <1>d, <2>1, <2>2, <2>3 DEF OnDisk
  <2> QED BY <1>0, <1>t, <1>w, <2>1, <2>2, <2>3, <2>4, ReturnStep
<1>2. CASE ~X509KeyPair(load[p].cert, file.key) /\ mode = "custom"
  <2>1. server' = "down" /\ load' = [load EXCEPT ![p] = AtRest] /\ UNCHANGED <<made, out, cur>>
    BY <1>2 DEF LoadKey
  <2>2. load' \in [Loaders -> Loading] /\ load'[p].pc = "idle" /\ \A q \in Loaders : q # p => load'[q] = load[q]
    BY <1>t, <2>1, CertificateValuesTyped
  <2>3. p = "server" /\ server = "boot"
    BY <1>0, <1>2, <1>c DEF ProcessesInPhase, Loaders
  <2>4. CertificatesTypeOK'
    BY <1>0, <1>c, <2>1, <2>2, CertificateTypeParts, CertificateTypePartsNext
  <2>5. PairsMatch'
    BY <1>c, <2>1, <2>2 DEF PairsMatch
  <2>6. ProcessesInPhase'
    BY <1>0, <1>c, <2>1, <2>2, <2>3 DEF ProcessesInPhase, Loaders
  <2>7. DiskSettled'
    <3> SUFFICES ASSUME Undisturbed' PROVE DiskSettled'
      BY DEF DiskSettled
    <3>1. Undisturbed
      BY <1>0, UndisturbedBefore
    <3>2. \A q \in Loaders : load'[q].pc = "idle" /\ out'[q].todo = <<>> /\ ~out'[q].torn
      BY <1>0, <1>c, <2>1, <2>2, <3>1 DEF DiskSettled
    <3>3. /\ out'["renewer"].todo = <<>> /\ ~out'["renewer"].torn
          /\ served' # {} => \E g \in 1..MaxGen : OnDisk(g)' /\ served' = {g}
      BY <1>0, <1>c, <2>1, <3>1 DEF DiskSettled, OnDisk
    <3> QED BY <2>1, <3>2, <3>3 DEF DiskSettled
  <2> QED BY <2>4, <2>5, <2>6, <2>7 DEF CertInv
<1>3. CASE ~X509KeyPair(load[p].cert, file.key) /\ mode = "dir"
  <2> DEFINE l == [pc |-> "write", cert |-> made + 1]
  <2>1. Generate(p, Persisted) /\ load' = [load EXCEPT ![p] = l] /\ UNCHANGED <<server, cur>>
    BY <1>3 DEF LoadKey
  <2>2. Persisted \in Todos /\ Persisted = <<"cert", "key">>
    BY DEF Persisted, Todos
  <2>3. /\ made + 1 \in Gen /\ made + 1 # 0 /\ made' = made + 1
        /\ out' \in [Writers -> FileWrites]
        /\ \A x \in Writers : x # p => out'[x] = out[x]
        /\ out'[p].gen = made + 1 /\ out'[p].todo = Persisted /\ out'[p].torn = FALSE
    BY <1>c, <1>p, <2>1, <2>2, NewPairEffect
  <2>4. l \in Loading /\ l.pc = "write" /\ l.cert = made + 1
    BY <2>3 DEF Loading
  <2> HIDE DEF l
  <2>5. load' \in [Loaders -> Loading] /\ load'[p] = l /\ \A q \in Loaders : q # p => load'[q] = load[q]
    BY <1>t, <2>1, <2>4
  <2>6. CertificatesTypeOK'
    BY <1>0, <1>c, <2>1, <2>3, <2>5, CertificateTypeParts, CertificateTypePartsNext
  <2>7. PairsMatch'
    BY <1>c, <2>1, <2>3, <2>4, <2>5 DEF PairsMatch
  <2>8. ProcessesInPhase'
    <3>1. \A x \in Writers : out'[x].torn => out'[x].todo # <<>>
      BY <1>w, <2>3
    <3>2. /\ load'["server"].pc # "idle" => server' = "boot"
          /\ load'["cli"].pc # "idle" => mode' = "dir"
      BY <1>0, <1>3, <1>c, <2>1, <2>5 DEF ProcessesInPhase, Loaders
    <3>3. server' # "serving" => ~hup' /\ \A t \in Threads : thread'[t].pc = "idle"
      BY <1>0, <1>c, <2>1 DEF ProcessesInPhase
    <3> QED BY <3>1, <3>2, <3>3 DEF ProcessesInPhase, Writers
  <2>9. DiskSettled'
    <3> SUFFICES ASSUME Undisturbed' PROVE DiskSettled'
      BY DEF DiskSettled
    <3>1. Undisturbed
      BY <1>0, UndisturbedBefore
    <3>2. load[p].cert = file.cert /\ \A q \in Loaders : q # p => load[q].pc = "idle"
      BY <1>0, <1>c, <3>1 DEF DiskSettled
    <3>3. server \notin {"loaded", "serving"}
      <4> SUFFICES ASSUME server \in {"loaded", "serving"} PROVE FALSE
        OBVIOUS
      <4>1. OnDisk(cur.cert) /\ cur.cert # 0
        BY <1>c, <3>1 DEF DiskSettled, PairsMatch
      <4> QED BY <1>3, <3>2, <4>1 DEF OnDisk, X509KeyPair
    <3>4. served = {}
      <4> SUFFICES ASSUME served # {} PROVE FALSE
        OBVIOUS
      <4>1. PICK g \in 1..MaxGen : OnDisk(g)
        BY <1>c, <3>1 DEF DiskSettled
      <4>2. g # 0
        OBVIOUS
      <4> QED BY <1>3, <3>2, <4>1, <4>2 DEF OnDisk, X509KeyPair
    <3>5. WritesInOrder(p)'
      <4>1. load'[p].cert = made + 1
        BY <2>4, <2>5
      <4> QED BY <1>0, <2>1, <2>2, <2>3, <3>3, <3>4, <4>1 DEF WritesInOrder
    <3>6. \A q \in Loaders : q # p =>
              load'[q].pc = "idle" /\ out'[q].todo = <<>> /\ ~out'[q].torn
      BY <1>c, <2>3, <2>5, <3>1, <3>2 DEF DiskSettled, Writers
    <3>7. load'[p].pc = "write"
      BY <2>4, <2>5
    <3>8. out'["renewer"].todo = <<>> /\ ~out'["renewer"].torn
      BY <1>c, <2>3, <3>1 DEF DiskSettled, Writers, Loaders
    <3> QED BY <1>0, <2>1, <3>3, <3>4, <3>5, <3>6, <3>7, <3>8 DEF DiskSettled
  <2> QED BY <2>6, <2>7, <2>8, <2>9 DEF CertInv
<1>4. CASE ~X509KeyPair(load[p].cert, file.key) /\ mode = "memory"
  <2> DEFINE m == [cert |-> made + 1, key |-> made + 1]
  <2>1. Generate(p, <<>>) /\ Return(p, m)
    BY <1>4 DEF LoadKey
  <2>2. <<>> \in Todos
    BY DEF Todos
  <2>3. /\ made + 1 \in Gen /\ made + 1 # 0 /\ made' = made + 1
        /\ out' \in [Writers -> FileWrites]
        /\ \A x \in Writers : x # p => out'[x] = out[x]
        /\ out'[p].torn = FALSE
    BY <1>c, <1>p, <2>1, <2>2, NewPairEffect
  <2>4. m \in Material /\ m.cert = made + 1 /\ m.key = made + 1
    BY <2>3 DEF Material
  <2> HIDE DEF m
  <2>5. ~Undisturbed
    BY <1>4 DEF Undisturbed
  <2>6. \A w \in Writers : out'[w].torn => out'[w].todo # <<>>
    BY <1>w, <2>3
  <2>7. m.cert # 0 /\ m.cert = m.key /\ made' \in Gen
    BY <2>3, <2>4
  <2> QED BY <1>0, <2>1, <2>3, <2>4, <2>5, <2>6, <2>7, ReturnStep
<1> QED BY <1>1, <1>2, <1>3, <1>4, <1>t

\* The end of LoadOrCreate's writes keeps the certificate invariant.
LEMMA CreatedStep == ASSUME CertInv, NEW p \in Loaders, Created(p) PROVE CertInv'
<1>c. CertificatesTypeOK /\ PairsMatch /\ ProcessesInPhase /\ DiskSettled
  BY DEF CertInv
<1> DEFINE m == [cert |-> load[p].cert, key |-> load[p].cert]
<1>1. /\ load[p].pc = "write" /\ out[p].todo = <<>> /\ Return(p, m)
      /\ UNCHANGED <<mode, file, newer, made, out, sum, mu, thread, hup, served, renewed, contended>>
  BY DEF Created, disk
<1>2. load[p].cert \in Gen /\ made \in Gen /\ out \in [Writers -> FileWrites]
  BY <1>c, CertificateTypeParts DEF Loading
<1>3. m \in Material /\ m.cert = load[p].cert /\ m.key = load[p].cert
  BY <1>2 DEF Material
<1> HIDE DEF m
<1>4. m.cert # 0 /\ m.cert = m.key
  BY <1>1, <1>3, <1>c DEF PairsMatch
<1>5. \A w \in Writers : out[w].torn => out[w].todo # <<>>
  BY <1>c DEF ProcessesInPhase, Writers
<1>6. Undisturbed => OnDisk(m.cert) /\ out'[p].todo = <<>> /\ ~out'[p].torn
  BY <1>1, <1>3, <1>c, Progress DEF DiskSettled, WritesInOrder
<1> QED BY <1>1, <1>2, <1>3, <1>4, <1>5, <1>6, ReturnStep

\* Starting to listen keeps the certificate invariant.
LEMMA ListenStep == ASSUME CertInv, Listen PROVE CertInv'
<1>c. CertificatesTypeOK /\ PairsMatch /\ ProcessesInPhase /\ DiskSettled
  BY DEF CertInv
<1> DEFINE r == [pc |-> IF mode = "memory" THEN "idle" ELSE "start", cert |-> 0]
<1>1. /\ server = "loaded" /\ server' = "serving" /\ sum' = cur.cert
      /\ thread' = [thread EXCEPT !["poll"] = r]
      /\ UNCHANGED <<mode, file, newer, made, out, load, cur, mu, hup, served, renewed, contended>>
  BY DEF Listen, disk
<1>2. r \in Reloading /\ r.pc \in {"idle", "start"}
  BY CertificateValuesTyped DEF Reloading
<1> HIDE DEF r
<1>3. /\ thread' \in [Threads -> Reloading] /\ thread'["poll"] = r
      /\ \A t \in Threads : t # "poll" => thread'[t] = thread[t]
  BY <1>1, <1>2, <1>c, CertificateTypeParts DEF Threads
<1>4. cur.cert \in Gen
  BY <1>c, CertificateTypeParts DEF Material
<1>5. CertificatesTypeOK'
  BY <1>1, <1>3, <1>4, <1>c, CertificateTypeParts, CertificateTypePartsNext
<1>6. PairsMatch'
  BY <1>1, <1>c DEF PairsMatch
<1>7. ProcessesInPhase'
  BY <1>1, <1>c DEF ProcessesInPhase
<1>8. \A t \in Threads : thread'[t].pc # "key"
  BY <1>1, <1>2, <1>3, <1>c DEF ProcessesInPhase
<1>9. DiskSettled'
  BY <1>1, <1>8, <1>c, SettledFrame
<1> QED BY <1>5, <1>6, <1>7, <1>9 DEF CertInv

\* A handshake keeps the certificate invariant: undisturbed, it is given the
\* certificate that earlier ones were.
LEMMA HandshakeStep == ASSUME CertInv, GetCertificate PROVE CertInv'
<1> USE CertificatesAssumptions
<1>c. CertificatesTypeOK /\ PairsMatch /\ ProcessesInPhase /\ DiskSettled
  BY DEF CertInv
<1>1. /\ server = "serving" /\ served' = served \cup {cur.cert}
      /\ UNCHANGED <<mode, file, newer, made, out, load, server, cur, sum, mu, thread, hup, renewed, contended>>
  BY DEF GetCertificate, disk, proc
<1>2. cur.cert \in Gen /\ served \subseteq Gen
  BY <1>c, CertificateTypeParts DEF Material
<1>3. CertificatesTypeOK'
  BY <1>1, <1>2, <1>c, CertificateTypeParts, CertificateTypePartsNext
<1>4. PairsMatch' /\ ProcessesInPhase'
  BY <1>1, <1>c DEF PairsMatch, ProcessesInPhase
<1>5. DiskSettled'
  <2> SUFFICES ASSUME Undisturbed' PROVE DiskSettled'
    BY DEF DiskSettled
  <2>1. Undisturbed
    BY <1>1, UndisturbedBefore
  <2>2. OnDisk(cur.cert) /\ cur.cert \in 1..MaxGen
    BY <1>1, <1>2, <1>c, <2>1 DEF DiskSettled, PairsMatch, Gen
  <2>3. served' = {cur.cert}
    <3>1. CASE served = {}
      BY <1>1, <3>1
    <3>2. CASE served # {}
      <4>1. PICK g \in 1..MaxGen : OnDisk(g) /\ served = {g}
        BY <1>c, <2>1, <3>2 DEF DiskSettled
      <4>2. g = cur.cert
        BY <2>2, <4>1 DEF OnDisk
      <4> QED BY <1>1, <4>1, <4>2
    <3> QED BY <3>1, <3>2
  <2>4. \E g \in 1..MaxGen : OnDisk(g)' /\ served' = {g}
    BY <1>1, <2>2, <2>3 DEF OnDisk
  <2>5. \A p \in Loaders : load[p].pc # "write"
    BY <1>1, <1>c, <2>1 DEF DiskSettled, WritesInOrder
  <2>6. /\ \A p, q \in Loaders : (load'[p].pc # "idle" /\ load'[q].pc # "idle") => p = q
        /\ out'["renewer"].todo = <<>> /\ ~out'["renewer"].torn
        /\ \A p \in Loaders :
              /\ out'[p].todo = <<>> /\ ~out'[p].torn
              /\ load'[p].pc # "write"
              /\ load'[p].pc = "key" => load'[p].cert = file'.cert
    BY <1>1, <1>c, <2>1, <2>5 DEF DiskSettled
  <2>7. /\ OnDisk(cur.cert)'
        /\ sum' = cur'.cert /\ \A t \in Threads : thread'[t].pc # "key"
    BY <1>1, <1>c, <2>1 DEF DiskSettled, OnDisk
  <2> QED BY <2>4, <2>6, <2>7 DEF DiskSettled
<1> QED BY <1>3, <1>4, <1>5 DEF CertInv

\* A goroutine of watchCert that does not replace the pair keeps the invariant.
LEMMA WatchFrame ==
    ASSUME CertInv, server = "serving",
           UNCHANGED <<mode, file, made, out, load, server, cur, sum, served, renewed, contended>>,
           newer' \in BOOLEAN, hup' \in BOOLEAN, mu' \in Threads \cup {"free"},
           thread' \in [Threads -> Reloading],
           Undisturbed => \A t \in Threads : thread'[t].pc # "key"
    PROVE  CertInv'
<1>c. CertificatesTypeOK /\ PairsMatch /\ ProcessesInPhase /\ DiskSettled
  BY DEF CertInv
<1>1. CertificatesTypeOK'
  BY <1>c, CertificateTypeParts, CertificateTypePartsNext
<1>2. PairsMatch'
  BY <1>c DEF PairsMatch
<1>3. ProcessesInPhase'
  BY <1>c DEF ProcessesInPhase
<1>4. Undisturbed /\ server' = "serving" => sum' = cur.cert /\ \A t \in Threads : thread'[t].pc # "key"
  BY <1>c DEF DiskSettled
<1>5. DiskSettled'
  BY <1>4, <1>c, SettledFrame
<1> QED BY <1>1, <1>2, <1>3, <1>5 DEF CertInv

\* The triggers of a reload keep the certificate invariant.
LEMMA TriggerStep ==
    ASSUME CertInv, StartPolling \/ Poll \/ Sighup \/ TakeSignal PROVE CertInv'
<1>c. CertificatesTypeOK /\ ProcessesInPhase /\ DiskSettled
  BY DEF CertInv
<1>t. newer \in BOOLEAN /\ hup \in BOOLEAN /\ mu \in Threads \cup {"free"} /\ thread \in [Threads -> Reloading]
  BY <1>c, CertificateTypeParts
<1>s. server = "serving"
  BY <1>c DEF StartPolling, Poll, Sighup, TakeSignal, ProcessesInPhase, Threads
<1>k. Undisturbed => \A t \in Threads : thread[t].pc # "key"
  BY <1>c, <1>s DEF DiskSettled
<1>1. CASE StartPolling
  <2>1. ThreadAt("poll", "idle", 0) /\ newer' = FALSE
        /\ UNCHANGED <<mode, file, made, out, load, server, cur, sum, mu, hup, served, renewed, contended>>
    BY <1>1 DEF StartPolling
  <2>2. /\ thread' \in [Threads -> Reloading] /\ thread'["poll"].pc = "idle"
        /\ \A x \in Threads : x # "poll" => thread'[x] = thread[x]
    BY <1>c, <2>1, GotoEffect, CertificateValuesTyped DEF Threads
  <2> QED BY <1>k, <1>s, <1>t, <2>1, <2>2, WatchFrame
<1>2. CASE Poll
  <2>1. ThreadAt("poll", "lock", 0) /\ newer' = FALSE
        /\ UNCHANGED <<mode, file, made, out, load, server, cur, sum, mu, hup, served, renewed, contended>>
    BY <1>2 DEF Poll
  <2>2. /\ thread' \in [Threads -> Reloading] /\ thread'["poll"].pc = "lock"
        /\ \A x \in Threads : x # "poll" => thread'[x] = thread[x]
    BY <1>c, <2>1, GotoEffect, CertificateValuesTyped DEF Threads
  <2> QED BY <1>k, <1>s, <1>t, <2>1, <2>2, WatchFrame
<1>3. CASE Sighup
  <2>1. hup' = TRUE /\ UNCHANGED <<mode, file, newer, made, out, load, server, cur, sum, mu, thread,
                                   served, renewed, contended>>
    BY <1>3 DEF Sighup, disk
  <2> QED BY <1>k, <1>s, <1>t, <2>1, WatchFrame
<1>4. CASE TakeSignal
  <2>1. ThreadAt("hup", "lock", 0) /\ hup' = FALSE
        /\ UNCHANGED <<mode, file, newer, made, out, load, server, cur, sum, mu, served, renewed, contended>>
    BY <1>4 DEF TakeSignal, disk
  <2>2. /\ thread' \in [Threads -> Reloading] /\ thread'["hup"].pc = "lock"
        /\ \A x \in Threads : x # "hup" => thread'[x] = thread[x]
    BY <1>c, <2>1, GotoEffect, CertificateValuesTyped DEF Threads
  <2> QED BY <1>k, <1>s, <1>t, <2>1, <2>2, WatchFrame
<1> QED BY <1>1, <1>2, <1>3, <1>4

\* A reload keeps the certificate invariant: it takes over only a pair that
\* matches, and undisturbed it finds what it already has.
LEMMA ReloadStep == ASSUME CertInv, NEW t \in Threads, Reload(t) PROVE CertInv'
<1>c. CertificatesTypeOK /\ PairsMatch /\ ProcessesInPhase /\ DiskSettled
  BY DEF CertInv
<1>t. /\ newer \in BOOLEAN /\ hup \in BOOLEAN /\ mu \in Threads \cup {"free"}
      /\ thread \in [Threads -> Reloading] /\ file \in Material /\ file.cert \in Gen /\ file.key \in Gen
      /\ thread[t].cert \in Gen /\ sum \in Gen /\ cur \in Material
  BY <1>c, CertificateTypeParts DEF Material, Reloading
<1>s. server = "serving"
  BY <1>c DEF Reload, ReloadLock, ReloadCert, ReloadKey, ProcessesInPhase
<1>k. Undisturbed => \A x \in Threads : thread[x].pc # "key"
  BY <1>c, <1>s DEF DiskSettled
<1>1. CASE ReloadLock(t)
  <2>1. ThreadAt(t, "cert", 0) /\ mu' = t
        /\ UNCHANGED <<mode, file, newer, made, out, load, server, cur, sum, hup, served, renewed, contended>>
    BY <1>1 DEF ReloadLock, disk
  <2>2. /\ thread' \in [Threads -> Reloading] /\ thread'[t].pc = "cert"
        /\ \A x \in Threads : x # t => thread'[x] = thread[x]
    BY <1>c, <2>1, GotoEffect, CertificateValuesTyped
  <2> QED BY <1>k, <1>s, <1>t, <2>1, <2>2, WatchFrame
<1>2. CASE ReloadCert(t)
  <2>1. UNCHANGED <<mode, file, newer, made, out, load, server, cur, sum, hup, served, renewed, contended>>
    BY <1>2 DEF ReloadCert, disk
  <2>2. CASE file.cert \in {0, sum}
    <3>1. ThreadAt(t, "idle", 0) /\ mu' = "free"
      BY <1>2, <2>2 DEF ReloadCert, Unlocked
    <3>2. /\ thread' \in [Threads -> Reloading] /\ thread'[t].pc = "idle"
          /\ \A x \in Threads : x # t => thread'[x] = thread[x]
      BY <1>c, <3>1, GotoEffect, CertificateValuesTyped
    <3> QED BY <1>k, <1>s, <1>t, <2>1, <3>1, <3>2, WatchFrame
  <2>3. CASE file.cert \notin {0, sum}
    <3>1. ThreadAt(t, "key", file.cert) /\ mu' = mu
      BY <1>2, <2>3 DEF ReloadCert
    <3>2. thread' \in [Threads -> Reloading]
      BY <1>c, <1>t, <3>1, GotoEffect
    <3>3. ~Undisturbed
      BY <1>c, <1>s, <2>3 DEF DiskSettled, OnDisk
    <3> QED BY <1>s, <1>t, <2>1, <3>1, <3>2, <3>3, WatchFrame
  <2> QED BY <2>2, <2>3
<1>3. CASE ReloadKey(t)
  <2> DEFINE c == thread[t].cert
             ok == X509KeyPair(c, file.key)
  <2>1. /\ thread[t].pc = "key" /\ ThreadAt(t, "idle", 0) /\ mu' = "free"
        /\ cur' = IF ok THEN [cert |-> c, key |-> file.key] ELSE cur
        /\ sum' = IF ok THEN c ELSE sum
        /\ UNCHANGED <<mode, file, newer, made, out, load, server, hup, served, renewed, contended>>
    BY <1>3 DEF ReloadKey, Unlocked, disk
  <2>2. thread' \in [Threads -> Reloading]
    BY <1>c, <2>1, GotoEffect, CertificateValuesTyped
  <2>3. cur' \in Material /\ sum' \in Gen
    BY <1>t, <2>1, CertificateValuesTyped
  <2>4. cur'.cert # 0 /\ cur'.cert = cur'.key
    <3>1. CASE ok
      BY <2>1, <3>1 DEF X509KeyPair
    <3>2. CASE ~ok
      BY <1>c, <1>s, <2>1, <3>2 DEF PairsMatch
    <3> QED BY <3>1, <3>2
  <2>5. CertificatesTypeOK'
    BY <1>c, <1>t, <2>1, <2>2, <2>3, CertificateTypeParts, CertificateTypePartsNext
  <2>6. PairsMatch'
    BY <1>c, <2>1, <2>4 DEF PairsMatch
  <2>7. ProcessesInPhase'
    BY <1>c, <1>s, <2>1 DEF ProcessesInPhase
  <2>8. DiskSettled'
    BY <1>k, <2>1 DEF DiskSettled, Undisturbed
  <2> QED BY <2>5, <2>6, <2>7, <2>8 DEF CertInv
<1> QED BY <1>1, <1>2, <1>3 DEF Reload

\* The death of a process keeps the certificate invariant.
LEMMA CrashStep == ASSUME CertInv, ServerCrash \/ CliKilled PROVE CertInv'
<1>c. CertificatesTypeOK /\ PairsMatch /\ ProcessesInPhase /\ DiskSettled
  BY DEF CertInv
<1>t. /\ load \in [Loaders -> Loading] /\ out \in [Writers -> FileWrites]
      /\ "server" \in Loaders /\ "cli" \in Loaders /\ "server" \in Writers /\ "cli" \in Writers
  BY <1>c, CertificateTypeParts DEF Loaders, Writers
<1>1. PICK p \in Loaders :
        /\ load' = [load EXCEPT ![p] = AtRest] /\ out' = [out EXCEPT ![p] = NoWrite]
        /\ \/ /\ p = "server" /\ server' = "down" /\ ~hup' /\ mu' = "free" /\ hup' = FALSE
              /\ cur' = Nothing /\ sum' = 0 /\ thread' = [t \in Threads |-> AtRest]
           \/ p = "cli" /\ UNCHANGED <<server, cur, sum, mu, thread, hup>>
        /\ UNCHANGED <<mode, file, newer, made, served, renewed, contended>>
  BY <1>t DEF ServerCrash, CliKilled, proc
<1>2. p \in Writers
  BY DEF Writers
<1>3. /\ load' \in [Loaders -> Loading] /\ load'[p] = AtRest /\ load'[p].pc = "idle"
      /\ \A q \in Loaders : q # p => load'[q] = load[q]
      /\ out' \in [Writers -> FileWrites] /\ out'[p].todo = <<>> /\ ~out'[p].torn
      /\ \A w \in Writers : w # p => out'[w] = out[w]
  BY <1>1, <1>2, <1>t, CertificateValuesTyped
<1>4. /\ server' \in {"down", "boot", "loaded", "serving"} /\ cur' \in Material /\ sum' \in Gen
      /\ mu' \in Threads \cup {"free"} /\ thread' \in [Threads -> Reloading] /\ hup' \in BOOLEAN
  <2>1. CASE p = "server"
    BY <1>1, <2>1, CertificateValuesTyped
  <2>2. CASE p = "cli"
    BY <1>1, <1>c, <2>2, CertificateTypeParts
  <2> QED BY <2>1, <2>2 DEF Loaders
<1>5. CertificatesTypeOK'
  BY <1>1, <1>3, <1>4, <1>c, CertificateTypeParts, CertificateTypePartsNext
<1>6. PairsMatch'
  BY <1>1, <1>3, <1>c DEF PairsMatch
<1>7. ProcessesInPhase'
  <2>1. \A w \in Writers : out'[w].torn => out'[w].todo # <<>>
    BY <1>3, <1>c DEF ProcessesInPhase, Writers
  <2>2. /\ load'["server"].pc # "idle" => server' = "boot"
        /\ load'["cli"].pc # "idle" => mode' = "dir"
    BY <1>1, <1>3, <1>c, <1>t DEF ProcessesInPhase
  <2>3. server' # "serving" => ~hup' /\ \A t \in Threads : thread'[t].pc = "idle"
    BY <1>1, <1>c, CertificateValuesTyped DEF ProcessesInPhase
  <2> QED BY <2>1, <2>2, <2>3 DEF ProcessesInPhase, Writers
<1>8. DiskSettled'
  <2> SUFFICES ASSUME Undisturbed' PROVE DiskSettled'
    BY DEF DiskSettled
  <2>1. Undisturbed
    BY <1>1, UndisturbedBefore
  <2>2. server' \in {"loaded", "serving"} => UNCHANGED <<server, cur, sum, thread>>
    BY <1>1
  <2>3. ASSUME NEW q \in Loaders
        PROVE  /\ load'[q].pc # "write" => out'[q].todo = <<>> /\ ~out'[q].torn
               /\ load'[q].pc = "key" => load'[q].cert = file'.cert
               /\ load'[q].pc = "write" => WritesInOrder(q)'
    <3>1. CASE q = p
      BY <1>3, <3>1
    <3>2. CASE q # p
      <4>1. load'[q] = load[q] /\ out'[q] = out[q]
        BY <1>3, <3>2 DEF Writers
      <4>2. WritesInOrder(q) => WritesInOrder(q)'
        BY <1>1, <4>1 DEF WritesInOrder, OnDisk
      <4> QED BY <1>1, <1>c, <2>1, <4>1, <4>2 DEF DiskSettled
    <3> QED BY <3>1, <3>2
  <2>4. /\ \A q, x \in Loaders : (load'[q].pc # "idle" /\ load'[x].pc # "idle") => q = x
        /\ out'["renewer"].todo = <<>> /\ ~out'["renewer"].torn
    BY <1>3, <1>c, <2>1 DEF DiskSettled, Writers, Loaders
  <2>5. /\ server' \in {"loaded", "serving"} => OnDisk(cur.cert)'
        /\ server' = "serving" => sum' = cur'.cert /\ \A t \in Threads : thread'[t].pc # "key"
        /\ served' # {} => \E g \in 1..MaxGen : OnDisk(g)' /\ served' = {g}
    BY <1>1, <1>c, <2>1, <2>2 DEF DiskSettled, OnDisk
  <2> QED BY <2>3, <2>4, <2>5 DEF DiskSettled
<1> QED BY <1>5, <1>6, <1>7, <1>8 DEF CertInv

\* In every reachable state the certificate invariant holds.
LEMMA CertInvariant == CertificatesSpec => []CertInv
<1>1. ASSUME CertInv, [CertificatesNext]_certificatesVars PROVE CertInv'
  <2>1. CASE UNCHANGED certificatesVars
    <3>1. UNCHANGED <<mode, file, newer, made, out, load, server, cur, sum, mu, thread, hup, served,
                      renewed, contended>>
      BY <2>1 DEF certificatesVars, disk, proc
    <3>2. CertificatesTypeOK' /\ PairsMatch' /\ ProcessesInPhase'
      BY <1>1, <3>1 DEF CertInv, CertificatesTypeOK, PairsMatch, ProcessesInPhase
    <3>3. DiskSettled'
      BY <1>1, <3>1, SettledFrame DEF CertInv, DiskSettled
    <3> QED BY <3>2, <3>3 DEF CertInv
  <2> QED
    BY <1>1, <2>1, FilesStep, RenewStep, BeginLoadStep, LoadKeyStep, CreatedStep, ListenStep,
       HandshakeStep, TriggerStep, ReloadStep, CrashStep DEF CertificatesNext, Writers
<1> QED BY <1>1, CertInit, PTL DEF CertificatesSpec

\* Every variable keeps its type, whoever writes the files.
THEOREM CertificatesTyped == CertificatesSpec => []CertificatesTypeOK
<1>1. CertInv => CertificatesTypeOK
  BY DEF CertInv
<1> QED BY <1>1, CertInvariant, PTL

\* A listening server always has a certificate with its own private key,
\* however renewals, second loaders and crashes fall between its reads.
THEOREM ServedPairMatchesHolds == CertificatesSpec => []ServedPairMatches
<1>1. CertInv => ServedPairMatches
  BY DEF CertInv, PairsMatch, ServedPairMatches
<1> QED BY <1>1, CertInvariant, PTL

\* Clients see one certificate for ever, across any number of crashes and
\* restarts, as long as nobody renews the files and no two loaders overlap.
THEOREM FingerprintStableHolds == CertificatesSpec => []FingerprintStable
<1>1. CertInv => FingerprintStable
  <2> SUFFICES ASSUME CertInv, Undisturbed PROVE Cardinality(served) <= 1
    BY DEF FingerprintStable, Undisturbed
  <2>1. CASE served = {}
    BY <2>1, FS_EmptySet
  <2>2. CASE served # {}
    <3>1. PICK g : served = {g}
      BY <2>2 DEF CertInv, DiskSettled
    <3> QED BY <3>1, FS_Singleton
  <2> QED BY <2>1, <2>2
<1> QED BY <1>1, CertInvariant, PTL
=============================================================================
