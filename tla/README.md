# A formal model of the Entra emulator

The emulator is a single Go process that imitates Microsoft Entra ID: an OAuth 2.0 / OpenID
Connect provider with SAML and WS-Federation front ends, a Graph-like directory, a SCIM server and
client, and an admin API that test suites use to move the clock, inject faults, rotate keys and
reset everything. All durable state is one SQLite database (`internal/store`); signing keys, the
clock, the provisioning watermark, the audit rings and the WebAuthn ceremonies also live in memory.

Two facts about the code shape every module:

* **Every HTTP request is a goroutine of its own.** `store/db.go` opens the database with a single
  connection, so one SQL statement, or one transaction, is atomic, and *anything* may happen
  between two of them. Handlers are written as read, decide, write; hardly any of them uses a
  transaction across those steps.
* **Time is whole seconds of a clock that an administrator can set** (`clock.SetOffset`, `Advance`,
  `Freeze`), forwards and backwards, while requests are under way.

So a request is modelled as a process: a record in `reqs` (or `procs`, `syncs`, `fins`, `mint`) whose `pc`
names the next statement that has an effect and whose other fields hold what the goroutine has read
so far. Reads that only lead to a refusal are guards. `Restart` kills the requests and everything in
memory and keeps the tables.

## Inventory

| Component | State | Operations | What makes it hard | Correct when |
|---|---|---|---|---|
| Codes and refresh tokens (`store/grants.go`, `tokens/service.go`, `identity/token.go`) | `authorization_codes`, `refresh_tokens` | issue, exchange, refresh, replay and reuse detection, deletion of the owners | check and consume are separate statements; rotation and revocation race; the owners may be deleted in between | a code is used once, a chain has one usable token, revocation is final |
| Device grant (`identity/devicecode.go`) | `device_codes`, browser pages | start, poll, look up, sign in, decide | device, browser and administrator act at the same time; pages go stale; user codes are short and drawn again | decided once, redeemed once, for the user the page named |
| Signing keys (`tokens/keys.go`, `tokens/service.go`) | `signing_keys`, signer per tenant in memory | rotate, look up or generate, sign, publish, reset, tenants | two copies of "the active key" changed in three steps | tokens verify, JWKS publishes retired keys for exactly the grace period |
| SSO sessions (`identity/authorize.go`, `saml.go`, `wsfed.go`, `logout.go`) | `sessions`, `session_apps`, cookies, signed forms | sign in, consent, SSO by three protocols, logout | logout races sign-ins of the same session; forms outlive what they were rendered from | logout notifies the apps that were signed into |
| Passkeys (`identity/webauthn.go`) | credentials with counters, ceremonies in memory | begin and finish of registration and assertion | a finish is sent twice; two assertions store their counters in either order | a ceremony is used once, counters do not go back |
| Client authentication (`identity/token.go`, `federated.go`, `tokens/clientassertion.go`, `identity/requestobject.go`) | secrets, key credentials, trusts, issuer key cache | authenticate, fetch keys, add and remove credentials | the issuer rotates and is down; fetches overlap; several look-ups per request | nobody is authenticated without a proof that held meanwhile |
| Consent, app roles, directory roles, lifetime policies, minting (`store/consent.go`, `roles.go`, `tokenlifetime.go`, `tokens/service.go`) | grants, assignments, units, policies | change them, mint tokens from them | a token is put together from a dozen statements | every claim was in force at a moment of the request |
| User and group writes: admin, Graph, SCIM (`admin/`, `graph/writes.go`, `scim/resources.go`) | users, groups, members, externalIds | create, read-modify-write, replace members, delete | whole-row writes, member lists applied statement by statement, a table without foreign keys | updates are lost only to overlap, a submitted member list is the member list |
| Directory and recycle bin (`store/directory.go`, `deleted.go`) | users, groups, apps, memberships, `deleted_items` | create, update, delete, restore, purge, expiry | a snapshot read before its transaction; restore from it | referential integrity, unique UPNs, nothing lost |
| Reset, seed, import (`store/seed.go`, `export.go`) | all tables | reset, reseed, import | two transactions; tables left out; torn files | the same |
| SCIM client (`scim/provision.go`) | target, one watermark for all targets, the remote directories | initial and incremental sync, set and clear the target | directory changes while a sync runs; another target with the old watermark; a failing target; overlapping syncs; second granularity | nothing an incremental sync skips is missing at the target that the watermark stands for |
| Clock, faults, custom extension, audit logs (`clock/`, `faults/`, `customext/`, `audit/`, `identity/audit.go`) | offset and freeze, fault configuration, registrations, two ring buffers | admin requests, token exchanges | one request takes several locks; webhooks time out; wrap-around | time is continuous, every exchange is answered and truthfully recorded, the rings are bounded logs |
| TLS certificate (`tlscert/`, `server/server.go`) | two files, the pair in memory | create, load, reload on SIGHUP and by polling | certificate and key are replaced one after the other; crashes in between; a second process on the same files | a bad pair is never served; a good one is picked up |
| Graph reads, SAML/WS-Federation messages, Fabric, configuration, portal | see `PROJECT.json` | | | |

The components meet in the database. `DeleteUser` and `DeleteApp` cascade into codes, tokens,
device codes and sessions, and those cascades are part of the `DeleteUser`/`DeleteApp` action of every module that
owns such a table. The clock is read by all of them, and a restart hits all of them. The hazards
(where a sequence nobody wrote a test for would bite) are listed in `PROJECT.json` with the
properties aimed at them; the four without a property are statements the code does not satisfy (below).

## Modules

### Grants, MCGrants, GrantsProofs: the token endpoint

`tokens` and `codes` are the two tables, `reqs` the token requests. A request that redeems a code goes
`RedeemAuthCode` (all checks of `tokens.RedeemAuthCode`) → `ConsumeAuthCode` (the conditional
`UPDATE … WHERE consumed=0`) → `CheckUserAndScopes` → `BuildDelegatedResponse` (which stores the
refresh token); one that finds the code consumed goes to `RevokeRefreshTokensForAuthCode`. A refresh
goes `RedeemRefreshToken` → `RotateRefreshToken` (one transaction: revoke the parent, insert
the `Successor`) → `DeliverSuccessor`, or to `RevokeRefreshTokenFamily` when the token is a revoked one.
`GrantWithoutCode` stands for the grants that mint a refresh token without a code (ROPC, device
code, on-behalf-of). `Family` is what the frontier loop of `RevokeRefreshTokenFamily` has visited when it ends,
defined as a least closed set, which is also the form the proofs need. Secrets are model values: a
token and its hash are the same identifier. The history variables `exchanges`, `burned` and
`replayed` record what happened for the properties and guard nothing.

### DeviceGrant, DeviceCode, MCDeviceCode, DeviceCodeProofs: the device authorization grant

`DeviceGrant` is the abstract specification: one device code is offered, decided at most once,
redeemed at most once, and answered at most once for the user who approved it. `DeviceCode` models
the endpoints: `handleDeviceAuthorization`/`InsertDeviceCode`, polling
(`grantDeviceCode` → `DeleteDeviceCode` or `ConsumeApprovedDeviceCode` → `GetUser` →
`BuildDelegatedResponse`), and the verification pages (`deviceLookup`, `deviceSignIn`, `deviceDecide` →
`SetDeviceCodeDecision`). A browser has a cookie and the last page it was shown and may submit that page at any later
time, with another session in its cookie, or after the user code was drawn again. `ImplementsDeviceGrant`
maps a row's status to a phase (`grantPhase`) and its user to the owner.

### SigningKeys, MCSigningKeys, KeysProofs: keys, rotation, tenants

`keys` is `signing_keys`; `signer` is `Service.Signer` for the home tenant and `tenantSigners` for the
others. `rotateSigningKey` is `DemoteActiveSigningKeys` → `generateAndActivate` → `SwapSigner`.
`EnsureActiveKey` is used with a cache (`signTenant`, `handleJWKS`) and without (SAML, WS-Federation). `JWKS` is
`ListPublishableKeys`, `VerificationKey` what the emulator's own APIs verify with. Key material and the JWK encoding are left out.

### Sessions, MCSessions, SessionsProofs: single sign-on and logout

Sign-in through OIDC, SAML, WS-Federation or a passkey, the consent page, `max_age` and `prompt`, and
the two sign-outs, over `sessions` and `session_apps`. A sign-in request goes `CreateSession` →
`RecordSessionApp` → `issueCodeAndDeliver` or `deliver…Response`; an existing session skips the
first step and, for SAML and WS-Federation, the second. Logout goes `collectLogout` → `clearSession` →
`ForgetSessionApps`. `session_apps` has no foreign key to `sessions`, so its rows survive a cascade, as
in the schema. App registrations are not deleted in this module.

### Provisioning, MCProvisioning, OperationsProofs: the outbound SCIM client

`Sync` is `StartSync` (reads the target, which it keeps) → `ReadMarks` (watermark and clock) → `ListUsers` → for each listed row
`ProbeUser` and `SendUser` → `FinishSync` (stores the watermark). A sync works through the rows as it listed them, and several syncs may be
under way, because `Sync` holds no lock while it talks to the target. `SetTarget` replaces the target and leaves the watermark alone, so
`remote` has a directory for each member of `Targets`. `UpdateUser` and `createUser` stamp `updated_at` before
their statement runs, hence `StampWrite` and `CommitWrite`. The target is an external service;
`Provisioned` is what it does with a POST or a PATCH. `version` stands for the attributes that
are sent. The clock only moves forward here: what a clock set back does to a watermark is not a
question the code answers.

The history says when the watermark can be trusted. `vouched` are the targets that it stands for: all of them before the first sync and
after a restart (the watermark is 0), afterwards the target of the sync that stored it, if that sync was an initial one or began when the
watermark it read stood for its target. `late` and `restored` are the users whose row carries an earlier second than the one in which it came to be.
`failed` and `crossed` are pairs of a target and a user where a request failed, or that were sent while another sync
to the target was under way; such a pair is cleared when a sync that has met no other (`met`) gets its request for the user through.

### Directory, MCDirectory, DirectoryProofs: objects and the recycle bin

Users, groups and apps are `Objects` with one table of live ids, one of unique keys (the UPN of a user, the
ID URI of an app), the memberships, and `bin`, which is `deleted_items`. Statements that stand alone are one action
(`Create`, `AddGroupMember`, `HardDelete`, `ListDeleted`, `PurgeDeleted`, `Seed`); the handlers that read in one
statement and write in another are requests:

* updates: `ReadUser`, or `ReadApp` → `CheckUri`, then `WriteRow`;
* new apps: `CheckNewApp` → `InsertApp`;
* soft delete: `SoftDeleteRead` → `SoftDeleteEdges` → `SoftDeleteCommit`, where only the last is a transaction;
* restore: `RestoreRead` (a purge and a read) → `RestoreCommit` (a transaction that fails as a whole, be it by `CanRestore`, the unique keys
  and the row of the item, or by `ForeignKeys`, those of `group_members`);
* reset: `ResetTables` → `ResetSeed`.

`ImportDirectory` replaces the tables in one transaction by a file of `Files`. An export is read table by
table, so a file may name a member without its user; `CanImport` is the constraints that then refuse it as a whole.

The UPN is under a UNIQUE constraint of the schema; the ID URI is only looked up before it is
written, and not at all by a restore. `SeedFails` is the foreign key that refuses the membership of a seeded user whose
UPN is taken. `born`, `gone`, `reseeded` and `cut` are history; `cut` holds the memberships that soft
deletes have taken away and recorded, and that nothing has brought back or excused since. What a deletion does to codes, tokens,
device codes and sessions is in the modules that own those tables.

### Tenant, Consent, Roles, Lifetimes, Minting, MCMinting, MintingProofs: what a token says

`Tenant` holds what the others share: the requests (`pc`), live users and apps, memberships. `Consent` adds the
scopes and app roles an app exposes, permission grants and app role assignments; `Roles` the custom
role definitions, directory role assignments and administrative units; `Lifetimes` the lifetime policies. Each
has the Graph and admin handlers as actions, with the look-up and the write of one handler as two steps where the
code has two statements. `Minting` extends all of them with the token requests: `GrantPassword` or
`GrantOnBehalfOf` → `ResolveScope` for each scope → `ReadAssignedPolicy`/`ReadDefaultPolicy` → `FindResource` →
`ReadConsent` → `ReadGroups` → `ReadWids` → the same again for the ID token → `Respond`, and for apps
`GrantClientCredentials` → `ReadAssigned` → `ReadFallback`, or `handleMSIToken` → `findResourceApp` →
`ReadFallback`. Each arrow is a statement of its own in the code. `mint` is what a request was asked for and what it has still to
resolve, `token` the claims it has read so far and the token configuration (`groupMembershipClaims`; the `groups` optional claim counts as
`SecurityGroup`) they are read by. A policy's `created_at` is any second, because the clock can stand still or be set back; of the
organization's defaults the oldest counts, and of several of one second any (`OldestDefaults`). `seen` is history: for each claim the set of values
that the tables gave since the request's first read, computed by the `…Now` operators, which define each claim
directly from the tables. They share the tables with the requests and none of their operators. Where the code's own query is wider than what it is documented
to return, the `…Now` operator keeps to the document: `RolesNow` takes the roles of the resource only, while the join of
`AssignedAppRoleValues` is on the role's id alone.

### ClientAuth, MCClientAuth, ClientAuthProofs: how clients prove who they are

A request presents a `Credential`: a secret, an assertion under a registered key, an assertion of an external issuer or a
request object. The handler's look-ups are steps (`authenticateClient`, the match of the trust audience by audience,
`issuerKeyCache.get` with the fetch outside its lock, `grantClientCredentials`' second look at `is_confidential`), while writers
add, change and remove credentials and issuers publish other keys or are down. Signatures are external: `good` says whether the
assertion is really signed with the key it names. `seen` records which proofs held while the request was served.

### Certificates, MCCertificates, KeysProofs: the TLS pair

The two files, the writers (boot, the command line beside it, an external renewer; `os.WriteFile` truncates first), the
loaders, the `Reloader` with its mutex and atomic pointer, the signal and polling goroutines of `watchCert`, and a crash at any
point. A certificate and its private key are the same generation number.

### EventLog, Recorder, Clock, Operations, MCOperations, OperationsProofs: what surrounds an exchange

`EventLog` is the abstract log: the newest `Cap` events. `Recorder` has the index arithmetic of the two rings (`Recorder`
and `DirectoryRecorder`), `Clock` offset, freeze and advance. `Operations` composes them: a token exchange draws its fault, sleeps,
reads the extension's registration, calls the webhook for each token (answer, refusal or timeout), and is
recorded by the middleware from what it can see of the response. At the authorize endpoint a request arrives at `HandleAuthorize`, `HandleSignInSubmit` or
`HandleConsentDecision`, each a request of its own, and ends in an error page, a page for the user (picker, password form, consent), the form
shown again after a wrong answer (`retry`), an error told to the app, or the result, before which a response type with an ID token calls the webhook as well.
`outcome` is what the client got and `location` what the middleware sees of a redirect: a posted form and a page have none. All of this goes on while
admin requests arm faults, register extensions, clear logs and set the clock in up to three separately locked steps. `topic` bounds a behaviour to admin requests of one kind,
and `Starts` says what the rings may hold at the start: any of the contents that an order of earlier calls can leave (`Earlier`).

### Accounts, Passkeys, MCAccounts, KeysProofs: writes of users and groups, and passkeys

One action per handler of the three write surfaces starts a request; the statements it shares with the others follow
(`InsertRow`, `ReadRow`, `WriteRow`, `DeleteRow`, the members one by one, the externalId). A body is a partial row, so
that `named` tells which attributes a request may change; the row it writes is the whole row it has read. SCIM `PATCH` operations
are applied in order, one per step. Attribute values and externalIds are members of
`Values`, with `""` for an absent one. `Passkeys` extends this with the map `waSess`, both ceremonies, the stored counters and the authenticators.
Directory and Accounts look at the same tables: Directory at rows, keys and the recycle bin for any number of requests,
Accounts at attributes and at SCIM's own tables.

## What the runs show

All twelve runs pass; together they fire every action of every module.

| Run | States | Shows |
|---|---|---|
| `grants` | 667 k | Two concurrent requests over one code and three tokens, with deletions, restores and restarts: `CodeSingleUse`, `OneLivePerCode`, `OneLivePerFamily`, `BurnedFamilyDead`, `ChainsIntact`, `ReplayedChainDead`, and `ScopesWithinGrant` for refreshes that narrow and widen. |
| `device_code` | 469 k | Two devices competing for one user code, two users in one browser with pages that go stale: `MintedForApprover` and the refinement `ImplementsDeviceGrant`. |
| `device_live` | 59 k | One device and a clock that crosses its expiry: `DecisionsSettle` for a device that keeps polling. |
| `signing_keys` | 356 k | Two concurrent rotations, failures, tenant deletion and key reset: `GraceHonoured`, `SignedTokensVerify`, `SignerActive` as long as nothing overlapped or failed, and `ActiveKeyReturns`: the gap without an active key closes again. |
| `sessions` | 1.26 M | `LogoutReachesSignIns` with three protocols, consent, `max_age`, passkeys and concurrent sign-outs. |
| `provisioning` | 2.01 M | Two syncs that may overlap and fail, two targets and one writer: `NothingSkippedIsLost`. At the target that the watermark stands for the strict comparison loses nothing, in whichever second a change falls and whichever targets were set meanwhile, and a lone sync makes up for what failed or crossed. |
| `directory` | 559 k | Creation, renaming, hard and soft deletion, expiry, purge, restore, reset, seeding and import, with two multi-step requests that delete or restore one object at once: `EveryObjectAccounted`, `UpnUnique`, and `MembershipsReturn`, whatever the order in which the two ends of a membership were deleted and restored. |
| `minting` | 443 k | One token request against two writers of every kind: `ScopesInForce`, `RolesInForce` (of the resource's own roles), `DirectoryClaimsInForce`, `LifetimesInForce`. |
| `client_auth` | 711 k | Two requests and one writer, an issuer that rotates and fails: `ProvenWhileServed`, `AppOnlyIsProven`, `PublishedKeyKnown`. |
| `certificates` | 80 k | Three ways to get a certificate, renewal, a second loader and crashes: `ServedPairMatches`, `FingerprintStable`, `SighupReloads`. |
| `operations` | 161 k | Exchanges with every outcome, Graph writes and two admin requests: `LogIsTruthful`, `FaultsInForce`, `ExtensionKeptInBounds`, `ClockContinuous`, the refinement `RingsImplementLogs`, and `ExchangesAnswered`. |
| `accounts` | 573 k | Two write requests and two finish requests: `UpdatesLostOnlyToOverlap`, `MembershipExact`, `CorrelationFinds`, `CeremonyUsedOnce`, `CounterOnlyBackByOverlap`. |

### Statements the code does not satisfy

These are in the modules, next to the properties, and in no run. Added to the cfg named here, TLC answers
with a counterexample:

| Definition | Cfg | Where it is stated | What the code does |
|---|---|---|---|
| `ReplayRevokesWholeChain` (Grants) | `MCGrants` | `tokens/service.go`: a replay "revokes the whole chain" | A replay answered between consume and insert revokes nothing; the refresh token stored a moment later stays usable. `ReplayedChainDead` is what remains true: a replay answered while no exchange is in flight. |
| `MaxAgeHonoured` (Sessions) | `MCSessions`, with `SessionLifetime = 2` | `docs/08-oidc-endpoints.md` on `max_age` | The consent page's POST issues the code from a session that may have grown older than `max_age`. |
| `AppIdUriUnique` (Directory) | `MCDirectory`, with two apps and one URI | `docs` on appIdUri: "must be unique" | An app is recycled, a second one is created with its ID URI, the first is restored. Two overlapping creates do the same, since look-up and insert are separate statements. |
| `TrustHonoured` (ClientAuth) | `MCClientAuth` | comment of `MatchFederatedCredential` | The look-up takes one row of the app, issuer and subject and compares the audience with that row alone. Only names are unique in an app, so of two trusts that differ in their audiences one may hide the other. |
| `NothingIsLostAtTheTarget` (Provisioning) | `MCProvisioning` | `docs/10-scim-provisioning.md:66`: "only users changed since the last cycle are pushed" | `SetTarget` keeps the watermark: incremental syncs to a target set after a sync skip every user that it never had and that does not change. |
| `SuccessesAreReal` (Operations) | `MCOperations` | `audit/audit.go`: records "every authorize/token exchange with its concrete accept/reject reason"; `docs/parity.md:95`: "failures carry their concrete reason" | The middleware judges by status and Location: the form shown again after a wrong password and an error that `form_post` delivers have status 200 and are recorded as successes. |
| `RestoresTheItem` (Directory) | `MCDirectory` | `store/deleted.go`: "with the relationships captured at delete time" | Between the read of an item and the transaction the object is restored and deleted again: the transaction takes the new item out of the recycle bin and puts the old one's row and memberships back. |
| `RolesOfTheResource` (Minting) | `MCMinting` | `docs/20-stateful-directory.md:181`: "the set of assigned app-role values on the resource" | `createAppRoleAssignment` looks no role up and `AssignedAppRoleValues` joins on the role's id alone, so that a role of another app, assigned on the resource, gets into its tokens. |
| `RenewalTakesEffect` (Certificates) | `MCCertificates` | comment of `watchCert` | The poll remembers the time stamp before it reloads and looks at the certificate alone: a reload that meets half a pair is not tried again. |

Other limits of the code that the models show, and that the passing properties therefore leave out by
name:

* `late` and `restored` (Provisioning): a write stamped before a sync starts and committed after the
  sync has listed the users, and a user restored with its old `updated_at`, are skipped by every later
  incremental sync. A removed user is not deprovisioned at all.
* `crossed` (Provisioning): of two overlapping syncs the older one's row may be sent last, and the newer one's watermark
  then hides it. The user is claimed again once a sync that met no other has sent it. TLC finds the loss when `crossed` is dropped from `Trusted`.
* `failed` (Provisioning): a request to the target that fails is counted and forgotten; the watermark
  moves on and incremental syncs skip the change, so `docs/10-scim-provisioning.md` is wrong about retries, until an initial sync or
  another change sends the user again. TLC finds this when `failed` is dropped from `Trusted`.
* `vouched` (Provisioning): the watermark stands for one target (`NothingIsLostAtTheTarget` above).
* `LeftOut` (Directory): what `MembershipsReturn` does not ask for. A membership whose other end is away when the first end is restored comes back
  only if the other end's own item names it; a membership added between the snapshot of a soft delete and its transaction is lost.
* `faults` (SigningKeys): of two overlapping rotations the late swap leaves a retired signer (`Rotate` demotes,
  generates and swaps without a lock around the three), a failed generation leaves a retired signer, `resetKeys` one whose row is gone.
* Sessions: SAML and WS-Federation SSO through an existing session is not recorded, so it is no part of
  what a logout owes (`DeliverAssertion`), and neither is a sign-in that gets its code after the logout has collected
  the list.
* `reseeded` (Directory): a reset does not empty the recycle bin, so a seeded object can be live and deleted at once;
  its soft delete then fails on the primary key of `deleted_items`. An import does the same. Seeding fails as a whole when a seeded UPN belongs to another user.
  A restored guest comes back as a member, because the restore inserts neither `user_type` nor the guest fields.
* Grants: a rotated token has the configured lifetime, not the policy's (`Successor` and `refreshSec`).
* Operations: `LogIsTruthful` allows a success for every response of status 200 without a Location (`SuccessesAreReal` above), and a failure for a
  result whose redirect URI happens to contain `error=`.
* Operations: `Protected` is a parameter, so `ExtensionKeptInBounds` shows that the set is kept out of the tokens and not that it is the right set.
  `protectedClaims` (`tokens/service.go`) does not name `amr`, `auth_time`, `groups` and `wids`, although `docs/11-admin-api.md` says that
  "protocol claims can never be overridden".
* Minting: a managed identity gets every enabled role of the resource although role assignments exist; the roles of
  client credentials fall back in a second look-up, so that a pair whose first assignment comes or whose last goes during the request may get all
  roles of the resource or none: `RolesInForce` leaves that pair out (`has`), and one that was given a role of another app (`"foreign"`). An assignment that is stored after its custom role was
  deleted leaves an id in `wids` that passes for a built-in role (`deletedDefs`), against the comment of `TenantWideRoleTemplateIDs`.
* Accounts: an externalId outlives a user that was deleted outside SCIM, or by SCIM while another request was about to store it
  (`foreign`). Of overlapping updates the later one wins as a whole row (`since`), and of overlapping assertions the lower counter may (`stale`).
* Passkeys: ceremonies that are never finished stay in `waSess`.

### Bounds

Two requests are enough for every race of the code: each conflict is between a check and one write
by somebody else (`MaxNow` 0 or 1 gives the clock both sides of every expiry with lifetimes of 1; in `grants` the
clock stands still, and the proofs cover every clock). Three tokens give a chain with a grandparent, so a family walk must go through a member that is
neither end. Two devices share one user code so that the collision and the reuse after deletion
happen. Two session ids in one browser give a stale page and a fresh session. Three keys are one
for the first boot and one per rotator. One user is enough
for provisioning, because users are handled independently, and two seconds let a change fall before and into that of a sync. `Overlap` keeps two
syncs that are under way at once to the plain cases: both go to the target that is set, nothing has reached another one and no row carries an early second, or they go to two targets and
no user has changed and nothing has failed; one sync at a time meets no such bound. Directory has two users and two UPNs, so that a name can
be taken, freed and taken back, one group, one app and two multi-step requests. `Focus` lets the two overlap where they move one object to
or from the recycle bin while no object is there that was seeded or imported again; around a single request every other operation is an action that may come between its steps; and it lets the app share the directory with one object
at most, as an app has no memberships. `DirectoryProofs` covers any number of requests, and any files; neither proof has these bounds. The modules whose requests are served once bound a behaviour by their number: two writers against one minted
token (one to change a row and one to change what it refers to) with policies created in two seconds, one writer and two clients in `client_auth` (so that two fetches of an issuer overlap),
two admin requests in `operations`, and in `accounts` a budget of two requests next to the ceremonies that are under way at the start. Rings of two
slots start, the sign-ins full with the next slot in the middle and the changes one short of full: the two exchanges and the Graph write overwrite, fill up and
wrap around, and a log that is cleared meanwhile fills up again from empty. Two generations of certificates are one to be replaced and one to replace it.

The bounds on fresh values (`Codes`, `Tokens`, `Devices`, `Sids`, `Kids`, each drawn once), on the number of requests and on the clock, and the two
constraints `Overlap` and `Focus`, are the only ones that cut behaviours off, and the proofs do away with them: every component has one.
Permuted model values are interchangeable in the specification and in the properties; the runs with
temporal properties under fairness use no symmetry.

### Fairness

`FairSpec` of SigningKeys assumes that a request that has started goes on (WF for its steps): the
Go scheduler runs a runnable goroutine, and the only thing it waits for is the database
connection, which every statement gives back. `Fairness` of Operations assumes the same of an exchange; the webhook's
time-out is one of its steps, which the `context.WithTimeout` of `Invoke` guarantees. Certificates assumes it of the two goroutines of
`watchCert`, of the ticker and of the delivery of a signal that is in the channel; not of the renewer, of the command line
or of a restart. `FairSpec` of DeviceCode adds that the device keeps polling (SF, because a poll
needs a free request slot that others take and give back) and that restarts come to an end;
RFC 8628 clients poll at `interval` until they get an answer. Nothing is assumed of browsers,
administrators or the clock.

## What is proved

`GrantsProofs` proves, with TLAPS and for any sets of users, apps, codes, tokens, requests and scopes and any
lifetimes (`GrantsAssumptions`: `None` is none of the values, lifetimes are positive,
`offline_access` is a protocol scope):

* `TypeCorrect`: `Spec => []TypeOK`.
* From `FamilyInv`: `OneLivePerFamilyHolds`, `BurnedFamilyDeadHolds`, `ChainsIntactHolds`. The three
  properties are inductive only together, and with two facts more: a value that was never drawn or
  whose row is gone has no links (`BlankRowsUnlinked`; otherwise a new row could join two families)
  and nobody holds a token that was not drawn (`KnownTokensDrawn`; otherwise the successor of a
  rotation could land in a burned family). The argument about the family walk is in four lemmas:
  `FamilyHasSelf`, `FamilyLeast`, `FamilyClosed` (the definition as a least fixed point),
  `FamilyShrinks` (deletion and revocation only remove links) and `FamilyAfterRotation` (a rotation
  adds one leaf to the family of a live, hence unburned, token).
* From `CodeInv` on top of it: `CodeSingleUseHolds`, `OneLivePerCodeHolds`, `ReplayedChainDeadHolds`.
  The strengthening says what a request in flight owns: an exchange that won the conditional update
  is the only one of its code and nothing has come of the code yet (`ExchangeIsExclusive`), nothing
  has come of an unspent code (`UnspentCodesUnused`), and a clean replay saw a spent code without an
  exchange (`CleanReplayHadNoExchange`).

`DirectoryProofs` proves, for any sets of users, groups, apps, UPNs, URIs, requests and imported files and any
retention (`DirectoryAssumptions`: the kinds of ids are disjoint and the seed is among them; `FilesAssumption`: a file's users have UPNs):

* `TypeCorrect`, and `MembersAlwaysLive`, which is inductive as it stands on top of the types: every action that
  removes a row removes its edges, and every action that adds one is subject to `ForeignKeys`. No run checks it: in
  the program the schema enforces it, and the theorem says that the actions keep to the schema.
* `MembershipsAlwaysReturn` from `CutHeld`: of a membership that was taken away and is still owed, one end is not live, and if that end has an item the item
  names the membership. A restore brings back what its item names unless the other end is away, and then `LeftOut` says so; any other way for an end to come to life (creation
  draws new ids) or for an item to go is shown to leave nothing owed with both ends live.
* `ObjectsAlwaysAccounted`: `EveryObjectAccounted` relates the tables to the history and is inductive with the
  types. It is the theorem that says a snapshot read before the transaction does no harm: whatever happened in between, the
  row counts that `requireRow` checks decide.
* `UpnsAlwaysUnique` from `UpnInv`: uniqueness needs `KeysKnown`, that a live user's key, the key a request will
  write to a user's row and the one in a user's snapshot are UPNs (were one of them `None`, two restored users could share it).

`DeviceCodeProofs` proves, for any sets of users, apps, devices, user codes, browsers, sessions and requests and any lifetimes
(`DeviceCodeAssumptions`):

* `TypeCorrect`; `UserCodesUniqueHolds` and `DeviceGrantImplemented` from `GrantInv`. The refinement needs to know that
  a poll that took a row is the only one to hold it and has not answered yet (`PollsHoldRows`), and that a row that nobody took
  has produced nothing (`UntakenRows`). Initial states map to initial states, and each action is shown to be one
  step of `DeviceGrant` or to leave `grantPhase` and the rest of the abstract state alone.
* `MintedForApproverHolds` from `ApproverInv` on top of it, which follows the user's name from the session to the page
  (`PagesNameSessions`), from the page to the decision (`DecisionsAsShown`) and from the decision to the row (`RowsNameApprover`).

`KeysProofs` proves, for SigningKeys and any tenants, keys, rotations, signing requests and grace periods, negative ones included
(`SigningKeysAssumptions`; there is a key to draw, because the first boot draws one), `SigningKeysTyped`, `GraceHonouredHolds`, `SignedTokensVerifyHolds` and
`SignerActiveHolds` from `KeyInv`: a retired row carries the end of its own rotation's grace period (`RetiredAsPromised`), whoever holds a
key holds a stored one (`HeldKeysStored`), nobody but a rotation replaces the home tenant's signer (`RotatorsOwnHome`), and
as long as nothing overlapped or failed the rotation under way ends with an active key (`RotationsTakeTurns`).

For Certificates and any number of generations it proves `CertificatesTyped`, `ServedPairMatchesHolds` and `FingerprintStableHolds` from `CertInv`.
The first needs only that a pair leaves a loader when it matches (`PairsMatch`). The second needs `DiskSettled`: undisturbed, loaders
take turns, a loader that writes does so before anybody was served (`WritesInOrder`), and from the first handshake on the pair that was
served is the pair on disk.

`SessionsProofs` proves `TypeCorrect` and `LogoutReachesSignInsHolds`, for any browsers, apps, sessions and requests. `LogoutInv` says that the list of a
live session misses no app that was signed into, nor one that a request is about to sign into (`ListsComplete`), that cookies and requests name
only sessions that were created (`SidsDrawn`), and that a list is forgotten only after its session is gone (`ForgetsDeleted`): the order
of the three statements of `handleLogout` is what the proof rests on.

`ClientAuthProofs` proves `TypeCorrect`, `ProvenWhileServedHolds`, `AppOnlyIsProvenHolds` and `PublishedKeyKnownHolds`, for any apps, credentials, issuers, clients and writers
(`ClientAuthAssumptions`: what clients present and what is stored at the start is well typed, and a credential without a signature counts as `good`, as nothing about it
could be forged). `AuthInv` says that what a request has found out so far held while it was served (`FindingsSeen`), that a
request's stage fits its credential (`StageFits`), and, about the history variable alone, that `seen` misses nothing (`NothingMissed`).

`OperationsProofs` proves, for any requests, claims, fault configurations and clock requests and every capacity of the rings
(`OperationsAssumptions`: the kinds of requests are disjoint, a clock request carries at most one offset and one advance, the pointers of `clockRequest`):

* `TypeCorrect`, and `RingsImplementLogsHolds`: both rings implement `EventLog` for every `Cap`. `FilledInOrder` says that a ring fills from
  slot 0 and wraps around only when it is full; `IndexValue` and `ListValue` turn the `%` of `List` and `Record` into
  positions, and `ListAfterRecord` is the step that matters: recording appends to what `List` returns and drops the oldest event of a full ring.
* `LogIsTruthfulHolds` from `RingInv`: every entry of the ring is of an exchange that is over and agrees with its response (`OutcomesLogged`), which is of a kind that the exchange can have (`ResponsesFit`).
* `FaultsInForceHolds` and `ExtensionKeptInBoundsHolds` from `ForceInv`: what an exchange decided was in force while it was served (`DecidedInForce`).
* `ClockContinuousHolds`, an action property: freezing and resuming leave the time where it is and advancing moves it by what was asked for,
  in whatever order concurrent requests apply their fields. It rests on the arithmetic of `Clock` for every offset, on `AdminsOnTopic` (an admin request takes several steps only to set the clock)
  and on `ClockRequest`, whose sets of offsets and advances have at most one member.

`GrantsProofs` also has `ScopesWithinGrantHolds`, from `ScopeInv`: what a request that works on a code is about to hand out is within the
code's grant for as long as the code's row is there (`RequestsWithinGrant`).

For Accounts and Passkeys and any users, groups, requests, ceremonies, keys and bodies, `KeysProofs` proves:

* `AccountsTyped`, `MembershipIsExact`, `CorrelationIsFound` and the action property `UpdatesAreSafe` from `AccountsInv`. What a request
  works on has been there (`OnceThere`); the row it holds in memory is the one in the table but for what it sets and what others have set since
  (`RowsRead`, which is why a whole-row write loses only overlapping updates); what a PUT of a group has still to add and remove makes the
  members the submitted ones (`MembersDue`); and a mapping whose user is gone is about to go as well (`MappingsDue`).
* `PasskeysTyped`, `CeremonyIsUsedOnce` and the action property `CountersAreSafe` from `KeysInv`: a ceremony is in the map or taken
  by one request (`TakenOnce`, which rests on `LoadAndDelete` being one step), a key is registered once and before it signs anybody in, and a counter
  that is about to be stored is behind only if another one was stored meanwhile (`CountersDue`).

`OperationsProofs` proves, for Provisioning with any users, targets, syncs, writers, versions and seconds, `ProvisioningTyped` and `SkippedSafe` from
`SyncInv`. The argument: a listed row is the row in the table unless that one was written since (`ListingsCurrent`); what a sync has
probed is still so (`ProbesHold`); what a sync has come past, or the one whose watermark it read, has arrived
(`PassedAreSynced`); and nobody is skipped on the strength of a moment that a sync under way to the target does not reach
(`MarksBehind`, needed because an older sync may set the watermark back) or that another sync to it has passed (`PassedBehind`). `Meetings` says that
a sync that has met no other is alone with its target, which is why what it sends makes up for what failed or crossed.

`MintingProofs` proves, for any users, apps, groups, roles, policies, writers and token requests and every overage limit (the
assumptions of Tenant, Consent, Roles, Lifetimes and Minting: ids are drawn from disjoint sets, old rows are well typed, the configuration sets every lifetime),
`TypeCorrect`, `ScopesAreInForce`, `RolesAreInForce`, `DirectoryClaimsAreInForce` and `LifetimesAreInForce` from `MintingInv`. A request's
stage fits its kind (`Stages`, in `TypeOK`); an assigned role is built in, exists or is among the deleted ones (`RolesKnown`); an app has one policy (`OnePolicyEach`); and
`ClaimsAgree` says, stage by stage, which claims a request has read, that each of them agrees with the history, and that the history
holds what is in force now. The last part is what the read steps need: the operators the requests use are shown to return what the `…Now` operators
say of the same tables, and `Watch` has put that into `seen` before the claim is read.

All invariants were model-checked before they were proved. What is only model-checked is liveness under fairness
(`DecisionsSettle`, `ActiveKeyReturns`, `SighupReloads`, `ExchangesAnswered`), which is beyond this prover: it has neither fairness nor `ENABLED`.
Every safety invariant, action property and refinement that a run checks is also a theorem.

The proofs are in eight modules; `KeysProofs` and `OperationsProofs` hold those of several components, whose
specifications have names of their own for that reason (`PasskeysSpec`, `CertificatesSpec`, `ProvisioningSpec`).

## Plan

1. *Done:* all modules above, and proofs of every safety property that a run checks.
2. Next: action properties that follow from invariants already there (a burned family stays dead, a decision is never undone).
3. Later: groups in Provisioning, Graph's OData filter and paging and SCIM's projection as pure
   operators, workspace identities, migrations.

## Not modelled

Of the directory: an app's sub-resources in the recycle bin (they come and go with
its row) and custom security attributes, which no token or check reads. The UNIQUE constraint
on the UPN compares bytes while the look-up ignores case; UPNs are model values here, so two that differ in case only are two
UPNs. Export is not an action, because it changes nothing; the files it may return are inputs of the import. Paging of SCIM and Graph reads is left out; `start+count` of SCIM's `paginate`
is not guarded against overflow, which no client in the repository comes near.

The data transformations: JWT, JWK, XML signatures, HTML, OData and SCIM JSON, password
hashing; routing, static files, configuration and the portal. Checks of request parameters that end in an error
without a write are guards or, where they read nothing the properties speak about, left out. The
components listed in `PROJECT.json` as `not_modelled` say which of these reasons applies.
