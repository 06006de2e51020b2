---------------------------- MODULE Certificates ----------------------------
(***************************************************************************)
(* The server's TLS certificate: LoadOrCreate and LoadCustom of            *)
(* tlscert/cert.go at boot (cmd/entra-emulator/main.go) and in the command *)
(* line's healthcheck, trust and show-cert (cli.go), which run beside the  *)
(* server on the same files; the reloader (tlscert/reloader.go) with its   *)
(* two triggers, SIGHUP and the poll of the file's mtime (watchCert of     *)
(* server/server.go); an external tool that renews the pair on disk; and   *)
(* crashes at any point.                                                   *)
(*                                                                         *)
(* A certificate and the private key that belongs to it are the same       *)
(* generation number.  os.WriteFile truncates before it writes, so a file  *)
(* is unusable (0) in between.                                             *)
(***************************************************************************)
EXTENDS Naturals, Sequences, FiniteSets

CONSTANTS
    Modes,      \* of "dir" (TLS_CERT_DIR), "custom" (TLS_CERT, TLS_KEY), "memory"
    MaxGen,     \* bound: pairs ever generated
    MayRenew    \* bound: whether an external tool renews the pair

ASSUME CertificatesAssumptions ==
    /\ Modes \subseteq {"dir", "custom", "memory"}
    /\ MaxGen \in Nat \ {0} /\ MayRenew \in BOOLEAN

Loaders == {"server", "cli"}
Threads == {"hup", "poll"}
Gen == 0..MaxGen

VARIABLES
    mode,
    file,       \* the contents of cert.pem and key.pem
    newer,      \* the mtime of cert.pem is after the one the poll remembers
    made,       \* pairs generated so far
    out,        \* what each writer of the files still has to write
    load,       \* where each call of LoadOrCreate or LoadCustom is
    server,     \* what the server process is doing
    cur,        \* the pair in the Reloader's atomic pointer
    sum,        \* the Reloader's checksum of the last certificate loaded
    mu,         \* the thread holding the Reloader's mutex
    thread,     \* where the goroutines of watchCert are
    hup,        \* the signal channel, of capacity one
    served,     \* history: certificates that handshakes were given
    renewed,    \* history: an external tool has written the files
    contended   \* history: two calls of LoadOrCreate have overlapped

disk == <<file, newer, made, out>>
proc == <<server, cur, sum, mu, thread, hup>>
certificatesVars == <<mode, disk, load, proc, served, renewed, contended>>

\* The checksum and the certificate are the same generation, 0 for none.
Material == [cert: Gen, key: Gen]
Nothing == [cert |-> 0, key |-> 0]
NoWrite == [gen |-> 0, todo |-> <<>>, torn |-> FALSE]
AtRest == [pc |-> "idle", cert |-> 0]

CertificatesTypeOK ==
    /\ mode \in Modes
    /\ file \in Material /\ newer \in BOOLEAN /\ made \in Gen
    /\ out \in [Loaders \cup {"renewer"} ->
                   [gen: Gen, todo: {<<>>, <<"cert">>, <<"key">>, <<"cert", "key">>, <<"key", "cert">>},
                    torn: BOOLEAN]]
    /\ load \in [Loaders -> [pc: {"idle", "key", "write"}, cert: Gen]]
    /\ server \in {"down", "boot", "loaded", "serving"}
    /\ cur \in Material /\ sum \in Gen /\ mu \in Threads \cup {"free"}
    /\ thread \in [Threads -> [pc: {"idle", "start", "lock", "cert", "key"}, cert: Gen]]
    /\ hup \in BOOLEAN
    /\ served \subseteq Gen /\ renewed \in BOOLEAN /\ contended \in BOOLEAN

\* Mutant: a pair is not checked before it is used.
AnyKeyPair(c, k) == TRUE

\* tls.X509KeyPair
X509KeyPair(c, k) == c # 0 /\ c = k

CertificatesInit ==
    /\ mode \in Modes
    /\ file = IF mode = "custom" THEN [cert |-> 1, key |-> 1] ELSE Nothing
    /\ made = file.cert /\ newer = FALSE
    /\ out = [w \in Loaders \cup {"renewer"} |-> NoWrite]
    /\ load = [p \in Loaders |-> AtRest]
    /\ server = "down" /\ cur = Nothing /\ sum = 0
    /\ mu = "free" /\ thread = [t \in Threads |-> AtRest] /\ hup = FALSE
    /\ served = {} /\ renewed = FALSE /\ contended = FALSE

-----------------------------------------------------------------------------
\* Writing the files

Truncate(w) ==
    LET f == Head(out[w].todo) IN
    /\ out[w].todo # <<>> /\ ~out[w].torn
    /\ file' = [file EXCEPT ![f] = 0]
    /\ newer' = (newer \/ f = "cert")
    /\ out' = [out EXCEPT ![w].torn = TRUE]
    /\ UNCHANGED <<mode, made, load, proc, served, renewed, contended>>

Write(w) ==
    LET f == Head(out[w].todo) IN
    /\ out[w].torn
    /\ file' = [file EXCEPT ![f] = out[w].gen]
    /\ newer' = (newer \/ f = "cert")
    /\ out' = [out EXCEPT ![w].todo = Tail(@), ![w].torn = FALSE]
    /\ UNCHANGED <<mode, made, load, proc, served, renewed, contended>>

\* generate
Generate(w, todo) ==
    /\ made < MaxGen
    /\ made' = made + 1
    /\ out' = [out EXCEPT ![w] = [gen |-> made + 1, todo |-> todo, torn |-> FALSE]]

\* The tool of the user's choice writes the two files in some order.
Renew ==
    /\ MayRenew /\ mode # "memory" /\ out["renewer"].todo = <<>>
    /\ \E todo \in {<<"cert", "key">>, <<"key", "cert">>} : Generate("renewer", todo)
    /\ renewed' = TRUE
    /\ UNCHANGED <<mode, file, newer, load, proc, served, contended>>

-----------------------------------------------------------------------------
\* LoadOrCreate and LoadCustom

\* Mutant: the new private key is not persisted.
CertificateOnly == <<"cert">>

\* The order in which LoadOrCreate persists a new pair
Persisted == <<"cert", "key">>

BeginLoad(p) ==
    /\ load[p].pc = "idle" /\ out[p].todo = <<>>
    /\ IF p = "server" THEN server = "down" /\ server' = "boot"
       ELSE mode = "dir" /\ UNCHANGED server
    /\ load' = [load EXCEPT ![p] = [pc |-> "key", cert |-> file.cert]]
    /\ contended' = (contended \/ \E q \in Loaders \ {p} : load[q].pc # "idle")
    /\ UNCHANGED <<mode, disk, cur, sum, mu, thread, hup, served, renewed>>

\* The call returns the pair m, which the server goes on with.
Return(p, m) ==
    /\ load' = [load EXCEPT ![p] = AtRest]
    /\ IF p = "server" THEN server' = "loaded" /\ cur' = m ELSE UNCHANGED <<server, cur>>

\* A valid pair on disk is used; otherwise LoadOrCreate makes a new one and
\* LoadCustom, so the boot, fails.
LoadKey(p) ==
    /\ load[p].pc = "key"
    /\ IF X509KeyPair(load[p].cert, file.key)
       THEN /\ Return(p, [cert |-> load[p].cert, key |-> file.key])
            /\ UNCHANGED <<made, out>>
       ELSE CASE mode = "custom" -> /\ server' = "down" /\ load' = [load EXCEPT ![p] = AtRest]
                                    /\ UNCHANGED <<made, out, cur>>
              [] mode = "dir" -> /\ Generate(p, Persisted)
                                 /\ load' = [load EXCEPT ![p] = [pc |-> "write", cert |-> made + 1]]
                                 /\ UNCHANGED <<server, cur>>
              [] mode = "memory" -> /\ Generate(p, <<>>)
                                    /\ Return(p, [cert |-> made + 1, key |-> made + 1])
    /\ UNCHANGED <<mode, file, newer, sum, mu, thread, hup, served, renewed, contended>>

Created(p) ==
    /\ load[p].pc = "write" /\ out[p].todo = <<>>
    /\ Return(p, [cert |-> load[p].cert, key |-> load[p].cert])
    /\ UNCHANGED <<mode, disk, sum, mu, thread, hup, served, renewed, contended>>

-----------------------------------------------------------------------------
\* The reloader

\* Listen: NewReloader, then the watchers, unless the pair is not on disk
Listen ==
    /\ server = "loaded" /\ server' = "serving"
    /\ sum' = cur.cert
    /\ thread' = [thread EXCEPT !["poll"] = [pc |-> IF mode = "memory" THEN "idle" ELSE "start", cert |-> 0]]
    /\ UNCHANGED <<mode, disk, load, cur, mu, hup, served, renewed, contended>>

\* GetCertificate in a handshake
GetCertificate ==
    /\ server = "serving"
    /\ served' = served \cup {cur.cert}
    /\ UNCHANGED <<mode, disk, load, proc, renewed, contended>>

ThreadAt(t, pc, c) == thread' = [thread EXCEPT ![t] = [pc |-> pc, cert |-> c]]

\* The poll remembers the mtime it first sees, then reloads when it advances.
StartPolling ==
    /\ thread["poll"].pc = "start" /\ ThreadAt("poll", "idle", 0)
    /\ newer' = FALSE
    /\ UNCHANGED <<mode, file, made, out, load, server, cur, sum, mu, hup, served, renewed, contended>>

Poll ==
    /\ server = "serving" /\ mode # "memory"
    /\ thread["poll"].pc = "idle" /\ newer /\ ThreadAt("poll", "lock", 0)
    /\ newer' = FALSE
    /\ UNCHANGED <<mode, file, made, out, load, server, cur, sum, mu, hup, served, renewed, contended>>

\* A signal that finds the channel full is dropped.
Sighup ==
    /\ server = "serving" /\ mode # "memory" /\ ~hup
    /\ hup' = TRUE
    /\ UNCHANGED <<mode, disk, load, server, cur, sum, mu, thread, served, renewed, contended>>

TakeSignal ==
    /\ hup /\ thread["hup"].pc = "idle" /\ ThreadAt("hup", "lock", 0)
    /\ hup' = FALSE
    /\ UNCHANGED <<mode, disk, load, server, cur, sum, mu, served, renewed, contended>>

ReloadLock(t) ==
    /\ thread[t].pc = "lock" /\ mu = "free"
    /\ mu' = t /\ ThreadAt(t, "cert", 0)
    /\ UNCHANGED <<mode, disk, load, server, cur, sum, hup, served, renewed, contended>>

\* Mutant: a failed reload returns without unlocking.
StaysLocked(ok) == IF ok THEN "free" ELSE mu

\* defer mu.Unlock()
Unlocked(ok) == "free"

\* Reload ends early when the file cannot be read or is what was last loaded.
ReloadCert(t) ==
    /\ thread[t].pc = "cert"
    /\ IF file.cert \in {0, sum} THEN ThreadAt(t, "idle", 0) /\ mu' = Unlocked(file.cert # 0)
       ELSE ThreadAt(t, "key", file.cert) /\ UNCHANGED mu
    /\ UNCHANGED <<mode, disk, load, server, cur, sum, hup, served, renewed, contended>>

ReloadKey(t) ==
    LET c == thread[t].cert
        ok == X509KeyPair(c, file.key)
    IN  /\ thread[t].pc = "key" /\ ThreadAt(t, "idle", 0)
        /\ mu' = Unlocked(ok)
        /\ cur' = IF ok THEN [cert |-> c, key |-> file.key] ELSE cur
        /\ sum' = IF ok THEN c ELSE sum
        /\ UNCHANGED <<mode, disk, load, server, hup, served, renewed, contended>>

-----------------------------------------------------------------------------
\* A process dies; what it had written stays.

ServerCrash ==
    /\ server # "down" /\ server' = "down"
    /\ cur' = Nothing /\ sum' = 0 /\ mu' = "free" /\ hup' = FALSE
    /\ thread' = [t \in Threads |-> AtRest]
    /\ load' = [load EXCEPT !["server"] = AtRest]
    /\ out' = [out EXCEPT !["server"] = NoWrite]
    /\ UNCHANGED <<mode, file, newer, made, served, renewed, contended>>

CliKilled ==
    /\ load["cli"].pc # "idle"
    /\ load' = [load EXCEPT !["cli"] = AtRest]
    /\ out' = [out EXCEPT !["cli"] = NoWrite]
    /\ UNCHANGED <<mode, file, newer, made, proc, served, renewed, contended>>

-----------------------------------------------------------------------------

Reload(t) == ReloadLock(t) \/ ReloadCert(t) \/ ReloadKey(t)

CertificatesNext ==
    \/ \E w \in Loaders \cup {"renewer"} : Truncate(w) \/ Write(w)
    \/ Renew
    \/ \E p \in Loaders : BeginLoad(p) \/ LoadKey(p) \/ Created(p)
    \/ Listen \/ GetCertificate \/ StartPolling \/ Poll \/ Sighup \/ TakeSignal
    \/ \E t \in Threads : Reload(t)
    \/ ServerCrash \/ CliKilled

\* The goroutines of watchCert are scheduled and the ticker ticks.
Fairness ==
    /\ WF_certificatesVars(StartPolling) /\ WF_certificatesVars(Poll) /\ WF_certificatesVars(TakeSignal)
    /\ \A t \in Threads : WF_certificatesVars(Reload(t))

CertificatesSpec == CertificatesInit /\ [][CertificatesNext]_certificatesVars /\ Fairness

-----------------------------------------------------------------------------
\* Properties

\* A whole pair of generation g is on disk.
OnDisk(g) == file.cert = g /\ file.key = g

\* A listening server always has a certificate with its own private key, however
\* the reads of a reload or of the boot fall between the writes of a renewal,
\* of a second loader or of one that crashed (X509KeyPair in Reload,
\* LoadOrCreate and LoadCustom).
ServedPairMatches == server = "serving" => cur.cert # 0 /\ cur.cert = cur.key

\* "its fingerprint stays stable across restarts" (tlscert/cert.go): as long as
\* nobody renews the files and no two loaders overlap, clients see one
\* certificate for ever, although a crash may leave half a pair behind.
FingerprintStable ==
    mode # "memory" /\ ~renewed /\ ~contended => Cardinality(served) <= 1

\* A SIGHUP that finds a whole pair on disk gets it served, unless the files
\* change again or the server stops: neither a failed reload nor the poll
\* running at the same time blocks the next one (Reload's mutex).
SighupReloads ==
    \A g \in 1..MaxGen :
        (server = "serving" /\ hup /\ OnDisk(g))
            ~> (cur.cert = g \/ ~OnDisk(g) \/ server # "serving")

\* "reloads when it advances, so `step ca renew` or a re-issued leaf just
\* works": a renewed pair that stays on disk is eventually served, no signal
\* needed.
RenewalTakesEffect ==
    \A g \in 1..MaxGen :
        (server = "serving" /\ OnDisk(g))
            ~> (cur.cert = g \/ ~OnDisk(g) \/ server # "serving")

-----------------------------------------------------------------------------
\* Inductive strengthenings, checked by TLC and used by the proofs

\* A pair leaves LoadOrCreate, LoadCustom or Reload only when it matches.
PairsMatch ==
    /\ server \in {"loaded", "serving"} => cur.cert # 0 /\ cur.cert = cur.key
    /\ \A p \in Loaders : load[p].pc = "write" => load[p].cert # 0

\* The boot loads, only a listening server reloads, the command line loads what
\* LoadOrCreate keeps, and who truncated a file still has it to write.
ProcessesInPhase ==
    /\ \A w \in Loaders \cup {"renewer"} : out[w].torn => out[w].todo # <<>>
    /\ load["server"].pc # "idle" => server = "boot"
    /\ load["cli"].pc # "idle" => mode = "dir"
    /\ server # "serving" => ~hup /\ \A t \in Threads : thread[t].pc = "idle"

Undisturbed == mode # "memory" /\ ~renewed /\ ~contended

\* How far a loader that writes has come; nobody has been served before it ends.
WritesInOrder(p) ==
    /\ served = {} /\ server \notin {"loaded", "serving"}
    /\ out[p].gen = load[p].cert
    /\ \/ out[p].todo = <<"cert", "key">>
       \/ out[p].todo = <<"key">> /\ file.cert = load[p].cert
       \/ out[p].todo = <<>> /\ ~out[p].torn /\ OnDisk(load[p].cert)

\* Undisturbed, loaders take turns, and from the first handshake on the pair
\* that was served stays on disk.
DiskSettled ==
    Undisturbed =>
        /\ \A p, q \in Loaders : (load[p].pc # "idle" /\ load[q].pc # "idle") => p = q
        /\ out["renewer"].todo = <<>> /\ ~out["renewer"].torn
        /\ \A p \in Loaders :
              /\ load[p].pc # "write" => out[p].todo = <<>> /\ ~out[p].torn
              /\ load[p].pc = "key" => load[p].cert = file.cert
              /\ load[p].pc = "write" => WritesInOrder(p)
        /\ server \in {"loaded", "serving"} => OnDisk(cur.cert)
        /\ server = "serving" => sum = cur.cert /\ \A t \in Threads : thread[t].pc # "key"
        /\ served # {} => \E g \in 1..MaxGen : OnDisk(g) /\ served = {g}

CertInv == CertificatesTypeOK /\ PairsMatch /\ ProcessesInPhase /\ DiskSettled
=============================================================================
