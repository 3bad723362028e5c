----------------------------- MODULE Credentials -----------------------------
(***************************************************************************)
(* The credential store of the proxies: CredentialManager's map, the rows  *)
(* of worker_socks5_configs behind it, the legacy password files, start-up *)
(* (migrate, load or generate, each a series of separate statements), the  *)
(* daemon's reload, and the leases that run on the rows meanwhile.         *)
(*                                                                         *)
(* A password is the version number of its user's secret, so a password    *)
(* that replaces another is a larger number.  The map is read by both      *)
(* proxies through Authenticate alone.                                     *)
(***************************************************************************)
EXTENDS Naturals, FiniteSets

CONSTANTS
    Users,        \* user names
    TotalSlots,   \* PROXY_CREDENTIAL_COUNT
    Versions,     \* passwords
    Hosts,        \* values of SERVER_PUBLIC_HOST and SOCKS5_PORT together
    Faults,       \* the adversities admitted, a subset of FaultKinds
    Empty         \* the content of a password file without a password

FaultKinds == {"crash", "db", "edit", "unreadable"}

ASSUME UsersAssumption == IsFiniteSet(Users)
ASSUME SlotsAssumption == TotalSlots \in Nat
ASSUME VersionsAssumption == 1 \in Versions /\ Versions \subseteq Nat \ {0}
ASSUME FaultsAssumption == Faults \subseteq FaultKinds
ASSUME EmptyAssumption == Empty \notin Nat

None == 0  \* no row, no map entry, no password file

VARIABLES
    files,     \* the password file of each user: a password, Empty or None
    usedMark,  \* the users with a .password.used file
    row,       \* worker_socks5_configs.password, None when there is no row
    avail,     \* the rows with available = TRUE
    rowHost,   \* ip_address and port of each row
    host,      \* those of the running process's configuration
    creds,     \* CredentialManager.credentials
    status,    \* where the process stands
    batch,     \* the socks vector: the password of each user in it
    todo,      \* users still to be read, or written
    rpc,       \* where the daemon's reload stands
    snap,      \* the rows its SELECT returned
    rtodo,     \* users still to be inserted into the map
    held       \* leases clients hold: [user, pwd]

table == <<row, avail, rowHost>>
reload == <<rpc, snap, rtodo>>
vars == <<files, usedMark, table, host, creds, status, batch, todo, reload, held>>

Starting == {"scan", "read", "migrate", "generate", "sync"}
Serving == {"ready", "failed", "reloaded"}
NoCreds == [u \in Users |-> None]
Stored == [Users -> Versions \cup {None}]

TypeOK ==
    /\ files \in [Users -> Versions \cup {None, Empty}]
    /\ usedMark \in SUBSET Users
    /\ row \in Stored
    /\ avail \in SUBSET Users
    /\ rowHost \in [Users -> Hosts]
    /\ host \in Hosts
    /\ creds \in Stored
    /\ status \in {"down"} \cup Starting \cup Serving
    /\ batch \in Stored
    /\ todo \in SUBSET Users
    /\ rpc \in {"idle", "fetched", "fill"}
    /\ snap \in Stored
    /\ rtodo \in SUBSET Users
    /\ held \in SUBSET [user : Users, pwd : Versions]

Defined(f) == {u \in Users : f[u] # None}

\* The worker has never run: no table rows, any set of password files.
Init ==
    /\ files \in [Users -> {1, None, Empty}]
    /\ usedMark \in SUBSET Defined(files)
    /\ row = NoCreds
    /\ avail = {}
    /\ host \in Hosts
    /\ rowHost = [u \in Users |-> host]
    /\ creds = NoCreds
    /\ status = "scan"
    /\ batch = NoCreds
    /\ todo = {}
    /\ rpc = "idle"
    /\ snap = NoCreds
    /\ rtodo = {}
    /\ held = {}

-----------------------------------------------------------------------------
(* Start-up: initialize, as main calls it before it serves anything.       *)

\* has_password_files: an empty one counts.  Otherwise load_from_db, and
\* generate when it returns no row.
Scan ==
    /\ status = "scan"
    /\ \/ /\ Defined(files) # {}
          /\ status' = "read"
          /\ todo' = Defined(files)
          /\ UNCHANGED <<creds, batch>>
       \/ /\ Defined(files) = {} /\ Defined(row) # {}
          /\ creds' = row
          /\ status' = "sync"
          /\ UNCHANGED <<batch, todo>>
       \/ /\ Defined(files) = {} /\ Defined(row) = {}
          /\ \E new \in SUBSET Users :
               /\ Cardinality(new) = TotalSlots
               /\ batch' = [u \in Users |-> IF u \in new THEN 1 ELSE None]
               /\ todo' = new
          /\ status' = "generate"
          /\ UNCHANGED creds
    /\ UNCHANGED <<files, usedMark, table, host, reload, held>>

\* One password file is read; an empty one is skipped, and one that cannot be
\* read counts as empty (unwrap_or_default).
ReadFile ==
    /\ status = "read" /\ todo # {}
    /\ \E u \in todo :
         /\ \/ batch' = [batch EXCEPT ![u] = IF files[u] = Empty THEN None ELSE files[u]]
            \/ "unreadable" \in Faults /\ batch' = [batch EXCEPT ![u] = None]
         /\ todo' = todo \ {u}
    /\ UNCHANGED <<files, usedMark, table, host, creds, status, reload, held>>

\* write_socks of an empty batch returns at once; otherwise row by row.
ReadDone ==
    /\ status = "read" /\ todo = {}
    /\ todo' = Defined(batch)
    /\ status' = IF Defined(batch) = {} THEN "sync" ELSE "migrate"
    /\ UNCHANGED <<files, usedMark, table, host, creds, batch, reload, held>>

\* Mutants: the conflict clause also sets available; or does nothing.
Upsert_ResetsAvailable(u, a) ==
    /\ row' = [row EXCEPT ![u] = batch[u]]
    /\ avail' = IF a THEN avail \cup {u} ELSE avail \ {u}
    /\ rowHost' = [rowHost EXCEPT ![u] = IF row[u] = None THEN host ELSE @]

Upsert_DoNothing(u, a) ==
    /\ row' = [row EXCEPT ![u] = IF row[u] = None THEN batch[u] ELSE @]
    /\ avail' = IF row[u] = None /\ a THEN avail \cup {u} ELSE avail
    /\ rowHost' = [rowHost EXCEPT ![u] = IF row[u] = None THEN host ELSE @]

\* INSERT ... ON CONFLICT (username) DO UPDATE SET password
Upsert(u, a) ==
    /\ row' = [row EXCEPT ![u] = batch[u]]
    /\ avail' = IF row[u] = None /\ a THEN avail \cup {u} ELSE avail
    /\ rowHost' = [rowHost EXCEPT ![u] = IF row[u] = None THEN host ELSE @]

WriteSock ==
    /\ status \in {"migrate", "generate"}
    /\ \E u \in todo :
         /\ Upsert(u, status = "generate" \/ u \notin usedMark)
         /\ todo' = todo \ {u}
    /\ UNCHANGED <<files, usedMark, host, creds, status, batch, reload, held>>

\* The DELETE of rows that are not in the batch, then the map is filled.
Prune ==
    /\ status \in {"migrate", "generate"} /\ todo = {}
    /\ row' = [u \in Users |-> IF batch[u] = None THEN None ELSE row[u]]
    /\ avail' = avail \cap Defined(batch)
    /\ creds' = batch
    /\ status' = "sync"
    /\ UNCHANGED <<files, usedMark, rowHost, host, batch, todo, reload, held>>

\* Mutant: only rows that are not leased are moved.
SyncHostPort_AvailableOnly ==
    /\ status = "sync"
    /\ rowHost' = [u \in Users |-> IF u \in avail THEN host ELSE rowHost[u]]
    /\ status' = "ready"
    /\ batch' = NoCreds
    /\ UNCHANGED <<files, usedMark, row, avail, host, creds, todo, reload, held>>

\* sync_host_port, and the process serves.
SyncHostPort ==
    /\ status = "sync"
    /\ rowHost' = [u \in Users |-> host]
    /\ status' = "ready"
    /\ batch' = NoCreds
    /\ UNCHANGED <<files, usedMark, row, avail, host, creds, todo, reload, held>>

\* Any statement may fail: initialize returns the error, main logs it and goes
\* on to serve with what there is.
InitFails ==
    /\ "db" \in Faults
    /\ status \in Starting
    /\ status' = "failed"
    /\ batch' = NoCreds
    /\ todo' = {}
    /\ UNCHANGED <<files, usedMark, table, host, creds, reload, held>>

-----------------------------------------------------------------------------
(* The daemon's reload_from_db, beside connections that authenticate.      *)

ReloadSelect ==
    /\ status \in Serving /\ rpc = "idle"
    /\ snap' = row
    /\ rpc' = "fetched"
    /\ UNCHANGED <<files, usedMark, table, host, creds, status, batch, todo, rtodo,
                   held>>

ReloadClear ==
    /\ rpc = "fetched"
    /\ creds' = NoCreds
    /\ rtodo' = Defined(snap)
    /\ rpc' = "fill"
    /\ UNCHANGED <<files, usedMark, table, host, status, batch, todo, snap, held>>

ReloadInsert ==
    /\ rpc = "fill"
    /\ \E u \in rtodo :
         /\ creds' = [creds EXCEPT ![u] = snap[u]]
         /\ rtodo' = rtodo \ {u}
    /\ UNCHANGED <<files, usedMark, table, host, status, batch, todo, rpc, snap, held>>

\* Mutant: the reload stops one row early.
ReloadDone_Early ==
    /\ rpc = "fill" /\ Cardinality(rtodo) <= 1
    /\ rpc' = "idle"
    /\ rtodo' = {}
    /\ snap' = NoCreds
    /\ status' = IF status = "failed" THEN "reloaded" ELSE status
    /\ UNCHANGED <<files, usedMark, table, host, creds, batch, todo, held>>

ReloadDone ==
    /\ rpc = "fill" /\ rtodo = {}
    /\ rpc' = "idle"
    /\ snap' = NoCreds
    /\ status' = IF status = "failed" THEN "reloaded" ELSE status
    /\ UNCHANGED <<files, usedMark, table, host, creds, batch, todo, rtodo, held>>

\* authenticate: what both proxies ask.
Authenticate(u, p) == creds[u] # None /\ creds[u] = p

-----------------------------------------------------------------------------
(* The surroundings: leases, the operator, the process.                    *)

\* An exclusive lease and its release, the effects of Socks5Lease's Mark and
\* CleanupExpired on this table; neither looks at the map.
LeaseOut ==
    /\ status \in Serving
    /\ \E u \in avail :
         /\ avail' = avail \ {u}
         /\ held' = held \cup {[user |-> u, pwd |-> row[u]]}
    /\ UNCHANGED <<files, usedMark, row, rowHost, host, creds, status, batch, todo,
                   reload>>

LeaseBack ==
    /\ status \in Serving
    /\ \E g \in held :
         /\ held' = held \ {g}
         /\ avail' = IF row[g.user] = g.pwd THEN avail \cup {g.user} ELSE avail
    /\ UNCHANGED <<files, usedMark, row, rowHost, host, creds, status, batch, todo,
                   reload>>

\* The operator gives a user a password, or another one.
EditFile ==
    /\ "edit" \in Faults
    /\ \E u \in Users, p \in Versions :
         /\ files[u] # Empty => p > files[u]
         /\ p > row[u] /\ p > batch[u] /\ \A g \in held : g.user = u => p > g.pwd
         /\ files' = [files EXCEPT ![u] = p]
    /\ UNCHANGED <<usedMark, table, host, creds, status, batch, todo, reload, held>>

\* The process ends, at any point.
Crash ==
    /\ "crash" \in Faults
    /\ status # "down"
    /\ status' = "down"
    /\ creds' = NoCreds
    /\ batch' = NoCreds
    /\ todo' = {}
    /\ rpc' = "idle"
    /\ snap' = NoCreds
    /\ rtodo' = {}
    /\ UNCHANGED <<files, usedMark, table, host, held>>

\* It starts again, perhaps with another host or port.
Start ==
    /\ status = "down"
    /\ status' = "scan"
    /\ host' \in Hosts
    /\ UNCHANGED <<files, usedMark, table, creds, batch, todo, reload, held>>

Next ==
    \/ Scan \/ ReadFile \/ ReadDone \/ WriteSock \/ Prune
    \/ SyncHostPort \/ InitFails
    \/ ReloadSelect \/ ReloadClear \/ ReloadInsert \/ ReloadDone
    \/ LeaseOut \/ LeaseBack \/ EditFile
    \/ Crash \/ Start

Spec == Init /\ [][Next]_vars

-----------------------------------------------------------------------------
(* Properties                                                              *)

\* A password the proxies accept is the one the table has, so the one a lease
\* hands out: migration over existing rows, failed starts and reloads never
\* leave the map with another (credentials.rs:46-93, 151-166; socks5.rs:218).
MapMatchesTable ==
    \A u \in Users, p \in Versions : Authenticate(u, p) => row[u] = p

\* Once start-up has succeeded, or the daemon has reloaded after a failed one,
\* every row is accepted, except while a reload refills the map
\* (credentials.rs:144-166, main.rs:569-572).
MapComplete ==
    status \in {"ready", "reloaded"} /\ rpc # "fill"
        => \A u \in Defined(row) : Authenticate(u, row[u])

\* A lease outlives restarts (README, restart recovery): its row stays, with
\* its password and unavailable to others, whatever start-up is interrupted
\* where, unless a password file now says something else
\* (credentials.rs:201-259, socks5.rs:218-247).
LeaseSurvivesRestart ==
    \A g \in held :
        \/ row[g.user] = g.pwd /\ g.user \notin avail
        \/ Defined(files) # {} /\ files[g.user] # g.pwd

\* After a successful start every row, leased or not, names the address the
\* process now listens on (credentials.rs:89-90, 262-280).
AddressCurrent ==
    status = "ready" => \A u \in Defined(row) : rowHost[u] = host
=============================================================================
