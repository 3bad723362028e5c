------------------------------ MODULE Lifecycle ------------------------------
(***************************************************************************)
(* The worker as operating-system processes: main's start-up and graceful  *)
(* shutdown, /api/stop, /api/start, /api/restart, /api/upgrade, and what   *)
(* the processes share: the HTTP port, the proxy ports, the WireGuard      *)
(* interface and the server key it is configured with, the host's firewall *)
(* rules and route, the installed binary, its backup and the download.     *)
(*                                                                         *)
(* A worker is run directly, without a supervisor.  An instance is one     *)
(* process; a file's content is none, a partial copy, or a complete binary *)
(* of the old or the new version.  An instance generates at most one       *)
(* server key, which goes by the instance's name.                          *)
(***************************************************************************)
EXTENDS Naturals, FiniteSets, Sequences

CONSTANTS
    Instances,   \* processes; their number bounds the starts
    ProxyPorts,  \* SOCKS5_PORT, HTTP_PROXY_PORT
    MaxKills,    \* bound of the crashes
    MaxDisk,     \* bound of the failing file operations and commands
    Faults,      \* the adversities admitted, a subset of FaultKinds
    NoKey

\* "overlap": requests, signals and crashes while another request is in
\* progress or a second instance runs.
FaultKinds == {"overlap"}

ASSUME BoundsAssumption == MaxKills \in Nat /\ MaxDisk \in Nat
ASSUME FaultsAssumption == Faults \subseteq FaultKinds
ASSUME NoKeyAssumption == NoKey \notin Instances

VARIABLES
    stage,    \* where main stands in each instance
    proxy,    \* the proxy listeners of each instance
    timer,    \* tasks of an instance that wait 500 ms to end it
    script,   \* a restart script waits for this instance to die
    iface,    \* the key of the WireGuard interface, NoKey when it does not exist
    stored,   \* the newest key in worker_wg_server
    key,      \* the server key of each instance
    net,      \* how far each instance is with the host's set-up
    clean,    \* no command of that set-up failed
    host,     \* how often each rule and the route are there
    told,     \* server keys in the configurations clients were given
    bin,      \* the installed binary
    bak,      \* its .bak
    tmp,      \* /tmp/tpn-worker-new
    unlinked, \* instances whose executable file has been removed
    upc,      \* where the upgrade handler of each instance stands
    kills,    \* crashes so far
    disk      \* file operations and commands that failed so far

setup == <<stored, key, net, clean, host, told>>
process == <<stage, proxy, timer, script, iface, setup>>
disks == <<bin, bak, tmp, unlinked>>
vars == <<process, disks, upc, kills, disk>>

\* What setup_networking and ensure_tcp_input_accept see to, in this order.
Entries == <<"masquerade", "route", "forward_in", "forward_out", "udp", "socks5",
             "http_proxy", "api">>
EntrySet == {Entries[n] : n \in 1 .. Len(Entries)}

Content == {"none", "partial", "old", "new"}
Complete == {"old", "new"}
Booting == {"boot", "insert", "keys", "check", "add", "proxies"}
Live == Booting \cup {"serve", "drain"}
UpgradeSteps == {"idle", "fetched", "writing", "written", "verified", "backing",
                 "backed", "removed", "copying", "copied", "restore", "restoring"}

NoProxy == [k \in ProxyPorts |-> "none"]

TypeOK ==
    /\ stage \in [Instances -> Live \cup {"unborn", "dead"}]
    /\ proxy \in [Instances -> [ProxyPorts -> {"none", "pending", "bound", "failed"}]]
    /\ timer \in [Instances -> SUBSET {"stop", "restart", "upgrade"}]
    /\ script \in [Instances -> BOOLEAN]
    /\ iface \in Instances \cup {NoKey} /\ stored \in Instances \cup {NoKey}
    /\ key \in [Instances -> Instances \cup {NoKey}]
    /\ net \in [Instances -> 1 .. Len(Entries) + 1]
    /\ clean \in [Instances -> BOOLEAN]
    /\ host \in [EntrySet -> Nat] /\ host["route"] <= 1
    /\ told \subseteq Instances
    /\ bin \in Content /\ bak \in Content /\ tmp \in Content
    /\ unlinked \subseteq Instances
    /\ upc \in [Instances -> UpgradeSteps]
    /\ kills \in 0 .. MaxKills
    /\ disk \in 0 .. MaxDisk
    /\ \A p \in Instances : stage[p] \in {"unborn", "dead"} =>
         proxy[p] = NoProxy /\ timer[p] = {} /\ upc[p] = "idle"

Init ==
    /\ stage = [p \in Instances |-> "unborn"]
    /\ proxy = [p \in Instances |-> NoProxy]
    /\ timer = [p \in Instances |-> {}]
    /\ script = [p \in Instances |-> FALSE]
    /\ iface = NoKey /\ stored = NoKey
    /\ key = [p \in Instances |-> NoKey]
    /\ net = [p \in Instances |-> 1]
    /\ clean = [p \in Instances |-> TRUE]
    /\ host = [e \in EntrySet |-> 0]
    /\ told = {}
    /\ bin = "old" /\ bak = "none" /\ tmp = "none" /\ unlinked = {}
    /\ upc = [p \in Instances |-> "idle"]
    /\ kills = 0
    /\ disk = 0

-----------------------------------------------------------------------------
(* Processes begin and end.                                                *)

Alive == {p \in Instances : stage[p] \in Live}
Unborn == {p \in Instances : stage[p] = "unborn"}

\* The instances in D end and the binary is run: a new instance begins if the
\* binary is complete.
EndAndSpawn(D) ==
    \E q \in Unborn :
        stage' = [p \in Instances |->
                    IF p = q /\ bin \in Complete THEN "boot"
                    ELSE IF p \in D THEN "dead" ELSE stage[p]]

\* What an instance holds goes with it: listeners, tasks, handlers.
Release(p) ==
    /\ proxy' = [proxy EXCEPT ![p] = NoProxy]
    /\ timer' = [timer EXCEPT ![p] = {}]
    /\ upc' = [upc EXCEPT ![p] = "idle"]

\* std::process::exit, a panic of main, or a signal.
Die(p) == stage' = [stage EXCEPT ![p] = "dead"] /\ Release(p)

\* The operator starts the worker when none runs or is about to.
OperatorStart ==
    /\ Alive = {} /\ \A p \in Instances : ~script[p]
    /\ bin \in Complete
    /\ EndAndSpawn({})
    /\ UNCHANGED <<proxy, timer, script, iface, setup, disks, upc, kills, disk>>

-----------------------------------------------------------------------------
(* main: start-up.                                                         *)

\* Mutant: the stored key is not looked for.
LoadKeys_Generates(p) ==
    /\ stage[p] = "boot"
    /\ stage' = [stage EXCEPT ![p] = "insert"]
    /\ key' = [key EXCEPT ![p] = p]
    /\ UNCHANGED <<proxy, timer, script, iface, stored, net, clean, host, told,
                   disks, upc, kills, disk>>

\* Configuration, database, then load_or_create_server_keys: the newest key of
\* the table, or a new one ...
LoadKeys(p) ==
    /\ stage[p] = "boot"
    /\ stage' = [stage EXCEPT ![p] = IF stored = NoKey THEN "insert" ELSE "keys"]
    /\ key' = [key EXCEPT ![p] = IF stored = NoKey THEN p ELSE stored]
    /\ UNCHANGED <<proxy, timer, script, iface, stored, net, clean, host, told,
                   disks, upc, kills, disk>>

\* ... which is then stored.
InsertKeys(p) ==
    /\ stage[p] = "insert"
    /\ stage' = [stage EXCEPT ![p] = "keys"]
    /\ stored' = key[p]
    /\ UNCHANGED <<proxy, timer, script, iface, key, net, clean, host, told,
                   disks, upc, kills, disk>>

\* The interface is created or taken over, and configured.
StartWireGuard(p) ==
    /\ stage[p] = "keys"
    /\ stage' = [stage EXCEPT ![p] = "check"]
    /\ iface' = key[p]
    /\ UNCHANGED <<proxy, timer, script, setup, disks, upc, kills, disk>>

\* The entry whose turn it is.
Entry(p) == Entries[net[p]]
SetUpDone(p) == net[p] > Len(Entries)

\* Mutants: every entry is added without looking; an existing first entry is
\* taken for a complete set-up.
CheckEntry_None(p) ==
    /\ stage[p] = "check" /\ ~SetUpDone(p)
    /\ stage' = [stage EXCEPT ![p] = "add"]
    /\ UNCHANGED <<proxy, timer, script, iface, setup, disks, upc, kills, disk>>

CheckEntry_FirstOnly(p) ==
    /\ stage[p] = "check" /\ ~SetUpDone(p)
    /\ IF host[Entry(p)] > 0
         THEN net' = [net EXCEPT ![p] = Len(Entries) + 1] /\ UNCHANGED stage
         ELSE stage' = [stage EXCEPT ![p] = "add"] /\ UNCHANGED net
    /\ UNCHANGED <<proxy, timer, script, iface, stored, key, clean, host, told,
                   disks, upc, kills, disk>>

\* iptables -C, ip route show: an entry that exists is left alone.
CheckEntry(p) ==
    /\ stage[p] = "check" /\ ~SetUpDone(p)
    /\ IF host[Entry(p)] > 0
         THEN net' = [net EXCEPT ![p] = @ + 1] /\ UNCHANGED stage
         ELSE stage' = [stage EXCEPT ![p] = "add"] /\ UNCHANGED net
    /\ UNCHANGED <<proxy, timer, script, iface, stored, key, clean, host, told,
                   disks, upc, kills, disk>>

\* iptables -A appends, whether or not there is one; ip route add does not.
AddEntry(p) ==
    /\ stage[p] = "add"
    /\ host' = [host EXCEPT ![Entry(p)] = IF Entry(p) = "route" THEN 1 ELSE @ + 1]
    /\ net' = [net EXCEPT ![p] = @ + 1]
    /\ stage' = [stage EXCEPT ![p] = "check"]
    /\ UNCHANGED <<proxy, timer, script, iface, stored, key, clean, told,
                   disks, upc, kills, disk>>

\* One more operation fails.
DiskFails == disk < MaxDisk /\ disk' = disk + 1

\* The check cannot tell, and the entry is added; or it cannot be run (for the
\* entries that do without then); or adding fails.  start-up goes on.
CommandFails(p) ==
    /\ DiskFails
    /\ clean' = [clean EXCEPT ![p] = FALSE]
    /\ \/ /\ stage[p] = "check" /\ ~SetUpDone(p)
          /\ stage' = [stage EXCEPT ![p] = "add"] /\ UNCHANGED net
       \/ /\ stage[p] = "check" /\ ~SetUpDone(p)
          /\ Entry(p) \in {"forward_in", "forward_out", "udp"}
          /\ net' = [net EXCEPT ![p] = @ + 1] /\ UNCHANGED stage
       \/ /\ stage[p] = "add"
          /\ net' = [net EXCEPT ![p] = @ + 1]
          /\ stage' = [stage EXCEPT ![p] = "check"]
    /\ UNCHANGED <<proxy, timer, script, iface, stored, key, host, told, disks,
                   upc, kills>>

\* The peers are restored, the credentials loaded (between the entries of
\* WireGuard and of the listeners), and the proxy servers spawned as tasks.
SpawnProxies(p) ==
    /\ stage[p] = "check" /\ SetUpDone(p)
    /\ stage' = [stage EXCEPT ![p] = "proxies"]
    /\ proxy' = [proxy EXCEPT ![p] = [k \in ProxyPorts |-> "pending"]]
    /\ UNCHANGED <<timer, script, iface, setup, disks, upc, kills, disk>>

ProxyFree(k) == \A q \in Instances : proxy[q][k] # "bound"
HttpFree == \A q \in Instances : stage[q] # "serve"

\* A proxy task binds its port; if it cannot, the task ends with a log line
\* and is not started again.
BindProxy(p, k) ==
    /\ proxy[p][k] = "pending"
    /\ proxy' = [proxy EXCEPT ![p][k] = IF ProxyFree(k) THEN "bound" ELSE "failed"]
    /\ UNCHANGED <<stage, timer, script, iface, setup, disks, upc, kills, disk>>

\* main binds the HTTP port and serves leases with its key, or panics.
BindHttp(p) ==
    /\ stage[p] = "proxies"
    /\ IF HttpFree
         THEN /\ stage' = [stage EXCEPT ![p] = "serve"]
              /\ told' = told \cup {key[p]}
              /\ UNCHANGED <<proxy, timer, upc>>
         ELSE Die(p) /\ UNCHANGED told
    /\ UNCHANGED <<script, iface, stored, key, net, clean, host, disks, kills, disk>>

-----------------------------------------------------------------------------
(* main: graceful shutdown, and crashes.                                   *)

\* Nothing else is in progress.
Calm(p) ==
    /\ Alive = {p}
    /\ timer[p] = {} /\ upc[p] = "idle"
    /\ \A q \in Instances : ~script[q]

\* A request or signal comes when the proxy tasks have had their turn.
MayAct(p) ==
    /\ \A k \in ProxyPorts : proxy[p][k] # "pending"
    /\ "overlap" \in Faults \/ Calm(p)

\* SIGTERM while main serves: the listeners close and requests are drained.
Terminate(p) ==
    /\ stage[p] = "serve" /\ MayAct(p)
    /\ stage' = [stage EXCEPT ![p] = "drain"]
    /\ proxy' = [proxy EXCEPT ![p] = NoProxy]
    /\ UNCHANGED <<timer, script, iface, setup, disks, upc, kills, disk>>

\* No request is left: the interface is removed, the route goes with it, the
\* rules stay, and main returns.
ShutdownWireGuard(p) ==
    /\ stage[p] = "drain" /\ upc[p] = "idle"
    /\ iface' = NoKey
    /\ host' = [host EXCEPT !["route"] = 0]
    /\ Die(p)
    /\ UNCHANGED <<script, stored, key, net, clean, told, disks, kills, disk>>

\* A crash; or, before main serves, exit(1) after a step that failed, or a
\* signal, whose handler is installed only then.
Kill(p) ==
    /\ p \in Alive
    /\ "overlap" \in Faults \/ Alive = {p}
    /\ kills < MaxKills
    /\ kills' = kills + 1
    /\ Die(p)
    /\ UNCHANGED <<script, iface, setup, disks, disk>>

-----------------------------------------------------------------------------
(* The control endpoints.                                                  *)

\* /api/stop and /api/restart answer at once and act 500 ms later.
RequestTimer(p) ==
    /\ stage[p] = "serve" /\ MayAct(p)
    /\ Unborn # {}
    /\ \E t \in {"stop", "restart"} : timer' = [timer EXCEPT ![p] = @ \cup {t}]
    /\ UNCHANGED <<stage, proxy, script, iface, setup, disks, upc, kills, disk>>

\* /api/start: a new instance, while this one goes on.
RequestStart(p) ==
    /\ stage[p] = "serve" /\ MayAct(p)
    /\ EndAndSpawn({})
    /\ UNCHANGED <<proxy, timer, script, iface, setup, disks, upc, kills, disk>>

StopNow(p) ==
    /\ "stop" \in timer[p]
    /\ Die(p)
    /\ UNCHANGED <<script, iface, setup, disks, kills, disk>>

\* Mutants: the new process is started first; the old one does not exit.
RestartNow_SpawnsFirst(p) ==
    /\ "restart" \in timer[p]
    /\ EndAndSpawn({})
    /\ timer' = [timer EXCEPT ![p] = {"stop"}]
    /\ UNCHANGED <<proxy, script, iface, setup, disks, upc, kills, disk>>

RestartNow_NoExit(p) ==
    /\ "restart" \in timer[p]
    /\ script' = [script EXCEPT ![p] = TRUE]
    /\ timer' = [timer EXCEPT ![p] = {}]
    /\ UNCHANGED <<stage, proxy, iface, setup, disks, upc, kills, disk>>

\* The script is spawned and the process exits, with nothing in between.
RestartNow(p) ==
    /\ "restart" \in timer[p]
    /\ script' = [script EXCEPT ![p] = TRUE]
    /\ Die(p)
    /\ UNCHANGED <<iface, setup, disks, kills, disk>>

\* The script has seen its process die and runs the binary.
ScriptStarts(p) ==
    /\ script[p] /\ stage[p] = "dead"
    /\ EndAndSpawn({})
    /\ script' = [script EXCEPT ![p] = FALSE]
    /\ UNCHANGED <<proxy, timer, iface, setup, disks, upc, kills, disk>>

\* After an upgrade: the new process is spawned, then this one exits.
UpgradeNow(p) ==
    /\ "upgrade" \in timer[p]
    /\ EndAndSpawn({p})
    /\ Release(p)
    /\ UNCHANGED <<script, iface, setup, disks, kills, disk>>

-----------------------------------------------------------------------------
(* /api/upgrade: do_upgrade.                                               *)

Up(p, l) == upc' = [upc EXCEPT ![p] = l]

\* The release is downloaded into memory.
Download(p) ==
    /\ stage[p] = "serve" /\ MayAct(p) /\ upc[p] = "idle"
    /\ Unborn # {}
    /\ Up(p, "fetched")
    /\ UNCHANGED <<process, disks, kills, disk>>

\* A file is written or copied: its old content is gone at once, the new one
\* is there at the end.
WriteTmp(p) ==
    /\ \/ upc[p] = "fetched" /\ tmp' = "partial" /\ Up(p, "writing")
       \/ upc[p] = "writing" /\ tmp' = "new" /\ Up(p, "written")
    /\ UNCHANGED <<process, bin, bak, unlinked, kills, disk>>

\* --help is run on it: only a failure to execute counts.
Verify(p) ==
    /\ upc[p] = "written"
    /\ Up(p, "verified")
    /\ UNCHANGED <<process, disks, kills, disk>>

\* current_exe names the file this process was started from, and the copy of it
\* to the backup begins.
Backup(p) ==
    /\ \/ /\ upc[p] = "verified" /\ p \notin unlinked
          /\ bak' = "partial" /\ Up(p, "backing")
       \/ upc[p] = "backing" /\ bak' = bin /\ Up(p, "backed")
    /\ UNCHANGED <<process, bin, tmp, unlinked, kills, disk>>

\* That file is gone, so an earlier upgrade of this process got past its removal
\* and failed: current_exe is a name that does not exist, and the copy fails
\* before it touches the backup.
BackupGone(p) ==
    /\ upc[p] = "verified" /\ p \in unlinked
    /\ Up(p, "idle")
    /\ UNCHANGED <<process, disks, kills, disk>>

\* Mutant: the binary is removed before it is backed up.
RemoveCurrent_First(p) ==
    /\ upc[p] \in {"verified", "backed"}
    /\ bin' = "none" /\ unlinked' = Alive
    /\ Up(p, "removed")
    /\ UNCHANGED <<process, bak, tmp, kills, disk>>

RemoveCurrent(p) ==
    /\ upc[p] = "backed"
    /\ bin' = "none" /\ unlinked' = Alive
    /\ Up(p, "removed")
    /\ UNCHANGED <<process, bak, tmp, kills, disk>>

Install(p) ==
    /\ \/ upc[p] = "removed" /\ bin' = "partial" /\ Up(p, "copying")
       \/ upc[p] = "copying" /\ bin' = tmp /\ Up(p, "copied")
    /\ UNCHANGED <<process, bak, tmp, unlinked, kills, disk>>

\* A failed operation ends the upgrade where it stands, except that a failed
\* execution removes the download, and a failed copy or chmod of the new
\* binary is followed by copying the backup back.
UpgradeFails(p) ==
    /\ DiskFails
    /\ \/ /\ upc[p] \in {"fetched", "writing", "verified", "backing", "backed",
                        "restore", "restoring"}
          /\ Up(p, "idle")
          /\ UNCHANGED <<bin, tmp, unlinked>>
       \/ /\ upc[p] = "written" /\ Up(p, "idle")
          /\ tmp' = "none" /\ UNCHANGED <<bin, unlinked>>
       \/ /\ upc[p] \in {"removed", "copying"} /\ Up(p, "restore")
          /\ UNCHANGED <<bin, tmp, unlinked>>
       \/ /\ upc[p] = "copied" /\ Up(p, "restore")
          /\ bin' = "none" /\ unlinked' = Alive /\ UNCHANGED tmp
    /\ UNCHANGED <<process, bak, kills>>

Restore(p) ==
    /\ \/ upc[p] = "restore" /\ bin' = "partial" /\ Up(p, "restoring")
       \/ upc[p] = "restoring" /\ bin' = bak /\ Up(p, "idle")
    /\ UNCHANGED <<process, bak, tmp, unlinked, kills, disk>>

\* The download is removed and the restart scheduled.
UpgradeDone(p) ==
    /\ upc[p] = "copied"
    /\ tmp' = "none"
    /\ timer' = [timer EXCEPT ![p] = @ \cup {"upgrade"}]
    /\ Up(p, "idle")
    /\ UNCHANGED <<stage, proxy, script, iface, setup, bin, bak, unlinked, kills,
                   disk>>

Upgrade(p) ==
    \/ WriteTmp(p) \/ Verify(p) \/ Backup(p) \/ BackupGone(p) \/ RemoveCurrent(p)
    \/ Install(p) \/ Restore(p) \/ UpgradeDone(p)

\* What a process does by itself once it runs.
Run(p) ==
    \/ LoadKeys(p) \/ InsertKeys(p) \/ StartWireGuard(p)
    \/ CheckEntry(p) \/ AddEntry(p) \/ SpawnProxies(p) \/ BindHttp(p)
    \/ \E k \in ProxyPorts : BindProxy(p, k)
    \/ ShutdownWireGuard(p)
    \/ StopNow(p) \/ RestartNow(p) \/ UpgradeNow(p) \/ ScriptStarts(p)
    \/ Upgrade(p)

Next ==
    \/ OperatorStart
    \/ \E p \in Instances :
         \/ Run(p) \/ UpgradeFails(p) \/ CommandFails(p)
         \/ Terminate(p) \/ Kill(p)
         \/ RequestTimer(p) \/ RequestStart(p) \/ Download(p)

Spec == Init /\ [][Next]_vars

\* Processes run, timers fire and the script polls.  Nothing is assumed of
\* operators, requests, signals and failures.
FairSpec == Spec /\ \A p \in Instances : WF_vars(Run(p))

-----------------------------------------------------------------------------
(* Properties                                                              *)

\* A worker that serves the API has its proxies (README, start-up steps 8 to
\* 10), once their tasks have run (main.rs:421-449, 515).
ServingHasProxies ==
    \A p \in Instances, k \in ProxyPorts :
        stage[p] = "serve" => proxy[p][k] \in {"pending", "bound"}

\* Clients keep their server: while a worker serves there is an interface, and
\* every configuration ever handed out names its key, whichever process handed
\* it out, whatever process ended and wherever a start was interrupted
\* (server.rs:177-240, 732-754, main.rs:604-609).
ClientsKeepServerKey ==
    \A p \in Instances : stage[p] = "serve" => told \subseteq {iface}

\* A worker whose set-up ran without a failing command is reachable: all rules
\* and the route are there, whatever earlier starts left undone and an earlier
\* shutdown took away (server.rs:244-409, main.rs:141-180).
ServingIsRouted ==
    \A p \in Instances : stage[p] = "serve" /\ clean[p] =>
        \A e \in EntrySet : host[e] > 0

\* Restarts do not pile up firewall rules, as long as the checks work
\* (server.rs:258-275, main.rs:144-157).
RulesOnce == disk = 0 => \A e \in EntrySet : host[e] <= 1

\* Whatever fails and wherever the process dies during an upgrade, the
\* installed binary or its backup is complete (upgrade.rs:203-239).
BinaryRecoverable == bin \in Complete \/ bak \in Complete

\* /api/restart and /api/upgrade bring a worker back: once either is under way
\* an instance serves again, unless a crash intervenes (control.rs:75-104,
\* upgrade.rs:244-258).
BackInService ==
    \A p \in Instances :
        timer[p] \cap {"restart", "upgrade"} # {} /\ bin \in Complete
            ~> ((\E q \in Instances \ {p} : stage[q] = "serve") \/ kills > 0)
=============================================================================
