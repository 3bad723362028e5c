-------------------------- MODULE LifecycleProofs --------------------------
(***************************************************************************)
(* Proofs about Lifecycle, for every number of processes, proxy ports,     *)
(* crashes and failing operations: type correctness under every fault;     *)
(* and, when requests and signals come one at a time, that a serving       *)
(* worker has its proxies, its clients' server key and its routes, that    *)
(* rules do not pile up, and that a complete binary survives every         *)
(* upgrade.                                                                *)
(***************************************************************************)
EXTENDS Lifecycle, TLAPS

\* The set-up has an entry left where one is added, and none afterwards; a
\* process that is past loading the server key has one.
StageInv ==
    \A p \in Instances :
        /\ stage[p] = "add" => net[p] <= Len(Entries)
        /\ stage[p] \in {"proxies", "serve"} => net[p] > Len(Entries)
        /\ stage[p] \in {"unborn", "boot", "insert", "keys"} => net[p] = 1
        /\ stage[p] \in Live \ {"boot"} => key[p] # NoKey

TypeInv == TypeOK /\ StageInv

\* Of two processes that run, one serves and the other starts, and then the
\* first has nothing else to do.
OneServes ==
    \A p, q \in Instances : p # q /\ stage[p] \in Live /\ stage[q] \in Live =>
        \/ stage[p] = "serve" /\ stage[q] \in Booting
        \/ stage[q] = "serve" /\ stage[p] \in Booting

Quiet ==
    /\ \A p \in Instances :
         /\ stage[p] # "serve" => timer[p] = {} /\ upc[p] = "idle"
         /\ timer[p] = {} \/ upc[p] = "idle"
    /\ \A p, q \in Instances : p # q /\ stage[p] = "serve" /\ stage[q] \in Live =>
         /\ timer[p] = {} /\ upc[p] = "idle"
         /\ \A k \in ProxyPorts : proxy[p][k] # "pending"

\* A restart script waits alone.
ScriptInv ==
    \A p \in Instances : script[p] =>
        /\ \A q \in Instances : stage[q] \notin Live
        /\ \A q \in Instances : script[q] => q = p

SoloInv == TypeInv /\ OneServes /\ Quiet /\ ScriptInv

\* A process holds proxy ports only once it has spawned the proxies, and one
\* fails to bind only beside a worker that serves.
ProxyInv ==
    \A p \in Instances :
        /\ stage[p] \notin {"proxies", "serve"} => proxy[p] = NoProxy
        /\ \A k \in ProxyPorts :
             /\ stage[p] \in {"proxies", "serve"} => proxy[p][k] # "none"
             /\ proxy[p][k] = "failed" =>
                  /\ stage[p] = "proxies"
                  /\ \E q \in Instances : q # p /\ stage[q] = "serve"

\* There is one server key, once there is any.
ServerKeyInv ==
    /\ told \subseteq {stored}
    /\ \A p \in Instances :
         /\ stage[p] = "insert" => stored = NoKey
         /\ stage[p] \in Live \ {"boot", "insert"} => key[p] = stored
         /\ stage[p] \in {"check", "add", "proxies", "serve"} => iface = stored

\* The entries a process has been through are there.
RouteInv ==
    \A p \in Instances :
        stage[p] \in {"check", "add", "proxies", "serve"} /\ clean[p] =>
            \A n \in 1 .. Len(Entries) : n < net[p] => host[Entries[n]] > 0

\* Until a set-up is complete at most one process runs, none has served, and
\* what is about to be added is not there.
FirstSetUp ==
    /\ \A p, q \in Instances : stage[p] \in Live /\ stage[q] \in Live => p = q
    /\ \A p \in Instances :
         /\ stage[p] \notin {"proxies", "serve", "drain"}
         /\ timer[p] = {} /\ upc[p] = "idle" /\ ~script[p]
         /\ stage[p] \in {"check", "add"} =>
              \A n \in 1 .. Len(Entries) : n < net[p] => host[Entries[n]] > 0
         /\ stage[p] = "add" => host[Entry(p)] = 0

\* Then the rules are there for good, and only the route is ever added again.
RulesThere ==
    /\ \A e \in EntrySet \ {"route"} : host[e] > 0
    /\ \A p \in Instances : stage[p] = "add" => Entry(p) = "route"

\* While no command has failed.
RuleInv ==
    disk = 0 => /\ \A e \in EntrySet : host[e] <= 1
                /\ FirstSetUp \/ RulesThere

\* Where an upgrade stands, and what it may rely on.
UpgradeInv ==
    /\ \A p \in Instances :
         /\ stage[p] \in Live /\ p \notin unlinked => bin \in Complete
         /\ upc[p] \in {"backing", "backed"} => p \notin unlinked
         /\ upc[p] \in {"written", "verified", "backing", "backed", "removed",
                        "copying", "copied"} => tmp = "new"
         /\ upc[p] \in {"backed", "removed", "copying", "copied", "restore",
                        "restoring"} => bak \in Complete
         /\ upc[p] \in {"removed", "copying", "copied", "restore", "restoring"}
              => p \in unlinked
    /\ BinaryRecoverable

-----------------------------------------------------------------------------
(* Types.                                                                  *)

\* There are eight entries, one of them the route.
LEMMA EntriesFact ==
    /\ Len(Entries) = 8
    /\ \A n \in 1 .. 8 : Entries[n] \in EntrySet
    /\ "route" \in EntrySet
<1>1. Len(Entries) = 8
    BY DEF Entries
<1>2. Entries[2] = "route"
    BY DEF Entries
<1> QED
    BY <1>1, <1>2 DEF EntrySet

LEMMA TypeInit == Init => TypeInv
BY EntriesFact, BoundsAssumption, NoKeyAssumption
   DEF Init, TypeInv, TypeOK, StageInv, NoProxy, Live, Booting, Content, UpgradeSteps

\* A process begins, perhaps as others end.
LEMMA SpawnType ==
    ASSUME TypeInv, NEW D, D \subseteq Instances, EndAndSpawn(D),
           UNCHANGED <<key, net>>
    PROVE  /\ stage' \in [Instances -> Live \cup {"unborn", "dead"}]
           /\ StageInv'
           /\ \A p \in Instances \ D : stage'[p] \in {"unborn", "dead"}
                                          => stage[p] \in {"unborn", "dead"}
BY DEF TypeInv, TypeOK, StageInv, EndAndSpawn, Unborn, Live, Booting

LEMMA TypeStep == TypeInv /\ [Next]_vars => TypeInv'
<1> SUFFICES ASSUME TypeInv, [Next]_vars PROVE TypeInv'
    OBVIOUS
<1> USE EntriesFact, BoundsAssumption, NoKeyAssumption
    DEF TypeInv, TypeOK, StageInv, setup, process, disks
<1>1. CASE OperatorStart
    BY <1>1, SpawnType DEF OperatorStart
<1>2. ASSUME NEW p \in Instances,
             \/ LoadKeys(p) \/ InsertKeys(p) \/ StartWireGuard(p)
             \/ CheckEntry(p) \/ AddEntry(p) \/ SpawnProxies(p) \/ CommandFails(p)
      PROVE  TypeInv'
    <2> USE DEF Live, Booting
    <2>1. CASE LoadKeys(p)
        BY <2>1 DEF LoadKeys
    <2>2. CASE InsertKeys(p)
        BY <2>2 DEF InsertKeys
    <2>3. CASE StartWireGuard(p)
        BY <2>3 DEF StartWireGuard
    <2>4. CASE CheckEntry(p)
        <3>0. net[p] <= Len(Entries) /\ net[p] + 1 \in 1 .. Len(Entries) + 1
            BY <2>4 DEF CheckEntry, SetUpDone
        <3>1. CASE host[Entry(p)] > 0
            <4>1. /\ net' = [net EXCEPT ![p] = @ + 1] /\ stage[p] = "check"
                  /\ UNCHANGED <<stage, proxy, timer, script, iface, stored, key, clean,
                                host, told, disks, upc, kills, disk>>
                BY <2>4, <3>1 DEF CheckEntry
            <4> QED
                BY <3>0, <4>1
        <3>2. CASE ~(host[Entry(p)] > 0)
            <4>1. /\ stage' = [stage EXCEPT ![p] = "add"] /\ stage[p] = "check"
                  /\ UNCHANGED <<net, proxy, timer, script, iface, stored, key, clean,
                                host, told, disks, upc, kills, disk>>
                BY <2>4, <3>2 DEF CheckEntry
            <4> QED
                BY <3>0, <4>1
        <3> QED
            BY <3>1, <3>2
    <2>5. CASE CommandFails(p)
        <3>1. clean' \in [Instances -> BOOLEAN]
            BY <2>5 DEF CommandFails
        <3>2. disk' \in 0 .. MaxDisk
            BY <2>5 DEF CommandFails, DiskFails
        <3>3. UNCHANGED <<proxy, timer, script, iface, stored, key, host, told, bin,
                          bak, tmp, unlinked, upc, kills>>
            BY <2>5 DEF CommandFails
        <3>4. stage[p] = "add" \/ (stage[p] = "check" /\ ~SetUpDone(p))
            BY ONLY <2>5 DEF CommandFails
        <3>5. net[p] \in 1 .. 9 /\ (stage[p] = "add" => net[p] <= 8)
            OBVIOUS
        <3>6. net[p] <= Len(Entries) /\ net[p] + 1 \in 1 .. Len(Entries) + 1
            BY ONLY <3>4, <3>5, EntriesFact DEF SetUpDone
        <3>7. CASE stage' = [stage EXCEPT ![p] = "add"] /\ UNCHANGED net
                   /\ stage[p] = "check" /\ ~SetUpDone(p)
            BY <3>6, <3>1, <3>2, <3>3, <3>7
        <3>8. CASE net' = [net EXCEPT ![p] = @ + 1] /\ UNCHANGED stage
                   /\ stage[p] = "check" /\ ~SetUpDone(p)
            BY <3>6, <3>1, <3>2, <3>3, <3>8
        <3>9. CASE net' = [net EXCEPT ![p] = @ + 1] /\ stage[p] = "add"
                   /\ stage' = [stage EXCEPT ![p] = "check"]
            BY <3>6, <3>1, <3>2, <3>3, <3>9
        <3> QED
            BY ONLY <2>5, <3>7, <3>8, <3>9 DEF CommandFails
    <2>6. CASE AddEntry(p)
        <3>1. Entry(p) \in EntrySet /\ net[p] + 1 \in 1 .. Len(Entries) + 1
            BY <2>6 DEF AddEntry, Entry
        <3>2. host' \in [EntrySet -> Nat] /\ host'["route"] <= 1
            BY <2>6, <3>1 DEF AddEntry
        <3> QED
            BY <2>6, <3>1, <3>2 DEF AddEntry
    <2>7. CASE SpawnProxies(p)
        BY <2>7 DEF SpawnProxies, SetUpDone
    <2> QED
        BY <1>2, <2>1, <2>2, <2>3, <2>4, <2>5, <2>6, <2>7
<1>3. ASSUME NEW p \in Instances,
             \/ BindHttp(p) \/ (\E k \in ProxyPorts : BindProxy(p, k))
             \/ Terminate(p) \/ ShutdownWireGuard(p) \/ Kill(p)
             \/ StopNow(p) \/ RestartNow(p)
      PROVE  TypeInv'
    <2> USE DEF Live, Booting, NoProxy, UpgradeSteps
    <2>1. CASE BindHttp(p) /\ HttpFree
        BY <2>1 DEF BindHttp
    <2>2. CASE BindHttp(p) /\ ~HttpFree
        <3>1. /\ Die(p)
              /\ UNCHANGED <<script, iface, setup, disks, kills, disk>>
            BY <2>2 DEF BindHttp
        <3> QED
            BY <3>1 DEF Die, Release
    <2>3. CASE \E k \in ProxyPorts : BindProxy(p, k)
        BY <2>3 DEF BindProxy
    <2>4. CASE Terminate(p)
        BY <2>4 DEF Terminate
    <2>5. CASE ShutdownWireGuard(p)
        BY <2>5 DEF ShutdownWireGuard, Die, Release
    <2>6. CASE Kill(p)
        BY <2>6 DEF Kill, Die, Release
    <2>7. CASE StopNow(p)
        BY <2>7 DEF StopNow, Die, Release
    <2>8. CASE RestartNow(p)
        BY <2>8 DEF RestartNow, Die, Release
    <2> QED
        BY <1>3, <2>1, <2>2, <2>3, <2>4, <2>5, <2>6, <2>7, <2>8
<1>4. ASSUME NEW p \in Instances,
             RequestTimer(p) \/ RequestStart(p) \/ ScriptStarts(p) \/ UpgradeNow(p)
      PROVE  TypeInv'
    <2>1. CASE RequestTimer(p)
        BY <2>1 DEF RequestTimer
    <2>2. CASE RequestStart(p)
        BY <2>2, SpawnType DEF RequestStart
    <2>3. CASE ScriptStarts(p)
        BY <2>3, SpawnType DEF ScriptStarts
    <2>4. CASE UpgradeNow(p)
        BY <2>4, SpawnType DEF UpgradeNow, Release, NoProxy, UpgradeSteps
    <2> QED
        BY <1>4, <2>1, <2>2, <2>3, <2>4
<1>5. ASSUME NEW p \in Instances, Upgrade(p) \/ UpgradeFails(p) \/ Download(p)
      PROVE  TypeInv'
    <2>1. /\ stage[p] \notin {"unborn", "dead"}
          /\ upc' = [upc EXCEPT ![p] = upc'[p]] /\ upc'[p] \in UpgradeSteps
        BY <1>5 DEF Upgrade, UpgradeFails, Download, WriteTmp, Verify, Backup,
           BackupGone, RemoveCurrent, Install, Restore, UpgradeDone, Up, UpgradeSteps
    <2>2. /\ bin' \in Content /\ bak' \in Content /\ tmp' \in Content
          /\ unlinked' \subseteq Instances /\ disk' \in 0 .. MaxDisk
        BY <1>5 DEF Upgrade, UpgradeFails, Download, WriteTmp, Verify, Backup,
           BackupGone, RemoveCurrent, Install, Restore, UpgradeDone, DiskFails,
           Content, Alive
    <2>3. /\ UNCHANGED <<stage, proxy, script, iface, setup, kills>>
          /\ \/ UNCHANGED timer
             \/ timer' = [timer EXCEPT ![p] = @ \cup {"upgrade"}]
        BY <1>5 DEF Upgrade, UpgradeFails, Download, WriteTmp, Verify, Backup,
           BackupGone, RemoveCurrent, Install, Restore, UpgradeDone
    <2>4. timer' \in [Instances -> SUBSET {"stop", "restart", "upgrade"}]
        <3>1. timer \in [Instances -> SUBSET {"stop", "restart", "upgrade"}]
            OBVIOUS
        <3> QED
            BY ONLY <2>3, <3>1, p \in Instances
    <2>5. StageInv' /\ upc' \in [Instances -> UpgradeSteps]
        BY <2>1, <2>3
    <2>6. \A q \in Instances : stage'[q] \in {"unborn", "dead"} =>
              proxy'[q] = NoProxy /\ timer'[q] = {} /\ upc'[q] = "idle"
        BY <2>1, <2>3
    <2> QED
        BY <2>2, <2>3, <2>4, <2>5, <2>6
<1>6. CASE UNCHANGED vars
    BY <1>6 DEF vars
<1> QED
    BY <1>1, <1>2, <1>3, <1>4, <1>5, <1>6 DEF Next, Run

\* Every variable keeps its type, and what a dead process held is gone, under
\* every fault.
THEOREM TypeCorrect == Spec => []TypeOK
<1>1. TypeInv => TypeOK
    BY DEF TypeInv
<1> QED
    BY <1>1, TypeInit, TypeStep, PTL DEF Spec

-----------------------------------------------------------------------------
(* One thing at a time.                                                    *)

\* A process that may act is the only one, and nothing else is in progress.
LEMMA ActsAlone ==
    ASSUME "overlap" \notin Faults, NEW p \in Instances, MayAct(p)
    PROVE  /\ timer[p] = {} /\ upc[p] = "idle"
           /\ \A k \in ProxyPorts : proxy[p][k] # "pending"
           /\ \A q \in Instances : ~script[q] /\ (stage[q] \in Live => q = p)
BY DEF MayAct, Calm, Alive

LEMMA SoloStep ==
    ASSUME "overlap" \notin Faults
    PROVE  SoloInv /\ [Next]_vars => SoloInv'
<1> SUFFICES ASSUME SoloInv, [Next]_vars PROVE SoloInv'
    OBVIOUS
<1>0. TypeInv'
    BY TypeStep DEF SoloInv
<1> SUFFICES (OneServes /\ Quiet /\ ScriptInv)'
    BY <1>0 DEF SoloInv
<1> USE DEF SoloInv, TypeInv, TypeOK, OneServes, Quiet, ScriptInv, setup, process,
                 disks, Live, Booting
<1>1. CASE OperatorStart
    BY <1>1 DEF OperatorStart, EndAndSpawn, Unborn, Alive
<1>2. ASSUME NEW p \in Instances,
             \/ LoadKeys(p) \/ InsertKeys(p) \/ StartWireGuard(p)
             \/ CheckEntry(p) \/ AddEntry(p) \/ SpawnProxies(p) \/ CommandFails(p)
      PROVE  (OneServes /\ Quiet /\ ScriptInv)'
    <2>1. /\ stage' = [stage EXCEPT ![p] = stage'[p]]
          /\ stage[p] \in Booting /\ stage'[p] \in Booting
        BY <1>2 DEF LoadKeys, InsertKeys, StartWireGuard, CheckEntry, AddEntry,
                    SpawnProxies, CommandFails
    <2>2. /\ UNCHANGED <<timer, script, upc>>
          /\ \A q \in Instances \ {p} : proxy'[q] = proxy[q]
        BY <1>2 DEF LoadKeys, InsertKeys, StartWireGuard, CheckEntry, AddEntry,
                    SpawnProxies, CommandFails
    <2>3. \A q \in Instances :
            /\ stage'[q] \in Live <=> stage[q] \in Live
            /\ stage'[q] \in Booting <=> stage[q] \in Booting
            /\ stage'[q] = "serve" <=> stage[q] = "serve"
        BY <2>1
    <2>4. OneServes'
        BY ONLY <2>3, OneServes DEF OneServes
    <2>5. ScriptInv'
        BY ONLY <2>2, <2>3, ScriptInv DEF ScriptInv
    <2>6. Quiet'
        BY <2>1, <2>2, <2>3
    <2> QED
        BY <2>4, <2>5, <2>6
<1>3. ASSUME NEW p \in Instances, \E k \in ProxyPorts : BindProxy(p, k)
      PROVE  (OneServes /\ Quiet /\ ScriptInv)'
    BY <1>3 DEF BindProxy
<1>4. ASSUME NEW p \in Instances, BindHttp(p)
      PROVE  (OneServes /\ Quiet /\ ScriptInv)'
    <2>1. CASE HttpFree
        <3>1. /\ stage[p] = "proxies" /\ stage' = [stage EXCEPT ![p] = "serve"]
              /\ UNCHANGED <<proxy, timer, script, upc>>
            BY <1>4, <2>1 DEF BindHttp
        <3>2. \A q \in Instances \ {p} : stage[q] \notin Live
            BY <2>1, <3>1 DEF HttpFree
        <3> QED
            BY <3>1, <3>2
    <2>2. CASE ~HttpFree
        <3>1. stage[p] = "proxies" /\ Die(p) /\ UNCHANGED script
            BY <1>4, <2>2 DEF BindHttp
        <3> QED
            BY <3>1 DEF Die, Release
    <2> QED
        BY <2>1, <2>2
<1>5. ASSUME NEW p \in Instances, Terminate(p) \/ RequestTimer(p) \/ Download(p)
      PROVE  (OneServes /\ Quiet /\ ScriptInv)'
    <2>1. MayAct(p) /\ stage[p] = "serve"
        BY <1>5 DEF Terminate, RequestTimer, Download
    <2>2. /\ timer[p] = {} /\ upc[p] = "idle"
          /\ \A q \in Instances : ~script[q] /\ (stage[q] \in Live => q = p)
        BY <2>1, ActsAlone
    <2>3. CASE Terminate(p)
        BY <2>2, <2>3 DEF Terminate
    <2>4. CASE RequestTimer(p)
        BY <2>2, <2>4 DEF RequestTimer
    <2>5. CASE Download(p)
        BY <2>2, <2>5 DEF Download, Up
    <2> QED
        BY <1>5, <2>3, <2>4, <2>5
<1>6. ASSUME NEW p \in Instances, RequestStart(p)
      PROVE  (OneServes /\ Quiet /\ ScriptInv)'
    <2>1. MayAct(p) /\ stage[p] = "serve"
        BY <1>6 DEF RequestStart
    <2> QED
        BY <1>6, <2>1, ActsAlone DEF RequestStart, EndAndSpawn, Unborn
<1>7. ASSUME NEW p \in Instances,
             ShutdownWireGuard(p) \/ Kill(p) \/ StopNow(p) \/ RestartNow(p)
      PROVE  (OneServes /\ Quiet /\ ScriptInv)'
    <2>1. \A q \in Instances \ {p} : stage[q] \notin Live
        BY <1>7 DEF ShutdownWireGuard, Kill, StopNow, RestartNow, Alive
    <2>2. Die(p) /\ stage[p] \in Live
        BY <1>7 DEF ShutdownWireGuard, Kill, StopNow, RestartNow, Alive
    <2>3. UNCHANGED script \/ script' = [script EXCEPT ![p] = TRUE]
        BY <1>7 DEF ShutdownWireGuard, Kill, StopNow, RestartNow
    <2>4. \A q \in Instances : ~script[q] /\ stage'[q] \notin Live
        BY <2>1, <2>2 DEF Die
    <2>5. (OneServes /\ Quiet)'
        BY <2>1, <2>2, <2>4 DEF Die, Release
    <2>6. ScriptInv'
        BY <2>3, <2>4
    <2> QED
        BY <2>5, <2>6
<1>8. ASSUME NEW p \in Instances, ScriptStarts(p)
      PROVE  (OneServes /\ Quiet /\ ScriptInv)'
    BY <1>8 DEF ScriptStarts, EndAndSpawn, Unborn
<1>9. ASSUME NEW p \in Instances, UpgradeNow(p)
      PROVE  (OneServes /\ Quiet /\ ScriptInv)'
    <2>1. stage[p] = "serve" /\ \A q \in Instances \ {p} : stage[q] \notin Live
        BY <1>9 DEF UpgradeNow
    <2> QED
        BY <1>9, <2>1 DEF UpgradeNow, EndAndSpawn, Unborn, Release
<1>10. ASSUME NEW p \in Instances, Upgrade(p) \/ UpgradeFails(p)
       PROVE  (OneServes /\ Quiet /\ ScriptInv)'
    <2>1. /\ upc[p] # "idle"
          /\ \A q \in Instances \ {p} : upc'[q] = upc[q] /\ timer'[q] = timer[q]
          /\ timer'[p] = {} \/ upc'[p] = "idle"
          /\ UNCHANGED <<stage, proxy, script>>
        BY <1>10 DEF Upgrade, UpgradeFails, WriteTmp, Verify, Backup, BackupGone,
           RemoveCurrent, Install, Restore, UpgradeDone, Up
    <2> QED
        BY <2>1
<1>11. CASE UNCHANGED vars
    BY <1>11 DEF vars
<1> QED
    BY <1>1, <1>2, <1>3, <1>4, <1>5, <1>6, <1>7, <1>8, <1>9, <1>10, <1>11 DEF Next, Run

LEMMA SoloInit == Init => SoloInv
BY TypeInit DEF Init, SoloInv, OneServes, Quiet, ScriptInv, Live, Booting

\* A process that ends, other than by failing to bind the HTTP port, is the
\* only one; so is one whose upgrade is in progress.
LEMMA EndsAlone ==
    ASSUME SoloInv, "overlap" \notin Faults, NEW p \in Instances,
           \/ ShutdownWireGuard(p) \/ Kill(p) \/ StopNow(p) \/ RestartNow(p)
           \/ UpgradeNow(p) \/ (upc[p] # "idle")
    PROVE  \A q \in Instances \ {p} : stage[q] \notin Live
BY DEF SoloInv, TypeInv, TypeOK, OneServes, Quiet, ShutdownWireGuard, Kill, StopNow,
       RestartNow, UpgradeNow, Alive, Live, Booting

-----------------------------------------------------------------------------
(* Proxies.                                                                *)

LEMMA ProxyStep ==
    ASSUME "overlap" \notin Faults
    PROVE  SoloInv /\ ProxyInv /\ [Next]_vars => ProxyInv'
<1> SUFFICES ASSUME SoloInv, ProxyInv, [Next]_vars PROVE ProxyInv'
    OBVIOUS
<1>0. /\ stage \in [Instances -> Live \cup {"unborn", "dead"}]
      /\ proxy \in [Instances -> [ProxyPorts -> {"none", "pending", "bound", "failed"}]]
      /\ \A p \in Instances : stage[p] \in {"unborn", "dead"} => proxy[p] = NoProxy
    BY DEF SoloInv, TypeInv, TypeOK
<1> USE <1>0 DEF ProxyInv, NoProxy, setup, process, disks
<1>1. CASE OperatorStart
    BY <1>1 DEF OperatorStart, EndAndSpawn, Unborn
<1>2. ASSUME NEW p \in Instances,
             \/ LoadKeys(p) \/ InsertKeys(p) \/ StartWireGuard(p)
             \/ CheckEntry(p) \/ AddEntry(p) \/ CommandFails(p)
      PROVE  ProxyInv'
    <2>1. /\ stage[p] \in Booting \ {"proxies"} /\ stage'[p] \in Booting \ {"proxies"}
          /\ stage' = [stage EXCEPT ![p] = stage'[p]]
          /\ UNCHANGED proxy
        BY <1>2 DEF LoadKeys, InsertKeys, StartWireGuard, CheckEntry, AddEntry,
                    CommandFails, Booting
    <2> QED
        BY <2>1 DEF Booting
<1>3. ASSUME NEW p \in Instances, SpawnProxies(p)
      PROVE  ProxyInv'
    BY <1>3 DEF SpawnProxies
<1>4. ASSUME NEW p \in Instances, NEW k \in ProxyPorts, BindProxy(p, k)
      PROVE  ProxyInv'
    <2>1. /\ UNCHANGED stage /\ proxy[p][k] = "pending"
          /\ proxy' = [proxy EXCEPT ![p][k] = IF ProxyFree(k) THEN "bound" ELSE "failed"]
        BY <1>4 DEF BindProxy
    <2>2. CASE ProxyFree(k)
        BY <2>1, <2>2
    <2>3. CASE ~ProxyFree(k)
        <3>1. PICK q \in Instances : proxy[q][k] = "bound"
            BY <2>3 DEF ProxyFree
        <3>2. q # p /\ stage[p] \in {"proxies", "serve"} /\ stage[q] \in {"proxies", "serve"}
            BY <2>1, <3>1
        <3>3. stage[p] = "proxies" /\ stage[q] = "serve"
            BY <2>1, <3>2 DEF SoloInv, OneServes, Quiet, Live, Booting
        <3> QED
            BY <2>1, <2>3, <3>2, <3>3
    <2> QED
        BY <2>2, <2>3
<1>5. ASSUME NEW p \in Instances, BindHttp(p)
      PROVE  ProxyInv'
    <2>1. CASE HttpFree
        BY <1>5, <2>1 DEF BindHttp, HttpFree
    <2>2. CASE ~HttpFree
        BY <1>5, <2>2 DEF BindHttp, Die, Release
    <2> QED
        BY <2>1, <2>2
<1>6. ASSUME NEW p \in Instances, Terminate(p)
      PROVE  ProxyInv'
    <2>1. \A q \in Instances \ {p} : stage[q] \notin Live
        BY <1>6, ActsAlone DEF Terminate
    <2> QED
        BY <1>6, <2>1 DEF Terminate, Live, Booting
<1>7. ASSUME NEW p \in Instances,
             ShutdownWireGuard(p) \/ Kill(p) \/ StopNow(p) \/ RestartNow(p)
      PROVE  ProxyInv'
    <2>1. \A q \in Instances \ {p} : stage[q] \notin Live
        BY <1>7, EndsAlone
    <2>2. Die(p)
        BY <1>7 DEF ShutdownWireGuard, Kill, StopNow, RestartNow
    <2> QED
        BY <2>1, <2>2 DEF Die, Release, Live, Booting
<1>8. ASSUME NEW p \in Instances, RequestStart(p) \/ ScriptStarts(p)
      PROVE  ProxyInv'
    BY <1>8 DEF RequestStart, ScriptStarts, EndAndSpawn, Unborn
<1>9. ASSUME NEW p \in Instances, UpgradeNow(p)
      PROVE  ProxyInv'
    <2>1. \A q \in Instances \ {p} : stage[q] \notin Live
        BY <1>9, EndsAlone
    <2> QED
        BY <1>9, <2>1 DEF UpgradeNow, EndAndSpawn, Unborn, Release, Live, Booting
<1>10. ASSUME NEW p \in Instances,
              RequestTimer(p) \/ Download(p) \/ Upgrade(p) \/ UpgradeFails(p)
       PROVE  ProxyInv'
    <2>1. UNCHANGED <<stage, proxy>>
        BY <1>10 DEF RequestTimer, Download, Upgrade, UpgradeFails, WriteTmp, Verify,
           Backup, BackupGone, RemoveCurrent, Install, Restore, UpgradeDone
    <2> QED
        BY <2>1
<1>11. CASE UNCHANGED vars
    BY <1>11 DEF vars
<1> QED
    BY <1>1, <1>2, <1>3, <1>4, <1>5, <1>6, <1>7, <1>8, <1>9, <1>10, <1>11 DEF Next, Run

\* A serving worker has its proxies, or they are still about to bind, for every
\* number of processes, crashes and failures, when requests come one at a time.
THEOREM ServingHasProxiesCorrect ==
    ASSUME "overlap" \notin Faults
    PROVE  Spec => []ServingHasProxies
<1>1. Init => ProxyInv
    BY DEF Init, ProxyInv, NoProxy
<1>2. SoloInv /\ ProxyInv => ServingHasProxies
    BY DEF SoloInv, TypeInv, TypeOK, ProxyInv, ServingHasProxies
<1> QED
    BY <1>1, <1>2, SoloInit, SoloStep, ProxyStep, PTL DEF Spec

-----------------------------------------------------------------------------
(* The server key.                                                         *)

LEMMA ServerKeyStep ==
    ASSUME "overlap" \notin Faults
    PROVE  SoloInv /\ ServerKeyInv /\ [Next]_vars => ServerKeyInv'
<1> SUFFICES ASSUME SoloInv, ServerKeyInv, [Next]_vars PROVE ServerKeyInv'
    OBVIOUS
<1>0. /\ stage \in [Instances -> Live \cup {"unborn", "dead"}]
      /\ key \in [Instances -> Instances \cup {NoKey}]
      /\ told \subseteq Instances /\ NoKey \notin Instances
      /\ \A p \in Instances : stage[p] \in Live \ {"boot"} => key[p] # NoKey
    BY NoKeyAssumption DEF SoloInv, TypeInv, TypeOK, StageInv
<1> USE <1>0 DEF ServerKeyInv, Live, Booting, setup, process, disks
<1>1. CASE OperatorStart
    BY <1>1 DEF OperatorStart, EndAndSpawn, Unborn
<1>2. ASSUME NEW p \in Instances, LoadKeys(p)
      PROVE  ServerKeyInv'
    BY <1>2 DEF LoadKeys
<1>3. ASSUME NEW p \in Instances, InsertKeys(p)
      PROVE  ServerKeyInv'
    <2>1. stored = NoKey /\ told = {}
        BY <1>3 DEF InsertKeys
    <2>2. \A q \in Instances \ {p} : stage[q] \notin Live \ {"boot", "insert"}
        BY <2>1
    <2>3. \A q \in Instances \ {p} : stage[q] \notin Live
        BY <1>3, <2>2 DEF InsertKeys, SoloInv, OneServes
    <2> QED
        BY <1>3, <2>1, <2>3 DEF InsertKeys
<1>4. ASSUME NEW p \in Instances, StartWireGuard(p)
      PROVE  ServerKeyInv'
    BY <1>4 DEF StartWireGuard
<1>5. ASSUME NEW p \in Instances,
             CheckEntry(p) \/ AddEntry(p) \/ CommandFails(p) \/ SpawnProxies(p)
      PROVE  ServerKeyInv'
    <2>1. /\ stage[p] \in {"check", "add"} /\ stage'[p] \in {"check", "add", "proxies"}
          /\ stage' = [stage EXCEPT ![p] = stage'[p]]
          /\ UNCHANGED <<iface, stored, key, told>>
        BY <1>5 DEF CheckEntry, AddEntry, CommandFails, SpawnProxies
    <2> QED
        BY <2>1
<1>6. ASSUME NEW p \in Instances, BindHttp(p)
      PROVE  ServerKeyInv'
    <2>1. CASE HttpFree
        BY <1>6, <2>1 DEF BindHttp
    <2>2. CASE ~HttpFree
        BY <1>6, <2>2 DEF BindHttp, Die
    <2> QED
        BY <2>1, <2>2
<1>7. ASSUME NEW p \in Instances,
             Terminate(p) \/ Kill(p) \/ StopNow(p) \/ RestartNow(p)
      PROVE  ServerKeyInv'
    <2>1. /\ stage' = [stage EXCEPT ![p] = stage'[p]]
          /\ stage'[p] = "dead" \/ (stage[p] = "serve" /\ stage'[p] = "drain")
          /\ UNCHANGED <<iface, stored, key, told>>
        BY <1>7 DEF Terminate, Kill, StopNow, RestartNow, Die
    <2> QED
        BY <2>1
<1>8. ASSUME NEW p \in Instances, ShutdownWireGuard(p)
      PROVE  ServerKeyInv'
    <2>1. \A q \in Instances \ {p} : stage[q] \notin Live
        BY <1>8, EndsAlone
    <2> QED
        BY <1>8, <2>1 DEF ShutdownWireGuard, Die
<1>9. ASSUME NEW p \in Instances,
             RequestStart(p) \/ ScriptStarts(p) \/ UpgradeNow(p)
      PROVE  ServerKeyInv'
    BY <1>9 DEF RequestStart, ScriptStarts, UpgradeNow, EndAndSpawn, Unborn
<1>10. ASSUME NEW p \in Instances,
              \/ RequestTimer(p) \/ Download(p) \/ Upgrade(p) \/ UpgradeFails(p)
              \/ \E k \in ProxyPorts : BindProxy(p, k)
       PROVE  ServerKeyInv'
    <2>1. UNCHANGED <<stage, iface, stored, key, told>>
        BY <1>10 DEF RequestTimer, Download, Upgrade, UpgradeFails, WriteTmp, Verify,
           Backup, BackupGone, RemoveCurrent, Install, Restore, UpgradeDone, BindProxy
    <2> QED
        BY <2>1
<1>11. CASE UNCHANGED vars
    BY <1>11 DEF vars
<1> QED
    BY <1>1, <1>2, <1>3, <1>4, <1>5, <1>6, <1>7, <1>8, <1>9, <1>10, <1>11 DEF Next, Run

\* Every configuration ever handed out names the key of the interface while a
\* worker serves, for every number of processes, crashes and failures, when
\* requests come one at a time.
THEOREM ClientsKeepServerKeyCorrect ==
    ASSUME "overlap" \notin Faults
    PROVE  Spec => []ClientsKeepServerKey
<1>1. Init => ServerKeyInv
    BY DEF Init, ServerKeyInv, Live, Booting
<1>2. ServerKeyInv => ClientsKeepServerKey
    BY DEF ServerKeyInv, ClientsKeepServerKey
<1> QED
    BY <1>1, <1>2, SoloInit, SoloStep, ServerKeyStep, PTL DEF Spec

-----------------------------------------------------------------------------
(* Firewall rules and route.                                               *)

LEMMA RouteStep ==
    ASSUME "overlap" \notin Faults
    PROVE  SoloInv /\ RouteInv /\ [Next]_vars => RouteInv'
<1> SUFFICES ASSUME SoloInv, RouteInv, [Next]_vars PROVE RouteInv'
    OBVIOUS
<1>0. /\ stage \in [Instances -> Live \cup {"unborn", "dead"}]
      /\ net \in [Instances -> 1 .. 9]
      /\ clean \in [Instances -> BOOLEAN]
      /\ host \in [EntrySet -> Nat] /\ disk \in Nat
      /\ StageInv
    BY EntriesFact, BoundsAssumption DEF SoloInv, TypeInv, TypeOK
<1> USE <1>0, EntriesFact DEF RouteInv, StageInv, setup, process, disks, Entry
<1>1. CASE OperatorStart
    BY <1>1 DEF OperatorStart, EndAndSpawn, Unborn
<1>2. ASSUME NEW p \in Instances, LoadKeys(p) \/ InsertKeys(p) \/ StartWireGuard(p)
      PROVE  RouteInv'
    <2>1. /\ stage[p] \in {"boot", "insert", "keys"} /\ net[p] = 1
          /\ stage'[p] \in {"insert", "keys", "check"}
          /\ stage' = [stage EXCEPT ![p] = stage'[p]]
          /\ UNCHANGED <<net, clean, host, disk>>
        BY <1>2 DEF LoadKeys, InsertKeys, StartWireGuard
    <2> QED
        BY <2>1
<1>3. ASSUME NEW p \in Instances, CheckEntry(p)
      PROVE  RouteInv'
    <2>1. net[p] \in 1 .. 8 /\ stage[p] = "check" /\ UNCHANGED <<clean, host, disk>>
        BY <1>3 DEF CheckEntry, SetUpDone
    <2>2. CASE host[Entry(p)] > 0
        <3>1. net' = [net EXCEPT ![p] = net[p] + 1] /\ UNCHANGED stage
            BY <1>3, <2>2 DEF CheckEntry
        <3>2. \A n \in 1 .. 8 : n < net[p] + 1 => n < net[p] \/ n = net[p]
            BY <2>1
        <3> QED
            BY <2>1, <2>2, <3>1, <3>2
    <2>3. CASE ~(host[Entry(p)] > 0)
        <3>1. stage' = [stage EXCEPT ![p] = "add"] /\ UNCHANGED net
            BY <1>3, <2>3 DEF CheckEntry
        <3> QED
            BY <2>1, <3>1
    <2> QED
        BY <2>2, <2>3
<1>4. ASSUME NEW p \in Instances, AddEntry(p)
      PROVE  RouteInv'
    <2> DEFINE e == Entries[net[p]]
    <2>1. net[p] \in 1 .. 8 /\ e \in EntrySet /\ UNCHANGED <<clean, disk>>
        BY <1>4 DEF AddEntry
    <2>2. /\ stage[p] = "add" /\ stage' = [stage EXCEPT ![p] = "check"]
          /\ net' = [net EXCEPT ![p] = net[p] + 1]
          /\ host' = [host EXCEPT ![e] = IF e = "route" THEN 1 ELSE host[e] + 1]
        BY <1>4 DEF AddEntry
    <2>3. \A n \in 1 .. 8 : n < net[p] + 1 => n < net[p] \/ n = net[p]
        BY <2>1
    <2>4. host'[e] > 0 /\ \A f \in EntrySet : host[f] > 0 => host'[f] > 0
        BY <2>1, <2>2
    <2> QED
        BY <2>1, <2>2, <2>3, <2>4
<1>5. ASSUME NEW p \in Instances, CommandFails(p)
      PROVE  RouteInv'
    <2>1. clean'[p] = FALSE /\ disk' # 0 /\ UNCHANGED host
          /\ \A q \in Instances \ {p} : clean'[q] = clean[q]
        BY <1>5 DEF CommandFails, DiskFails
    <2>2. \A q \in Instances \ {p} : stage'[q] = stage[q] /\ net'[q] = net[q]
        BY <1>5 DEF CommandFails
    <2> QED
        BY <2>1, <2>2
<1>6. ASSUME NEW p \in Instances, SpawnProxies(p)
      PROVE  RouteInv'
    BY <1>6 DEF SpawnProxies
<1>7. ASSUME NEW p \in Instances, BindHttp(p)
      PROVE  RouteInv'
    BY <1>7 DEF BindHttp, Die
<1>8. ASSUME NEW p \in Instances,
             Terminate(p) \/ Kill(p) \/ StopNow(p) \/ RestartNow(p)
      PROVE  RouteInv'
    <2>1. /\ stage' = [stage EXCEPT ![p] = stage'[p]] /\ stage'[p] \in {"dead", "drain"}
          /\ UNCHANGED <<net, clean, host, disk>>
        BY <1>8 DEF Terminate, Kill, StopNow, RestartNow, Die
    <2> QED
        BY <2>1
<1>9. ASSUME NEW p \in Instances, ShutdownWireGuard(p)
      PROVE  RouteInv'
    <2>1. \A q \in Instances \ {p} : stage[q] \notin Live
        BY <1>9, EndsAlone
    <2> QED
        BY <1>9, <2>1 DEF ShutdownWireGuard, Die, Live, Booting
<1>10. ASSUME NEW p \in Instances,
              RequestStart(p) \/ ScriptStarts(p) \/ UpgradeNow(p)
       PROVE  RouteInv'
    BY <1>10 DEF RequestStart, ScriptStarts, UpgradeNow, EndAndSpawn, Unborn
<1>11. ASSUME NEW p \in Instances,
              \/ RequestTimer(p) \/ Download(p) \/ Upgrade(p) \/ UpgradeFails(p)
              \/ \E k \in ProxyPorts : BindProxy(p, k)
       PROVE  RouteInv'
    <2>1. UNCHANGED <<stage, net, clean, host>> /\ (disk' = 0 => disk = 0)
        BY <1>11 DEF RequestTimer, Download, Upgrade, UpgradeFails, WriteTmp, Verify,
           Backup, BackupGone, RemoveCurrent, Install, Restore, UpgradeDone, BindProxy,
           DiskFails
    <2> QED
        BY <2>1
<1>12. CASE UNCHANGED vars
    BY <1>12 DEF vars
<1> QED
    BY <1>1, <1>2, <1>3, <1>4, <1>5, <1>6, <1>7, <1>8, <1>9, <1>10, <1>11, <1>12
       DEF Next, Run

LEMMA RouteInit == Init => RouteInv
BY EntriesFact DEF Init, RouteInv

\* A worker whose set-up ran without a failing command has all rules and the
\* route, for every number of processes, crashes and failures, when requests
\* come one at a time.
THEOREM ServingIsRoutedCorrect ==
    ASSUME "overlap" \notin Faults
    PROVE  Spec => []ServingIsRouted
<1>1. SoloInv /\ RouteInv => ServingIsRouted
    BY EntriesFact DEF SoloInv, TypeInv, TypeOK, StageInv, RouteInv, ServingIsRouted,
       EntrySet
<1> QED
    BY <1>1, RouteInit, RouteStep, SoloInit, SoloStep, PTL DEF Spec

-----------------------------------------------------------------------------
(* Rules do not pile up, overlapping processes included.                   *)

LEMMA RuleInit == Init => RuleInv
BY EntriesFact DEF Init, RuleInv, FirstSetUp, Live, Booting

LEMMA RuleStep == TypeInv /\ RuleInv /\ [Next]_vars => RuleInv'
<1> SUFFICES ASSUME TypeInv, RuleInv, [Next]_vars, disk' = 0
             PROVE  /\ \A e \in EntrySet : host'[e] <= 1
                    /\ FirstSetUp' \/ RulesThere'
    BY DEF RuleInv
<1>0. /\ stage \in [Instances -> Live \cup {"unborn", "dead"}]
      /\ net \in [Instances -> 1 .. 9]
      /\ host \in [EntrySet -> Nat] /\ disk \in Nat
      /\ timer \in [Instances -> SUBSET {"stop", "restart", "upgrade"}]
      /\ upc \in [Instances -> UpgradeSteps]
      /\ script \in [Instances -> BOOLEAN]
      /\ StageInv
    BY EntriesFact, BoundsAssumption DEF TypeInv, TypeOK
<1>1. disk = 0
    <2>1. ASSUME NEW p \in Instances, UpgradeFails(p) \/ CommandFails(p)
          PROVE  disk = 0
        BY <1>0, <2>1 DEF UpgradeFails, CommandFails, DiskFails
    <2>2. ASSUME NEW p \in Instances, Upgrade(p)
          PROVE  disk' = disk
        BY <2>2 DEF Upgrade, WriteTmp, Verify, Backup, BackupGone, RemoveCurrent, Install,
                    Restore, UpgradeDone
    <2>3. ASSUME NEW p \in Instances, Run(p)
          PROVE  disk' = disk
        BY <2>2, <2>3 DEF Run, LoadKeys, InsertKeys, StartWireGuard, CheckEntry, AddEntry,
           SpawnProxies, BindHttp, BindProxy, ShutdownWireGuard, StopNow, RestartNow,
           UpgradeNow, ScriptStarts
    <2>4. ASSUME NEW p \in Instances,
                 Terminate(p) \/ Kill(p) \/ RequestTimer(p) \/ RequestStart(p)
                 \/ Download(p)
          PROVE  disk' = disk
        BY <2>4 DEF Terminate, Kill, RequestTimer, RequestStart, Download
    <2>5. CASE OperatorStart \/ UNCHANGED vars
        BY <2>5 DEF OperatorStart, vars
    <2> QED
        BY <2>1, <2>3, <2>4, <2>5 DEF Next
<1>2. (\A e \in EntrySet : host[e] <= 1) /\ (FirstSetUp \/ RulesThere)
    BY <1>1 DEF RuleInv
<1> USE <1>0, <1>1, EntriesFact DEF StageInv, setup, process, disks, Entry, Live, Booting
<1>3. ASSUME NEW p \in Instances, CommandFails(p) \/ UpgradeFails(p)
      PROVE  FALSE
    BY <1>3 DEF CommandFails, UpgradeFails, DiskFails
<1>4. ASSUME NEW p \in Instances, CheckEntry(p)
      PROVE  /\ \A e \in EntrySet : host'[e] <= 1
             /\ FirstSetUp' \/ RulesThere'
    <2>1. /\ net[p] \in 1 .. 8 /\ stage[p] = "check" /\ Entry(p) \in EntrySet
          /\ UNCHANGED <<host, timer, script, upc>>
        BY <1>4 DEF CheckEntry, SetUpDone
    <2>2. CASE host[Entry(p)] > 0
        <3>1. net' = [net EXCEPT ![p] = net[p] + 1] /\ UNCHANGED stage
            BY <1>4, <2>2 DEF CheckEntry
        <3>2. \A n \in 1 .. 8 : n < net[p] + 1 => n < net[p] \/ n = net[p]
            BY <2>1
        <3>3. CASE FirstSetUp
            BY <1>2, <2>1, <2>2, <3>1, <3>2, <3>3 DEF FirstSetUp
        <3>4. CASE RulesThere
            BY <1>2, <2>1, <3>1, <3>4 DEF RulesThere
        <3> QED
            BY <1>2, <3>3, <3>4
    <2>3. CASE ~(host[Entry(p)] > 0)
        <3>1. stage' = [stage EXCEPT ![p] = "add"] /\ UNCHANGED net
            BY <1>4, <2>3 DEF CheckEntry
        <3>2. host[Entry(p)] = 0
            BY <2>1, <2>3
        <3>3. CASE FirstSetUp
            BY <1>2, <2>1, <3>1, <3>2, <3>3 DEF FirstSetUp
        <3>4. CASE RulesThere
            <4>1. Entry(p) = "route"
                BY <2>1, <2>3, <3>4 DEF RulesThere
            <4> QED
                BY <1>2, <2>1, <3>1, <3>4, <4>1 DEF RulesThere
        <3> QED
            BY <1>2, <3>3, <3>4
    <2> QED
        BY <2>2, <2>3
<1>5. ASSUME NEW p \in Instances, AddEntry(p)
      PROVE  /\ \A e \in EntrySet : host'[e] <= 1
             /\ FirstSetUp' \/ RulesThere'
    <2> DEFINE e == Entries[net[p]]
    <2>1. /\ net[p] \in 1 .. 8 /\ e \in EntrySet
          /\ UNCHANGED <<timer, script, upc>>
        BY <1>5 DEF AddEntry
    <2>2. /\ stage[p] = "add" /\ stage' = [stage EXCEPT ![p] = "check"]
          /\ net' = [net EXCEPT ![p] = net[p] + 1]
          /\ host' = [host EXCEPT ![e] = IF e = "route" THEN 1 ELSE host[e] + 1]
        BY <1>5 DEF AddEntry
    <2>3. e = "route" \/ host[e] = 0
        BY <1>2, <2>2 DEF FirstSetUp, RulesThere
    <2>4. host'[e] = 1 /\ \A f \in EntrySet \ {e} : host'[f] = host[f]
        BY <2>1, <2>2, <2>3
    <2>5. \A f \in EntrySet : host'[f] <= 1 /\ (host[f] > 0 => host'[f] > 0)
        BY <1>2, <2>4
    <2>6. \A n \in 1 .. 8 : n < net[p] + 1 => n < net[p] \/ n = net[p]
        BY <2>1
    <2>7. CASE FirstSetUp
        <3>1. \A q \in Instances \ {p} : stage[q] \notin Live
            BY <2>2, <2>7 DEF FirstSetUp
        <3>2. \A n \in 1 .. 8 : n < net'[p] => host'[Entries[n]] > 0
            BY <2>1, <2>2, <2>4, <2>5, <2>6, <2>7 DEF FirstSetUp
        <3> QED
            BY <2>1, <2>2, <2>5, <2>7, <3>1, <3>2 DEF FirstSetUp
    <2>8. CASE RulesThere
        BY <2>1, <2>2, <2>5, <2>8 DEF RulesThere
    <2> QED
        BY <1>2, <2>5, <2>7, <2>8
<1>6. ASSUME NEW p \in Instances, SpawnProxies(p)
      PROVE  /\ \A e \in EntrySet : host'[e] <= 1
             /\ FirstSetUp' \/ RulesThere'
    <2>1. /\ stage[p] = "check" /\ net[p] = 9
          /\ stage' = [stage EXCEPT ![p] = "proxies"] /\ UNCHANGED <<net, host>>
        BY <1>6 DEF SpawnProxies, SetUpDone
    <2>2. CASE FirstSetUp
        <3>1. \A n \in 1 .. 8 : host[Entries[n]] > 0
            BY <2>1, <2>2 DEF FirstSetUp
        <3>2. \A e \in EntrySet : host[e] > 0
            BY <3>1 DEF EntrySet
        <3>3. \A q \in Instances : stage'[q] # "add"
            BY <2>1, <2>2 DEF FirstSetUp
        <3> QED
            BY <1>2, <2>1, <3>2, <3>3 DEF RulesThere
    <2>3. CASE RulesThere
        BY <1>2, <2>1, <2>3 DEF RulesThere
    <2> QED
        BY <1>2, <2>2, <2>3
<1>7. ASSUME NEW p \in Instances, ShutdownWireGuard(p)
      PROVE  /\ \A e \in EntrySet : host'[e] <= 1
             /\ FirstSetUp' \/ RulesThere'
    <2>1. /\ stage[p] = "drain" /\ stage' = [stage EXCEPT ![p] = "dead"]
          /\ host' = [host EXCEPT !["route"] = 0] /\ UNCHANGED net
        BY <1>7 DEF ShutdownWireGuard, Die
    <2>2. RulesThere
        BY <1>2, <2>1 DEF FirstSetUp
    <2> QED
        BY <1>2, <2>1, <2>2 DEF RulesThere
\* What is left adds nothing; before the first set-up is complete only the
\* operator, the start itself and a crash go on.
<1>8. ASSUME NEW p \in Instances,
             \/ LoadKeys(p) \/ InsertKeys(p) \/ StartWireGuard(p)
             \/ Kill(p) \/ \E k \in ProxyPorts : BindProxy(p, k)
      PROVE  /\ \A e \in EntrySet : host'[e] <= 1
             /\ FirstSetUp' \/ RulesThere'
    <2>1. /\ stage' = [stage EXCEPT ![p] = stage'[p]]
          /\ \/ stage[p] \in {"boot", "insert", "keys"} /\ net[p] = 1
                /\ stage'[p] \in {"insert", "keys", "check"}
                /\ UNCHANGED <<timer, upc>>
             \/ stage'[p] = "dead"
                /\ timer' = [timer EXCEPT ![p] = {}] /\ upc' = [upc EXCEPT ![p] = "idle"]
             \/ stage'[p] = stage[p] /\ UNCHANGED <<timer, upc>>
          /\ UNCHANGED <<net, host, script>>
        BY <1>8 DEF LoadKeys, InsertKeys, StartWireGuard, Kill, Die, Release, BindProxy
    <2>2. CASE FirstSetUp
        BY <1>2, <2>1, <2>2 DEF FirstSetUp
    <2>3. CASE RulesThere
        BY <1>2, <2>1, <2>3 DEF RulesThere
    <2> QED
        BY <1>2, <2>2, <2>3
<1>9. CASE OperatorStart
    <2>1. /\ \A p \in Instances : stage[p] \notin Live
          /\ UNCHANGED <<net, host, timer, script, upc>>
        BY <1>9 DEF OperatorStart, Alive
    <2>2. PICK q \in Unborn :
            stage' = [p \in Instances |->
                        IF p = q /\ bin \in Complete THEN "boot" ELSE stage[p]]
        BY <1>9 DEF OperatorStart, EndAndSpawn
    <2>3. \A p \in Instances : stage'[p] \in Live => p = q /\ stage'[p] = "boot"
        BY <2>1, <2>2
    <2>4. CASE FirstSetUp
        BY <1>2, <2>1, <2>2, <2>3, <2>4 DEF FirstSetUp
    <2>5. CASE RulesThere
        BY <1>2, <2>1, <2>3, <2>5 DEF RulesThere
    <2> QED
        BY <1>2, <2>4, <2>5
<1>10. ASSUME NEW p \in Instances,
              \/ BindHttp(p) \/ Terminate(p) \/ StopNow(p) \/ RestartNow(p)
              \/ RequestTimer(p) \/ RequestStart(p) \/ ScriptStarts(p)
              \/ UpgradeNow(p) \/ Download(p) \/ Upgrade(p)
       PROVE  /\ \A e \in EntrySet : host'[e] <= 1
              /\ FirstSetUp' \/ RulesThere'
    <2>1. \/ stage[p] \in {"proxies", "serve"} \/ timer[p] # {} \/ script[p]
          \/ upc[p] # "idle"
        BY <1>10 DEF BindHttp, Terminate, StopNow, RestartNow, RequestTimer, RequestStart,
           ScriptStarts, UpgradeNow, Download, Upgrade, WriteTmp, Verify, Backup,
           BackupGone, RemoveCurrent, Install, Restore, UpgradeDone
    <2>2. RulesThere
        BY <1>2, <2>1 DEF FirstSetUp
    <2>3. UNCHANGED <<net, host>>
        BY <1>10 DEF BindHttp, Terminate, StopNow, RestartNow, RequestTimer, RequestStart,
           ScriptStarts, UpgradeNow, Download, Upgrade, WriteTmp, Verify, Backup,
           BackupGone, RemoveCurrent, Install, Restore, UpgradeDone
    <2>4. \A q \in Instances : stage'[q] = "add" => stage[q] = "add"
        BY <1>10 DEF BindHttp, Terminate, StopNow, RestartNow, RequestTimer, RequestStart,
           ScriptStarts, UpgradeNow, Download, Upgrade, WriteTmp, Verify, Backup,
           BackupGone, RemoveCurrent, Install, Restore, UpgradeDone, Die, EndAndSpawn
    <2> QED
        BY <1>2, <2>2, <2>3, <2>4 DEF RulesThere
<1>11. CASE UNCHANGED vars
    BY <1>2, <1>11 DEF vars, FirstSetUp, RulesThere
<1> QED
    BY <1>3, <1>4, <1>5, <1>6, <1>7, <1>8, <1>9, <1>10, <1>11 DEF Next, Run

\* As long as no command fails there is at most one of each rule, however often
\* the worker is started, crashes or is stopped, and however many processes
\* overlap: a process that can start another one has been through its own
\* set-up.
THEOREM RulesOnceCorrect == Spec => []RulesOnce
<1>1. RuleInv => RulesOnce
    BY DEF RuleInv, RulesOnce
<1> QED
    BY <1>1, RuleInit, RuleStep, TypeInit, TypeStep, PTL DEF Spec

-----------------------------------------------------------------------------
(* Upgrades.                                                               *)

LEMMA UpgradeStep ==
    ASSUME "overlap" \notin Faults
    PROVE  SoloInv /\ UpgradeInv /\ [Next]_vars => UpgradeInv'
<1> SUFFICES ASSUME SoloInv, UpgradeInv, [Next]_vars PROVE UpgradeInv'
    OBVIOUS
<1>0. /\ stage \in [Instances -> Live \cup {"unborn", "dead"}]
      /\ upc \in [Instances -> UpgradeSteps]
      /\ \A p \in Instances : upc[p] # "idle" => stage[p] = "serve"
    BY DEF SoloInv, TypeInv, TypeOK, Quiet
<1> USE <1>0 DEF UpgradeInv, BinaryRecoverable, Complete, setup, process, disks
<1>1. CASE OperatorStart
    BY <1>1 DEF OperatorStart, EndAndSpawn, Unborn
<1>2. ASSUME NEW p \in Instances,
             \/ LoadKeys(p) \/ InsertKeys(p) \/ StartWireGuard(p)
             \/ CheckEntry(p) \/ AddEntry(p) \/ SpawnProxies(p) \/ CommandFails(p)
             \/ RequestTimer(p) \/ Download(p) \/ Terminate(p)
             \/ \E k \in ProxyPorts : BindProxy(p, k)
      PROVE  UpgradeInv'
    <2>1. /\ UNCHANGED <<bin, bak, tmp, unlinked>>
          /\ \A q \in Instances : stage'[q] \in Live => stage[q] \in Live
        BY <1>2 DEF LoadKeys, InsertKeys, StartWireGuard, CheckEntry, AddEntry,
           SpawnProxies, CommandFails, RequestTimer, Download, Terminate, BindProxy,
           Live, Booting
    <2>2. \A q \in Instances : upc'[q] = upc[q] \/ upc'[q] = "fetched"
        BY <1>2 DEF LoadKeys, InsertKeys, StartWireGuard, CheckEntry, AddEntry,
           SpawnProxies, CommandFails, RequestTimer, Download, Terminate, BindProxy, Up
    <2> QED
        BY <2>1, <2>2
<1>3. ASSUME NEW p \in Instances,
             \/ BindHttp(p) \/ ShutdownWireGuard(p) \/ Kill(p) \/ StopNow(p)
             \/ RestartNow(p)
      PROVE  UpgradeInv'
    <2>1. /\ UNCHANGED <<bin, bak, tmp, unlinked>>
          /\ \A q \in Instances : stage'[q] \in Live => stage[q] \in Live
          /\ \A q \in Instances : upc'[q] = upc[q] \/ upc'[q] = "idle"
        BY <1>3 DEF BindHttp, ShutdownWireGuard, Kill, StopNow, RestartNow, Die, Release,
           Live, Booting
    <2> QED
        BY <2>1
<1>4. ASSUME NEW p \in Instances,
             RequestStart(p) \/ ScriptStarts(p) \/ UpgradeNow(p)
      PROVE  UpgradeInv'
    <2>1. UNCHANGED <<bin, bak, tmp, unlinked>>
        BY <1>4 DEF RequestStart, ScriptStarts, UpgradeNow
    <2>2. \A q \in Instances : upc'[q] = upc[q] \/ upc'[q] = "idle"
        BY <1>4 DEF RequestStart, ScriptStarts, UpgradeNow, Release
    <2>3. \A q \in Instances : stage'[q] \in Live => stage[q] \in Live \/ bin \in Complete
        BY <1>4 DEF RequestStart, ScriptStarts, UpgradeNow, EndAndSpawn, Live, Booting
    <2> QED
        BY <2>1, <2>2, <2>3
<1>5. ASSUME NEW p \in Instances, Upgrade(p) \/ UpgradeFails(p)
      PROVE  UpgradeInv'
    <2>1. /\ UNCHANGED stage /\ upc[p] # "idle" /\ stage[p] = "serve"
          /\ upc' = [upc EXCEPT ![p] = upc'[p]]
        BY <1>5 DEF Upgrade, UpgradeFails, WriteTmp, Verify, Backup, BackupGone,
           RemoveCurrent, Install, Restore, UpgradeDone, Up
    <2>2. \A q \in Instances \ {p} : stage[q] \notin Live /\ upc[q] = "idle"
        BY <2>1, EndsAlone DEF Live
    <2>3. Alive = {p}
        BY <2>1, <2>2 DEF Alive, Live
    <2> USE <2>1, <2>2 DEF Up
    <2>4. CASE WriteTmp(p) \/ Verify(p)
        BY <2>4 DEF WriteTmp, Verify
    <2>5. CASE Backup(p)
        BY <2>5 DEF Backup, Live
    <2>6. CASE BackupGone(p)
        BY <2>6 DEF BackupGone
    <2>7. CASE RemoveCurrent(p)
        BY <2>3, <2>7 DEF RemoveCurrent
    <2>8. CASE Install(p)
        BY <2>8 DEF Install
    <2>9. CASE Restore(p)
        BY <2>9 DEF Restore
    <2>10. CASE UpgradeDone(p)
        BY <2>10 DEF UpgradeDone
    <2>11. CASE UpgradeFails(p)
        BY <2>3, <2>11 DEF UpgradeFails
    <2> QED
        BY <1>5, <2>4, <2>5, <2>6, <2>7, <2>8, <2>9, <2>10, <2>11 DEF Upgrade
<1>6. CASE UNCHANGED vars
    BY <1>6 DEF vars
<1> QED
    BY <1>1, <1>2, <1>3, <1>4, <1>5, <1>6 DEF Next, Run

\* Whatever fails, however often, and wherever processes die, the installed
\* binary or its backup is complete, for every number of upgrades, crashes and
\* failing operations, when requests come one at a time.
THEOREM BinaryRecoverableCorrect ==
    ASSUME "overlap" \notin Faults
    PROVE  Spec => []BinaryRecoverable
<1>1. Init => UpgradeInv
    BY DEF Init, UpgradeInv, BinaryRecoverable, Complete, Live, Booting
<1>2. UpgradeInv => BinaryRecoverable
    BY DEF UpgradeInv
<1> QED
    BY <1>1, <1>2, SoloInit, SoloStep, UpgradeStep, PTL DEF Spec
=============================================================================
