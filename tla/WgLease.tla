------------------------------ MODULE WgLease ------------------------------
(***************************************************************************)
(* WireGuard leases of the worker: the SQLite table worker_wireguard_      *)
(* configs, the peers map of WireGuardServer, the kernel interface, the    *)
(* lease requests that run concurrently on them (allocation and            *)
(* extension), the clean-up daemon, and the process's crash and restart.   *)
(*                                                                         *)
(* An action is one stretch of code between two awaits, so every           *)
(* interleaving of requests and daemon at an await point is a behaviour.   *)
(* The table is kept by column: rowExp (expires_at, Absent when the row    *)
(* does not exist) and rowKey (the key columns, NoKey when NULL).          *)
(***************************************************************************)
EXTENDS Naturals, FiniteSets

CONSTANTS
    Handlers,    \* requests that may be in flight at the same time
    PeerCount,   \* config.effective_peer_count()
    Keys,        \* key pairs add_peer can generate
    Seconds,     \* values of lease_seconds
    MaxTime,     \* bound of the clock
    Faults,      \* the adversities admitted, a subset of FaultKinds
    Absent, NoKey, NoHandler

FaultKinds == {"crash", "disconnect", "kernel", "db", "slow", "shorten"}

ASSUME PeerCountAssumption == PeerCount \in 1 .. 253
ASSUME SecondsAssumption == Seconds \subseteq Nat \ {0}
ASSUME MaxTimeAssumption == MaxTime \in Nat
ASSUME FaultsAssumption == Faults \subseteq FaultKinds
ASSUME AbsentAssumption == Absent \notin Nat
ASSUME NoKeyAssumption == NoKey \notin Keys
ASSUME NoHandlerAssumption == NoHandler \notin Handlers

VARIABLES
    now,      \* chrono::Utc::now()
    up,       \* the process runs
    rowExp,   \* worker_wireguard_configs.expires_at per id
    rowKey,   \* worker_wireguard_configs.public_key per id
    peers,    \* WireGuardServer.peers: the key of each mapped peer id
    kernel,   \* the key that owns the address of each peer id in the kernel
    lock,     \* holder of the lock "register_wireguard_lease"
    pc,       \* where each request stands
    reqId,    \* peer_id of the request
    reqExp,   \* expires_at, or new_expires_at of an extension
    reqOld,   \* expected_expires_at of an extension
    reqNow,   \* now_ms captured before an UPDATE or a DELETE
    reqKey,   \* the key add_peer generated, or remove_peer took from the map
    dpc,      \* where the daemon's database_cleanup stands
    dCut,     \* now_ms captured at its start
    dIds,     \* what is left of the list expired_peer_ids returned
    dKey,     \* the key remove_peer took from the map
    held      \* every lease a client was told it has: [id, exp, key]

table == <<rowExp, rowKey>>
request == <<pc, reqId, reqExp, reqOld, reqNow, reqKey>>
daemon == <<dpc, dCut, dIds, dKey>>
vars == <<now, up, table, peers, kernel, lock, request, daemon, held>>

PeerIds == 1 .. PeerCount
KeyOrNone == Keys \cup {NoKey}
Lease == [id : PeerIds, exp : Nat, key : Keys]
Locked == {"select", "cleanup", "reselect", "insert"}
Inserted == {"kadd", "mapadd", "store", "rbmap", "rbkernel", "free"}
Allocating == {"lock"} \cup Locked \cup Inserted
PcValues == {"idle", "extend", "getcfg"} \cup Allocating

TypeOK ==
    /\ now \in 0 .. MaxTime
    /\ up \in BOOLEAN
    /\ rowExp \in [PeerIds -> Nat \cup {Absent}]
    /\ rowKey \in [PeerIds -> KeyOrNone]
    /\ peers \in [PeerIds -> KeyOrNone]
    /\ kernel \in [PeerIds -> KeyOrNone]
    /\ lock \in Handlers \cup {NoHandler}
    /\ pc \in [Handlers -> PcValues]
    /\ reqId \in [Handlers -> PeerIds]
    /\ reqExp \in [Handlers -> Nat]
    /\ reqOld \in [Handlers -> Nat]
    /\ reqNow \in [Handlers -> 0 .. MaxTime]
    /\ reqKey \in [Handlers -> KeyOrNone]
    /\ dpc \in {"idle", "query", "loop", "kern"}
    /\ dCut \in 0 .. MaxTime
    /\ dIds \in SUBSET PeerIds
    /\ dKey \in KeyOrNone
    /\ held \in SUBSET Lease

NoPeers == [i \in PeerIds |-> NoKey]

Init ==
    /\ now = 0
    /\ up = TRUE
    /\ rowExp = [i \in PeerIds |-> Absent]
    /\ rowKey = NoPeers
    /\ peers = NoPeers
    /\ kernel = NoPeers
    /\ lock = NoHandler
    /\ pc = [h \in Handlers |-> "idle"]
    /\ reqId = [h \in Handlers |-> 1]
    /\ reqExp = [h \in Handlers |-> 0]
    /\ reqOld = [h \in Handlers |-> 0]
    /\ reqNow = [h \in Handlers |-> 0]
    /\ reqKey = [h \in Handlers |-> NoKey]
    /\ dpc = "idle"
    /\ dCut = 0
    /\ dIds = {}
    /\ dKey = NoKey
    /\ held = {}

-----------------------------------------------------------------------------
(* Helpers: the table, the kernel, the end of a request.                   *)

HasRow(i) == rowExp[i] # Absent
Expired(i, cut) == HasRow(i) /\ rowExp[i] < cut
FreeIds == {i \in PeerIds : ~HasRow(i)}
\* Mutant: the search runs one id too far.
FirstFree_OffByOne == (CHOOSE i \in FreeIds : \A j \in FreeIds : i <= j) + 1

FirstFree == CHOOSE i \in FreeIds : \A j \in FreeIds : i <= j

\* DELETE FROM worker_wireguard_configs WHERE id IN S
DeleteRows(S) ==
    /\ rowExp' = [i \in PeerIds |-> IF i \in S THEN Absent ELSE rowExp[i]]
    /\ rowKey' = [i \in PeerIds |-> IF i \in S THEN NoKey ELSE rowKey[i]]

\* The last octet of a peer's and of the server's address, as u8.  Peers have
\* addresses of their own (WgLeaseProofs!PeerIpsDistinct), so that kernel can
\* name an address by its peer id.
PeerIp(base, i) == (base + i + 1) % 256
ServerIp(base) == (base + 1) % 256

\* The kernel gives an address to the last peer configured with it.
ConfigurePeer(i, k) == kernel' = [kernel EXCEPT ![i] = k]
RemoveKernelPeer(k) ==
    kernel' = [i \in PeerIds |-> IF kernel[i] = k THEN NoKey ELSE kernel[i]]

\* A key that no component remembers stands for a newly generated one.
KnownKeys ==
    {rowKey[i] : i \in PeerIds} \cup {peers[i] : i \in PeerIds}
        \cup {kernel[i] : i \in PeerIds} \cup {reqKey[h] : h \in Handlers}
        \cup {g.key : g \in held} \cup {dKey}
FreshKeys == Keys \ KnownKeys

\* The request ends; its local variables go out of scope.
Finish(h) ==
    /\ pc' = [pc EXCEPT ![h] = "idle"]
    /\ reqId' = [reqId EXCEPT ![h] = 1]
    /\ reqExp' = [reqExp EXCEPT ![h] = 0]
    /\ reqOld' = [reqOld EXCEPT ![h] = 0]
    /\ reqNow' = [reqNow EXCEPT ![h] = 0]
    /\ reqKey' = [reqKey EXCEPT ![h] = NoKey]

Goto(h, l) == pc' = [pc EXCEPT ![h] = l]

-----------------------------------------------------------------------------
(* A new lease: allocate_wireguard, allocate_peer, register_wireguard_lease *)

\* expires_at is computed before the lock is asked for.  The guard on the
\* keys bounds the number of allocations.
AllocStart(h) ==
    /\ up /\ pc[h] = "idle"
    /\ Cardinality(FreshKeys) >
         Cardinality({x \in Handlers : pc[x] \in {"lock", "kadd"} \cup Locked})
    /\ \E s \in Seconds : reqExp' = [reqExp EXCEPT ![h] = now + s]
    /\ Goto(h, "lock")
    /\ UNCHANGED <<now, up, table, peers, kernel, lock, reqId, reqOld, reqNow,
                   reqKey, daemon, held>>

\* Mutant: the closure runs without waiting for the lock.
LockAcquire_NoWait(h) ==
    /\ pc[h] = "lock"
    /\ lock' = h
    /\ Goto(h, "select")
    /\ UNCHANGED <<now, up, table, peers, kernel, reqId, reqExp, reqOld, reqNow,
                   reqKey, daemon, held>>

LockAcquire(h) ==
    /\ pc[h] = "lock" /\ lock = NoHandler
    /\ lock' = h
    /\ Goto(h, "select")
    /\ UNCHANGED <<now, up, table, peers, kernel, reqId, reqExp, reqOld, reqNow,
                   reqKey, daemon, held>>

\* 60 s without the lock: the request fails.
LockTimeout(h) ==
    /\ pc[h] = "lock" /\ lock # NoHandler
    /\ Finish(h)
    /\ UNCHANGED <<now, up, table, peers, kernel, lock, daemon, held>>

\* try_allocate's SELECT finds the least free id.
SelectFree(h) ==
    /\ pc[h] \in {"select", "reselect"}
    /\ FreeIds # {}
    /\ reqId' = [reqId EXCEPT ![h] = FirstFree]
    /\ Goto(h, "insert")
    /\ UNCHANGED <<now, up, table, peers, kernel, lock, reqExp, reqOld, reqNow,
                   reqKey, daemon, held>>

\* No free id: clean up, with now_ms captured here, and try again.
SelectNone(h) ==
    /\ pc[h] = "select"
    /\ FreeIds = {}
    /\ reqNow' = [reqNow EXCEPT ![h] = now]
    /\ Goto(h, "cleanup")
    /\ UNCHANGED <<now, up, table, peers, kernel, lock, reqId, reqExp, reqOld,
                   reqKey, daemon, held>>

\* Mutant: clean up and try again until a slot is free.
SelectExhausted_Loops(h) ==
    /\ pc[h] = "reselect"
    /\ FreeIds = {}
    /\ Goto(h, "cleanup")
    /\ UNCHANGED <<now, up, table, peers, kernel, lock, reqId, reqExp, reqOld,
                   reqNow, reqKey, daemon, held>>

\* Still no free id: LeaseUnavailable, and the lock is dropped.
SelectExhausted(h) ==
    /\ pc[h] = "reselect"
    /\ FreeIds = {}
    /\ lock' = NoHandler
    /\ Finish(h)
    /\ UNCHANGED <<now, up, table, peers, kernel, daemon, held>>

\* cleanup_expired_wireguard_configs: rows only, the kernel is not told.
CleanupExpired(h) ==
    /\ pc[h] = "cleanup"
    /\ DeleteRows({i \in PeerIds : Expired(i, reqNow[h])})
    /\ Goto(h, "reselect")
    /\ UNCHANGED <<now, up, peers, kernel, lock, reqId, reqExp, reqOld, reqNow,
                   reqKey, daemon, held>>

\* INSERT ... ON CONFLICT (id) DO UPDATE SET expires_at: a row that exists
\* would keep its keys.  The lock is dropped when the INSERT returns.
InsertLease(h) ==
    /\ pc[h] = "insert"
    /\ rowExp' = [rowExp EXCEPT ![reqId[h]] = reqExp[h]]
    /\ lock' = NoHandler
    /\ Goto(h, "kadd")
    /\ UNCHANGED <<now, up, rowKey, peers, kernel, reqId, reqExp, reqOld, reqNow,
                   reqKey, daemon, held>>

\* A query under the lock fails: the error is returned, the lock dropped.
LockedQueryFails(h) ==
    /\ "db" \in Faults
    /\ pc[h] \in Locked
    /\ lock' = NoHandler
    /\ Finish(h)
    /\ UNCHANGED <<now, up, table, peers, kernel, daemon, held>>

\* add_peer, first half: generate keys, configure the kernel peer.
AddKernelPeer(h) ==
    /\ pc[h] = "kadd"
    /\ \E k \in FreshKeys :
         /\ ConfigurePeer(reqId[h], k)
         /\ reqKey' = [reqKey EXCEPT ![h] = k]
    /\ Goto(h, "mapadd")
    /\ UNCHANGED <<now, up, table, peers, lock, reqId, reqExp, reqOld, reqNow,
                   daemon, held>>

\* configure_peer fails: roll the table back.
AddKernelPeerFails(h) ==
    /\ "kernel" \in Faults
    /\ pc[h] = "kadd"
    /\ Goto(h, "free")
    /\ UNCHANGED <<now, up, table, peers, kernel, lock, reqId, reqExp, reqOld,
                   reqNow, reqKey, daemon, held>>

\* add_peer, second half: peers.insert.
AddMapPeer(h) ==
    /\ pc[h] = "mapadd"
    /\ peers' = [peers EXCEPT ![reqId[h]] = reqKey[h]]
    /\ Goto(h, "store")
    /\ UNCHANGED <<now, up, table, kernel, lock, reqId, reqExp, reqOld, reqNow,
                   reqKey, daemon, held>>

\* Mutant: the lease is returned without its keys being saved.
StorePeerKeys_NotSaved(h) ==
    /\ pc[h] = "store"
    /\ held' = held \cup
         {[id |-> reqId[h], exp |-> reqExp[h], key |-> reqKey[h]]}
    /\ Finish(h)
    /\ UNCHANGED <<now, up, table, peers, kernel, lock, daemon>>

\* UPDATE ... WHERE id: no row is no error.  The lease goes to the client.
StorePeerKeys(h) ==
    /\ pc[h] = "store"
    /\ rowKey' = [rowKey EXCEPT ![reqId[h]] =
                    IF HasRow(reqId[h]) THEN reqKey[h] ELSE @]
    /\ held' = held \cup
         {[id |-> reqId[h], exp |-> reqExp[h], key |-> reqKey[h]]}
    /\ Finish(h)
    /\ UNCHANGED <<now, up, rowExp, peers, kernel, lock, daemon>>

\* The UPDATE fails: undo everything, errors ignored.
StorePeerKeysFails(h) ==
    /\ "db" \in Faults
    /\ pc[h] = "store"
    /\ Goto(h, "rbmap")
    /\ UNCHANGED <<now, up, table, peers, kernel, lock, reqId, reqExp, reqOld,
                   reqNow, reqKey, daemon, held>>

\* remove_peer takes the entry out of the map first ...
RollbackMap(h) ==
    /\ pc[h] = "rbmap"
    /\ peers' = [peers EXCEPT ![reqId[h]] = NoKey]
    /\ reqKey' = [reqKey EXCEPT ![h] = peers[reqId[h]]]
    /\ Goto(h, IF peers[reqId[h]] = NoKey THEN "free" ELSE "rbkernel")
    /\ UNCHANGED <<now, up, table, kernel, lock, reqId, reqExp, reqOld, reqNow,
                   daemon, held>>

\* ... then its key out of the kernel.
RollbackKernel(h) ==
    /\ pc[h] = "rbkernel"
    /\ \/ RemoveKernelPeer(reqKey[h])
       \/ "kernel" \in Faults /\ UNCHANGED kernel
    /\ Goto(h, "free")
    /\ UNCHANGED <<now, up, table, peers, lock, reqId, reqExp, reqOld, reqNow,
                   reqKey, daemon, held>>

\* Mutant: the rollback deletes by id alone.
MarkConfigAsFree_NoGuard(h) ==
    /\ pc[h] = "free"
    /\ DeleteRows({reqId[h]})
    /\ Finish(h)
    /\ UNCHANGED <<now, up, peers, kernel, lock, daemon, held>>

\* mark_config_as_free(id, Some(expires_at))
MarkConfigAsFree(h) ==
    /\ pc[h] = "free"
    /\ \/ DeleteRows({i \in {reqId[h]} : rowExp[i] = reqExp[h]})
       \/ "db" \in Faults /\ UNCHANGED table
    /\ Finish(h)
    /\ UNCHANGED <<now, up, peers, kernel, lock, daemon, held>>

-----------------------------------------------------------------------------
(* Extension: the extend branch of get_worker_config.                      *)

\* new_expires_at and now_ms are computed before the UPDATE is awaited.  A
\* client extends a lease it was given; unless "shorten" is admitted it does
\* not ask for an earlier expiry than the one it has.
ExtendStart(h) ==
    /\ up /\ pc[h] = "idle"
    /\ \E g \in held, s \in Seconds :
         /\ "shorten" \in Faults \/ g.exp <= now + s
         /\ reqId' = [reqId EXCEPT ![h] = g.id]
         /\ reqOld' = [reqOld EXCEPT ![h] = g.exp]
         /\ reqExp' = [reqExp EXCEPT ![h] = now + s]
    /\ reqNow' = [reqNow EXCEPT ![h] = now]
    /\ Goto(h, "extend")
    /\ UNCHANGED <<now, up, table, peers, kernel, lock, reqKey, daemon, held>>

\* Mutant: the UPDATE does not compare the expiry with the client's.
Extensible_AnyExpiry(h) ==
    /\ HasRow(reqId[h])
    /\ reqOld[h] > reqNow[h]

Extensible(h) ==
    /\ rowExp[reqId[h]] = reqOld[h]
    /\ reqOld[h] > reqNow[h]

ExtendLease(h) ==
    /\ pc[h] = "extend"
    /\ Extensible(h)
    /\ rowExp' = [rowExp EXCEPT ![reqId[h]] = reqExp[h]]
    /\ Goto(h, "getcfg")
    /\ UNCHANGED <<now, up, rowKey, peers, kernel, lock, reqId, reqExp, reqOld,
                   reqNow, reqKey, daemon, held>>

\* No row was affected, or the query failed.
ExtendRefused(h) ==
    /\ pc[h] = "extend"
    /\ ~Extensible(h) \/ "db" \in Faults
    /\ Finish(h)
    /\ UNCHANGED <<now, up, table, peers, kernel, lock, daemon, held>>

\* get_client_config: an error when the map has no such peer, although the
\* row is already extended.
GetClientConfig(h) ==
    /\ pc[h] = "getcfg"
    /\ held' = IF peers[reqId[h]] = NoKey THEN held
               ELSE held \cup {[id |-> reqId[h], exp |-> reqExp[h],
                                key |-> peers[reqId[h]]]}
    /\ Finish(h)
    /\ UNCHANGED <<now, up, table, peers, kernel, lock, daemon>>

\* The client goes away: the server drops the request's future at an await,
\* and with it the lock guard.
Disconnect(h) ==
    /\ "disconnect" \in Faults
    /\ pc[h] # "idle"
    /\ lock' = IF lock = h THEN NoHandler ELSE lock
    /\ Finish(h)
    /\ UNCHANGED <<now, up, table, peers, kernel, daemon, held>>

Request(h) ==
    \/ LockAcquire(h) \/ LockTimeout(h)
    \/ SelectFree(h) \/ SelectNone(h) \/ SelectExhausted(h)
    \/ CleanupExpired(h) \/ InsertLease(h) \/ LockedQueryFails(h)
    \/ AddKernelPeer(h) \/ AddKernelPeerFails(h) \/ AddMapPeer(h)
    \/ StorePeerKeys(h) \/ StorePeerKeysFails(h)
    \/ RollbackMap(h) \/ RollbackKernel(h) \/ MarkConfigAsFree(h)
    \/ ExtendLease(h) \/ ExtendRefused(h) \/ GetClientConfig(h)

-----------------------------------------------------------------------------
(* The daemon: database_cleanup.                                           *)

\* now_ms is captured at the start; the timestamps table comes first.
DaemonStart ==
    /\ up /\ dpc = "idle"
    /\ dCut' = now
    /\ dpc' = "query"
    /\ UNCHANGED <<now, up, table, peers, kernel, lock, request, dIds, dKey, held>>

\* expired_peer_ids, with a later now_ms.  On an error the list is skipped.
DaemonQuery ==
    /\ dpc = "query"
    /\ \/ dIds' = {i \in PeerIds : Expired(i, now)}
       \/ "db" \in Faults /\ dIds' = {}
    /\ dpc' = "loop"
    /\ UNCHANGED <<now, up, table, peers, kernel, lock, request, dCut, dKey, held>>

\* remove_peer of the next id in the list: the map entry goes first ...
DaemonRemoveMap ==
    /\ dpc = "loop"
    /\ \E i \in dIds :
         /\ dIds' = dIds \ {i}
         /\ peers' = [peers EXCEPT ![i] = NoKey]
         /\ dKey' = peers[i]
         /\ dpc' = IF peers[i] = NoKey THEN "loop" ELSE "kern"
    /\ UNCHANGED <<now, up, table, kernel, lock, request, dCut, held>>

\* ... then the key it held; an error is only logged.
DaemonRemoveKernel ==
    /\ dpc = "kern"
    /\ \/ RemoveKernelPeer(dKey)
       \/ "kernel" \in Faults /\ UNCHANGED kernel
    /\ dKey' = NoKey
    /\ dpc' = "loop"
    /\ UNCHANGED <<now, up, table, peers, lock, request, dCut, dIds, held>>

\* Mutants: the DELETE takes a new now_ms; or spares rows without keys.
DaemonDelete_LateCut ==
    /\ dpc = "loop" /\ dIds = {}
    /\ DeleteRows({i \in PeerIds : Expired(i, now)})
    /\ dpc' = "idle"
    /\ dCut' = 0
    /\ UNCHANGED <<now, up, peers, kernel, lock, request, dIds, dKey, held>>

DaemonDelete_KeyedOnly ==
    /\ dpc = "loop" /\ dIds = {}
    /\ DeleteRows({i \in PeerIds : Expired(i, dCut) /\ rowKey[i] # NoKey})
    /\ dpc' = "idle"
    /\ dCut' = 0
    /\ UNCHANGED <<now, up, peers, kernel, lock, request, dIds, dKey, held>>

\* cleanup_table with the first now_ms; the cycle ends.
DaemonDelete ==
    /\ dpc = "loop" /\ dIds = {}
    /\ \/ DeleteRows({i \in PeerIds : Expired(i, dCut)})
       \/ "db" \in Faults /\ UNCHANGED table
    /\ dpc' = "idle"
    /\ dCut' = 0
    /\ UNCHANGED <<now, up, peers, kernel, lock, request, dIds, dKey, held>>

Daemon ==
    DaemonQuery \/ DaemonRemoveMap \/ DaemonRemoveKernel \/ DaemonDelete

-----------------------------------------------------------------------------
(* The process: crash, graceful shutdown, start with restore_peers.        *)

\* Everything in memory is lost.
LoseMemory ==
    /\ up' = FALSE
    /\ peers' = NoPeers
    /\ lock' = NoHandler
    /\ pc' = [h \in Handlers |-> "idle"]
    /\ reqId' = [h \in Handlers |-> 1]
    /\ reqExp' = [h \in Handlers |-> 0]
    /\ reqOld' = [h \in Handlers |-> 0]
    /\ reqNow' = [h \in Handlers |-> 0]
    /\ reqKey' = [h \in Handlers |-> NoKey]
    /\ dpc' = "idle"
    /\ dCut' = 0
    /\ dIds' = {}
    /\ dKey' = NoKey

\* The process dies, or exits through /api/stop: the interface stays.
Crash ==
    /\ "crash" \in Faults
    /\ up
    /\ LoseMemory
    /\ UNCHANGED <<now, table, kernel, held>>

\* SIGTERM: requests are drained, the interface is removed.
Shutdown ==
    /\ "crash" \in Faults
    /\ up /\ \A h \in Handlers : pc[h] = "idle"
    /\ LoseMemory
    /\ kernel' = NoPeers
    /\ UNCHANGED <<now, table, held>>

\* Mutant: expired rows are restored too.
Restorable_NoExpiry == {i \in PeerIds : HasRow(i) /\ rowKey[i] # NoKey}

Restorable == {i \in PeerIds : HasRow(i) /\ rowExp[i] > now /\ rowKey[i] # NoKey}

\* start() replaces the interface's peers by none, restore_peers adds those of
\* unexpired rows that have keys; a peer the kernel refuses is skipped.
Boot ==
    /\ ~up
    /\ up' = TRUE
    /\ \E failed \in IF "kernel" \in Faults THEN SUBSET Restorable ELSE {{}} :
         LET restored == [i \in PeerIds |->
                            IF i \in Restorable \ failed THEN rowKey[i] ELSE NoKey]
         IN  kernel' = restored /\ peers' = restored
    /\ UNCHANGED <<now, table, lock, request, daemon, held>>

\* Time passes.  Unless "slow" is admitted a request does not outlive the
\* lease it is allocating.
Tick ==
    /\ now < MaxTime
    /\ "slow" \in Faults
         \/ \A h \in Handlers : pc[h] \in Allocating => now < reqExp[h]
    /\ now' = now + 1
    /\ UNCHANGED <<up, table, peers, kernel, lock, request, daemon, held>>

Next ==
    \/ \E h \in Handlers :
         AllocStart(h) \/ ExtendStart(h) \/ Request(h) \/ Disconnect(h)
    \/ DaemonStart \/ Daemon
    \/ Crash \/ Shutdown \/ Boot
    \/ Tick

Spec == Init /\ [][Next]_vars

\* Requests in progress are polled, the daemon's ticker fires and its cycle
\* goes on.  Nothing is assumed of clients, of time or of faults.
FairSpec ==
    /\ Spec
    /\ \A h \in Handlers : WF_vars(Request(h))
    /\ WF_vars(DaemonStart \/ Daemon)

-----------------------------------------------------------------------------
(* Properties                                                              *)

\* The ON CONFLICT branch of try_allocate's INSERT never fires: between its
\* SELECT and its INSERT nobody takes the id, whatever requests, daemon,
\* disconnects and restarts do (wireguard.rs:59-108, under the named lock).
InsertOnFreeSlot ==
    \A h \in Handlers : pc[h] = "insert" => ~HasRow(reqId[h])

\* A lease a client was given keeps its row, with an expiry no earlier than
\* the one promised, until it has expired: neither clean-up, nor another
\* request's rollback, nor a concurrent extension takes the slot away
\* (wireguard.rs:111-214, peer_manager.rs:29-55, cleanup.rs:47).
LeaseKeepsSlot ==
    \A g \in held : g.exp >= now => HasRow(g.id) /\ rowExp[g.id] >= g.exp

\* Two unexpired leases of one peer id, hence of one address, are the same
\* allocation: they carry the same key (wireguard.rs:66-98, server.rs:637).
NoSharedSlot ==
    \A f, g \in held :
        f.id = g.id /\ f.exp >= now /\ g.exp >= now => f.key = g.key

\* What a restart needs is in the table: the row of every unexpired lease has
\* the key its client was given (peer_manager.rs:38-55).
LeaseRestorable ==
    \A g \in held : g.exp >= now => rowKey[g.id] = g.key

\* After a restart the kernel and the map serve every unexpired lease with the
\* client's key, and nothing else is served (server.rs:464-514).
RestartServesLeases ==
    [][~up /\ up' =>
        /\ \A g \in held : g.exp > now =>
             kernel'[g.id] = g.key /\ peers'[g.id] = g.key
        /\ \A i \in PeerIds : kernel'[i] # NoKey => ~Expired(i, now)]_vars

\* database_cleanup deletes a row only when the row's peer is gone from the
\* kernel (cleanup.rs:11): no unrecorded peer is left behind by the daemon.
DaemonRemovesBeforeDelete ==
    [][\A i \in PeerIds :
        DaemonDelete /\ HasRow(i) /\ rowExp'[i] = Absent /\ rowKey[i] # NoKey
            => kernel[i] # rowKey[i]]_vars

\* The daemon takes only expired peers out of the kernel (cleanup.rs:24): a
\* lease that has not expired stays served.
DaemonRemovesOnlyExpired ==
    [][DaemonRemoveKernel =>
        \A g \in held : g.exp >= now => kernel'[g.id] = kernel[g.id]]_vars

\* An expired peer does not stay in the kernel (README, background tasks:
\* "防止过期连接继续使用", expired connections must not go on).
ServedAfterExpiry(i) ==
    /\ kernel[i] \in {g.key : g \in held}
    /\ \A g \in held : g.key = kernel[i] => g.exp < now
ExpiredPeersLeaveKernel ==
    \A i \in PeerIds : ServedAfterExpiry(i) ~> ~ServedAfterExpiry(i)

\* Every request is answered: no waiting for the lock is endless and no
\* holder keeps it (locks.rs:32-54).
RequestsFinish == \A h \in Handlers : pc[h] # "idle" ~> pc[h] = "idle"

\* The row of an expired lease is deleted, or extended, even if no request
\* ever comes (main.rs:551-567, cleanup.rs:47-48).
ExpiredRowsFreed ==
    \A i \in PeerIds : Expired(i, now) ~> ~Expired(i, now)

\* WireGuard leases as a lease table: a row is a lease, and an allocation is
\* pending from its INSERT until its keys are stored or its lease has expired.
Pending == {reqId[h] : h \in {x \in Handlers :
                                 pc[x] \in Inserted /\ reqExp[x] >= now}}
Table == INSTANCE LeaseTable WITH
    Slots <- PeerIds, Free <- Absent, now <- now, tab <- rowExp,
    pending <- Pending

\* Whatever requests, rollbacks, daemon, disconnects and restarts do to the
\* table, it is a lease table: only free ids are taken, only expired leases
\* are reclaimed, a rollback undoes its own allocation and no other, and a
\* completed lease only gets longer (wireguard.rs:59-214, cleanup.rs:47).
ImplementsLeaseTable == Table!Spec
=============================================================================
