--------------------------- MODULE WgLeaseProofs ---------------------------
(***************************************************************************)
(* Proofs about WgLease, for every number of requests, slots and keys and  *)
(* every clock bound: type correctness; that a lease keeps its slot until  *)
(* it has expired; that an INSERT never hits a row; that the module        *)
(* implements LeaseTable; that the table has what a restart needs and no   *)
(* two clients share a slot; that a restart serves the unexpired leases;   *)
(* that the daemon deletes no row whose peer is still in the kernel; and   *)
(* that peers have addresses of their own.                                 *)
(***************************************************************************)
EXTENDS WgLease, WellFoundedInduction, TLAPS

\* A non-empty set of naturals has a least element.
LEMMA LeastNatural ==
    ASSUME NEW S, S \subseteq Nat, S # {}
    PROVE  \E i \in S : \A j \in S : i <= j
<1>1. PICK i \in S : \A j \in S : <<j, i>> \notin OpToRel(<, Nat)
    BY NatLessThanWellFounded, WFMin, Zenon
<1>2. ASSUME NEW j \in S
      PROVE  i <= j
    <2>1. i \in Nat /\ j \in Nat
        BY <1>2
    <2>2. j < i => <<j, i>> \in OpToRel(<, Nat)
        BY <2>1 DEF OpToRel
    <2>3. ~(j < i)
        BY <1>1, <2>2, Zenon
    <2> QED
        BY <2>1, <2>3
<1> QED
    BY <1>2

\* try_allocate's SELECT returns an id of the range, and one without a row.
LEMMA FirstFreeIsFree ==
    ASSUME FreeIds # {}
    PROVE  FirstFree \in PeerIds /\ ~HasRow(FirstFree)
<1>1. FreeIds \subseteq Nat
    BY PeerCountAssumption DEF FreeIds, PeerIds
<1>2. \E i \in FreeIds : \A j \in FreeIds : i <= j
    BY <1>1, LeastNatural
<1>3. FirstFree \in FreeIds
    BY <1>2 DEF FirstFree
<1> QED
    BY <1>3 DEF FreeIds

LEMMA TypeInit == Init => TypeOK
BY PeerCountAssumption, MaxTimeAssumption
   DEF Init, TypeOK, NoPeers, PeerIds, KeyOrNone, PcValues, Lease

\* The types of a request's variables, and of the daemon's.
RequestTypes ==
    /\ pc \in [Handlers -> PcValues]
    /\ reqId \in [Handlers -> PeerIds]
    /\ reqExp \in [Handlers -> Nat]
    /\ reqOld \in [Handlers -> Nat]
    /\ reqNow \in [Handlers -> 0 .. MaxTime]
    /\ reqKey \in [Handlers -> KeyOrNone]

\* A key was generated, or taken from the map, where one is about to be used.
KeyGenerated ==
    \A h \in Handlers :
        pc[h] \in {"mapadd", "store", "rbkernel"} => reqKey[h] # NoKey

LEMMA FinishTypes ==
    ASSUME RequestTypes, NEW h \in Handlers, Finish(h)
    PROVE  RequestTypes'
BY PeerCountAssumption, MaxTimeAssumption
   DEF RequestTypes, Finish, PcValues, PeerIds, KeyOrNone

LEMMA LoseMemoryTypes ==
    ASSUME LoseMemory
    PROVE  /\ RequestTypes'
           /\ dpc' \in {"idle", "query", "loop", "kern"} /\ dCut' \in 0 .. MaxTime
           /\ dIds' \in SUBSET PeerIds /\ dKey' \in KeyOrNone
           /\ up' \in BOOLEAN /\ lock' \in Handlers \cup {NoHandler}
           /\ peers' \in [PeerIds -> KeyOrNone]
<1> USE PeerCountAssumption, MaxTimeAssumption DEF LoseMemory
<1>1. RequestTypes'
    BY DEF RequestTypes, PcValues, PeerIds, KeyOrNone
<1>2. dIds' \in SUBSET PeerIds /\ dKey' \in KeyOrNone
      /\ peers' \in [PeerIds -> KeyOrNone]
    BY DEF KeyOrNone, NoPeers
<1>3. up' \in BOOLEAN /\ lock' \in Handlers \cup {NoHandler} /\ dpc' = "idle"
      /\ dCut' = 0
    OBVIOUS
<1> QED
    BY <1>1, <1>2, <1>3

\* A step of a request keeps the types.
LEMMA TypeRequest ==
    ASSUME TypeOK, KeyGenerated, NEW h \in Handlers,
           AllocStart(h) \/ ExtendStart(h) \/ Request(h) \/ Disconnect(h)
    PROVE  TypeOK'
<1> USE PeerCountAssumption, SecondsAssumption DEF TypeOK, table, daemon, Goto
<1> RequestTypes
    BY DEF RequestTypes
<1>1. CASE AllocStart(h)
    BY <1>1 DEF AllocStart, PcValues, Allocating, Locked, Inserted
<1>2. CASE LockAcquire(h)
    BY <1>2 DEF LockAcquire, PcValues, Allocating, Locked, Inserted
<1>3. CASE LockTimeout(h)
    BY <1>3, FinishTypes DEF LockTimeout, RequestTypes
<1>4. CASE SelectFree(h)
    BY <1>4, FirstFreeIsFree DEF SelectFree, PcValues, Allocating, Locked, Inserted
<1>5. CASE SelectNone(h)
    BY <1>5 DEF SelectNone, PcValues, Allocating, Locked, Inserted
<1>6. CASE SelectExhausted(h)
    BY <1>6, FinishTypes DEF SelectExhausted, RequestTypes
<1>7. CASE CleanupExpired(h)
    BY <1>7 DEF CleanupExpired, PcValues, Allocating, Locked, Inserted, DeleteRows, KeyOrNone
<1>8. CASE InsertLease(h)
    BY <1>8 DEF InsertLease, PcValues, Allocating, Locked, Inserted
<1>9. CASE LockedQueryFails(h)
    BY <1>9, FinishTypes DEF LockedQueryFails, RequestTypes
<1>10. CASE AddKernelPeer(h)
    BY <1>10 DEF AddKernelPeer, PcValues, Allocating, Locked, Inserted, ConfigurePeer, FreshKeys, KeyOrNone
<1>11. CASE AddKernelPeerFails(h)
    BY <1>11 DEF AddKernelPeerFails, PcValues, Allocating, Locked, Inserted
<1>12. CASE AddMapPeer(h)
    BY <1>12 DEF AddMapPeer, PcValues, Allocating, Locked, Inserted
<1>13. CASE StorePeerKeys(h)
    <2>1. held' \in SUBSET Lease
        BY <1>13 DEF StorePeerKeys, Lease, KeyGenerated, KeyOrNone
    <2>2. rowKey' \in [PeerIds -> KeyOrNone]
        BY <1>13 DEF StorePeerKeys
    <2> QED
        BY <1>13, <2>1, <2>2, FinishTypes DEF StorePeerKeys, RequestTypes
<1>14. CASE StorePeerKeysFails(h)
    BY <1>14 DEF StorePeerKeysFails, PcValues, Allocating, Locked, Inserted
<1>15. CASE RollbackMap(h)
    BY <1>15 DEF RollbackMap, PcValues, Allocating, Locked, Inserted, KeyOrNone
<1>16. CASE RollbackKernel(h)
    BY <1>16 DEF RollbackKernel, PcValues, Allocating, Locked, Inserted, RemoveKernelPeer, KeyOrNone
<1>17. CASE MarkConfigAsFree(h)
    BY <1>17, FinishTypes DEF MarkConfigAsFree, RequestTypes, DeleteRows, KeyOrNone
<1>18. CASE ExtendStart(h)
    <2>1. PICK g \in held, t \in Seconds :
            /\ reqId' = [reqId EXCEPT ![h] = g.id]
            /\ reqOld' = [reqOld EXCEPT ![h] = g.exp]
            /\ reqExp' = [reqExp EXCEPT ![h] = now + t]
        BY <1>18 DEF ExtendStart
    <2>2. g.id \in PeerIds /\ g.exp \in Nat /\ now + t \in Nat
        BY MaxTimeAssumption DEF Lease
    <2> QED
        BY <1>18, <2>1, <2>2 DEF ExtendStart, PcValues
<1>19. CASE ExtendLease(h)
    BY <1>19 DEF ExtendLease, PcValues, Allocating, Locked, Inserted
<1>20. CASE ExtendRefused(h)
    BY <1>20, FinishTypes DEF ExtendRefused, RequestTypes
<1>21. CASE GetClientConfig(h)
    <2>1. held' \in SUBSET Lease
        BY <1>21 DEF GetClientConfig, Lease, KeyOrNone
    <2> QED
        BY <1>21, <2>1, FinishTypes DEF GetClientConfig, RequestTypes
<1>22. CASE Disconnect(h)
    BY <1>22, FinishTypes DEF Disconnect, RequestTypes
<1> QED
    BY <1>1, <1>2, <1>3, <1>4, <1>5, <1>6, <1>7, <1>8, <1>9, <1>10, <1>11,
       <1>12, <1>13, <1>14, <1>15, <1>16, <1>17, <1>18, <1>19, <1>20, <1>21, <1>22 DEF Request

\* So does a step of the daemon, of the process or of the clock.
LEMMA TypeOther ==
    ASSUME TypeOK, DaemonStart \/ Daemon \/ Crash \/ Shutdown \/ Boot \/ Tick
    PROVE  TypeOK'
<1> USE PeerCountAssumption, MaxTimeAssumption DEF TypeOK, table, request, daemon
<1>1. CASE DaemonStart
    BY <1>1 DEF DaemonStart
<1>2. CASE DaemonQuery
    BY <1>2 DEF DaemonQuery
<1>3. CASE DaemonRemoveMap
    BY <1>3 DEF DaemonRemoveMap, KeyOrNone
<1>4. CASE DaemonRemoveKernel
    BY <1>4 DEF DaemonRemoveKernel, RemoveKernelPeer, KeyOrNone
<1>5. CASE DaemonDelete
    BY <1>5 DEF DaemonDelete, DeleteRows, KeyOrNone
<1>6. CASE Crash
    BY <1>6, LoseMemoryTypes DEF Crash, RequestTypes
<1>7. CASE Shutdown
    BY <1>7, LoseMemoryTypes DEF Shutdown, RequestTypes, NoPeers, KeyOrNone
<1>8. CASE Boot
    BY <1>8 DEF Boot, Restorable, KeyOrNone
<1>9. CASE Tick
    BY <1>9 DEF Tick
<1> QED
    BY <1>1, <1>2, <1>3, <1>4, <1>5, <1>6, <1>7, <1>8, <1>9 DEF Daemon

\* From add_peer to store_peer_keys a request has a key.
LEMMA KeyStep ==
    ASSUME TypeOK, KeyGenerated, [Next]_vars
    PROVE  KeyGenerated'
<1> USE DEF TypeOK, KeyGenerated, Goto, Finish, FreshKeys
<1>1. ASSUME NEW h \in Handlers,
             AllocStart(h) \/ ExtendStart(h) \/ Request(h) \/ Disconnect(h)
      PROVE  KeyGenerated'
    <2>1. CASE AddKernelPeer(h)
        BY <2>1, NoKeyAssumption DEF AddKernelPeer
    <2>2. CASE AddMapPeer(h)
        BY <2>2 DEF AddMapPeer
    <2>3. CASE RollbackMap(h)
        BY <2>3 DEF RollbackMap
    <2>4. CASE ~(AddKernelPeer(h) \/ AddMapPeer(h) \/ RollbackMap(h))
        BY <1>1, <2>4
           DEF Request, AllocStart, LockAcquire, LockTimeout, SelectFree,
               SelectNone, SelectExhausted, CleanupExpired, InsertLease,
               LockedQueryFails, AddKernelPeerFails, StorePeerKeys,
               StorePeerKeysFails, RollbackKernel, MarkConfigAsFree,
               ExtendStart, ExtendLease, ExtendRefused, GetClientConfig,
               Disconnect
    <2> QED
        BY <2>1, <2>2, <2>3, <2>4
<1>2. CASE Crash \/ Shutdown
    BY <1>2 DEF Crash, Shutdown, LoseMemory
<1>3. CASE UNCHANGED request
    BY <1>3 DEF request
<1>4. DaemonStart \/ Daemon \/ Boot \/ Tick \/ UNCHANGED vars => UNCHANGED request
    BY DEF DaemonStart, Daemon, DaemonQuery, DaemonRemoveMap, DaemonRemoveKernel,
           DaemonDelete, Boot, Tick, vars
<1> QED
    BY <1>1, <1>2, <1>3, <1>4 DEF Next

LEMMA TypeStep == TypeOK /\ KeyGenerated /\ [Next]_vars => (TypeOK /\ KeyGenerated)'
<1> SUFFICES ASSUME TypeOK, KeyGenerated, [Next]_vars
             PROVE  (TypeOK /\ KeyGenerated)'
    OBVIOUS
<1>1. CASE Next
    BY <1>1, TypeRequest, TypeOther, KeyStep DEF Next
<1>2. CASE UNCHANGED vars
    BY <1>2, KeyStep DEF vars, table, request, daemon, TypeOK
<1> QED
    BY <1>1, <1>2

\* Every variable keeps its type: the ids handed out lie in
\* 1 .. effective_peer_count(), and no lease is returned without a key.
THEOREM TypeCorrect == Spec => []TypeOK
<1>1. Init => TypeOK /\ KeyGenerated
    BY TypeInit DEF Init, KeyGenerated
<1> QED
    BY <1>1, TypeStep, PTL DEF Spec

-----------------------------------------------------------------------------
(* LeaseKeepsSlot.  The inductive invariant says who may own a slot: an    *)
(* unexpired lease in a client's hands, one being allocated, or one being  *)
(* extended, and that these do not overlap.                                *)

\* h has inserted its row and the lease has not expired.
InFlight(h) == pc[h] \in Inserted /\ reqExp[h] >= now

LockInv == \A h \in Handlers : pc[h] \in Locked => lock = h

ClockInv == dCut <= now /\ \A h \in Handlers : reqNow[h] <= now

\* The row of an allocation in flight is the one it inserted.
FlightInv ==
    \A h \in Handlers : InFlight(h) => rowExp[reqId[h]] = reqExp[h]

\* Its slot is nobody else's.
FlightAlone ==
    \A h, x \in Handlers :
        InFlight(h) /\ InFlight(x) /\ reqId[h] = reqId[x] => h = x
FlightNotHeld ==
    \A h \in Handlers, g \in held :
        InFlight(h) /\ g.id = reqId[h] => g.exp < now

\* An extension is of a lease some client holds, and does not shorten it.
ExtendInv ==
    \A h \in Handlers : pc[h] = "extend" =>
        /\ reqOld[h] <= reqExp[h]
        /\ \E g \in held : g.id = reqId[h] /\ g.exp = reqOld[h]

\* An extension committed but not yet answered keeps its row, and its slot is
\* not being allocated.
ExtendedInv ==
    \A h \in Handlers : pc[h] = "getcfg" /\ reqExp[h] >= now =>
        /\ HasRow(reqId[h]) /\ rowExp[reqId[h]] >= reqExp[h]
        /\ \A x \in Handlers : InFlight(x) => reqId[x] # reqId[h]

SlotInv ==
    /\ TypeOK /\ KeyGenerated
    /\ LockInv /\ InsertOnFreeSlot /\ ClockInv
    /\ FlightInv /\ FlightAlone /\ FlightNotHeld
    /\ ExtendInv /\ ExtendedInv
    /\ LeaseKeepsSlot

\* A step of a request keeps the invariant.
LEMMA SlotRequest ==
    ASSUME SlotInv, TypeOK', KeyGenerated', "shorten" \notin Faults,
           NEW h \in Handlers,
           AllocStart(h) \/ ExtendStart(h) \/ Request(h) \/ Disconnect(h)
    PROVE  SlotInv'
<1> USE AbsentAssumption, NoHandlerAssumption
    DEF SlotInv, TypeOK, LockInv, InsertOnFreeSlot, ClockInv, FlightInv,
        FlightAlone, FlightNotHeld, ExtendInv, ExtendedInv, LeaseKeepsSlot,
        InFlight, HasRow, Inserted, Locked, table, daemon
<1>1. CASE AllocStart(h)
    BY <1>1 DEF AllocStart, Goto
<1>2. CASE LockAcquire(h)
    BY <1>2 DEF LockAcquire, Goto
<1>3. CASE LockTimeout(h)
    BY <1>3 DEF LockTimeout, Finish
<1>4. CASE SelectFree(h)
    BY <1>4, FirstFreeIsFree DEF SelectFree, Goto
<1>5. CASE SelectNone(h)
    BY <1>5 DEF SelectNone, Goto
<1>6. CASE SelectExhausted(h)
    BY <1>6 DEF SelectExhausted, Finish
<1>7. CASE CleanupExpired(h)
    BY <1>7 DEF CleanupExpired, Goto, DeleteRows, Expired, Lease
<1>8. CASE InsertLease(h)
    BY <1>8 DEF InsertLease, Goto, Lease
<1>9. CASE LockedQueryFails(h)
    BY <1>9 DEF LockedQueryFails, Finish
<1>10. CASE AddKernelPeer(h)
    BY <1>10 DEF AddKernelPeer, Goto
<1>11. CASE AddKernelPeerFails(h)
    BY <1>11 DEF AddKernelPeerFails, Goto
<1>12. CASE AddMapPeer(h)
    BY <1>12 DEF AddMapPeer, Goto
<1>13. CASE StorePeerKeys(h)
    BY <1>13 DEF StorePeerKeys, Finish, Lease
<1>14. CASE StorePeerKeysFails(h)
    BY <1>14 DEF StorePeerKeysFails, Goto
<1>15. CASE RollbackMap(h)
    BY <1>15 DEF RollbackMap, Goto
<1>16. CASE RollbackKernel(h)
    BY <1>16 DEF RollbackKernel, Goto
<1>17. CASE MarkConfigAsFree(h)
    BY <1>17 DEF MarkConfigAsFree, Finish, DeleteRows, Lease
<1>18. CASE ExtendStart(h)
    BY <1>18 DEF ExtendStart, Goto, Lease
<1>19. CASE ExtendLease(h)
    BY <1>19 DEF ExtendLease, Goto, Extensible, Lease
<1>20. CASE ExtendRefused(h)
    BY <1>20 DEF ExtendRefused, Finish
<1>21. CASE GetClientConfig(h)
    BY <1>21 DEF GetClientConfig, Finish, Lease
<1>22. CASE Disconnect(h)
    BY <1>22 DEF Disconnect, Finish
<1> QED
    BY <1>1, <1>2, <1>3, <1>4, <1>5, <1>6, <1>7, <1>8, <1>9, <1>10, <1>11,
       <1>12, <1>13, <1>14, <1>15, <1>16, <1>17, <1>18, <1>19, <1>20, <1>21, <1>22 DEF Request

\* So does a step of the daemon, of the process or of the clock.
LEMMA SlotOther ==
    ASSUME SlotInv, TypeOK', KeyGenerated',
           DaemonStart \/ Daemon \/ Crash \/ Shutdown \/ Boot \/ Tick
    PROVE  SlotInv'
<1> USE AbsentAssumption
    DEF SlotInv, TypeOK, LockInv, InsertOnFreeSlot, ClockInv, FlightInv,
        FlightAlone, FlightNotHeld, ExtendInv, ExtendedInv, LeaseKeepsSlot,
        InFlight, HasRow, Inserted, Locked, table, request, daemon
<1>1. CASE DaemonStart
    BY <1>1 DEF DaemonStart
<1>2. CASE DaemonQuery
    BY <1>2 DEF DaemonQuery
<1>3. CASE DaemonRemoveMap
    BY <1>3 DEF DaemonRemoveMap
<1>4. CASE DaemonRemoveKernel
    BY <1>4 DEF DaemonRemoveKernel
<1>5. CASE DaemonDelete
    BY <1>5 DEF DaemonDelete, DeleteRows, Expired, Lease
<1>6. CASE Crash
    BY <1>6 DEF Crash, LoseMemory
<1>7. CASE Shutdown
    BY <1>7 DEF Shutdown, LoseMemory
<1>8. CASE Boot
    BY <1>8 DEF Boot
<1>9. CASE Tick
    BY <1>9 DEF Tick, Lease
<1> QED
    BY <1>1, <1>2, <1>3, <1>4, <1>5, <1>6, <1>7, <1>8, <1>9 DEF Daemon

LEMMA SlotInit == Init => SlotInv
<1> SUFFICES ASSUME Init PROVE SlotInv
    OBVIOUS
<1>1. TypeOK
    BY TypeInit
<1> QED
    BY <1>1
       DEF Init, SlotInv, KeyGenerated, LockInv, InsertOnFreeSlot, ClockInv,
           FlightInv, FlightAlone, FlightNotHeld, ExtendInv, ExtendedInv,
           LeaseKeepsSlot, InFlight, Inserted, Locked

LEMMA SlotStep ==
    ASSUME "shorten" \notin Faults
    PROVE  SlotInv /\ [Next]_vars => SlotInv'
<1> SUFFICES ASSUME SlotInv, [Next]_vars PROVE SlotInv'
    OBVIOUS
<1>1. TypeOK' /\ KeyGenerated'
    BY TypeStep DEF SlotInv
<1>2. CASE Next
    BY <1>1, <1>2, SlotRequest, SlotOther DEF Next
<1>3. CASE UNCHANGED vars
    BY <1>1, <1>3
       DEF vars, table, request, daemon, SlotInv, LockInv, InsertOnFreeSlot,
           ClockInv, FlightInv, FlightAlone, FlightNotHeld, ExtendInv,
           ExtendedInv, LeaseKeepsSlot, InFlight, HasRow
<1> QED
    BY <1>2, <1>3

\* Whatever crashes, disconnects, failing queries, failing kernel calls and
\* delays happen, a client's lease keeps its slot until it has expired,
\* provided clients do not ask for an extension that shortens the lease.
THEOREM LeaseKeepsSlotCorrect ==
    ASSUME "shorten" \notin Faults
    PROVE  Spec => []LeaseKeepsSlot
<1>1. SlotInv => LeaseKeepsSlot
    BY DEF SlotInv
<1> QED
    BY <1>1, SlotInit, SlotStep, PTL DEF Spec

\* Only the holder of the lock is between try_allocate's SELECT and its
\* INSERT, and the id it selected stays free.
LockedInv == TypeOK /\ KeyGenerated /\ LockInv /\ InsertOnFreeSlot

LEMMA LockedStep == LockedInv /\ [Next]_vars => LockedInv'
<1> SUFFICES ASSUME LockedInv, [Next]_vars PROVE LockedInv'
    OBVIOUS
<1> USE AbsentAssumption, NoHandlerAssumption
    DEF LockedInv, TypeOK, LockInv, InsertOnFreeSlot, HasRow, Locked, Inserted
<1>1. TypeOK' /\ KeyGenerated'
    BY TypeStep
<1>2. ASSUME NEW h \in Handlers,
             AllocStart(h) \/ ExtendStart(h) \/ Request(h) \/ Disconnect(h)
      PROVE  LockInv' /\ InsertOnFreeSlot'
    <2> USE DEF Goto, Finish, table, daemon
    <2>1. CASE LockAcquire(h) \/ LockTimeout(h) \/ SelectNone(h) \/ SelectExhausted(h)
        BY <2>1 DEF LockAcquire, LockTimeout, SelectNone, SelectExhausted
    <2>2. CASE SelectFree(h)
        BY <2>2, FirstFreeIsFree DEF SelectFree
    <2>3. CASE CleanupExpired(h) \/ InsertLease(h) \/ LockedQueryFails(h)
        BY <2>3 DEF CleanupExpired, DeleteRows, InsertLease, LockedQueryFails
    <2>4. CASE AddKernelPeer(h) \/ AddKernelPeerFails(h) \/ AddMapPeer(h)
               \/ StorePeerKeys(h) \/ StorePeerKeysFails(h)
        BY <2>4 DEF AddKernelPeer, AddKernelPeerFails, AddMapPeer, StorePeerKeys,
                    StorePeerKeysFails
    <2>5. CASE RollbackMap(h) \/ RollbackKernel(h) \/ MarkConfigAsFree(h)
        BY <2>5 DEF RollbackMap, RollbackKernel, MarkConfigAsFree, DeleteRows
    <2>6. CASE AllocStart(h) \/ ExtendStart(h) \/ ExtendLease(h) \/ ExtendRefused(h)
               \/ GetClientConfig(h) \/ Disconnect(h)
        BY <2>6 DEF AllocStart, ExtendStart, ExtendLease, Extensible,
                    ExtendRefused, GetClientConfig, Disconnect
    <2> QED
        BY <1>2, <2>1, <2>2, <2>3, <2>4, <2>5, <2>6 DEF Request
<1>3. CASE DaemonStart \/ Daemon
    BY <1>1, <1>3 DEF DaemonStart, Daemon, DaemonQuery, DaemonRemoveMap,
                DaemonRemoveKernel, DaemonDelete, DeleteRows, table, request
<1>4. CASE Crash \/ Shutdown
    BY <1>1, <1>4 DEF Crash, Shutdown, LoseMemory
<1>5. CASE Boot \/ Tick \/ UNCHANGED vars
    BY <1>1, <1>5 DEF Boot, Tick, vars, table, request
<1> QED
    BY <1>1, <1>2, <1>3, <1>4, <1>5 DEF Next

\* An id is inserted only while it has no row, under every fault: the upsert
\* of try_allocate never overwrites a lease.
THEOREM InsertOnFreeSlotCorrect == Spec => []InsertOnFreeSlot
<1>1. Init => LockedInv
    BY TypeInit
       DEF Init, LockedInv, KeyGenerated, LockInv, InsertOnFreeSlot, Locked
<1>2. LockedInv => InsertOnFreeSlot
    BY DEF LockedInv
<1> QED
    BY <1>1, <1>2, LockedStep, PTL DEF Spec

-----------------------------------------------------------------------------
(* The table implements LeaseTable.  SlotInv says what the refinement needs: *)
(* a slot whose allocation may be undone has the row its allocation made,  *)
(* and nobody holds or extends it.                                         *)

\* A step that changes neither clock nor expiries, and puts no new allocation
\* in flight, settles allocations at most.
LEMMA SettleStep ==
    ASSUME UNCHANGED <<now, rowExp>>,
           \A x \in Handlers : InFlight(x)' => InFlight(x) /\ reqId'[x] = reqId[x]
    PROVE  Table!Settle
BY DEF Table!Settle, Pending, InFlight

\* Rows that a clean-up deletes had expired, so no pending slot is among them.
LEMMA ReclaimStep ==
    ASSUME SlotInv, UNCHANGED now, Pending' = Pending,
           NEW cut \in Nat, cut <= now,
           DeleteRows({i \in PeerIds : Expired(i, cut)})
    PROVE  Table!Next
<1> DEFINE S == {i \in PeerIds : rowExp[i] # Absent /\ rowExp'[i] = Absent}
<1> USE AbsentAssumption, MaxTimeAssumption DEF SlotInv, TypeOK
<1>1. S = {i \in PeerIds : Expired(i, cut)}
    BY DEF DeleteRows, Expired, HasRow
<1>2. \A i \in S : rowExp[i] # Absent /\ rowExp[i] <= now
    BY <1>1 DEF Expired, HasRow
<1>3. rowExp' = [i \in PeerIds |-> IF i \in S THEN Absent ELSE rowExp[i]]
    BY <1>1 DEF DeleteRows
<1>4. \A i \in S : i \notin Pending
    BY <1>1 DEF Expired, HasRow, Pending, FlightInv, InFlight
<1>5. Table!Reclaim(S)
    BY <1>2, <1>3, <1>4 DEF Table!Reclaim
<1> QED
    BY <1>5 DEF Table!Next

LEMMA TableRequest ==
    ASSUME SlotInv, NEW h \in Handlers,
           AllocStart(h) \/ ExtendStart(h) \/ Request(h) \/ Disconnect(h)
    PROVE  Table!Next
<1> USE AbsentAssumption, MaxTimeAssumption DEF SlotInv, TypeOK
<1>1. CASE InsertLease(h)
    <2>1. rowExp[reqId[h]] = Absent /\ rowExp' = [rowExp EXCEPT ![reqId[h]] = reqExp[h]]
        BY <1>1 DEF InsertLease, InsertOnFreeSlot, HasRow
    <2>2. rowExp'[reqId[h]] \in Nat \ {Absent} /\ now' = now
          /\ rowExp' = [rowExp EXCEPT ![reqId[h]] = rowExp'[reqId[h]]]
        BY <1>1, <2>1 DEF InsertLease
    <2>3. Pending' \in {Pending, Pending \cup {reqId[h]}}
        <3>1. \A x \in Handlers \ {h} : pc'[x] = pc[x]
            BY <1>1 DEF InsertLease, Goto
        <3>2. pc[h] = "insert" /\ pc'[h] = "kadd"
              /\ reqId' = reqId /\ reqExp' = reqExp
            BY <1>1 DEF InsertLease, Goto
        <3>3. CASE reqExp[h] >= now
            BY <2>2, <3>1, <3>2, <3>3 DEF Pending, Inserted
        <3>4. CASE ~(reqExp[h] >= now)
            BY <2>2, <3>1, <3>2, <3>4 DEF Pending, Inserted
        <3> QED
            BY <3>3, <3>4
    <2> QED
        BY <2>1, <2>2, <2>3 DEF Table!Next, Table!Take
<1>2. CASE CleanupExpired(h)
    <2>1. UNCHANGED now /\ DeleteRows({i \in PeerIds : Expired(i, reqNow[h])})
        BY <1>2 DEF CleanupExpired
    <2>2. reqNow[h] \in Nat /\ reqNow[h] <= now
        BY DEF ClockInv
    <2>3. Pending' = Pending
        BY <1>2 DEF CleanupExpired, Goto, Pending, Inserted
    <2> QED
        BY <2>1, <2>2, <2>3, ReclaimStep
<1>3. CASE MarkConfigAsFree(h)
    <2> DEFINE i == reqId[h]
    <2>1. /\ now' = now
          /\ \A x \in Handlers \ {h} : pc'[x] = pc[x] /\ reqId'[x] = reqId[x]
                                       /\ reqExp'[x] = reqExp[x]
          /\ pc[h] = "free" /\ pc'[h] = "idle"
        BY <1>3 DEF MarkConfigAsFree, Finish
    <2>2. CASE UNCHANGED rowExp
        <3>1. \A x \in Handlers : InFlight(x)' => InFlight(x) /\ reqId'[x] = reqId[x]
            BY <2>1 DEF InFlight, Inserted
        <3> QED
            BY <2>1, <2>2, <3>1, SettleStep DEF Table!Next
    <2>3. CASE rowExp[i] = reqExp[h] /\ rowExp' = [rowExp EXCEPT ![i] = Absent]
        <3>1. CASE InFlight(h)
            <4>1. i \in Pending
                BY <3>1 DEF Pending, InFlight
            <4>2. Pending' = Pending \ {i}
                BY <2>1, <3>1 DEF Pending, InFlight, FlightAlone, Inserted
            <4> QED
                BY <2>1, <2>3, <4>1, <4>2 DEF Table!Next, Table!Abort
        <3>2. CASE ~InFlight(h)
            <4>1. rowExp[i] \in Nat /\ rowExp[i] <= now
                BY <2>1, <2>3, <3>2 DEF InFlight, Inserted
            <4>2. i \notin Pending
                BY <2>1, <2>3, <3>2 DEF Pending, InFlight, FlightInv, Inserted
            <4>3. Pending' = Pending
                BY <2>1, <3>2 DEF Pending, InFlight, Inserted
            <4>4. {j \in PeerIds : rowExp[j] # Absent /\ rowExp'[j] = Absent} = {i}
                BY <2>3, <4>1
            <4>5. Table!Reclaim({i})
                BY <2>1, <2>3, <4>1, <4>2, <4>3 DEF Table!Reclaim
            <4> QED
                BY <4>4, <4>5 DEF Table!Next
        <3> QED
            BY <3>1, <3>2
    <2>4. \/ UNCHANGED rowExp
          \/ rowExp[i] = reqExp[h] /\ rowExp' = [rowExp EXCEPT ![i] = Absent]
        <3> DEFINE S == {j \in {i} : rowExp[j] = reqExp[h]}
        <3>1. CASE rowExp' = [j \in PeerIds |-> IF j \in S THEN Absent ELSE rowExp[j]]
            <4>1. CASE rowExp[i] = reqExp[h]
                <5>1. S = {i}
                    BY <4>1
                <5> QED
                    BY <3>1, <4>1, <5>1
            <4>2. CASE rowExp[i] # reqExp[h]
                <5>1. rowExp' \in [PeerIds -> Nat \cup {Absent}]
                    BY <3>1
                <5>2. \A j \in PeerIds : rowExp'[j] = rowExp[j]
                    BY <3>1, <4>2
                <5> QED
                    BY <5>1, <5>2
            <4> QED
                BY <4>1, <4>2
        <3>2. UNCHANGED rowExp
              \/ rowExp' = [j \in PeerIds |-> IF j \in S THEN Absent ELSE rowExp[j]]
            <4>1. CASE DeleteRows(S)
                BY <4>1 DEF DeleteRows
            <4>2. CASE UNCHANGED table
                BY <4>2 DEF table
            <4>3. DeleteRows(S) \/ UNCHANGED table
                BY <1>3, Zenon DEF MarkConfigAsFree
            <4> QED
                BY <4>1, <4>2, <4>3
        <3> QED
            BY <3>1, <3>2
    <2> QED
        BY <2>2, <2>3, <2>4
<1>4. CASE ExtendLease(h)
    <2>1. /\ rowExp[reqId[h]] = reqOld[h]
          /\ rowExp' = [rowExp EXCEPT ![reqId[h]] = rowExp'[reqId[h]]]
          /\ rowExp'[reqId[h]] = reqExp[h] /\ now' = now
        BY <1>4 DEF ExtendLease, Extensible
    <2>2. reqOld[h] <= reqExp[h]
          /\ \E g \in held : g.id = reqId[h] /\ g.exp = reqOld[h]
        BY <1>4 DEF ExtendLease, ExtendInv
    <2>3. reqId[h] \notin Pending
        BY <2>1, <2>2 DEF Pending, InFlight, FlightInv, FlightNotHeld
    <2>4. Pending' = Pending
        BY <1>4 DEF ExtendLease, Goto, Pending, Inserted
    <2> QED
        BY <2>1, <2>2, <2>3, <2>4 DEF Table!Next, Table!Extend
<1>5. CASE ~(InsertLease(h) \/ CleanupExpired(h) \/ MarkConfigAsFree(h) \/ ExtendLease(h))
    <2>1. UNCHANGED <<now, rowExp>>
        BY <1>5 DEF Request, AllocStart, LockAcquire, LockTimeout, SelectFree,
               SelectNone, SelectExhausted, LockedQueryFails, AddKernelPeer,
               AddKernelPeerFails, AddMapPeer, StorePeerKeys, StorePeerKeysFails,
               RollbackMap, RollbackKernel, ExtendStart, ExtendRefused,
               GetClientConfig, Disconnect, table
    <2>2. \A x \in Handlers : InFlight(x)' => InFlight(x) /\ reqId'[x] = reqId[x]
        BY <1>5 DEF InFlight, Inserted, Goto, Finish, Request, AllocStart,
               LockAcquire, LockTimeout, SelectFree, SelectNone, SelectExhausted,
               LockedQueryFails, AddKernelPeer, AddKernelPeerFails, AddMapPeer,
               StorePeerKeys, StorePeerKeysFails, RollbackMap, RollbackKernel,
               ExtendStart, ExtendRefused, GetClientConfig, Disconnect
    <2> QED
        BY <2>1, <2>2, SettleStep DEF Table!Next
<1> QED
    BY <1>1, <1>2, <1>3, <1>4, <1>5

LEMMA TableOther ==
    ASSUME SlotInv, DaemonStart \/ Daemon \/ Crash \/ Shutdown \/ Boot \/ Tick
    PROVE  [Table!Next]_(Table!vars)
<1> USE AbsentAssumption, MaxTimeAssumption DEF SlotInv, TypeOK
<1>1. CASE DaemonDelete
    <2>1. UNCHANGED now /\ UNCHANGED request
        BY <1>1 DEF DaemonDelete
    <2>2. Pending' = Pending
        BY <2>1 DEF Pending, request
    <2>3. CASE UNCHANGED table
        BY <2>1, <2>2, <2>3 DEF table, Table!vars
    <2>4. CASE DeleteRows({i \in PeerIds : Expired(i, dCut)})
        BY <2>1, <2>2, <2>4, ReclaimStep DEF ClockInv
    <2> QED
        BY <1>1, <2>3, <2>4 DEF DaemonDelete
<1>2. CASE Tick
    <2>1. now' = now + 1 /\ UNCHANGED <<rowExp, request>>
        BY <1>2 DEF Tick, table
    <2>2. \A x \in Handlers : InFlight(x)' => InFlight(x) /\ reqId'[x] = reqId[x]
        BY <2>1 DEF InFlight, request
    <2>3. Pending' \in SUBSET Pending
        BY <2>2 DEF Pending, InFlight
    <2> QED
        BY <2>1, <2>3 DEF Table!Next, Table!Tick
<1>3. CASE Crash \/ Shutdown
    <2>1. UNCHANGED <<now, rowExp>> /\ \A x \in Handlers : ~InFlight(x)'
        BY <1>3 DEF Crash, Shutdown, LoseMemory, table, InFlight, Inserted
    <2> QED
        BY <2>1, SettleStep DEF Table!Next
<1>4. CASE DaemonStart \/ DaemonQuery \/ DaemonRemoveMap \/ DaemonRemoveKernel \/ Boot
    <2>1. UNCHANGED <<now, rowExp, request>>
        BY <1>4 DEF DaemonStart, DaemonQuery, DaemonRemoveMap, DaemonRemoveKernel,
                    Boot, table
    <2> QED
        BY <2>1 DEF Table!vars, Pending, request
<1> QED
    BY <1>1, <1>2, <1>3, <1>4 DEF Daemon

\* Every step on the WireGuard rows is a step of the abstract lease table, for
\* every instance and under every fault but extensions that shorten a lease.
THEOREM ImplementsLeaseTableCorrect ==
    ASSUME "shorten" \notin Faults
    PROVE  Spec => ImplementsLeaseTable
<1>1. Init => Table!Init
    BY DEF Init, Table!Init, Pending, Inserted
<1>2. SlotInv /\ [Next]_vars => [Table!Next]_(Table!vars)
    <2> SUFFICES ASSUME SlotInv, [Next]_vars PROVE [Table!Next]_(Table!vars)
        OBVIOUS
    <2>1. CASE Next
        BY <2>1, TableRequest, TableOther DEF Next
    <2>2. CASE UNCHANGED vars
        BY <2>2 DEF vars, table, request, Table!vars, Pending
    <2> QED
        BY <2>1, <2>2
<1> QED
    BY <1>1, <1>2, SlotInit, SlotStep, PTL DEF Spec, ImplementsLeaseTable, Table!Spec

-----------------------------------------------------------------------------
(* LeaseRestorable and NoSharedSlot.  What a client was given is in the    *)
(* row, so two unexpired leases of one slot have the row's key.  A key goes *)
(* into the row when its allocation ends and into a client's hands again   *)
(* when an extension reads the map: the invariant says that the row of an  *)
(* allocation in flight has no key yet, that the row of a lease that can be *)
(* extended has one, and that the map has no other.                        *)

\* No request outlives the lease it is allocating.
PromptInv == \A h \in Handlers : pc[h] \in Allocating => now <= reqExp[h]

AbsentKeyless == \A i \in PeerIds : ~HasRow(i) => rowKey[i] = NoKey

FlightKeyless ==
    \A h \in Handlers : pc[h] \in Inserted => rowKey[reqId[h]] = NoKey

\* A lease whose expiry is still the row's, held or about to be answered to an
\* extension, has a row with a key.
ExtensibleKeyed ==
    \A g \in held : rowExp[g.id] = g.exp => rowKey[g.id] # NoKey
ExtendedKeyed ==
    \A h \in Handlers :
        /\ pc[h] = "getcfg"
        /\ reqExp[h] >= now \/ rowExp[reqId[h]] = reqExp[h]
        => rowKey[reqId[h]] # NoKey

\* The map holds the row's key or none, and so it does for the key about to be
\* stored.
MapHasRowKey ==
    \A i \in PeerIds :
        HasRow(i) /\ rowKey[i] # NoKey => peers[i] \in {NoKey, rowKey[i]}
StoreKey ==
    \A h \in Handlers :
        pc[h] = "store" => peers[reqId[h]] \in {NoKey, reqKey[h]}

RestoreInv ==
    /\ SlotInv
    /\ PromptInv /\ AbsentKeyless /\ FlightKeyless
    /\ ExtensibleKeyed /\ ExtendedKeyed
    /\ MapHasRowKey /\ StoreKey
    /\ LeaseRestorable

\* A step of a request keeps RestoreInv.
LEMMA RestoreRequest ==
    ASSUME RestoreInv, SlotInv', "slow" \notin Faults,
           NEW h \in Handlers,
           AllocStart(h) \/ ExtendStart(h) \/ Request(h) \/ Disconnect(h)
    PROVE  RestoreInv'
<1> USE AbsentAssumption, NoKeyAssumption, MaxTimeAssumption
    DEF RestoreInv, PromptInv, AbsentKeyless, FlightKeyless, ExtensibleKeyed,
        ExtendedKeyed, MapHasRowKey, StoreKey, LeaseRestorable, SlotInv, TypeOK,
        HasRow, Allocating, Inserted, Locked, table, daemon
<1>1. CASE AllocStart(h)
    BY <1>1, SecondsAssumption DEF AllocStart, Goto
<1>2. CASE LockAcquire(h)
    BY <1>2 DEF LockAcquire, Goto
<1>3. CASE LockTimeout(h) \/ LockedQueryFails(h) \/ SelectExhausted(h)
           \/ ExtendRefused(h) \/ Disconnect(h)
    <2>1. UNCHANGED <<now, table, peers, held>> /\ Finish(h)
        BY <1>3 DEF LockTimeout, LockedQueryFails, SelectExhausted,
                    ExtendRefused, Disconnect
    <2> QED
        BY <2>1 DEF Finish
<1>4. CASE SelectFree(h)
    BY <1>4 DEF SelectFree, Goto
<1>5. CASE SelectNone(h)
    BY <1>5 DEF SelectNone, Goto
<1>7. CASE CleanupExpired(h)
    BY <1>7 DEF CleanupExpired, Goto, DeleteRows, Expired, Lease, ClockInv,
                LeaseKeepsSlot, FlightInv, InFlight, ExtendedInv
<1>8. CASE InsertLease(h)
    BY <1>8 DEF InsertLease, Goto, Lease, InsertOnFreeSlot, LeaseKeepsSlot,
                ExtendedInv
<1>10. CASE AddKernelPeer(h)
    BY <1>10 DEF AddKernelPeer, Goto
<1>11. CASE AddKernelPeerFails(h)
    BY <1>11 DEF AddKernelPeerFails, Goto
<1>12. CASE AddMapPeer(h)
    BY <1>12 DEF AddMapPeer, Goto, FlightAlone, InFlight, KeyGenerated
<1>13. CASE StorePeerKeys(h)
    BY <1>13 DEF StorePeerKeys, Finish, Lease, FlightInv, FlightAlone,
                 FlightNotHeld, InFlight, KeyGenerated
<1>14. CASE StorePeerKeysFails(h)
    BY <1>14 DEF StorePeerKeysFails, Goto
<1>15. CASE RollbackMap(h)
    BY <1>15 DEF RollbackMap, Goto
<1>16. CASE RollbackKernel(h)
    BY <1>16 DEF RollbackKernel, Goto
<1>17. CASE MarkConfigAsFree(h)
    BY <1>17 DEF MarkConfigAsFree, Finish, DeleteRows, Lease, FlightNotHeld,
                 FlightAlone, InFlight, ExtendedInv
<1>18. CASE ExtendStart(h)
    BY <1>18 DEF ExtendStart, Goto, Lease
<1>19. CASE ExtendLease(h)
    BY <1>19 DEF ExtendLease, Goto, Extensible, Lease, ExtendInv
<1>21. CASE GetClientConfig(h)
    BY <1>21 DEF GetClientConfig, Finish, Lease, ExtendedInv
<1> QED
    BY <1>1, <1>2, <1>3, <1>4, <1>5, <1>7, <1>8, <1>10, <1>11,
       <1>12, <1>13, <1>14, <1>15, <1>16, <1>17, <1>18, <1>19, <1>21 DEF Request

\* So does a step of the daemon, of the process or of the clock.
LEMMA RestoreOther ==
    ASSUME RestoreInv, SlotInv', "slow" \notin Faults,
           DaemonStart \/ Daemon \/ Crash \/ Shutdown \/ Boot \/ Tick
    PROVE  RestoreInv'
<1> USE AbsentAssumption, NoKeyAssumption, MaxTimeAssumption
    DEF RestoreInv, PromptInv, AbsentKeyless, FlightKeyless, ExtensibleKeyed,
        ExtendedKeyed, MapHasRowKey, StoreKey, LeaseRestorable, SlotInv, TypeOK,
        HasRow, Allocating, Inserted, Locked, table, request, daemon
<1>1. CASE DaemonStart \/ DaemonQuery \/ DaemonRemoveKernel
    <2>1. UNCHANGED <<now, table, peers, request, held>>
        BY <1>1 DEF DaemonStart, DaemonQuery, DaemonRemoveKernel
    <2> QED
        BY <2>1
<1>2. CASE DaemonRemoveMap
    BY <1>2 DEF DaemonRemoveMap
<1>3. CASE DaemonDelete
    BY <1>3 DEF DaemonDelete, DeleteRows, Expired, Lease, ClockInv,
                LeaseKeepsSlot, FlightInv, InFlight, ExtendedInv
<1>4. CASE Crash \/ Shutdown
    BY <1>4 DEF Crash, Shutdown, LoseMemory, NoPeers
<1>5. CASE Boot
    BY <1>5 DEF Boot
<1>6. CASE Tick
    BY <1>6 DEF Tick, Lease
<1> QED
    BY <1>1, <1>2, <1>3, <1>4, <1>5, <1>6 DEF Daemon

LEMMA RestoreInit == Init => RestoreInv
<1> SUFFICES ASSUME Init PROVE RestoreInv
    OBVIOUS
<1>1. SlotInv
    BY SlotInit
<1> QED
    BY <1>1
       DEF Init, RestoreInv, PromptInv, AbsentKeyless, FlightKeyless, NoPeers,
           ExtensibleKeyed, ExtendedKeyed, MapHasRowKey, StoreKey,
           LeaseRestorable, HasRow, Allocating, Inserted, Locked

LEMMA RestoreStep ==
    ASSUME "shorten" \notin Faults, "slow" \notin Faults
    PROVE  RestoreInv /\ [Next]_vars => RestoreInv'
<1> SUFFICES ASSUME RestoreInv, [Next]_vars PROVE RestoreInv'
    OBVIOUS
<1>1. SlotInv'
    BY SlotStep DEF RestoreInv
<1>2. CASE Next
    BY <1>1, <1>2, RestoreRequest, RestoreOther DEF Next
<1>3. CASE UNCHANGED vars
    BY <1>1, <1>3
       DEF vars, table, request, RestoreInv, PromptInv, AbsentKeyless,
           FlightKeyless, ExtensibleKeyed, ExtendedKeyed, MapHasRowKey,
           StoreKey, LeaseRestorable, HasRow
<1> QED
    BY <1>2, <1>3

\* The row of every unexpired lease has the key its client was given, whatever
\* crashes, disconnects, failing queries and failing kernel calls happen, as
\* long as no request outlives the lease it is allocating and no extension
\* shortens one.
THEOREM LeaseRestorableCorrect ==
    ASSUME "shorten" \notin Faults, "slow" \notin Faults
    PROVE  Spec => []LeaseRestorable
<1>1. RestoreInv => LeaseRestorable
    BY DEF RestoreInv
<1> QED
    BY <1>1, RestoreInit, RestoreStep, PTL DEF Spec

\* Under the same conditions two unexpired leases of one address are one
\* allocation: no two clients are given the same peer id at the same time.
THEOREM NoSharedSlotCorrect ==
    ASSUME "shorten" \notin Faults, "slow" \notin Faults
    PROVE  Spec => []NoSharedSlot
<1>1. RestoreInv => NoSharedSlot
    BY DEF RestoreInv, LeaseRestorable, NoSharedSlot
<1> QED
    BY <1>1, RestoreInit, RestoreStep, PTL DEF Spec

\* A restart serves every unexpired lease with its client's key and nothing
\* else, when moreover the kernel accepts the restored peers.
THEOREM RestartServesLeasesCorrect ==
    ASSUME "shorten" \notin Faults, "slow" \notin Faults, "kernel" \notin Faults
    PROVE  Spec => RestartServesLeases
<1> DEFINE Served == /\ \A g \in held : g.exp > now =>
                          kernel'[g.id] = g.key /\ peers'[g.id] = g.key
                     /\ \A i \in PeerIds : kernel'[i] # NoKey => ~Expired(i, now)
<1>1. RestoreInv /\ [Next]_vars => (~up /\ up' => Served)
    <2> SUFFICES ASSUME RestoreInv, [Next]_vars, ~up, up' PROVE Served
        OBVIOUS
    <2>1. Boot
        <3>1. ASSUME NEW h \in Handlers,
                     AllocStart(h) \/ ExtendStart(h) \/ Request(h) \/ Disconnect(h)
              PROVE  up' = up
            BY <3>1 DEF Request, AllocStart, LockAcquire, LockTimeout, SelectFree,
               SelectNone, SelectExhausted, CleanupExpired, InsertLease,
               LockedQueryFails, AddKernelPeer, AddKernelPeerFails, AddMapPeer,
               StorePeerKeys, StorePeerKeysFails, RollbackMap, RollbackKernel,
               MarkConfigAsFree, ExtendStart, ExtendLease, ExtendRefused,
               GetClientConfig, Disconnect
        <3>2. DaemonStart \/ Daemon \/ Tick \/ UNCHANGED vars => up' = up
            BY DEF DaemonStart, Daemon, DaemonQuery, DaemonRemoveMap,
                   DaemonRemoveKernel, DaemonDelete, Tick, vars
        <3>3. Crash \/ Shutdown => ~up'
            BY DEF Crash, Shutdown, LoseMemory
        <3> QED
            BY <3>1, <3>2, <3>3 DEF Next
    <2>2. \A i \in PeerIds : /\ kernel'[i] = IF i \in Restorable THEN rowKey[i] ELSE NoKey
                             /\ peers'[i] = kernel'[i]
        BY <2>1 DEF Boot
    <2>3. ASSUME NEW g \in held, g.exp > now
          PROVE  g.id \in Restorable /\ rowKey[g.id] = g.key
        BY <2>3, NoKeyAssumption, AbsentAssumption, MaxTimeAssumption
           DEF RestoreInv, LeaseRestorable, SlotInv, LeaseKeepsSlot, Restorable,
               TypeOK, Lease, HasRow
    <2>4. \A i \in Restorable : ~Expired(i, now)
        BY AbsentAssumption, MaxTimeAssumption
           DEF Restorable, Expired, HasRow, RestoreInv, SlotInv, TypeOK
    <2>5. \A g \in held : g.id \in PeerIds
        BY DEF RestoreInv, SlotInv, TypeOK, Lease
    <2> QED
        BY <2>2, <2>3, <2>4, <2>5
<1> QED
    BY <1>1, RestoreInit, RestoreStep, PTL DEF Spec, RestartServesLeases

-----------------------------------------------------------------------------
(* DaemonRemovesBeforeDelete.  The list the daemon works through was read  *)
(* at one moment and the map and the kernel are changed in two steps: the  *)
(* invariant says where a recorded peer is while the daemon runs.          *)

\* A kernel peer with key k is in the map too, or the daemon has just taken it
\* from there.
Mapped(i, k) == kernel[i] = k => peers[i] = k \/ (dpc = "kern" /\ dKey = k)

DownInv == ~up => dpc = "idle" /\ \A h \in Handlers : pc[h] = "idle"

RowMapped ==
    up => \A i \in PeerIds :
            HasRow(i) /\ rowKey[i] # NoKey => Mapped(i, rowKey[i])
StoreMapped ==
    \A h \in Handlers : pc[h] = "store" => Mapped(reqId[h], reqKey[h])

\* A row the DELETE is going to take is still in the daemon's list, or its
\* peer is gone, or is the one being removed.
ListInv ==
    dpc \in {"loop", "kern"} =>
        \A i \in PeerIds \ dIds :
            Expired(i, dCut) /\ rowKey[i] # NoKey /\ kernel[i] = rowKey[i]
                => dpc = "kern" /\ dKey = rowKey[i]

ServeInv ==
    /\ RestoreInv
    /\ DownInv /\ RowMapped /\ StoreMapped /\ ListInv

LEMMA ServeRequest ==
    ASSUME ServeInv, RestoreInv', "slow" \notin Faults,
           NEW h \in Handlers,
           AllocStart(h) \/ ExtendStart(h) \/ Request(h) \/ Disconnect(h)
    PROVE  ServeInv'
<1> USE AbsentAssumption, NoKeyAssumption, MaxTimeAssumption
    DEF ServeInv, DownInv, RowMapped, StoreMapped, ListInv, Mapped, Expired,
        RestoreInv, SlotInv, TypeOK, ClockInv, HasRow, table, daemon
<1>1. CASE AllocStart(h) \/ LockAcquire(h) \/ SelectFree(h) \/ SelectNone(h)
           \/ AddKernelPeerFails(h) \/ StorePeerKeysFails(h) \/ ExtendStart(h)
    <2>1. /\ UNCHANGED <<up, table, peers, kernel, daemon, reqKey>>
          /\ \A x \in Handlers : x # h => UNCHANGED <<pc[x], reqId[x]>>
          /\ pc'[h] # "store" /\ (pc[h] # "idle" \/ up)
        BY <1>1 DEF AllocStart, LockAcquire, SelectFree, SelectNone,
                    AddKernelPeerFails, StorePeerKeysFails, ExtendStart, Goto
    <2> QED
        BY <2>1
<1>2. CASE LockTimeout(h) \/ LockedQueryFails(h) \/ SelectExhausted(h)
           \/ ExtendRefused(h) \/ Disconnect(h) \/ GetClientConfig(h)
    <2>1. UNCHANGED <<up, table, peers, kernel, daemon>> /\ Finish(h)
        BY <1>2 DEF LockTimeout, LockedQueryFails, SelectExhausted,
                    ExtendRefused, Disconnect, GetClientConfig
    <2> QED
        BY <2>1 DEF Finish
<1>3. CASE CleanupExpired(h)
    BY <1>3 DEF CleanupExpired, Goto, DeleteRows
<1>4. CASE InsertLease(h)
    BY <1>4 DEF InsertLease, Goto, AbsentKeyless, InsertOnFreeSlot
<1>5. CASE AddKernelPeer(h)
    <2>1. PICK k \in FreshKeys :
            kernel' = [kernel EXCEPT ![reqId[h]] = k]
        BY <1>5 DEF AddKernelPeer, ConfigurePeer
    <2>2. rowKey[reqId[h]] = NoKey
        BY <1>5 DEF AddKernelPeer, FlightKeyless, Inserted
    <2>3. \A x \in Handlers : pc[x] = "store" => reqId[x] # reqId[h]
        BY <1>5 DEF AddKernelPeer, FlightAlone, InFlight, PromptInv, Allocating, Inserted
    <2> QED
        BY <1>5, <2>1, <2>2, <2>3 DEF AddKernelPeer, Goto
<1>6. CASE AddMapPeer(h)
    <2>1. rowKey[reqId[h]] = NoKey
        BY <1>6 DEF AddMapPeer, FlightKeyless, Inserted
    <2>2. \A x \in Handlers : pc[x] = "store" => reqId[x] # reqId[h]
        BY <1>6 DEF AddMapPeer, FlightAlone, InFlight, PromptInv, Allocating, Inserted
    <2> QED
        BY <1>6, <2>1, <2>2 DEF AddMapPeer, Goto
<1>7. CASE StorePeerKeys(h)
    <2>1. HasRow(reqId[h]) /\ rowExp[reqId[h]] >= now
        BY <1>7 DEF StorePeerKeys, FlightInv, InFlight, PromptInv, Allocating, Inserted
    <2> QED
        BY <1>7, <2>1 DEF StorePeerKeys, Finish
<1>8. CASE RollbackMap(h)
    <2>1. rowKey[reqId[h]] = NoKey
        BY <1>8 DEF RollbackMap, FlightKeyless, Inserted
    <2>2. \A x \in Handlers : pc[x] = "store" => reqId[x] # reqId[h]
        BY <1>8 DEF RollbackMap, FlightAlone, InFlight, PromptInv, Allocating, Inserted
    <2> QED
        BY <1>8, <2>1, <2>2 DEF RollbackMap, Goto
<1>9. CASE RollbackKernel(h)
    BY <1>9 DEF RollbackKernel, Goto, RemoveKernelPeer, KeyGenerated
<1>10. CASE MarkConfigAsFree(h)
    BY <1>10 DEF MarkConfigAsFree, Finish, DeleteRows
<1>11. CASE ExtendLease(h)
    BY <1>11 DEF ExtendLease, Goto, Extensible, ExtendInv
<1> QED
    BY <1>1, <1>2, <1>3, <1>4, <1>5, <1>6, <1>7, <1>8, <1>9, <1>10, <1>11
       DEF Request

LEMMA ServeOther ==
    ASSUME ServeInv, RestoreInv', "kernel" \notin Faults, "db" \notin Faults,
           DaemonStart \/ Daemon \/ Crash \/ Shutdown \/ Boot \/ Tick
    PROVE  ServeInv'
<1> USE AbsentAssumption, NoKeyAssumption, MaxTimeAssumption
    DEF ServeInv, DownInv, RowMapped, StoreMapped, ListInv, Mapped, Expired,
        RestoreInv, SlotInv, TypeOK, ClockInv, HasRow, table, request, daemon
<1>1. CASE DaemonStart
    BY <1>1 DEF DaemonStart
<1>2. CASE DaemonQuery
    BY <1>2 DEF DaemonQuery
<1>3. CASE DaemonRemoveMap
    BY <1>3 DEF DaemonRemoveMap, MapHasRowKey, StoreKey, KeyGenerated
<1>4. CASE DaemonRemoveKernel
    BY <1>4 DEF DaemonRemoveKernel, RemoveKernelPeer, KeyGenerated
<1>5. CASE DaemonDelete
    BY <1>5 DEF DaemonDelete, DeleteRows
<1>6. CASE Crash \/ Shutdown
    BY <1>6 DEF Crash, Shutdown, LoseMemory
<1>7. CASE Boot
    BY <1>7 DEF Boot
<1>8. CASE Tick
    BY <1>8 DEF Tick
<1> QED
    BY <1>1, <1>2, <1>3, <1>4, <1>5, <1>6, <1>7, <1>8 DEF Daemon

\* The daemon deletes a row only after its peer has left the kernel, with
\* crashes and disconnects at every point, when queries and kernel calls
\* succeed.
THEOREM DaemonRemovesBeforeDeleteCorrect ==
    ASSUME "shorten" \notin Faults, "slow" \notin Faults,
           "kernel" \notin Faults, "db" \notin Faults
    PROVE  Spec => DaemonRemovesBeforeDelete
<1> DEFINE Removed ==
        \A i \in PeerIds :
            DaemonDelete /\ HasRow(i) /\ rowExp'[i] = Absent /\ rowKey[i] # NoKey
                => kernel[i] # rowKey[i]
<1>1. Init => ServeInv
    <2> SUFFICES ASSUME Init PROVE ServeInv
        OBVIOUS
    <2>1. RestoreInv
        BY RestoreInit
    <2> QED
        BY <2>1 DEF Init, ServeInv, DownInv, RowMapped, StoreMapped, ListInv, HasRow
<1>2. ServeInv /\ [Next]_vars => ServeInv'
    <2> SUFFICES ASSUME ServeInv, [Next]_vars PROVE ServeInv'
        OBVIOUS
    <2>1. RestoreInv'
        BY RestoreStep DEF ServeInv
    <2>2. CASE Next
        BY <2>1, <2>2, ServeRequest, ServeOther DEF Next
    <2>3. CASE UNCHANGED vars
        BY <2>1, <2>3
           DEF vars, table, request, daemon, ServeInv, DownInv, RowMapped,
               StoreMapped, ListInv, Mapped, Expired, HasRow
    <2> QED
        BY <2>2, <2>3
<1>3. ServeInv => Removed
    <2> SUFFICES ASSUME ServeInv, NEW i \in PeerIds,
                        DaemonDelete, HasRow(i), rowExp'[i] = Absent, rowKey[i] # NoKey
                 PROVE  kernel[i] # rowKey[i]
        BY Zenon
    <2>1. Expired(i, dCut) /\ dpc = "loop" /\ dIds = {}
        BY DEF DaemonDelete, DeleteRows, HasRow
    <2> QED
        BY <2>1 DEF ServeInv, ListInv
<1> QED
    BY <1>1, <1>2, <1>3, PTL DEF Spec, DaemonRemovesBeforeDelete

-----------------------------------------------------------------------------
(* Addresses.                                                              *)

\* Two peers never share an address, nor does a peer have the server's,
\* whatever the last octet of WG_SUBNET and although peer_ip narrows to u8.
THEOREM PeerIpsDistinct ==
    ASSUME NEW base \in 0 .. 255, NEW i \in PeerIds, NEW j \in PeerIds, i # j
    PROVE  PeerIp(base, i) # PeerIp(base, j) /\ PeerIp(base, i) # ServerIp(base)
BY PeerCountAssumption DEF PeerIp, ServerIp, PeerIds
=============================================================================
