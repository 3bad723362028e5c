------------------------- MODULE Socks5LeaseProofs -------------------------
(***************************************************************************)
(* Proofs about Socks5Lease, for every number of requests, rows, slots and *)
(* every set of migrated rows: type correctness; that a selected row is    *)
(* still available when it is marked; and, as long as PRIORITY_SLOTS is    *)
(* not reconfigured and no extension shortens a lease, that the shared     *)
(* rows are never marked unavailable, that a row leased exclusively is     *)
(* kept, that the pools do not mix, that the exclusive pool implements     *)
(* LeaseTable, and that a request is refused only when no expired row is   *)
(* left.                                                                   *)
(***************************************************************************)
EXTENDS Socks5Lease, FiniteSetTheorems, WellFoundedInduction, TLAPS

\* A request past its SELECT, or extending, refers to a row.
RowChosen ==
    \A h \in Handlers :
        pc[h] \in {"pmark", "mark", "extend", "read"} => reqId[h] \in Rows

LockInv == \A h \in Handlers : pc[h] \in Locked => lock = h

\* Rows migrated as used have no expiry, so no clean-up frees them.
UsedInv ==
    /\ \A i \in Used : i \notin avail /\ rowExp[i] = 0
    /\ \A h \in Handlers : pc[h] \in {"pmark", "mark"} => reqId[h] \notin Used

\* No exclusive request has selected a shared row.
MarkNotShared ==
    \A h \in Handlers : pc[h] = "mark" => reqId[h] \notin SharedRows

TypeInv == TypeOK /\ RowChosen

RowInv == TypeInv /\ LockInv /\ MarkOnAvailable

SharedInv ==
    /\ TypeInv
    /\ UsedInv /\ MarkNotShared /\ SharedRowsAvailable

-----------------------------------------------------------------------------
\* The row SELECT ... LIMIT 1 OFFSET slots returns is not a shared one: as many
\* available rows as there are slots come before it.
LEMMA ExclusiveNotShared ==
    ASSUME avail \subseteq Rows \ Used, slots \in Nat,
           NEW i \in NextExclusive
    PROVE  i \in avail /\ i \notin SharedRows
<1> DEFINE below == {j \in avail : j < i}
           all == {j \in Rows \ Used : j < i}
<1>1. IsFiniteSet(Rows)
    BY FS_Interval, RowCountAssumption DEF Rows
<1>2. IsFiniteSet(all)
    BY <1>1, FS_Subset, all \subseteq Rows
<1>3. below \subseteq all
    OBVIOUS
<1>4. IsFiniteSet(below) /\ Cardinality(below) <= Cardinality(all)
    BY <1>2, <1>3, FS_Subset
<1>5. Cardinality(below) = slots
    BY DEF NextExclusive, Rank
<1>6. Cardinality(all) \in Nat
    BY <1>2, FS_CardinalityType
<1>7. ~(Cardinality(all) < slots)
    BY <1>4, <1>5, <1>6
<1> QED
    BY <1>7 DEF NextExclusive, SharedRows

LEMMA TypeInit == Init => TypeInv
BY PrioritySlotsAssumption, BoundsAssumption, NoHandlerAssumption
   DEF Init, TypeInv, TypeOK, RowChosen, PcValues, Lease

LEMMA TypeStep == TypeInv /\ [Next]_vars => TypeInv'
<1> SUFFICES ASSUME TypeInv, [Next]_vars PROVE TypeInv'
    OBVIOUS
<1> USE SecondsAssumption, BoundsAssumption
    DEF TypeInv, TypeOK, RowChosen, PcValues, Allocating, Locked
<1>1. ASSUME NEW h \in Handlers,
             AllocStart(h) \/ ExtendStart(h) \/ Request(h) \/ Abandon(h)
      PROVE  TypeInv'
    <2> USE DEF Goto, Finish, Grant
    <2>1. CASE AllocStart(h)
        BY <2>1 DEF AllocStart
    <2>2. CASE PrioritySelect(h)
        BY <2>2 DEF PrioritySelect, PriorityPool
    <2>3. CASE PriorityNone(h)
        BY <2>3 DEF PriorityNone
    <2>4. CASE PriorityMark(h)
        <3>1. reqId[h] \in Rows /\ reqExp[h] \in Nat
            BY <2>4 DEF PriorityMark
        <3>2. [id |-> reqId[h], exp |-> reqExp[h], shared |-> TRUE] \in Lease
            BY <3>1 DEF Lease
        <3> QED
            BY <2>4, <3>1, <3>2 DEF PriorityMark
    <2>5. CASE CountSome(h) \/ NeedCleanup(h)
        BY <2>5 DEF CountSome, NeedCleanup
    <2>6. CASE Cleanup(h)
        BY <2>6 DEF Cleanup, CleanupExpired
    <2>7. CASE LockAcquire(h) \/ LockTimeout(h)
        BY <2>7 DEF LockAcquire, LockTimeout
    <2>8. CASE Select(h)
        BY <2>8 DEF Select, NextExclusive
    <2>9. CASE Refuse(h)
        BY <2>9 DEF Refuse
    <2>10. CASE Mark(h)
        <3>1. reqId[h] \in Rows /\ reqExp[h] \in Nat
            BY <2>10 DEF Mark
        <3>2. [id |-> reqId[h], exp |-> reqExp[h], shared |-> FALSE] \in Lease
            BY <3>1 DEF Lease
        <3> QED
            BY <2>10, <3>1, <3>2 DEF Mark
    <2>11. CASE ExtendStart(h)
        BY <2>11 DEF ExtendStart, Lease
    <2>12. CASE Extend(h)
        BY <2>12 DEF Extend
    <2>13. CASE ExtendRefused(h)
        BY <2>13 DEF ExtendRefused
    <2>14. CASE ReadConfig(h)
        BY <2>14 DEF ReadConfig, Lease
    <2>15. CASE Abandon(h)
        BY <2>15 DEF Abandon
    <2> QED
        BY <1>1, <2>1, <2>2, <2>3, <2>4, <2>5, <2>6, <2>7, <2>8, <2>9, <2>10,
           <2>11, <2>12, <2>13, <2>14, <2>15 DEF Request
<1>2. CASE Restart
    BY <1>2, PrioritySlotsAssumption DEF Restart
<1>3. CASE Tick
    BY <1>3 DEF Tick, request
<1>4. CASE UNCHANGED vars
    BY <1>4 DEF vars, request
<1> QED
    BY <1>1, <1>2, <1>3, <1>4 DEF Next

\* Every variable keeps its type; every lease handed out is of a row.
THEOREM TypeCorrect == Spec => []TypeOK
<1>1. TypeInv => TypeOK
    BY DEF TypeInv
<1> QED
    BY <1>1, TypeInit, TypeStep, PTL DEF Spec

-----------------------------------------------------------------------------
\* Rows become unavailable only under the lock, so the row its holder selected
\* stays available.
LEMMA RowStep == RowInv /\ [Next]_vars => RowInv'
<1> SUFFICES ASSUME RowInv, [Next]_vars PROVE RowInv'
    OBVIOUS
<1> USE NoHandlerAssumption
    DEF RowInv, TypeInv, TypeOK, RowChosen, LockInv, MarkOnAvailable, Locked
<1>1. TypeInv'
    BY TypeStep DEF RowInv
<1>2. ASSUME NEW h \in Handlers,
             AllocStart(h) \/ ExtendStart(h) \/ Request(h) \/ Abandon(h)
      PROVE  LockInv' /\ MarkOnAvailable'
    <2> USE DEF Goto, Finish
    <2>1. CASE AllocStart(h) \/ PrioritySelect(h) \/ PriorityNone(h)
               \/ PriorityMark(h) \/ CountSome(h) \/ NeedCleanup(h)
        BY <2>1 DEF AllocStart, PrioritySelect, PriorityNone, PriorityMark,
                    CountSome, NeedCleanup
    <2>2. CASE Cleanup(h)
        BY <2>2 DEF Cleanup, CleanupExpired
    <2>3. CASE LockAcquire(h) \/ LockTimeout(h) \/ Refuse(h) \/ Mark(h)
        BY <2>3 DEF LockAcquire, LockTimeout, Refuse, Mark
    <2>4. CASE Select(h)
        BY <2>4 DEF Select, NextExclusive
    <2>5. CASE ExtendStart(h) \/ Extend(h) \/ ExtendRefused(h) \/ ReadConfig(h)
               \/ Abandon(h)
        BY <2>5 DEF ExtendStart, Extend, ExtendRefused, ReadConfig, Abandon
    <2> QED
        BY <1>2, <2>1, <2>2, <2>3, <2>4, <2>5 DEF Request
<1>3. CASE Restart \/ Tick \/ UNCHANGED vars
    BY <1>1, <1>3 DEF Restart, Tick, vars, request
<1> QED
    BY <1>1, <1>2, <1>3 DEF Next

\* Under every fault the row marked by an exclusive request was available: two
\* exclusive requests never take the same row.
THEOREM MarkOnAvailableCorrect == Spec => []MarkOnAvailable
<1>1. Init => RowInv
    BY TypeInit DEF Init, RowInv, LockInv, MarkOnAvailable, Locked
<1>2. RowInv => MarkOnAvailable
    BY DEF RowInv
<1> QED
    BY <1>1, <1>2, RowStep, PTL DEF Spec

-----------------------------------------------------------------------------
LEMMA SharedStep ==
    ASSUME "reconfigure" \notin Faults
    PROVE  SharedInv /\ [Next]_vars => SharedInv'
<1> SUFFICES ASSUME SharedInv, [Next]_vars PROVE SharedInv'
    OBVIOUS
<1> USE DEF SharedInv, TypeInv, TypeOK, RowChosen, UsedInv, MarkNotShared,
            SharedRowsAvailable
<1>1. TypeInv'
    BY TypeStep DEF SharedInv
<1>0. slots' = slots => SharedRows' = SharedRows
    BY DEF SharedRows
<1>2. ASSUME NEW h \in Handlers,
             AllocStart(h) \/ ExtendStart(h) \/ Request(h) \/ Abandon(h)
      PROVE  SharedInv'
    <2> USE <1>0, <1>1 DEF Goto, Finish
    <2>1. CASE AllocStart(h) \/ PriorityNone(h) \/ CountSome(h) \/ NeedCleanup(h)
               \/ LockAcquire(h) \/ LockTimeout(h) \/ Refuse(h)
        BY <2>1 DEF AllocStart, PriorityNone, CountSome, NeedCleanup,
                    LockAcquire, LockTimeout, Refuse
    <2>2. CASE PrioritySelect(h)
        BY <2>2 DEF PrioritySelect, PriorityPool
    <2>3. CASE PriorityMark(h)
        BY <2>3, UsedAssumption DEF PriorityMark
    <2>4. CASE Cleanup(h)
        BY <2>4, UsedAssumption DEF Cleanup, CleanupExpired, Expired
    <2>5. CASE Select(h)
        <3>1. PICK i \in NextExclusive : reqId' = [reqId EXCEPT ![h] = i]
            BY <2>5 DEF Select
        <3>2. i \in avail /\ i \notin SharedRows /\ i \notin Used
            BY ExclusiveNotShared
        <3> QED
            BY <2>5, <3>1, <3>2 DEF Select
    <2>6. CASE Mark(h)
        BY <2>6, UsedAssumption DEF Mark
    <2>7. CASE Extend(h)
        BY <2>7, UsedAssumption DEF Extend, Extensible
    <2>8. CASE ExtendStart(h) \/ ExtendRefused(h) \/ ReadConfig(h) \/ Abandon(h)
        BY <2>8 DEF ExtendStart, ExtendRefused, ReadConfig, Abandon
    <2> QED
        BY <1>2, <2>1, <2>2, <2>3, <2>4, <2>5, <2>6, <2>7, <2>8 DEF Request
<1>3. CASE Restart
    BY <1>0, <1>1, <1>3 DEF Restart
<1>4. CASE Tick \/ UNCHANGED vars
    BY <1>0, <1>1, <1>4 DEF Tick, vars, request
<1> QED
    BY <1>2, <1>3, <1>4 DEF Next

\* The shared rows are never marked unavailable, for every number of slots and
\* rows and every set of migrated rows, as long as PRIORITY_SLOTS is the same
\* at every start.
THEOREM SharedRowsAvailableCorrect ==
    ASSUME "reconfigure" \notin Faults
    PROVE  Spec => []SharedRowsAvailable
<1>1. Init => SharedInv
    BY TypeInit, UsedAssumption
       DEF Init, SharedInv, UsedInv, MarkNotShared, SharedRowsAvailable, SharedRows
<1>2. SharedInv => SharedRowsAvailable
    BY DEF SharedInv
<1> QED
    BY <1>1, <1>2, SharedStep, PTL DEF Spec

-----------------------------------------------------------------------------
(* Leases keep their rows and the pools do not mix.                        *)

ClockInv == \A h \in Handlers : reqNow[h] <= now

\* The expiry a request is about to write is not the one of a free row.
PromiseInv == \A h \in Handlers : pc[h] \in Allocating => reqExp[h] > 0

\* An available row outside the shared pool has no expiry left over.
FreeInv == \A i \in avail \ SharedRows : rowExp[i] = 0

\* Only rows of the shared pool are handed to priority requests.
PoolInv ==
    /\ \A h \in Handlers : pc[h] = "pmark" => reqId[h] \in SharedRows
    /\ \A g \in held : g.shared => g.id \in SharedRows
    /\ \A g \in held : ~g.shared => g.id \notin SharedRows

ExtendInv ==
    \A h \in Handlers : pc[h] \in {"extend", "read"} => reqOld[h] <= reqExp[h]

\* An exclusive lease that was extended, before its client is told.
ReadInv ==
    \A h \in Handlers :
        pc[h] = "read" /\ reqId[h] \notin SharedRows /\ reqExp[h] > now
            => reqId[h] \notin avail /\ rowExp[reqId[h]] >= reqExp[h]

LeaseInv ==
    /\ SharedInv
    /\ LockInv /\ MarkOnAvailable
    /\ ClockInv /\ PromiseInv /\ FreeInv /\ PoolInv /\ ExtendInv /\ ReadInv
    /\ ExclusiveKeepsRow

\* A non-empty set of naturals has a least element.
LEMMA LeastNatural ==
    ASSUME NEW S, S \subseteq Nat, S # {}
    PROVE  \E i \in S : \A j \in S : i <= j
<1>1. PICK i \in S : \A j \in S : <<j, i>> \notin OpToRel(<, Nat)
    BY NatLessThanWellFounded, WFMin, Zenon
<1>2. ASSUME NEW j \in S
      PROVE  i <= j
    <2>1. i \in Nat /\ j \in Nat
        BY <1>2
    <2>2. j < i => <<j, i>> \in OpToRel(<, Nat)
        BY <2>1 DEF OpToRel
    <2>3. ~(j < i)
        BY <1>1, <2>2, Zenon
    <2> QED
        BY <2>1, <2>3
<1> QED
    BY <1>2

\* While the shared rows are available, the first available rows are among
\* them: up to the least row outside the pool nothing is missing, so as many
\* available rows as there are slots come before any row outside the pool.
LEMMA PriorityIsShared ==
    ASSUME avail \subseteq Rows \ Used, SharedRows \subseteq avail, slots \in Nat,
           NEW i \in PriorityPool
    PROVE  i \in SharedRows
<1> SUFFICES ASSUME i \notin SharedRows PROVE FALSE
    OBVIOUS
<1> DEFINE outside == (Rows \ Used) \ SharedRows
<1>1. i \in avail /\ i \in outside /\ Rank(i) < slots
    BY DEF PriorityPool
<1>2. outside \subseteq Nat /\ IsFiniteSet(Rows)
    BY FS_Interval, RowCountAssumption DEF Rows
<1>3. PICK m \in outside : \A j \in outside : m <= j
    BY <1>1, <1>2, LeastNatural
<1> DEFINE all == {j \in Rows \ Used : j < m}
           below == {j \in avail : j < i}
<1>4. m \in Nat /\ i \in Nat /\ m <= i
    BY <1>1, <1>2, <1>3
<1>5. \A j \in all : j \in avail
    <2> TAKE j \in all
    <2>1. j \in Nat /\ j < m
        BY RowCountAssumption DEF Rows
    <2>2. j \notin outside
        BY <1>3, <1>4, <2>1
    <2> QED
        BY <2>2
<1>6. all \subseteq below
    BY <1>4, <1>5, RowCountAssumption DEF Rows
<1>7. IsFiniteSet(below)
    BY <1>2, FS_Subset, below \subseteq Rows
<1>8. IsFiniteSet(all) /\ Cardinality(all) <= Cardinality(below)
    BY <1>6, <1>7, FS_Subset
<1>9. Cardinality(all) \in Nat /\ Cardinality(below) \in Nat
    BY <1>7, <1>8, FS_CardinalityType
<1>10. ~(Cardinality(all) < slots)
    BY <1>3 DEF SharedRows
<1> QED
    BY <1>1, <1>8, <1>9, <1>10 DEF Rank

LEMMA LeaseInit == Init => LeaseInv
<1> SUFFICES ASSUME Init PROVE LeaseInv
    OBVIOUS
<1>1. SharedInv
    BY TypeInit, UsedAssumption
       DEF Init, SharedInv, UsedInv, MarkNotShared, SharedRowsAvailable, SharedRows
<1> QED
    BY <1>1 DEF Init, LeaseInv, LockInv, MarkOnAvailable, ClockInv, PromiseInv,
       FreeInv, PoolInv, ExtendInv, ReadInv, ExclusiveKeepsRow, Locked, Allocating

\* Priority requests take shared rows, the others rows outside the pool, and an
\* extension keeps the row: no need to know anything of the expiries.
LEMMA PoolStep ==
    ASSUME "reconfigure" \notin Faults
    PROVE  SharedInv /\ PoolInv /\ [Next]_vars => (SharedInv /\ PoolInv)'
<1> SUFFICES ASSUME SharedInv, PoolInv, [Next]_vars PROVE (SharedInv /\ PoolInv)'
    OBVIOUS
<1>0. slots' = slots => SharedRows' = SharedRows
    BY DEF SharedRows
<1>1. SharedInv'
    BY SharedStep
<1> USE <1>0 DEF SharedInv, TypeInv, TypeOK, RowChosen, PoolInv
<1>2. ASSUME NEW h \in Handlers,
             AllocStart(h) \/ ExtendStart(h) \/ Request(h) \/ Abandon(h)
      PROVE  PoolInv'
    <2> USE DEF Goto, Finish, Grant
    <2>1. CASE PrioritySelect(h)
        <3>1. PICK i \in PriorityPool : reqId' = [reqId EXCEPT ![h] = i]
            BY <2>1 DEF PrioritySelect
        <3>2. i \in SharedRows
            BY PriorityIsShared DEF UsedInv, SharedRowsAvailable
        <3> QED
            BY <2>1, <3>1, <3>2 DEF PrioritySelect
    <2>2. CASE PriorityMark(h)
        BY <2>2 DEF PriorityMark
    <2>3. CASE Mark(h)
        BY <2>3 DEF Mark, MarkNotShared
    <2>4. CASE ReadConfig(h)
        BY <2>4 DEF ReadConfig
    <2>5. CASE AllocStart(h) \/ PriorityNone(h) \/ CountSome(h) \/ NeedCleanup(h)
               \/ Cleanup(h) \/ LockAcquire(h) \/ LockTimeout(h) \/ Select(h)
               \/ Refuse(h)
        BY <2>5 DEF AllocStart, PriorityNone, CountSome, NeedCleanup, Cleanup,
                    LockAcquire, LockTimeout, Select, Refuse
    <2>6. CASE ExtendStart(h) \/ Extend(h) \/ ExtendRefused(h) \/ Abandon(h)
        BY <2>6 DEF ExtendStart, Extend, ExtendRefused, Abandon
    <2> QED
        BY <1>2, <2>1, <2>2, <2>3, <2>4, <2>5, <2>6 DEF Request
<1>3. CASE Restart
    BY <1>1, <1>3 DEF Restart
<1>4. CASE Tick \/ UNCHANGED vars
    BY <1>1, <1>4 DEF Tick, vars, request
<1> QED
    BY <1>1, <1>2, <1>3, <1>4 DEF Next

\* No credential is leased exclusively while a priority lease on it runs, for
\* every instance and whatever the expiries, as long as PRIORITY_SLOTS is the
\* same at every start.
THEOREM PoolsDisjointCorrect ==
    ASSUME "reconfigure" \notin Faults
    PROVE  Spec => []PoolsDisjoint
<1>1. Init => SharedInv /\ PoolInv
    BY LeaseInit DEF LeaseInv
<1>2. SharedInv /\ PoolInv => PoolsDisjoint
    BY DEF PoolInv, PoolsDisjoint
<1> QED
    BY <1>1, <1>2, PoolStep, PTL DEF Spec

\* A step of a request keeps what the leases need.
LEMMA LeaseRequest ==
    ASSUME LeaseInv, TypeInv', "shorten" \notin Faults, NEW h \in Handlers,
           AllocStart(h) \/ ExtendStart(h) \/ Request(h) \/ Abandon(h)
    PROVE  (/\ ClockInv /\ PromiseInv /\ FreeInv /\ ExtendInv /\ ReadInv
            /\ ExclusiveKeepsRow)'
<1> USE SecondsAssumption
    DEF LeaseInv, SharedInv, TypeInv, TypeOK, RowChosen, ClockInv, PromiseInv,
        FreeInv, PoolInv, ExtendInv, ReadInv, ExclusiveKeepsRow, Allocating, Locked
<1>0. slots' = slots => SharedRows' = SharedRows
    BY DEF SharedRows
<1> USE <1>0 DEF Goto, Finish
<1>1. CASE AllocStart(h)
    BY <1>1 DEF AllocStart
<1>2. CASE PriorityNone(h) \/ CountSome(h) \/ NeedCleanup(h) \/ LockAcquire(h)
           \/ LockTimeout(h) \/ Refuse(h) \/ ExtendRefused(h) \/ Abandon(h)
    BY <1>2 DEF PriorityNone, CountSome, NeedCleanup, LockAcquire, LockTimeout,
                Refuse, ExtendRefused, Abandon
<1>3. CASE PrioritySelect(h)
    BY <1>3 DEF PrioritySelect
<1>4. CASE PriorityMark(h)
    <2>1. reqId[h] \in SharedRows /\ SharedRows \subseteq avail
        BY <1>4 DEF PriorityMark, SharedRowsAvailable
    <2>2. rowExp' = [rowExp EXCEPT ![reqId[h]] = reqExp[h]]
          /\ UNCHANGED <<now, slots, avail, lock>>
        BY <1>4 DEF PriorityMark
    <2>3. held' = held \cup {[id |-> reqId[h], exp |-> reqExp[h], shared |-> TRUE]}
        BY <1>4 DEF PriorityMark, Grant
    <2>4. ExclusiveKeepsRow'
        BY <1>4, <2>1, <2>2, <2>3 DEF PriorityMark
    <2>5. (ClockInv /\ PromiseInv /\ FreeInv /\ ExtendInv /\ ReadInv)'
        BY <1>4, <2>1, <2>2 DEF PriorityMark
    <2> QED
        BY <2>4, <2>5
<1>5. CASE Cleanup(h)
    BY <1>5 DEF Cleanup, CleanupExpired, Expired, Lease
<1>6. CASE Select(h)
    BY <1>6 DEF Select
<1>7. CASE Mark(h)
    <2>1. reqId[h] \in avail /\ reqId[h] \notin SharedRows /\ reqId[h] \in Rows
        BY <1>7 DEF Mark, MarkOnAvailable, MarkNotShared
    <2>2. /\ rowExp' = [rowExp EXCEPT ![reqId[h]] = reqExp[h]]
          /\ avail' = avail \ {reqId[h]}
          /\ UNCHANGED <<now, slots>>
        BY <1>7 DEF Mark
    <2>3. held' = held \cup {[id |-> reqId[h], exp |-> reqExp[h], shared |-> FALSE]}
        BY <1>7 DEF Mark, Grant
    <2>4. ExclusiveKeepsRow'
        BY <1>7, <2>1, <2>2, <2>3 DEF Mark, Lease
    <2>5. (ClockInv /\ PromiseInv /\ FreeInv /\ ExtendInv /\ ReadInv)'
        BY <1>7, <2>1, <2>2 DEF Mark
    <2> QED
        BY <2>4, <2>5
<1>8. CASE ExtendStart(h)
    BY <1>8 DEF ExtendStart, Lease
<1>9. CASE Extend(h)
    <2>1. /\ rowExp[reqId[h]] = reqOld[h] /\ reqOld[h] > 0
          /\ reqOld[h] <= reqExp[h] /\ reqId[h] \in Rows
        BY <1>9 DEF Extend, Extensible
    <2>2. reqId[h] \in avail => reqId[h] \in SharedRows
        BY <2>1
    <2>3. /\ rowExp' = [rowExp EXCEPT ![reqId[h]] = reqExp[h]]
          /\ UNCHANGED <<now, slots, avail, held>>
        BY <1>9 DEF Extend
    <2>4. ExclusiveKeepsRow'
        BY <1>9, <2>1, <2>3 DEF Extend, Lease
    <2>5. (ClockInv /\ PromiseInv /\ FreeInv /\ ExtendInv /\ ReadInv)'
        BY <1>9, <2>1, <2>2, <2>3 DEF Extend
    <2> QED
        BY <2>4, <2>5
<1>10. CASE ReadConfig(h)
    <2>1. PICK g \in held : /\ g.id = reqId[h]
                            /\ Grant(g.id, reqExp[h], g.shared)
        BY <1>10 DEF ReadConfig
    <2> DEFINE n == [id |-> g.id, exp |-> reqExp[h], shared |-> g.shared]
    <2>2. held' = held \cup {n}
        BY <2>1 DEF Grant
    <2>3. UNCHANGED <<now, slots, avail, rowExp>>
        BY <1>10 DEF ReadConfig
    <2>4. ~g.shared /\ reqExp[h] > now => g.id \notin avail /\ rowExp[g.id] >= reqExp[h]
        BY <1>10, <2>1 DEF ReadConfig
    <2>5. ExclusiveKeepsRow'
        BY <1>10, <2>2, <2>3, <2>4 DEF ReadConfig
    <2>6. (ClockInv /\ PromiseInv /\ FreeInv /\ ExtendInv /\ ReadInv)'
        BY <1>10, <2>3 DEF ReadConfig
    <2> QED
        BY <2>5, <2>6
<1> QED
    BY <1>1, <1>2, <1>3, <1>4, <1>5, <1>6, <1>7, <1>8, <1>9, <1>10 DEF Request

LEMMA LeaseStep ==
    ASSUME "shorten" \notin Faults, "reconfigure" \notin Faults
    PROVE  LeaseInv /\ [Next]_vars => LeaseInv'
<1> SUFFICES ASSUME LeaseInv, [Next]_vars PROVE LeaseInv'
    OBVIOUS
<1>1. SharedInv' /\ PoolInv' /\ TypeInv'
    BY PoolStep DEF LeaseInv, SharedInv
<1>2. (LockInv /\ MarkOnAvailable)'
    BY RowStep DEF LeaseInv, SharedInv, RowInv
<1>3. (/\ ClockInv /\ PromiseInv /\ FreeInv /\ ExtendInv /\ ReadInv
       /\ ExclusiveKeepsRow)'
    <2>0. slots' = slots => SharedRows' = SharedRows
        BY DEF SharedRows
    <2> USE BoundsAssumption
        DEF LeaseInv, SharedInv, TypeInv, TypeOK, ClockInv, PromiseInv, FreeInv,
            PoolInv, ExtendInv, ReadInv, ExclusiveKeepsRow, Allocating, Locked
    <2>1. CASE Restart
        BY <2>0, <2>1 DEF Restart
    <2>2. CASE Tick
        BY <2>0, <2>2 DEF Tick, request, Lease
    <2>3. CASE UNCHANGED vars
        BY <2>0, <2>3 DEF vars, request
    <2>4. ASSUME NEW h \in Handlers,
                 AllocStart(h) \/ ExtendStart(h) \/ Request(h) \/ Abandon(h)
          PROVE  (/\ ClockInv /\ PromiseInv /\ FreeInv /\ ExtendInv /\ ReadInv
                  /\ ExclusiveKeepsRow)'
        BY ONLY <2>4, <1>1, LeaseInv, LeaseRequest, "shorten" \notin Faults
    <2> QED
        BY <2>1, <2>2, <2>3, <2>4 DEF Next
<1> QED
    BY <1>1, <1>2, <1>3 DEF LeaseInv

\* A row leased exclusively stays unavailable, with an expiry no earlier than
\* promised, until the lease has expired: for every instance, whatever crashes,
\* disconnects, failing queries and slow requests there are.
THEOREM ExclusiveKeepsRowCorrect ==
    ASSUME "shorten" \notin Faults, "reconfigure" \notin Faults
    PROVE  Spec => []ExclusiveKeepsRow
<1>1. LeaseInv => ExclusiveKeepsRow
    BY DEF LeaseInv
<1> QED
    BY <1>1, LeaseInit, LeaseStep, PTL DEF Spec

-----------------------------------------------------------------------------
(* The exclusive pool implements LeaseTable.                               *)

\* The expiry the mapping shows for a row.
RowTab == [i \in Rows \ Used |-> IF i \in avail THEN 0 ELSE rowExp[i]]

\* Every step maps to a step of the lease table or leaves it alone: Mark takes
\* a free row, Cleanup reclaims expired ones, Extend extends, and what priority
\* requests write is not visible.
LEMMA TableStep ==
    ASSUME LeaseInv, [Next]_vars, "reconfigure" \notin Faults
    PROVE  [Table!Next]_(Table!vars)
<1> USE UsedAssumption
    DEF LeaseInv, SharedInv, TypeInv, TypeOK, RowChosen
<1>1. ASSUME NEW h \in Handlers,
             AllocStart(h) \/ ExtendStart(h) \/ Request(h) \/ Abandon(h)
      PROVE  [Table!Next]_(Table!vars)
    <2>1. CASE Mark(h)
        <3> DEFINE i == reqId[h]
        <3>1. i \in Rows \ Used /\ i \in avail
            BY <2>1 DEF Mark, UsedInv, MarkOnAvailable
        <3>2. reqExp[h] \in Nat \ {0}
            BY <2>1 DEF Mark, PromiseInv, Allocating, Locked
        <3>3. /\ avail' = avail \ {i} /\ now' = now
              /\ rowExp' = [rowExp EXCEPT ![i] = reqExp[h]]
            BY <2>1 DEF Mark
        <3>4. RowTab[i] = 0 /\ RowTab' = [RowTab EXCEPT ![i] = RowTab'[i]]
              /\ RowTab'[i] = reqExp[h]
            BY <3>1, <3>3 DEF RowTab
        <3> QED
            BY <3>1, <3>2, <3>3, <3>4 DEF Table!Next, Table!Take, RowTab
    <2>2. CASE Cleanup(h)
        <3> DEFINE S == {i \in Rows \ Used : RowTab[i] # 0 /\ RowTab'[i] = 0}
        <3>1. /\ now' = now
              /\ avail' = avail \cup {i \in Rows : Expired(i, reqNow[h])}
              /\ rowExp' = [i \in Rows |-> IF Expired(i, reqNow[h]) THEN 0 ELSE rowExp[i]]
            BY <2>2 DEF Cleanup, CleanupExpired
        <3>2. \A i \in S : RowTab[i] <= now
            BY <3>1 DEF RowTab, Expired, ClockInv
        <3>3. RowTab' = [i \in Rows \ Used |-> IF i \in S THEN 0 ELSE RowTab[i]]
            BY <3>1 DEF RowTab, Expired
        <3> QED
            BY <3>1, <3>2, <3>3 DEF Table!Next, Table!Reclaim, RowTab
    <2>3. CASE Extend(h)
        <3> DEFINE i == reqId[h]
        <3>1. /\ rowExp[i] = reqOld[h] /\ reqOld[h] > 0 /\ i \in Rows
              /\ reqOld[h] <= reqExp[h] /\ reqExp[h] \in Nat
            BY <2>3 DEF Extend, Extensible, ExtendInv
        <3>2. /\ avail' = avail /\ now' = now
              /\ rowExp' = [rowExp EXCEPT ![i] = reqExp[h]]
            BY <2>3 DEF Extend
        <3>3. i \notin Used
            BY <3>1 DEF UsedInv
        <3>4. CASE i \in avail
            <4>1. RowTab' = RowTab
                BY <3>2, <3>4 DEF RowTab
            <4> QED
                BY <3>2, <4>1 DEF Table!vars, RowTab
        <3>5. CASE i \notin avail
            <4>1. RowTab[i] = reqOld[h] /\ RowTab' = [RowTab EXCEPT ![i] = RowTab'[i]]
                  /\ RowTab'[i] = reqExp[h]
                BY <3>1, <3>2, <3>3, <3>5 DEF RowTab
            <4>2. RowTab'[i] \in Nat \ {0} /\ RowTab'[i] >= RowTab[i] /\ RowTab[i] # 0
                BY <3>1, <4>1
            <4>3. i \in Rows \ Used
                BY <3>1, <3>3
            <4> QED
                BY ONLY <3>2, <4>1, <4>2, <4>3 DEF Table!Next, Table!Extend, RowTab
        <3> QED
            BY <3>4, <3>5
    <2>4. CASE PriorityMark(h)
        <3>1. reqId[h] \in avail
            BY <2>4 DEF PriorityMark, PoolInv, SharedRowsAvailable
        <3>2. now' = now /\ avail' = avail
              /\ rowExp' = [rowExp EXCEPT ![reqId[h]] = reqExp[h]]
            BY <2>4 DEF PriorityMark
        <3>3. RowTab' = RowTab
            BY <3>1, <3>2 DEF RowTab
        <3> QED
            BY <3>2, <3>3 DEF Table!vars, RowTab
    <2>5. CASE ~(Mark(h) \/ Cleanup(h) \/ Extend(h) \/ PriorityMark(h))
        <3>1. UNCHANGED <<now, avail, rowExp>>
            BY <1>1, <2>5 DEF Request, AllocStart, ExtendStart, Abandon,
               PrioritySelect, PriorityNone, CountSome, NeedCleanup, LockAcquire,
               LockTimeout, Select, Refuse, ExtendRefused, ReadConfig
        <3> QED
            BY <3>1 DEF Table!vars
    <2> QED
        BY <2>1, <2>2, <2>3, <2>4, <2>5
<1>2. CASE Restart \/ UNCHANGED vars
    BY <1>2 DEF Restart, vars, Table!vars
<1>3. CASE Tick
    BY <1>3 DEF Tick, Table!Next, Table!Tick
<1> QED
    BY <1>1, <1>2, <1>3 DEF Next

\* Every step on the SOCKS5 rows is a step of the abstract lease table, for
\* every instance: only available rows are taken, only expired ones released,
\* and no step shortens a lease.
THEOREM ImplementsLeaseTableCorrect ==
    ASSUME "shorten" \notin Faults, "reconfigure" \notin Faults
    PROVE  Spec => ImplementsLeaseTable
<1>1. Init => Table!Init
    BY DEF Init, Table!Init
<1>2. LeaseInv /\ [Next]_vars => [Table!Next]_(Table!vars)
    BY TableStep
<1> QED
    BY <1>1, <1>2, LeaseInit, LeaseStep, PTL DEF Spec, ImplementsLeaseTable, Table!Spec

-----------------------------------------------------------------------------
(* Refusals.                                                               *)

\* A request ends before the lease it makes does.
PromptInv == \A h \in Handlers : pc[h] \in Allocating => reqExp[h] > now

\* After its clean-up a request leaves no row behind that had expired.
CleanedInv ==
    \A h \in Handlers : pc[h] \in {"recount", "reselect"} =>
        \A i \in Rows \ avail : rowExp[i] > 0 => rowExp[i] > reqNow[h]

RefusalInv == TypeInv /\ ClockInv /\ PromptInv /\ ExtendInv /\ CleanedInv

LEMMA RefusalStep ==
    ASSUME "shorten" \notin Faults, "slow" \notin Faults
    PROVE  RefusalInv /\ [Next]_vars => RefusalInv'
<1> SUFFICES ASSUME RefusalInv, [Next]_vars PROVE RefusalInv'
    OBVIOUS
<1>1. TypeInv'
    BY TypeStep DEF RefusalInv
<1> USE SecondsAssumption, BoundsAssumption
    DEF RefusalInv, TypeInv, TypeOK, RowChosen, ClockInv, PromptInv, ExtendInv,
        CleanedInv, Allocating, Locked
<1>2. ASSUME NEW h \in Handlers,
             AllocStart(h) \/ ExtendStart(h) \/ Request(h) \/ Abandon(h)
      PROVE  RefusalInv'
    <2> USE <1>1 DEF Goto, Finish
    <2>1. CASE AllocStart(h)
        BY <2>1 DEF AllocStart
    <2>2. CASE PrioritySelect(h) \/ PriorityNone(h) \/ CountSome(h)
               \/ NeedCleanup(h) \/ LockAcquire(h) \/ LockTimeout(h)
        BY <2>2 DEF PrioritySelect, PriorityNone, CountSome, NeedCleanup,
                    LockAcquire, LockTimeout
    <2>3. CASE Select(h) \/ Refuse(h) \/ ExtendRefused(h) \/ ReadConfig(h)
               \/ Abandon(h)
        BY <2>3 DEF Select, Refuse, ExtendRefused, ReadConfig, Abandon
    <2>4. CASE PriorityMark(h)
        BY <2>4 DEF PriorityMark
    <2>5. CASE Cleanup(h)
        BY <2>5 DEF Cleanup, CleanupExpired, Expired
    <2>6. CASE Mark(h)
        BY <2>6 DEF Mark
    <2>7. CASE ExtendStart(h)
        BY <2>7 DEF ExtendStart, Lease
    <2>8. CASE Extend(h)
        BY <2>8 DEF Extend, Extensible
    <2> QED
        BY <1>2, <2>1, <2>2, <2>3, <2>4, <2>5, <2>6, <2>7, <2>8 DEF Request
<1>3. CASE Restart
    BY <1>1, <1>3 DEF Restart
<1>4. CASE Tick
    BY <1>1, <1>4 DEF Tick, request
<1>5. CASE UNCHANGED vars
    BY <1>1, <1>5 DEF vars, request
<1> QED
    BY <1>2, <1>3, <1>4, <1>5 DEF Next

\* A request is refused for exhaustion only if no unavailable row had expired
\* when it cleaned up, for every instance, whatever other requests did in
\* between, and even if PRIORITY_SLOTS is reconfigured.
THEOREM RefusedOnlyWhenFullCorrect ==
    ASSUME "shorten" \notin Faults, "slow" \notin Faults
    PROVE  Spec => RefusedOnlyWhenFull
<1>1. Init => RefusalInv
    BY TypeInit DEF Init, RefusalInv, ClockInv, PromptInv, ExtendInv, CleanedInv,
                    Allocating, Locked
<1>2. RefusalInv /\ [Next]_vars =>
        [\A h \in Handlers : Refuse(h) =>
            \A i \in Rows \ avail : rowExp[i] > 0 => rowExp[i] > reqNow[h]]_vars
    BY DEF RefusalInv, CleanedInv, Refuse
<1> QED
    BY <1>1, <1>2, RefusalStep, PTL DEF Spec, RefusedOnlyWhenFull
=============================================================================
