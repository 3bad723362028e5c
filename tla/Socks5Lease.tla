----------------------------- MODULE Socks5Lease -----------------------------
(***************************************************************************)
(* SOCKS5 leases: the rows of worker_socks5_configs, shared by all         *)
(* priority requests (the first `slots' available rows) and leased         *)
(* exclusively to the others (the rows after them), with the unlocked      *)
(* pre-check, the locked selection, the clean-up on exhaustion, extension, *)
(* client disconnects, crashes and restarts.                               *)
(*                                                                         *)
(* An action is one stretch of code between two awaits.  A row is its id;  *)
(* credentials never change at run time, so the username is the id too.    *)
(***************************************************************************)
EXTENDS Naturals, FiniteSets

CONSTANTS
    Handlers,       \* requests that may be in flight at the same time
    RowCount,       \* PROXY_CREDENTIAL_COUNT
    PrioritySlots,  \* values PRIORITY_SLOTS may be configured with
    Used,           \* rows migrated from the password files as in use
    Seconds,        \* values of lease_seconds
    MaxTime,        \* bound of the clock
    MaxLeases,      \* bound of the number of leases handed out
    Faults,         \* the adversities admitted, a subset of FaultKinds
    NoHandler

FaultKinds == {"crash", "reconfigure", "disconnect", "db", "slow", "shorten"}
Rows == 1 .. RowCount

ASSUME RowCountAssumption == RowCount \in Nat
ASSUME PrioritySlotsAssumption == PrioritySlots \subseteq Nat
ASSUME UsedAssumption == Used \subseteq Rows
ASSUME SecondsAssumption == Seconds \subseteq Nat \ {0}
ASSUME BoundsAssumption == MaxTime \in Nat /\ MaxLeases \in Nat
ASSUME FaultsAssumption == Faults \subseteq FaultKinds
ASSUME NoHandlerAssumption == NoHandler \notin Handlers

VARIABLES
    now,       \* chrono::Utc::now()
    slots,     \* config.priority_slots of the running process
    avail,     \* the rows with available = TRUE
    rowExp,    \* expires_at per row, 0 when no lease is recorded
    lock,      \* holder of the lock "get_socks5_config"
    pc,        \* where each request stands
    reqId,     \* the row selected
    reqExp,    \* expires_at, or new_expires_at of an extension
    reqOld,    \* expected_expires_at of an extension
    reqNow,    \* now_ms captured before a statement
    held       \* every lease a client was told it has: [id, exp, shared]

request == <<pc, reqId, reqExp, reqOld, reqNow>>
vars == <<now, slots, avail, rowExp, lock, request, held>>

Lease == [id : Rows, exp : Nat, shared : BOOLEAN]
Locked == {"select", "lclean", "reselect", "mark"}
Allocating == {"psel", "pmark", "count", "pclean", "recount", "lock"} \cup Locked
PcValues == {"idle", "extend", "read"} \cup Allocating

TypeOK ==
    /\ now \in 0 .. MaxTime
    /\ slots \in Nat
    /\ avail \in SUBSET Rows
    /\ rowExp \in [Rows -> Nat]
    /\ lock \in Handlers \cup {NoHandler}
    /\ pc \in [Handlers -> PcValues]
    /\ reqId \in [Handlers -> Rows \cup {0}]
    /\ reqExp \in [Handlers -> Nat]
    /\ reqOld \in [Handlers -> Nat]
    /\ reqNow \in [Handlers -> Nat]
    /\ held \in SUBSET Lease

Init ==
    /\ now = 0
    /\ slots \in PrioritySlots
    /\ avail = Rows \ Used
    /\ rowExp = [i \in Rows |-> 0]
    /\ lock = NoHandler
    /\ pc = [h \in Handlers |-> "idle"]
    /\ reqId = [h \in Handlers |-> 0]
    /\ reqExp = [h \in Handlers |-> 0]
    /\ reqOld = [h \in Handlers |-> 0]
    /\ reqNow = [h \in Handlers |-> 0]
    /\ held = {}

-----------------------------------------------------------------------------
(* The queries.                                                            *)

\* How many available rows precede row i.
Rank(i) == Cardinality({j \in avail : j < i})

\* ... WHERE available ORDER BY id LIMIT slots
PriorityPool == {i \in avail : Rank(i) < slots}

\* Mutants: LIMIT 1 OFFSET slots - 1; and no OFFSET.
NextExclusive_OffByOne == {i \in avail : Rank(i) + 1 = slots}
NextExclusive_NoOffset == {i \in avail : Rank(i) = 0}

\* ... WHERE available ORDER BY id LIMIT 1 OFFSET slots
NextExclusive == {i \in avail : Rank(i) = slots}

\* count_available_socks
CountAvailable == Cardinality({i \in avail : Rank(i) >= slots})

\* Mutant: a lease that expires at this very instant is kept.
Expired_Strict(i, cut) == rowExp[i] > 0 /\ rowExp[i] < cut

Expired(i, cut) == rowExp[i] > 0 /\ rowExp[i] <= cut

\* cleanup_expired_socks5_configs
CleanupExpired(cut) ==
    /\ avail' = avail \cup {i \in Rows : Expired(i, cut)}
    /\ rowExp' = [i \in Rows |-> IF Expired(i, cut) THEN 0 ELSE rowExp[i]]

Goto(h, l) == pc' = [pc EXCEPT ![h] = l]

\* The request ends; its local variables go out of scope.
Finish(h) ==
    /\ Goto(h, "idle")
    /\ reqId' = [reqId EXCEPT ![h] = 0]
    /\ reqExp' = [reqExp EXCEPT ![h] = 0]
    /\ reqOld' = [reqOld EXCEPT ![h] = 0]
    /\ reqNow' = [reqNow EXCEPT ![h] = 0]

Grant(i, e, s) == held' = held \cup {[id |-> i, exp |-> e, shared |-> s]}

-----------------------------------------------------------------------------
(* A new lease: allocate_socks5, get_socks5_config.                        *)

\* The guard on held bounds the number of leases.
AllocStart(h) ==
    /\ pc[h] = "idle"
    /\ Cardinality(held) < MaxLeases
    /\ \E s \in Seconds, priority \in BOOLEAN :
         /\ reqExp' = [reqExp EXCEPT ![h] = now + s]
         /\ Goto(h, IF priority THEN "psel" ELSE "count")
    /\ UNCHANGED <<now, slots, avail, rowExp, lock, reqId, reqOld, reqNow, held>>

\* Priority: one of the first slots available rows, at random.
PrioritySelect(h) ==
    /\ pc[h] = "psel"
    /\ \E i \in PriorityPool : reqId' = [reqId EXCEPT ![h] = i]
    /\ Goto(h, "pmark")
    /\ UNCHANGED <<now, slots, avail, rowExp, lock, reqExp, reqOld, reqNow, held>>

PriorityNone(h) ==
    /\ pc[h] = "psel"
    /\ PriorityPool = {}
    /\ Finish(h)
    /\ UNCHANGED <<now, slots, avail, rowExp, lock, held>>

\* The expiry is overwritten, the row stays available.
PriorityMark(h) ==
    /\ pc[h] = "pmark"
    /\ rowExp' = [rowExp EXCEPT ![reqId[h]] = reqExp[h]]
    /\ Grant(reqId[h], reqExp[h], TRUE)
    /\ Finish(h)
    /\ UNCHANGED <<now, slots, avail, lock>>

\* Not priority: count first, without the lock.
CountSome(h) ==
    /\ pc[h] \in {"count", "recount"}
    /\ CountAvailable > 0
    /\ Goto(h, "lock")
    /\ UNCHANGED <<now, slots, avail, rowExp, lock, reqId, reqExp, reqOld, reqNow,
                   held>>

\* None, or none after the offset under the lock: clean up, now_ms captured.
NeedCleanup(h) ==
    /\ \/ pc[h] = "count" /\ CountAvailable = 0 /\ Goto(h, "pclean")
       \/ pc[h] = "select" /\ NextExclusive = {} /\ Goto(h, "lclean")
    /\ reqNow' = [reqNow EXCEPT ![h] = now]
    /\ UNCHANGED <<now, slots, avail, rowExp, lock, reqId, reqExp, reqOld, held>>

Cleanup(h) ==
    /\ \/ pc[h] = "pclean" /\ Goto(h, "recount")
       \/ pc[h] = "lclean" /\ Goto(h, "reselect")
    /\ CleanupExpired(reqNow[h])
    /\ UNCHANGED <<now, slots, lock, reqId, reqExp, reqOld, reqNow, held>>

\* Mutant: the closure runs without waiting for the lock.
LockAcquire_NoWait(h) ==
    /\ pc[h] = "lock"
    /\ lock' = h
    /\ Goto(h, "select")
    /\ UNCHANGED <<now, slots, avail, rowExp, reqId, reqExp, reqOld, reqNow, held>>

LockAcquire(h) ==
    /\ pc[h] = "lock" /\ lock = NoHandler
    /\ lock' = h
    /\ Goto(h, "select")
    /\ UNCHANGED <<now, slots, avail, rowExp, reqId, reqExp, reqOld, reqNow, held>>

\* 30 s without the lock: the request fails.
LockTimeout(h) ==
    /\ pc[h] = "lock" /\ lock # NoHandler
    /\ Finish(h)
    /\ UNCHANGED <<now, slots, avail, rowExp, lock, held>>

\* Mutant: a missing row is taken for the row 0.
Select_Default(h) ==
    /\ pc[h] \in {"select", "reselect"}
    /\ \E i \in IF NextExclusive = {} THEN {0} ELSE NextExclusive :
         reqId' = [reqId EXCEPT ![h] = i]
    /\ Goto(h, "mark")
    /\ UNCHANGED <<now, slots, avail, rowExp, lock, reqExp, reqOld, reqNow, held>>

Select(h) ==
    /\ pc[h] \in {"select", "reselect"}
    /\ \E i \in NextExclusive : reqId' = [reqId EXCEPT ![h] = i]
    /\ Goto(h, "mark")
    /\ UNCHANGED <<now, slots, avail, rowExp, lock, reqExp, reqOld, reqNow, held>>

\* LeaseUnavailable: after the clean-up there is still no row.
Refuse(h) ==
    /\ \/ pc[h] = "recount" /\ CountAvailable = 0 /\ UNCHANGED lock
       \/ pc[h] = "reselect" /\ NextExclusive = {} /\ lock' = NoHandler
    /\ Finish(h)
    /\ UNCHANGED <<now, slots, avail, rowExp, held>>

\* Mutant: only the expiry is written.
Mark_StaysAvailable(h) ==
    /\ pc[h] = "mark"
    /\ rowExp' = [rowExp EXCEPT ![reqId[h]] = reqExp[h]]
    /\ lock' = NoHandler
    /\ Grant(reqId[h], reqExp[h], FALSE)
    /\ Finish(h)
    /\ UNCHANGED <<now, slots, avail>>

\* The row becomes unavailable and the lock is dropped.
Mark(h) ==
    /\ pc[h] = "mark"
    /\ avail' = avail \ {reqId[h]}
    /\ rowExp' = [rowExp EXCEPT ![reqId[h]] = reqExp[h]]
    /\ lock' = NoHandler
    /\ Grant(reqId[h], reqExp[h], FALSE)
    /\ Finish(h)
    /\ UNCHANGED <<now, slots>>

-----------------------------------------------------------------------------
(* Extension: the extend branch of get_worker_config.                      *)

\* A client extends a lease it was given; unless "shorten" is admitted it does
\* not ask for an earlier expiry than the one it has.
ExtendStart(h) ==
    /\ pc[h] = "idle"
    /\ Cardinality(held) < MaxLeases
    /\ \E g \in held, s \in Seconds :
         /\ "shorten" \in Faults \/ g.exp <= now + s
         /\ reqId' = [reqId EXCEPT ![h] = g.id]
         /\ reqOld' = [reqOld EXCEPT ![h] = g.exp]
         /\ reqExp' = [reqExp EXCEPT ![h] = now + s]
    /\ reqNow' = [reqNow EXCEPT ![h] = now]
    /\ Goto(h, "extend")
    /\ UNCHANGED <<now, slots, avail, rowExp, lock, held>>

\* Mutant: the UPDATE does not compare the expiry with the client's.
Extensible_AnyExpiry(h) ==
    /\ rowExp[reqId[h]] > 0
    /\ reqOld[h] > reqNow[h]

Extensible(h) ==
    /\ rowExp[reqId[h]] = reqOld[h]
    /\ reqOld[h] > reqNow[h]

Extend(h) ==
    /\ pc[h] = "extend"
    /\ Extensible(h)
    /\ rowExp' = [rowExp EXCEPT ![reqId[h]] = reqExp[h]]
    /\ Goto(h, "read")
    /\ UNCHANGED <<now, slots, avail, lock, reqId, reqExp, reqOld, reqNow, held>>

ExtendRefused(h) ==
    /\ pc[h] = "extend"
    /\ ~Extensible(h)
    /\ Finish(h)
    /\ UNCHANGED <<now, slots, avail, rowExp, lock, held>>

\* read_socks5_config_by_username: the client gets the same credentials.
ReadConfig(h) ==
    /\ pc[h] = "read"
    /\ \E g \in held :
         /\ g.id = reqId[h] /\ g.exp = reqOld[h]
         /\ Grant(g.id, reqExp[h], g.shared)
    /\ Finish(h)
    /\ UNCHANGED <<now, slots, avail, rowExp, lock>>

-----------------------------------------------------------------------------
(* Faults, restarts, time.                                                 *)

\* A query fails, or the client goes away and the future is dropped at an
\* await: either way the request ends and releases the lock.
Abandon(h) ==
    /\ Faults \cap {"db", "disconnect"} # {}
    /\ pc[h] # "idle"
    /\ lock' = IF lock = h THEN NoHandler ELSE lock
    /\ Finish(h)
    /\ UNCHANGED <<now, slots, avail, rowExp, held>>

\* The process dies and starts again, perhaps with another PRIORITY_SLOTS.
Restart ==
    /\ "crash" \in Faults
    /\ slots' \in IF "reconfigure" \in Faults THEN PrioritySlots ELSE {slots}
    /\ lock' = NoHandler
    /\ pc' = [h \in Handlers |-> "idle"]
    /\ reqId' = [h \in Handlers |-> 0]
    /\ reqExp' = [h \in Handlers |-> 0]
    /\ reqOld' = [h \in Handlers |-> 0]
    /\ reqNow' = [h \in Handlers |-> 0]
    /\ UNCHANGED <<now, avail, rowExp, held>>

\* Unless "slow" is admitted a request ends before the lease it makes does.
Tick ==
    /\ now < MaxTime
    /\ "slow" \in Faults
         \/ \A h \in Handlers : pc[h] \in Allocating => now + 1 < reqExp[h]
    /\ now' = now + 1
    /\ UNCHANGED <<slots, avail, rowExp, lock, request, held>>

Request(h) ==
    \/ PrioritySelect(h) \/ PriorityNone(h) \/ PriorityMark(h)
    \/ CountSome(h) \/ NeedCleanup(h) \/ Cleanup(h)
    \/ LockAcquire(h) \/ LockTimeout(h) \/ Select(h) \/ Refuse(h) \/ Mark(h)
    \/ Extend(h) \/ ExtendRefused(h) \/ ReadConfig(h)

Next ==
    \/ \E h \in Handlers :
         AllocStart(h) \/ ExtendStart(h) \/ Request(h) \/ Abandon(h)
    \/ Restart
    \/ Tick

Spec == Init /\ [][Next]_vars

-----------------------------------------------------------------------------
(* Properties                                                              *)

\* The first rows that were not migrated as used, one per slot: the shared
\* pool of the first start.
SharedRows ==
    {i \in Rows \ Used : Cardinality({j \in Rows \ Used : j < i}) < slots}

\* Shared rows are "never marked unavailable" (socks5.rs:46): no exclusive
\* request takes one, although the pool is only a LIMIT over the rows that
\* happen to be available (socks5.rs:92-155).
SharedRowsAvailable == SharedRows \subseteq avail

\* The row an exclusive request has selected is still available when it is
\* marked: nobody takes it between SELECT and UPDATE (socks5.rs:101-149).
MarkOnAvailable ==
    \A h \in Handlers : pc[h] = "mark" => reqId[h] \in avail

\* A row leased exclusively stays unavailable, with an expiry no earlier than
\* promised, until the lease has expired: neither clean-up nor a concurrent
\* extension gives it away (socks5.rs:137-149, 159-192, 257-273).
ExclusiveKeepsRow ==
    \A g \in held : ~g.shared /\ g.exp > now =>
        g.id \notin avail /\ rowExp[g.id] >= g.exp

\* The pools do not mix: a credential leased exclusively was not, and is not,
\* handed to priority requests while a lease on it runs (socks5.rs:46, 91).
PoolsDisjoint ==
    \A f, g \in held :
        f.shared /\ ~g.shared /\ f.exp > now /\ g.exp > now => f.id # g.id

\* A request is refused for exhaustion only if every lease that had expired
\* when it cleaned up was given out again: no expired row is overlooked
\* (lease_manager.rs:203-212, socks5.rs:112-134).
RefusedOnlyWhenFull ==
    [][\A h \in Handlers : Refuse(h) =>
        \A i \in Rows \ avail : rowExp[i] > 0 => rowExp[i] > reqNow[h]]_vars

\* Exclusive SOCKS5 leases as a lease table: a row that is not available is a
\* lease, and the UPDATE that takes it completes the allocation.
Table == INSTANCE LeaseTable WITH
    Slots <- Rows \ Used, Free <- 0, now <- now, pending <- {},
    tab <- [i \in Rows \ Used |-> IF i \in avail THEN 0 ELSE rowExp[i]]

\* Whatever priority requests, clean-ups and extensions do beside it, the
\* exclusive pool is a lease table: only available rows are taken, only
\* expired ones released, and no step shortens a lease (socks5.rs:91-192,
\* 257-273).
ImplementsLeaseTable == Table!Spec
=============================================================================
