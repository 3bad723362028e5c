------------------------------ MODULE LeaseGate ------------------------------
(***************************************************************************)
(* The caller check in front of the lease endpoint: a lease is given only  *)
(* to local callers and to the mining pool, which is recognised by the     *)
(* addresses its host name resolves to.  Requests share a cache of the     *)
(* resolved addresses; the pool may move while answers are under way or    *)
(* cached.                                                                 *)
(*                                                                         *)
(* Cache operations are steps of their own, since requests run on several  *)
(* threads; the decision follows in the same poll as the addresses.        *)
(***************************************************************************)
EXTENDS Naturals, FiniteSets

CONSTANTS
    Handlers,    \* requests that may be in flight at the same time
    Addrs,       \* addresses a pool can have and callers come from
    Local,       \* local addresses, always admitted
    TTL,         \* DNS_CACHE_TTL
    MaxLag,      \* longest time from a resolver's answer to its use
    MaxTime,     \* bound of the clock
    None, Never

ASSUME TimesAssumption == TTL \in Nat /\ MaxLag \in Nat /\ MaxTime \in Nat
ASSUME LocalAssumption == Local \cap Addrs = {}
ASSUME NeverAssumption == Never \notin Nat

VARIABLES
    now,         \* Instant::now()
    literal,     \* MINING_POOL_URL names an address, not a host
    pool,        \* the addresses the pool has, and its name resolves to
    since,       \* when the pool moved there
    left,        \* per address, when the pool last had it
    cache,       \* the cached addresses and their expiry, or None
    pc,          \* where each request stands
    caller,      \* its source address
    answer,      \* the resolver's answer to it
    asked        \* when the resolver gave it

world == <<literal, pool, since, left>>
request == <<pc, caller, answer, asked>>
vars == <<now, world, cache, request>>

PoolSets == SUBSET Addrs \ {{}}
Callers == Addrs \cup Local

TypeOK ==
    /\ now \in 0 .. MaxTime /\ since \in 0 .. MaxTime
    /\ literal \in BOOLEAN
    /\ pool \in PoolSets
    /\ left \in [Addrs -> (0 .. MaxTime) \cup {Never}]
    /\ cache = None \/ cache \in [ips : PoolSets, exp : Nat]
    /\ pc \in [Handlers -> {"idle", "get", "remove", "lookup", "answered",
                            "admitted"}]
    /\ caller \in [Handlers -> Callers \cup {None}]
    /\ answer \in [Handlers -> SUBSET Addrs]
    /\ asked \in [Handlers -> 0 .. MaxTime]

Init ==
    /\ now = 0
    /\ literal \in BOOLEAN
    /\ pool \in PoolSets
    /\ literal => Cardinality(pool) = 1
    /\ since = 0
    /\ left = [a \in Addrs |-> Never]
    /\ cache = None
    /\ pc = [h \in Handlers |-> "idle"]
    /\ caller = [h \in Handlers |-> None]
    /\ answer = [h \in Handlers |-> {}]
    /\ asked = [h \in Handlers |-> 0]

-----------------------------------------------------------------------------
(* The request.                                                            *)

Goto(h, l) == pc' = [pc EXCEPT ![h] = l]

\* The request ends; its local variables go out of scope.
Done(h) ==
    /\ Goto(h, "idle")
    /\ caller' = [caller EXCEPT ![h] = None]
    /\ answer' = [answer EXCEPT ![h] = {}]
    /\ asked' = [asked EXCEPT ![h] = 0]

Admits(h, ips) == caller[h] \in ips \cup Local

\* Admitted callers go on, the others get 401.
Decide(h, ips) ==
    IF Admits(h, ips)
    THEN /\ Goto(h, "admitted")
         /\ answer' = [answer EXCEPT ![h] = {}]
         /\ asked' = [asked EXCEPT ![h] = 0]
         /\ UNCHANGED caller
    ELSE Done(h)

Receive(h) ==
    /\ pc[h] = "idle"
    /\ \E a \in Callers : caller' = [caller EXCEPT ![h] = a]
    /\ Goto(h, "get")
    /\ UNCHANGED <<now, world, cache, answer, asked>>

\* An address needs no resolver.
UseLiteral(h) ==
    /\ pc[h] = "get" /\ literal
    /\ Decide(h, pool)
    /\ UNCHANGED <<now, world, cache>>

\* Mutants: an expired entry is used; a hit renews the entry.
CacheHit_Expired(h) ==
    /\ pc[h] = "get" /\ ~literal
    /\ cache # None
    /\ Decide(h, cache.ips)
    /\ UNCHANGED <<now, world, cache>>

CacheHit_Renews(h) ==
    /\ pc[h] = "get" /\ ~literal
    /\ cache # None /\ now <= cache.exp
    /\ Decide(h, cache.ips)
    /\ cache' = [cache EXCEPT !.exp = now + TTL]
    /\ UNCHANGED <<now, world>>

CacheHit(h) ==
    /\ pc[h] = "get" /\ ~literal
    /\ cache # None /\ now <= cache.exp
    /\ Decide(h, cache.ips)
    /\ UNCHANGED <<now, world, cache>>

\* An expired entry is let go of, to be removed in a second step.
CacheExpired(h) ==
    /\ pc[h] = "get" /\ ~literal
    /\ cache # None /\ now > cache.exp
    /\ Goto(h, "remove")
    /\ UNCHANGED <<now, world, cache, caller, answer, asked>>

\* Whatever is there by then is removed.
CacheRemove(h) ==
    /\ pc[h] = "remove"
    /\ cache' = None
    /\ Goto(h, "lookup")
    /\ UNCHANGED <<now, world, caller, answer, asked>>

CacheMiss(h) ==
    /\ pc[h] = "get" /\ ~literal
    /\ cache = None
    /\ Goto(h, "lookup")
    /\ UNCHANGED <<now, world, cache, caller, answer, asked>>

\* The resolver answers; the answer is under way.
ResolverAnswers(h) ==
    /\ pc[h] = "lookup"
    /\ answer' = [answer EXCEPT ![h] = pool]
    /\ asked' = [asked EXCEPT ![h] = now]
    /\ Goto(h, "answered")
    /\ UNCHANGED <<now, world, cache, caller>>

\* set: the addresses, with their expiry.
Entry(ips) == [ips |-> ips, exp |-> now + TTL]

\* lookup_host returns: cache the addresses and decide.
LookupReturns(h) ==
    /\ pc[h] = "answered"
    /\ cache' = Entry(answer[h])
    /\ Decide(h, answer[h])
    /\ UNCHANGED <<now, world>>

\* No answer, or none with an IPv4 address: the list is empty.
LookupFails(h) ==
    /\ pc[h] = "lookup"
    /\ Decide(h, {})
    /\ UNCHANGED <<now, world, cache>>

\* A parameter is missing or invalid (400), or an extension comes without the
\* token of its lease (401; Settings).
Reject(h) ==
    /\ pc[h] = "admitted"
    /\ Done(h)
    /\ UNCHANGED <<now, world, cache>>

\* The lease is made, extended or refused (WgLease, Socks5Lease), and the
\* answer sent with the lease's token.
Serve(h) ==
    /\ pc[h] = "admitted"
    /\ Done(h)
    /\ UNCHANGED <<now, world, cache>>

-----------------------------------------------------------------------------
(* The pool, the process, time.                                            *)

\* The pool changes its addresses.
PoolMoves ==
    /\ ~literal
    /\ pool' \in PoolSets \ {pool}
    /\ since' = now
    /\ left' = [a \in Addrs |-> IF a \in pool THEN now ELSE left[a]]
    /\ UNCHANGED <<now, literal, cache, request>>

Restart ==
    /\ cache' = None
    /\ pc' = [h \in Handlers |-> "idle"]
    /\ caller' = [h \in Handlers |-> None]
    /\ answer' = [h \in Handlers |-> {}]
    /\ asked' = [h \in Handlers |-> 0]
    /\ UNCHANGED <<now, world>>

\* An answer is used within MaxLag.
Tick ==
    /\ now < MaxTime
    /\ \A h \in Handlers : pc[h] = "answered" => now < asked[h] + MaxLag
    /\ now' = now + 1
    /\ UNCHANGED <<world, cache, request>>

Request(h) ==
    \/ UseLiteral(h) \/ CacheHit(h) \/ CacheExpired(h) \/ CacheRemove(h)
    \/ CacheMiss(h) \/ ResolverAnswers(h) \/ LookupReturns(h) \/ LookupFails(h)
    \/ Reject(h) \/ Serve(h)

Next ==
    \/ \E h \in Handlers : Receive(h) \/ Request(h)
    \/ PoolMoves \/ Restart \/ Tick

Spec == Init /\ [][Next]_vars

-----------------------------------------------------------------------------
(* Properties                                                              *)

\* The pool has address a, or had it at most TTL + MaxLag ago.
WasPool(a) ==
    a \in pool \/ (left[a] # Never /\ left[a] + TTL + MaxLag >= now)

\* A caller is admitted only if its address is local, or is or lately was the
\* pool's: expired entries are not used, and answers that arrive late or out
\* of order do not keep an old address alive (lease.rs:42-72, dns.rs:61-93,
\* cache.rs:26-36).
AdmittedWasPool ==
    [][\A h \in Handlers :
        pc[h] # "admitted" /\ pc'[h] = "admitted" =>
            caller[h] \in Local \/ WasPool(caller[h])]_vars

\* The pool is not refused once it has kept its addresses for TTL + MaxLag,
\* unless this very request's lookup fails: no old entry, late answer, earlier
\* failure or lost cache entry keeps it out (lease.rs:55-71, dns.rs:74-92).
PoolNotRefused ==
    [][\A h \in Handlers :
        /\ pc[h] \in {"get", "answered"} /\ pc'[h] = "idle"
        /\ caller[h] \in pool
        /\ since + TTL + MaxLag < now
        => Restart]_vars
=============================================================================
