-------------------------- MODULE LeaseGateProofs --------------------------
(***************************************************************************)
(* Proofs about LeaseGate, for every number of requests and addresses and  *)
(* all times: types; that nobody is admitted who is neither local nor was  *)
(* the pool within TTL + MaxLag; and that the pool is not refused once it  *)
(* has kept its addresses that long.                                       *)
(*                                                                         *)
(* The invariant dates every list of addresses: an answer under way is as  *)
(* old as the moment the resolver gave it, a cached one at most MaxLag     *)
(* older than its entry.                                                   *)
(***************************************************************************)
EXTENDS LeaseGate, TLAPS

\* The pool had every address of ips at time t or later ...
HadSince(ips, t) ==
    \A a \in ips : a \in pool \/ (left[a] # Never /\ left[a] >= t)

\* ... and ips is all of the pool, unless the pool moved at time t or later.
CompleteAt(ips, t) == ips = pool \/ since >= t

AnswerInv ==
    \A h \in Handlers : pc[h] = "answered" =>
        /\ answer[h] \in PoolSets
        /\ asked[h] <= now /\ now <= asked[h] + MaxLag
        /\ HadSince(answer[h], asked[h])
        /\ CompleteAt(answer[h], asked[h])

\* The same of the entry, which expires at most TTL + MaxLag after its answer.
CacheInv ==
    cache # None =>
        /\ cache.exp <= now + TTL
        /\ \A a \in cache.ips :
             \/ a \in pool
             \/ left[a] # Never /\ left[a] + TTL + MaxLag >= cache.exp
        /\ cache.ips = pool \/ since + TTL + MaxLag >= cache.exp

GateInv == TypeOK /\ AnswerInv /\ CacheInv

\* What deciding a request does to it, whatever the addresses.
LEMMA DecideTypes ==
    ASSUME TypeOK, NEW h \in Handlers, NEW ips, Decide(h, ips)
    PROVE  /\ pc' = [pc EXCEPT ![h] = IF Admits(h, ips) THEN "admitted" ELSE "idle"]
           /\ caller' \in [Handlers -> Callers \cup {None}]
           /\ answer' = [answer EXCEPT ![h] = {}]
           /\ asked' = [asked EXCEPT ![h] = 0]
BY DEF TypeOK, Decide, Done, Goto

LEMMA GateInit == Init => GateInv
<1> SUFFICES ASSUME Init PROVE GateInv
    OBVIOUS
<1>1. TypeOK
    BY TimesAssumption DEF Init, TypeOK
<1>2. AnswerInv /\ CacheInv
    BY DEF Init, AnswerInv, CacheInv
<1> QED
    BY <1>1, <1>2 DEF GateInv

\* A step that leaves the clock and the world alone keeps the invariant when
\* it brings neither a new answer nor a new cache entry.
LEMMA QuietStep ==
    ASSUME GateInv, TypeOK', UNCHANGED <<now, world>>,
           cache' \in {cache, None},
           \A h \in Handlers : pc'[h] = "answered" =>
               UNCHANGED <<pc[h], answer[h], asked[h]>>
    PROVE  GateInv'
<1> USE DEF GateInv, TypeOK, world
<1>1. AnswerInv'
    BY DEF AnswerInv, HadSince, CompleteAt, PoolSets
<1>2. CacheInv'
    BY DEF CacheInv
<1> QED
    BY <1>1, <1>2

\* A step of a request keeps the invariant.
LEMMA GateRequest ==
    ASSUME GateInv, NEW h \in Handlers, Receive(h) \/ Request(h)
    PROVE  GateInv'
<1> USE TimesAssumption, NeverAssumption
<1> TypeOK /\ AnswerInv /\ CacheInv
    BY DEF GateInv
<1>1. CASE Receive(h) \/ CacheExpired(h) \/ CacheRemove(h) \/ CacheMiss(h)
           \/ Reject(h) \/ Serve(h)
    <2>1. TypeOK'
        BY <1>1 DEF TypeOK, Receive, CacheExpired, CacheRemove, CacheMiss, Reject,
                    Serve, Done, Goto, world
    <2>2. /\ UNCHANGED <<now, world>> /\ cache' \in {cache, None}
          /\ \A x \in Handlers : pc'[x] = "answered" =>
               UNCHANGED <<pc[x], answer[x], asked[x]>>
        BY <1>1 DEF TypeOK, Receive, CacheExpired, CacheRemove, CacheMiss, Reject,
                    Serve, Done, Goto
    <2> QED
        BY <2>1, <2>2, QuietStep
<1>2. CASE UseLiteral(h) \/ CacheHit(h) \/ LookupFails(h)
    <2>1. PICK ips : UNCHANGED <<now, world, cache>> /\ Decide(h, ips)
        BY <1>2 DEF UseLiteral, CacheHit, LookupFails
    <2>2. TypeOK'
        BY <2>1, DecideTypes DEF TypeOK, world
    <2>3. \A x \in Handlers : pc'[x] = "answered" =>
            UNCHANGED <<pc[x], answer[x], asked[x]>>
        BY <2>1, DecideTypes DEF TypeOK
    <2> QED
        BY <2>1, <2>2, <2>3, QuietStep
<1>3. CASE ResolverAnswers(h)
    <2>1. TypeOK'
        BY <1>3 DEF TypeOK, ResolverAnswers, Goto, world, PoolSets
    <2>2. AnswerInv'
        BY <1>3 DEF TypeOK, ResolverAnswers, Goto, world, AnswerInv, HadSince,
                    CompleteAt
    <2>3. CacheInv'
        BY <1>3 DEF ResolverAnswers, world, CacheInv
    <2> QED
        BY <2>1, <2>2, <2>3 DEF GateInv
<1>4. CASE LookupReturns(h)
    <2> DEFINE ips == answer[h]
    <2>1. /\ pc[h] = "answered" /\ UNCHANGED <<now, world>>
          /\ cache' = [ips |-> ips, exp |-> now + TTL] /\ Decide(h, ips)
        BY <1>4 DEF LookupReturns, Entry
    <2>2. /\ ips \in PoolSets /\ now <= asked[h] + MaxLag
          /\ HadSince(ips, asked[h]) /\ CompleteAt(ips, asked[h])
        BY <2>1 DEF AnswerInv
    <2>3. TypeOK'
        BY <2>1, <2>2, DecideTypes DEF TypeOK, world
    <2>4. AnswerInv'
        BY <2>1, DecideTypes DEF TypeOK, world, AnswerInv, HadSince, CompleteAt
    <2>5. CacheInv'
        <3>1. \A a \in ips : a \in pool
                \/ (left[a] # Never /\ left[a] + TTL + MaxLag >= now + TTL)
            BY <2>2 DEF HadSince, PoolSets, TypeOK
        <3>2. ips = pool \/ since + TTL + MaxLag >= now + TTL
            BY <2>2 DEF CompleteAt, TypeOK
        <3> QED
            BY <2>1, <3>1, <3>2 DEF CacheInv, world, TypeOK
    <2> QED
        BY <2>3, <2>4, <2>5 DEF GateInv
<1> QED
    BY <1>1, <1>2, <1>3, <1>4 DEF Request

\* So does a move of the pool, a restart, the clock, or no step.
LEMMA GateOther ==
    ASSUME GateInv, PoolMoves \/ Restart \/ Tick \/ UNCHANGED vars
    PROVE  GateInv'
<1> USE TimesAssumption, NeverAssumption
<1> TypeOK /\ AnswerInv /\ CacheInv
    BY DEF GateInv
<1>1. CASE PoolMoves
    <2>1. TypeOK'
        BY <1>1 DEF TypeOK, PoolMoves, request
    <2>2. /\ \A a \in Addrs : left'[a] = IF a \in pool THEN now ELSE left[a]
          /\ since' = now /\ UNCHANGED <<now, cache, request>>
        BY <1>1 DEF PoolMoves
    <2>3. AnswerInv'
        BY <2>2 DEF TypeOK, AnswerInv, HadSince, CompleteAt, PoolSets, request
    <2>4. CacheInv'
        BY <2>2 DEF TypeOK, CacheInv, PoolSets
    <2> QED
        BY <2>1, <2>3, <2>4 DEF GateInv
<1>2. CASE Restart
    <2>1. TypeOK'
        BY <1>2 DEF TypeOK, Restart, world
    <2> QED
        BY <1>2, <2>1, QuietStep DEF Restart
<1>3. CASE Tick
    <2>1. TypeOK'
        BY <1>3 DEF TypeOK, Tick, world, request
    <2>2. AnswerInv'
        BY <1>3 DEF Tick, TypeOK, AnswerInv, HadSince, CompleteAt, world, request
    <2>3. CacheInv'
        BY <1>3 DEF Tick, CacheInv, world, TypeOK
    <2> QED
        BY <2>1, <2>2, <2>3 DEF GateInv
<1>4. CASE UNCHANGED vars
    BY <1>4 DEF vars, world, request, GateInv, TypeOK, AnswerInv, CacheInv,
                HadSince, CompleteAt
<1> QED
    BY <1>1, <1>2, <1>3, <1>4

LEMMA GateStep == GateInv /\ [Next]_vars => GateInv'
BY GateRequest, GateOther DEF Next

\* Every variable keeps its type.
THEOREM TypeCorrect == Spec => []TypeOK
<1>1. GateInv => TypeOK
    BY DEF GateInv
<1> QED
    BY <1>1, GateInit, GateStep, PTL DEF Spec

\* Only UseLiteral, CacheHit and the return of a lookup admit a caller, or
\* refuse one that has not been told of a failed lookup; they decide on the
\* pool's address, on an unexpired entry or on an answer that has arrived.
LEMMA DecisionStep ==
    ASSUME GateInv, [Next]_vars, NEW h \in Handlers, pc'[h] # pc[h],
           pc'[h] = "admitted" \/ (pc[h] \in {"get", "answered"} /\ pc'[h] = "idle")
    PROVE  \/ Restart
           \/ LookupFails(h) /\ Decide(h, {})
           \/ UseLiteral(h) /\ Decide(h, pool)
           \/ CacheHit(h) /\ cache # None /\ now <= cache.exp /\ Decide(h, cache.ips)
           \/ LookupReturns(h) /\ pc[h] = "answered" /\ Decide(h, answer[h])
<1> TypeOK
    BY DEF GateInv
<1>1. ASSUME NEW x \in Handlers, Receive(x) \/ Request(x)
      PROVE  \/ Receive(h) \/ Request(h)
             \/ pc'[h] = pc[h]
    <2>1. CASE x = h
        BY <1>1, <2>1
    <2>2. CASE x # h
        <3>1. CASE \E ips : Decide(x, ips)
            BY <2>2, <3>1, DecideTypes DEF TypeOK
        <3>2. CASE ~\E ips : Decide(x, ips)
            BY <1>1, <2>2, <3>2
               DEF TypeOK, Receive, Request, UseLiteral, CacheHit, CacheExpired,
                   CacheRemove, CacheMiss, ResolverAnswers, LookupReturns,
                   LookupFails, Reject, Serve, Done, Goto
        <3> QED
            BY <3>1, <3>2
    <2> QED
        BY <2>1, <2>2
<1>2. PoolMoves \/ Tick \/ UNCHANGED vars => pc' = pc
    BY DEF PoolMoves, Tick, vars, request
<1>3. Receive(h) \/ Request(h) \/ Restart
    BY <1>1, <1>2 DEF Next
<1>4. CASE Receive(h) \/ CacheExpired(h) \/ CacheRemove(h) \/ CacheMiss(h)
           \/ ResolverAnswers(h) \/ Reject(h) \/ Serve(h)
    BY <1>4 DEF TypeOK, Receive, CacheExpired, CacheRemove, CacheMiss,
                ResolverAnswers, Reject, Serve, Done, Goto
<1>5. CASE Restart \/ LookupFails(h) \/ UseLiteral(h) \/ CacheHit(h)
           \/ LookupReturns(h)
    BY <1>5 DEF LookupFails, UseLiteral, CacheHit, LookupReturns
<1> QED
    BY <1>3, <1>4, <1>5 DEF Request

\* A caller is admitted only if it is local, or has or lately had an address of
\* the pool: for every number of concurrent requests, answers that arrive out
\* of order, restarts and moves of the pool.
THEOREM AdmittedWasPoolCorrect == Spec => AdmittedWasPool
<1> DEFINE Admitted ==
        \A h \in Handlers :
            pc[h] # "admitted" /\ pc'[h] = "admitted" =>
                caller[h] \in Local \/ WasPool(caller[h])
<1>1. GateInv /\ [Next]_vars => Admitted
    <2> SUFFICES ASSUME GateInv, [Next]_vars, NEW h \in Handlers,
                        pc[h] # "admitted", pc'[h] = "admitted"
                 PROVE  caller[h] \in Local \/ WasPool(caller[h])
        OBVIOUS
    <2> USE TimesAssumption, NeverAssumption
    <2>1. TypeOK /\ AnswerInv /\ CacheInv
        BY DEF GateInv
    <2>2. \A ips : Decide(h, ips) => caller[h] \in ips \cup Local
        BY <2>1, DecideTypes DEF Admits, TypeOK
    <2>3. ~Restart
        BY DEF Restart
    <2>4. CASE Decide(h, pool) \/ Decide(h, {})
        BY <2>2, <2>4 DEF WasPool
    <2>5. CASE cache # None /\ now <= cache.exp /\ Decide(h, cache.ips)
        <3>1. cache.ips \in PoolSets /\ cache.exp \in Nat
            BY <2>1, <2>5 DEF TypeOK
        <3> QED
            BY <2>1, <2>2, <2>5, <3>1 DEF CacheInv, WasPool, TypeOK, PoolSets
    <2>6. CASE pc[h] = "answered" /\ Decide(h, answer[h])
        BY <2>1, <2>2, <2>6 DEF AnswerInv, HadSince, WasPool, TypeOK, PoolSets
    <2> QED
        BY <2>3, <2>4, <2>5, <2>6, DecisionStep
<1> QED
    BY <1>1, GateInit, GateStep, PTL DEF Spec, AdmittedWasPool

\* The pool is refused only for a lookup of this request that failed, once it
\* has kept its addresses for TTL + MaxLag.
THEOREM PoolNotRefusedCorrect == Spec => PoolNotRefused
<1> DEFINE NotRefused ==
        \A h \in Handlers :
            /\ pc[h] \in {"get", "answered"} /\ pc'[h] = "idle"
            /\ caller[h] \in pool
            /\ since + TTL + MaxLag < now
            => Restart
<1>1. GateInv /\ [Next]_vars => NotRefused
    <2> SUFFICES ASSUME GateInv, [Next]_vars, NEW h \in Handlers,
                        pc[h] \in {"get", "answered"}, pc'[h] = "idle",
                        caller[h] \in pool, since + TTL + MaxLag < now
                 PROVE  Restart
        OBVIOUS
    <2> USE TimesAssumption
    <2>1. TypeOK /\ AnswerInv /\ CacheInv
        BY DEF GateInv
    <2>2. ~Decide(h, pool)
        BY <2>1, DecideTypes DEF Admits, TypeOK
    <2>3. ~LookupFails(h)
        BY DEF LookupFails
    <2>4. cache # None /\ now <= cache.exp => cache.ips = pool
        BY <2>1 DEF CacheInv, TypeOK
    <2>5. pc[h] = "answered" => answer[h] = pool
        BY <2>1 DEF AnswerInv, CompleteAt, TypeOK
    <2> QED
        BY <2>2, <2>3, <2>4, <2>5, DecisionStep
<1> QED
    BY <1>1, GateInit, GateStep, PTL DEF Spec, PoolNotRefused
=============================================================================
