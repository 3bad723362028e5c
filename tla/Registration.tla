---------------------------- MODULE Registration ----------------------------
(***************************************************************************)
(* Registration with the mining pool: the retry loop main spawns at start, *)
(* the daemon that registers again every period, the probe leases each     *)
(* attempt takes, the pool's answers, and the bounded log in the database. *)
(*                                                                         *)
(* Time is counted in ticks of 30 s, and only as what is left of each      *)
(* delay, so that behaviours may go on for ever.                           *)
(***************************************************************************)
EXTENDS Naturals, Sequences, FiniteSets

CONSTANTS
    LeaseTicks,   \* a probe lease: 120 s
    RetryTicks,   \* the pause after a failed attempt: 30 s
    PostTicks,    \* the HTTP client's time-out: 60 s
    DaemonTicks,  \* DAEMON_INTERVAL_SECONDS
    Keep,         \* log entries kept: 200
    MaxDbFails    \* bound of the failing log statements

\* With a shorter period the daemon's ticks would pile up behind an attempt.
ASSUME TicksAssumption ==
    /\ LeaseTicks \in Nat \ {0} /\ RetryTicks \in Nat \ {0}
    /\ PostTicks \in Nat \ {0}
    /\ DaemonTicks \in Nat /\ DaemonTicks > PostTicks
ASSUME LogAssumption == Keep \in Nat \ {0} /\ MaxDbFails \in Nat

Loops == {"retry", "daemon"}
Kinds == {"wireguard", "socks5"}

VARIABLES
    pc,       \* where each loop stands
    wait,     \* ticks until the loop goes on, or until its POST times out
    period,   \* ticks until the daemon's ticker fires
    probes,   \* probe leases by kind and by ticks left
    pool,     \* the mining pool: down, rejects or accepts
    answer,   \* registered, as each loop's attempt was answered
    log,      \* worker_registration_log.success, in order of id
    recent,   \* the last Keep entries ever written
    dbFails   \* log statements that failed so far

vars == <<pc, wait, period, probes, pool, answer, log, recent, dbFails>>

TypeOK ==
    /\ pc \in [Loops -> {"sleep", "wg", "s5", "post", "insert", "trim", "done"}]
    /\ wait \in [Loops -> 0 .. RetryTicks + PostTicks]
    /\ period \in 0 .. DaemonTicks
    /\ probes \in [Kinds -> [1 .. LeaseTicks -> Nat]]
    /\ pool \in {"down", "rejects", "accepts"}
    /\ answer \in [Loops -> BOOLEAN]
    /\ log \in Seq(BOOLEAN)
    /\ recent \in Seq(BOOLEAN) /\ Len(recent) <= Keep
    /\ dbFails \in 0 .. MaxDbFails

Init ==
    /\ pc = [l \in Loops |-> "sleep"]
    /\ wait = [l \in Loops |-> 0]
    /\ period = DaemonTicks
    /\ probes = [k \in Kinds |-> [r \in 1 .. LeaseTicks |-> 0]]
    /\ pool \in {"down", "rejects", "accepts"}
    /\ answer = [l \in Loops |-> FALSE]
    /\ log = <<>>
    /\ recent = <<>>
    /\ dbFails = 0

-----------------------------------------------------------------------------
(* register_with_mining_pool, in either loop.                              *)

\* ORDER BY id DESC LIMIT Keep
Newest(s) == SubSeq(s, IF Len(s) < Keep THEN 1 ELSE Len(s) - Keep + 1, Len(s))

Goto(l, s) == pc' = [pc EXCEPT ![l] = s]

TakeProbe(k) == probes' = [probes EXCEPT ![k][LeaseTicks] = @ + 1]

\* The retry loop after its pause, the daemon when its ticker fires.
Begin(l) ==
    /\ pc[l] = "sleep" /\ wait[l] = 0
    /\ \/ l = "retry" /\ UNCHANGED period
       \/ l = "daemon" /\ period = 0 /\ period' = DaemonTicks
    /\ Goto(l, "wg")
    /\ UNCHANGED <<wait, probes, pool, answer, log, recent, dbFails>>

\* A WireGuard lease, unless the endpoint is unreachable or none can be had:
\* the attempt goes on without.
ProbeWireGuard(l) ==
    /\ pc[l] = "wg"
    /\ TakeProbe("wireguard") \/ UNCHANGED probes
    /\ Goto(l, "s5")
    /\ UNCHANGED <<wait, period, pool, answer, log, recent, dbFails>>

\* A SOCKS5 lease, or none; then the POST is sent.
ProbeSocks5(l) ==
    /\ pc[l] = "s5"
    /\ TakeProbe("socks5") \/ UNCHANGED probes
    /\ Goto(l, "post")
    /\ wait' = [wait EXCEPT ![l] = PostTicks]
    /\ UNCHANGED <<period, pool, answer, log, recent, dbFails>>

\* The attempt is over.  The retry loop ends only on success and pauses
\* otherwise, also after an error; the daemon waits for its ticker.
Over(l, registered) ==
    /\ Goto(l, IF l = "retry" /\ registered THEN "done" ELSE "sleep")
    /\ wait' = [wait EXCEPT ![l] = IF l = "retry" /\ ~registered
                                   THEN RetryTicks ELSE 0]
    /\ answer' = [answer EXCEPT ![l] = FALSE]

\* Mutant: success is not looked at when there is no registered.
PoolAnswers_RegisteredOnly(l) ==
    /\ pc[l] = "post" /\ pool # "down"
    /\ wait' = [wait EXCEPT ![l] = 0]
    /\ Goto(l, "insert")
    /\ UNCHANGED <<period, probes, pool, answer, log, recent, dbFails>>

\* A body the pool sends back is parsed for registered, or else success.
PoolAnswers(l) ==
    /\ pc[l] = "post" /\ pool # "down"
    /\ answer' = [answer EXCEPT ![l] = pool = "accepts"]
    /\ wait' = [wait EXCEPT ![l] = 0]
    /\ Goto(l, "insert")
    /\ UNCHANGED <<period, probes, pool, log, recent, dbFails>>

\* Mutant: the loop tries again without a pause.
PostFails_NoPause(l) ==
    /\ pc[l] = "post" /\ pool = "down"
    /\ Goto(l, "sleep")
    /\ wait' = [wait EXCEPT ![l] = 0]
    /\ UNCHANGED <<period, probes, pool, answer, log, recent, dbFails>>

\* No connection, the time-out, or a body that is no JSON: nothing is logged.
PostFails(l) ==
    /\ pc[l] = "post" /\ pool = "down"
    /\ Over(l, FALSE)
    /\ UNCHANGED <<period, probes, pool, log, recent, dbFails>>

\* insert_registration, first statement.
InsertLog(l) ==
    /\ pc[l] = "insert"
    /\ \/ /\ log' = Append(log, answer[l])
          /\ recent' = Newest(Append(recent, answer[l]))
          /\ UNCHANGED dbFails
       \/ /\ dbFails < MaxDbFails
          /\ dbFails' = dbFails + 1
          /\ UNCHANGED <<log, recent>>
    /\ Goto(l, "trim")
    /\ UNCHANGED <<wait, period, probes, pool, answer>>

\* Mutant: entries are deleted only once there are twice as many.
TrimLog_Late(l) ==
    /\ pc[l] = "trim"
    /\ log' = IF Len(log) > 2 * Keep + 2 THEN Newest(log) ELSE log
    /\ Over(l, answer[l])
    /\ UNCHANGED <<period, probes, pool, recent, dbFails>>

\* ... and the second; its error is ignored.
TrimLog(l) ==
    /\ pc[l] = "trim"
    /\ \/ log' = Newest(log) /\ UNCHANGED dbFails
       \/ dbFails < MaxDbFails /\ dbFails' = dbFails + 1 /\ UNCHANGED log
    /\ Over(l, answer[l])
    /\ UNCHANGED <<period, probes, pool, recent>>

-----------------------------------------------------------------------------
(* The pool, time.                                                         *)

PoolChanges ==
    /\ pool' \in {"down", "rejects", "accepts"} \ {pool}
    /\ UNCHANGED <<pc, wait, period, probes, answer, log, recent, dbFails>>

\* 30 s pass: a step that is due is taken first, leases run down.
Tick ==
    /\ \A l \in Loops :
         /\ pc[l] \in {"sleep", "post", "done"}
         /\ pc[l] = "post" => wait[l] > 0
         /\ pc[l] = "sleep" /\ wait[l] = 0 => l = "daemon" /\ period > 0
    /\ wait' = [l \in Loops |-> IF wait[l] > 0 THEN wait[l] - 1 ELSE 0]
    /\ period' = IF period > 0 THEN period - 1 ELSE 0
    /\ probes' = [k \in Kinds |-> [r \in 1 .. LeaseTicks |->
                    IF r = LeaseTicks THEN 0 ELSE probes[k][r + 1]]]
    /\ UNCHANGED <<pc, pool, answer, log, recent, dbFails>>

Attempt(l) ==
    \/ Begin(l) \/ ProbeWireGuard(l) \/ ProbeSocks5(l)
    \/ PoolAnswers(l) \/ PostFails(l) \/ InsertLog(l) \/ TrimLog(l)

Next == (\E l \in Loops : Attempt(l)) \/ PoolChanges \/ Tick

Spec == Init /\ [][Next]_vars

\* The tasks are polled, requests time out and time passes.  Nothing is
\* assumed of the pool.
FairSpec == Spec /\ WF_vars(Tick) /\ \A l \in Loops : WF_vars(Attempt(l))

-----------------------------------------------------------------------------
(* Properties                                                              *)

Live(k) == {r \in 1 .. LeaseTicks : probes[k][r] > 0}
Ceil(a, b) == (a + b - 1) \div b

\* However long registration fails, the probes hold no more slots of a kind
\* at a time than the retry loop and the daemon can take within one lease, and
\* no two of one loop in the same tick (main.rs:545, 559; mining_pool.rs:46-77).
ProbesBounded ==
    \A k \in Kinds :
        /\ Cardinality(Live(k)) <= Ceil(LeaseTicks, RetryTicks) + Ceil(LeaseTicks, DaemonTicks)
        /\ \A r \in 1 .. LeaseTicks : probes[k][r] <= 2

\* The log holds the newest entries, all of them up to Keep, although two
\* loops insert and delete at the same time, and exceeds Keep only by entries
\* whose DELETE is to come or failed (registration_log.rs:33-40; README:
\* the last 200 are kept).
LogKeepsNewest ==
    /\ Newest(log) = recent
    /\ Len(log) <= Keep + Cardinality({l \in Loops : pc[l] = "trim"}) + dbFails

\* If the pool accepts from some time on, the start-up registration succeeds,
\* after any number of failures (main.rs:524-546).
EventuallyRegistered == <>[](pool = "accepts") => <>(pc["retry"] = "done")
=============================================================================
