------------------------- MODULE RegistrationProofs -------------------------
(***************************************************************************)
(* Proofs about Registration, for every length of lease, pause, period and *)
(* time-out and every size of the log: types; that the log keeps the       *)
(* newest entries; and how many slots the probes hold.                     *)
(***************************************************************************)
EXTENDS Registration, FiniteSetTheorems, SequenceTheorems, TLAPS

USE TicksAssumption, LogAssumption

-----------------------------------------------------------------------------
(* Types.                                                                  *)

LEMMA NewestHas ==
    ASSUME NEW s \in Seq(BOOLEAN)
    PROVE  /\ Newest(s) \in Seq(BOOLEAN)
           /\ Len(Newest(s)) = IF Len(s) < Keep THEN Len(s) ELSE Keep
           /\ \A i \in 1 .. Len(Newest(s)) :
                Newest(s)[i] = s[Len(s) - Len(Newest(s)) + i]
<1>1. Len(s) \in Nat /\ Keep \in Nat /\ Keep # 0
    OBVIOUS
<1>2. CASE Len(s) < Keep
    <2>1. Newest(s) = SubSeq(s, 1, Len(s))
        BY <1>2 DEF Newest
    <2>2. Newest(s) = s
        BY <2>1
    <2>3. \A i \in 1 .. Len(s) : Len(s) - Len(s) + i = i
        BY <1>1
    <2> QED
        BY <1>1, <1>2, <2>2, <2>3
<1>3. CASE ~(Len(s) < Keep)
    <2>1. Newest(s) = SubSeq(s, Len(s) - Keep + 1, Len(s))
        BY <1>3 DEF Newest
    <2>2. Len(s) - Keep + 1 \in 1 .. Len(s) + 1
        BY <1>1, <1>3
    <2> QED
        BY <1>1, <1>3, <2>1, <2>2
<1> QED
    BY <1>2, <1>3

LEMMA NewestShort ==
    ASSUME NEW s \in Seq(BOOLEAN)
    PROVE  Newest(s) \in Seq(BOOLEAN) /\ Len(Newest(s)) \in Nat /\ Len(Newest(s)) <= Keep
<1>1. Len(s) \in Nat /\ Newest(s) \in Seq(BOOLEAN)
    BY NewestHas
<1>2. Len(Newest(s)) = IF Len(s) < Keep THEN Len(s) ELSE Keep
    BY NewestHas
<1> QED
    BY <1>1, <1>2

\* Older entries do not matter to what the newest are.
LEMMA NewestAppend ==
    ASSUME NEW s \in Seq(BOOLEAN), NEW x \in BOOLEAN
    PROVE  Newest(Append(s, x)) = Newest(Append(Newest(s), x))
<1> DEFINE a == Append(s, x)
           b == Append(Newest(s), x)
<1>1. /\ Len(s) \in Nat /\ a \in Seq(BOOLEAN) /\ Len(a) = Len(s) + 1
      /\ a[Len(s) + 1] = x /\ \A i \in 1 .. Len(s) : a[i] = s[i]
    OBVIOUS
<1>2. /\ Newest(s) \in Seq(BOOLEAN) /\ Len(Newest(s)) \in Nat
      /\ Len(Newest(s)) = IF Len(s) < Keep THEN Len(s) ELSE Keep
      /\ \A i \in 1 .. Len(Newest(s)) : Newest(s)[i] = s[Len(s) - Len(Newest(s)) + i]
    BY NewestHas
<1>3. /\ b \in Seq(BOOLEAN) /\ Len(b) = Len(Newest(s)) + 1
      /\ b[Len(Newest(s)) + 1] = x
      /\ \A i \in 1 .. Len(Newest(s)) : b[i] = Newest(s)[i]
    BY <1>2
<1> HIDE DEF a, b
<1>4. \A i \in 1 .. Len(b) : b[i] = a[Len(a) - Len(b) + i]
    <2> SUFFICES ASSUME NEW i \in 1 .. Len(b) PROVE b[i] = a[Len(a) - Len(b) + i]
        OBVIOUS
    <2>1. CASE i = Len(b)
        <3>1. Len(a) - Len(b) + i = Len(s) + 1
            <4>1. Len(a) = Len(s) + 1 /\ Len(s) \in Nat /\ Len(b) \in Nat
                BY <1>1, <1>3
            <4> QED
                BY ONLY <2>1, <4>1
        <3>2. b[i] = x
            BY <1>3, <2>1, Zenon
        <3> QED
            BY <1>1, <3>1, <3>2
    <2>2. CASE i # Len(b)
        <3>1. i \in 1 .. Len(Newest(s))
            BY <1>2, <1>3, <2>2
        <3>2. Len(s) - Len(Newest(s)) + i \in 1 .. Len(s)
            BY <1>1, <1>2, <3>1
        <3>3. Len(a) - Len(b) + i = Len(s) - Len(Newest(s)) + i
            BY <1>1, <1>2, <1>3
        <3>4. b[i] = s[Len(s) - Len(Newest(s)) + i]
            BY <1>2, <1>3, <3>1
        <3> QED
            BY <1>1, <3>2, <3>3, <3>4
    <2> QED
        BY <2>1, <2>2
<1>5. /\ Newest(a) \in Seq(BOOLEAN)
      /\ Len(Newest(a)) = IF Len(a) < Keep THEN Len(a) ELSE Keep
      /\ \A i \in 1 .. Len(Newest(a)) : Newest(a)[i] = a[Len(a) - Len(Newest(a)) + i]
    BY <1>1, NewestHas
<1>6. /\ Newest(b) \in Seq(BOOLEAN)
      /\ Len(Newest(b)) = IF Len(b) < Keep THEN Len(b) ELSE Keep
      /\ \A i \in 1 .. Len(Newest(b)) : Newest(b)[i] = b[Len(b) - Len(Newest(b)) + i]
    BY <1>3, NewestHas
<1>7. Len(Newest(a)) = Len(Newest(b)) /\ Len(Newest(b)) \in Nat /\ Len(Newest(b)) <= Len(b)
    BY <1>1, <1>2, <1>3, <1>5, <1>6
<1>8. \A i \in 1 .. Len(Newest(b)) : Newest(a)[i] = Newest(b)[i]
    <2> SUFFICES ASSUME NEW i \in 1 .. Len(Newest(b)) PROVE Newest(a)[i] = Newest(b)[i]
        OBVIOUS
    <2> DEFINE j == Len(b) - Len(Newest(b)) + i
    <2>1. j \in 1 .. Len(b) /\ Len(a) - Len(b) + j = Len(a) - Len(Newest(a)) + i
        <3>1. Len(a) \in Nat /\ Len(b) \in Nat /\ i \in Nat
            BY <1>1, <1>2, <1>3
        <3> QED
            BY ONLY <1>7, <3>1, i \in 1 .. Len(Newest(b))
    <2>2. Newest(b)[i] = b[j] /\ Newest(a)[i] = a[Len(a) - Len(Newest(a)) + i]
        BY <1>5, <1>6, <1>7
    <2> HIDE DEF j
    <2>3. b[j] = a[Len(a) - Len(b) + j]
        BY <1>4, <2>1
    <2> QED
        BY <2>1, <2>2, <2>3, Zenon
<1>9. Newest(a) = Newest(b)
    BY <1>5, <1>6, <1>7, <1>8, SeqEqual
<1> QED
    BY <1>9 DEF a, b

LEMMA NewestOfNewest ==
    ASSUME NEW s \in Seq(BOOLEAN)
    PROVE  Newest(Newest(s)) = Newest(s)
<1>1. /\ Newest(s) \in Seq(BOOLEAN) /\ Len(Newest(s)) \in Nat /\ Len(Newest(s)) <= Keep
    BY NewestHas
<1>2. /\ Newest(Newest(s)) \in Seq(BOOLEAN)
      /\ Len(Newest(Newest(s))) = Len(Newest(s))
      /\ \A i \in 1 .. Len(Newest(s)) :
           Newest(Newest(s))[i] = Newest(s)[Len(Newest(s)) - Len(Newest(s)) + i]
    BY <1>1, NewestHas
<1>3. \A i \in 1 .. Len(Newest(s)) : Newest(Newest(s))[i] = Newest(s)[i]
    BY <1>1, <1>2
<1> QED
    BY <1>1, <1>2, <1>3, SeqEqual

\* Every step keeps the types.
LEMMA TypeStep ==
    ASSUME TypeOK, [Next]_vars
    PROVE  TypeOK'
<1> USE DEF TypeOK
<1>1. ASSUME NEW l \in Loops, Begin(l)
      PROVE  TypeOK'
    BY <1>1 DEF Begin, Goto
<1>2. ASSUME NEW l \in Loops, ProbeWireGuard(l) \/ ProbeSocks5(l)
      PROVE  TypeOK'
    <2>1. ASSUME NEW k \in Kinds, TakeProbe(k)
          PROVE  probes' \in [Kinds -> [1 .. LeaseTicks -> Nat]]
        BY <2>1 DEF TakeProbe
    <2>2. "wireguard" \in Kinds /\ "socks5" \in Kinds
        BY DEF Kinds
    <2>3. probes' \in [Kinds -> [1 .. LeaseTicks -> Nat]]
        BY <1>2, <2>1, <2>2 DEF ProbeWireGuard, ProbeSocks5
    <2>4. CASE ProbeWireGuard(l)
        BY <2>3, <2>4 DEF ProbeWireGuard, Goto
    <2>5. CASE ProbeSocks5(l)
        <3>1. PostTicks \in 0 .. RetryTicks + PostTicks
            OBVIOUS
        <3>2. wait' \in [Loops -> 0 .. RetryTicks + PostTicks]
            BY <2>5, <3>1 DEF ProbeSocks5
        <3> QED
            BY <2>3, <2>5, <3>2 DEF ProbeSocks5, Goto
    <2> QED
        BY <1>2, <2>4, <2>5
<1>3. ASSUME NEW l \in Loops, NEW x \in BOOLEAN, Over(l, x)
      PROVE  /\ pc' \in [Loops -> {"sleep", "wg", "s5", "post", "insert", "trim", "done"}]
             /\ wait' \in [Loops -> 0 .. RetryTicks + PostTicks]
             /\ answer' \in [Loops -> BOOLEAN]
    BY <1>3 DEF Over, Goto
<1>4. ASSUME NEW l \in Loops, PoolAnswers(l) \/ PostFails(l)
      PROVE  TypeOK'
    <2>1. CASE PoolAnswers(l)
        BY <2>1 DEF PoolAnswers, Goto
    <2>2. CASE PostFails(l)
        BY <1>3, <2>2 DEF PostFails
    <2> QED
        BY <1>4, <2>1, <2>2
<1>5. ASSUME NEW l \in Loops, InsertLog(l)
      PROVE  TypeOK'
    <2>1. answer[l] \in BOOLEAN
        OBVIOUS
    <2>2. /\ Append(log, answer[l]) \in Seq(BOOLEAN)
          /\ Append(recent, answer[l]) \in Seq(BOOLEAN)
        BY <2>1
    <2>3. /\ Newest(Append(recent, answer[l])) \in Seq(BOOLEAN)
          /\ Len(Newest(Append(recent, answer[l]))) <= Keep
        BY <2>2, NewestShort
    <2>4. /\ log' \in Seq(BOOLEAN) /\ recent' \in Seq(BOOLEAN) /\ Len(recent') <= Keep
          /\ dbFails' \in 0 .. MaxDbFails
        <3>1. CASE /\ log' = Append(log, answer[l]) /\ dbFails' = dbFails
                   /\ recent' = Newest(Append(recent, answer[l]))
            BY <2>2, <2>3, <3>1, Zenon
        <3>2. CASE dbFails < MaxDbFails /\ dbFails' = dbFails + 1 /\ UNCHANGED <<log, recent>>
            BY <3>2
        <3> QED
            BY <1>5, <3>1, <3>2 DEF InsertLog
    <2> QED
        BY <1>5, <2>4 DEF InsertLog, Goto
<1>6. ASSUME NEW l \in Loops, TrimLog(l)
      PROVE  TypeOK'
    <2>1. log' \in Seq(BOOLEAN) /\ dbFails' \in 0 .. MaxDbFails
        <3>1. CASE log' = Newest(log) /\ dbFails' = dbFails
            BY <3>1, NewestShort
        <3>2. CASE dbFails < MaxDbFails /\ dbFails' = dbFails + 1 /\ log' = log
            BY <3>2
        <3> QED
            BY <1>6, <3>1, <3>2 DEF TrimLog
    <2> QED
        BY <1>3, <1>6, <2>1 DEF TrimLog
<1>7. CASE PoolChanges
    BY <1>7 DEF PoolChanges
<1>8. CASE Tick
    <2>1. /\ wait' \in [Loops -> 0 .. RetryTicks + PostTicks]
          /\ period' \in 0 .. DaemonTicks
        BY <1>8 DEF Tick
    <2>2. probes' \in [Kinds -> [1 .. LeaseTicks -> Nat]]
        BY <1>8 DEF Tick
    <2> QED
        BY <1>8, <2>1, <2>2 DEF Tick
<1>9. CASE UNCHANGED vars
    BY <1>9 DEF vars
<1> QED
    BY <1>1, <1>2, <1>4, <1>5, <1>6, <1>7, <1>8, <1>9 DEF Next, Attempt

LEMMA TypeInit ==
    ASSUME Init
    PROVE  TypeOK
BY DEF Init, TypeOK

\* The variables keep their types; a delay never exceeds the ones the code
\* sets, and what is kept of the log's newest entries is at most Keep.
THEOREM TypeCorrect == Spec => []TypeOK
BY TypeInit, TypeStep, PTL DEF Spec

-----------------------------------------------------------------------------
(* The log: LogKeepsNewest is inductive once its types are known.          *)

Trimming == {l \in Loops : pc[l] = "trim"}

LEMMA TrimmingFinite ==
    /\ IsFiniteSet(Trimming) /\ Cardinality(Trimming) \in Nat
    /\ IsFiniteSet(Trimming)' /\ Cardinality(Trimming)' \in Nat
<1>1. IsFiniteSet(Loops)
    <2>1. IsFiniteSet({"retry"} \cup {"daemon"})
        BY FS_Singleton, FS_AddElement
    <2>2. Loops = {"retry"} \cup {"daemon"}
        BY DEF Loops
    <2> QED
        BY <2>1, <2>2
<1>2. Trimming \in SUBSET Loops /\ Trimming' \in SUBSET Loops
    BY DEF Trimming
<1> QED
    BY <1>1, <1>2, FS_Subset, FS_CardinalityType

LEMMA LogStep ==
    ASSUME TypeOK, LogKeepsNewest, [Next]_vars
    PROVE  LogKeepsNewest'
<1> USE TrimmingFinite
<1>1. /\ log \in Seq(BOOLEAN) /\ Len(log) \in Nat /\ dbFails \in Nat
      /\ Newest(log) = recent /\ Len(log) <= Keep + Cardinality(Trimming) + dbFails
    BY DEF TypeOK, LogKeepsNewest, Trimming
<1>0. ASSUME Newest(log') = recent',
             Len(log') <= Keep + Cardinality(Trimming') + dbFails'
      PROVE  LogKeepsNewest'
    BY <1>0, Zenon DEF LogKeepsNewest, Newest, Trimming
<1>2. ASSUME UNCHANGED <<log, recent, dbFails>>,
             \A l \in Loops : pc'[l] = "trim" <=> pc[l] = "trim"
      PROVE  LogKeepsNewest'
    <2>1. Trimming' = Trimming
        BY <1>2 DEF Trimming
    <2> QED
        BY <1>0, <1>1, <1>2, <2>1
<1>3. ASSUME NEW l \in Loops, InsertLog(l)
      PROVE  LogKeepsNewest'
    <2>1. answer[l] \in BOOLEAN /\ pc[l] = "insert" /\ pc' = [pc EXCEPT ![l] = "trim"]
        BY <1>3 DEF InsertLog, Goto, TypeOK
    <2>2. Trimming' = Trimming \cup {l} /\ l \notin Trimming
        BY <2>1 DEF TypeOK, Trimming
    <2>3. Cardinality(Trimming') = Cardinality(Trimming) + 1
        BY <2>2, FS_AddElement
    <2>4. CASE log' = Append(log, answer[l]) /\ recent' = Newest(Append(recent, answer[l]))
               /\ dbFails' = dbFails
        <3>1. Newest(log') = recent'
            BY <1>1, <2>1, <2>4, NewestAppend, Zenon
        <3>2. Len(log') = Len(log) + 1
            BY <1>1, <2>1, <2>4
        <3> QED
            BY <1>0, <1>1, <2>3, <2>4, <3>1, <3>2
    <2>5. CASE UNCHANGED <<log, recent>> /\ dbFails' = dbFails + 1
        BY <1>0, <1>1, <2>3, <2>5
    <2> QED
        BY <1>3, <2>4, <2>5 DEF InsertLog
<1>4. ASSUME NEW l \in Loops, TrimLog(l)
      PROVE  LogKeepsNewest'
    <2>1. pc[l] = "trim" /\ pc'[l] # "trim" /\ \A x \in Loops \ {l} : pc'[x] = pc[x]
        BY <1>4 DEF TrimLog, Over, Goto, TypeOK
    <2>2. Trimming' = Trimming \ {l} /\ l \in Trimming
        BY <2>1 DEF Trimming
    <2>3. Cardinality(Trimming') = Cardinality(Trimming) - 1
        BY <2>2, FS_RemoveElement
    <2>4. recent' = recent
        BY <1>4 DEF TrimLog
    <2>5. CASE log' = Newest(log) /\ dbFails' = dbFails
        <3>1. Newest(log') = recent'
            BY <1>1, <2>4, <2>5, NewestOfNewest
        <3>2. Len(log') \in Nat /\ Len(log') <= Keep
            BY <1>1, <2>5, NewestShort
        <3> QED
            BY <1>0, <1>1, <2>5, <3>1, <3>2
    <2>6. CASE log' = log /\ dbFails' = dbFails + 1
        BY <1>0, <1>1, <2>3, <2>4, <2>6
    <2> QED
        BY <1>4, <2>5, <2>6 DEF TrimLog
<1>5. ASSUME NEW l \in Loops,
             \/ Begin(l) \/ ProbeWireGuard(l) \/ ProbeSocks5(l)
             \/ PoolAnswers(l) \/ PostFails(l)
      PROVE  LogKeepsNewest'
    <2>1. UNCHANGED <<log, recent, dbFails>>
        BY <1>5 DEF Begin, ProbeWireGuard, ProbeSocks5, PoolAnswers, PostFails
    <2>2. pc[l] # "trim" /\ pc'[l] # "trim" /\ \A x \in Loops \ {l} : pc'[x] = pc[x]
        BY <1>5 DEF TypeOK, Begin, ProbeWireGuard, ProbeSocks5, PoolAnswers, PostFails,
           Over, Goto
    <2> QED
        BY <1>2, <2>1, <2>2
<1>6. CASE PoolChanges \/ Tick \/ UNCHANGED vars
    BY <1>2, <1>6 DEF PoolChanges, Tick, vars
<1> QED
    BY <1>3, <1>4, <1>5, <1>6 DEF Next, Attempt

LEMMA LogInit ==
    ASSUME Init
    PROVE  LogKeepsNewest
<1>1. log = <<>> /\ recent = <<>> /\ dbFails = 0
    BY DEF Init
<1>2. Newest(<<>>) = <<>> /\ Len(<<>>) = 0
    BY DEF Newest
<1> QED
    BY <1>1, <1>2, TrimmingFinite DEF LogKeepsNewest, Trimming

\* insert_registration: whatever the two loops do at the same time and
\* whichever statements fail, the table holds the newest entries, and more than
\* Keep only for a DELETE that is to come or failed.
THEOREM LogKeepsNewestCorrect == Spec => []LogKeepsNewest
BY TypeCorrect, LogInit, LogStep, PTL DEF Spec

-----------------------------------------------------------------------------
(* The probes.                                                             *)

\* Loop l can still take a probe of kind k before time passes.
Fresh(k, l) ==
    \/ pc[l] = "wg"
    \/ pc[l] = "s5" /\ k = "socks5"
    \/ pc[l] = "sleep" /\ (IF l = "retry" THEN wait[l] = 0 ELSE period = 0)

Used(k, l) == IF Fresh(k, l) THEN 0 ELSE 1

\* An attempt of the daemon is over before its ticker fires again.
TickerInv ==
    /\ pc["daemon"] \in {"wg", "s5"} => period = DaemonTicks
    /\ pc["daemon"] = "post" => period + PostTicks = DaemonTicks + wait["daemon"]
    /\ pc["daemon"] \in {"insert", "trim"} => period + PostTicks >= DaemonTicks

\* The probes taken in this tick, at most one by each loop.
CountInv ==
    \A k \in Kinds :
        /\ probes[k][LeaseTicks] <= Used(k, "retry") + Used(k, "daemon")
        /\ \A r \in 1 .. LeaseTicks : probes[k][r] <= 2

\* Probes of one loop are d ticks apart.
Apart(S, d) == \A r, s \in S : r < s => r + d <= s

\* The live probes are the retry loop's, a pause apart, and the daemon's, a
\* period apart; each loop's next one will be as far from its last.
Shares(k, R, D) ==
    /\ Live(k) \subseteq R \cup D
    /\ Apart(R, RetryTicks) /\ Apart(D, DaemonTicks)
    /\ \A r \in R :
         /\ Fresh(k, "retry") => r + RetryTicks <= LeaseTicks
         /\ pc["retry"] = "sleep" => r + RetryTicks <= LeaseTicks + wait["retry"]
    /\ \A r \in D :
         /\ Fresh(k, "daemon") => r + DaemonTicks <= LeaseTicks
         /\ r + DaemonTicks <= LeaseTicks + period

SpacingInv ==
    \A k \in Kinds : \E R, D \in SUBSET (1 .. LeaseTicks) : Shares(k, R, D)

ProbeInv == TypeOK /\ TickerInv /\ CountInv /\ SpacingInv

\* What a step of an attempt does to the loops' shares: nothing, or it takes
\* one probe and is then no longer fresh.
Calm ==
    /\ \A k \in Kinds, x \in Loops : Fresh(k, x)' => Fresh(k, x)
    /\ pc'["retry"] = "sleep" =>
         \/ pc["retry"] = "sleep" /\ wait'["retry"] = wait["retry"]
         \/ wait'["retry"] = RetryTicks
    /\ period' >= period

Takes(k, l) ==
    /\ probes'[k] = [probes[k] EXCEPT ![LeaseTicks] = @ + 1]
    /\ Fresh(k, l) /\ ~Fresh(k, l)' /\ pc'[l] # "sleep"
    /\ l = "daemon" => period = DaemonTicks
    /\ period' = period

LEMMA AttemptShares ==
    ASSUME TypeOK, TickerInv, NEW l \in Loops, Attempt(l)
    PROVE  /\ Calm
           /\ TickerInv'
           /\ \A k \in Kinds : probes'[k] = probes[k] \/ Takes(k, l)
<1> USE DEF Loops, Kinds
<1>1. /\ pc \in [Loops -> {"sleep", "wg", "s5", "post", "insert", "trim", "done"}]
      /\ wait \in [Loops -> Nat] /\ period \in 0 .. DaemonTicks
      /\ probes \in [Kinds -> [1 .. LeaseTicks -> Nat]]
    BY DEF TypeOK
<1>2. ASSUME NEW k \in Kinds, TakeProbe(k)
      PROVE  /\ probes'[k] = [probes[k] EXCEPT ![LeaseTicks] = @ + 1]
             /\ \A j \in Kinds \ {k} : probes'[j] = probes[j]
    BY <1>1, <1>2 DEF TakeProbe
<1>3. CASE Begin(l)
    <2>1. /\ pc[l] = "sleep" /\ wait[l] = 0 /\ pc' = [pc EXCEPT ![l] = "wg"]
          /\ wait' = wait /\ probes' = probes
          /\ \/ l = "retry" /\ period' = period
             \/ l = "daemon" /\ period = 0 /\ period' = DaemonTicks
        BY <1>3 DEF Begin, Goto
    <2> QED
        BY <1>1, <2>1 DEF Calm, Fresh, TickerInv
<1>4. CASE ProbeWireGuard(l)
    <2>1. /\ pc[l] = "wg" /\ pc' = [pc EXCEPT ![l] = "s5"]
          /\ wait' = wait /\ period' = period
          /\ TakeProbe("wireguard") \/ probes' = probes
        BY <1>4 DEF ProbeWireGuard, Goto
    <2>2. Calm /\ TickerInv'
        BY <1>1, <2>1 DEF Calm, Fresh, TickerInv
    <2>3. ASSUME TakeProbe("wireguard")
          PROVE  Takes("wireguard", l) /\ probes'["socks5"] = probes["socks5"]
        <3>1. /\ probes'["wireguard"] = [probes["wireguard"] EXCEPT ![LeaseTicks] = @ + 1]
              /\ probes'["socks5"] = probes["socks5"]
            BY <1>2, <2>3
        <3>2. Fresh("wireguard", l) /\ ~Fresh("wireguard", l)' /\ pc'[l] # "sleep"
            BY <1>1, <2>1 DEF Fresh
        <3>3. l = "daemon" => period = DaemonTicks
            BY <2>1 DEF TickerInv
        <3> QED
            BY <2>1, <3>1, <3>2, <3>3 DEF Takes
    <2> QED
        BY <2>1, <2>2, <2>3
<1>5. CASE ProbeSocks5(l)
    <2>1. /\ pc[l] = "s5" /\ pc' = [pc EXCEPT ![l] = "post"]
          /\ wait' = [wait EXCEPT ![l] = PostTicks] /\ period' = period
          /\ TakeProbe("socks5") \/ probes' = probes
        BY <1>5 DEF ProbeSocks5, Goto
    <2>2. Calm /\ TickerInv'
        BY <1>1, <2>1 DEF Calm, Fresh, TickerInv
    <2>3. ASSUME TakeProbe("socks5")
          PROVE  Takes("socks5", l) /\ probes'["wireguard"] = probes["wireguard"]
        BY <1>1, <1>2, <2>1, <2>3 DEF Takes, Fresh, TickerInv
    <2> QED
        BY <2>1, <2>2, <2>3
<1>6. CASE PoolAnswers(l)
    <2>1. /\ pc[l] = "post" /\ pc' = [pc EXCEPT ![l] = "insert"]
          /\ wait' = [wait EXCEPT ![l] = 0] /\ period' = period /\ probes' = probes
        BY <1>6 DEF PoolAnswers, Goto
    <2> QED
        BY <1>1, <2>1 DEF Calm, Fresh, TickerInv
<1>7. CASE InsertLog(l)
    <2>1. /\ pc[l] = "insert" /\ pc' = [pc EXCEPT ![l] = "trim"]
          /\ wait' = wait /\ period' = period /\ probes' = probes
        BY <1>7 DEF InsertLog, Goto
    <2> QED
        BY <1>1, <2>1 DEF Calm, Fresh, TickerInv
<1>8. CASE PostFails(l) \/ TrimLog(l)
    <2>1. /\ pc[l] \in {"post", "trim"} /\ period' = period /\ probes' = probes
          /\ \/ /\ l = "retry" /\ pc' = [pc EXCEPT ![l] = "done"]
                /\ wait' = [wait EXCEPT ![l] = 0]
             \/ /\ l = "retry" /\ pc' = [pc EXCEPT ![l] = "sleep"]
                /\ wait' = [wait EXCEPT ![l] = RetryTicks]
             \/ /\ l = "daemon" /\ pc' = [pc EXCEPT ![l] = "sleep"]
                /\ wait' = [wait EXCEPT ![l] = 0]
        BY <1>8 DEF PostFails, TrimLog, Over, Goto
    <2>2. l = "daemon" => period > 0
        BY <1>1, <2>1 DEF TickerInv
    <2> QED
        BY <1>1, <2>1, <2>2 DEF Calm, Fresh, TickerInv
<1> QED
    BY <1>3, <1>4, <1>5, <1>6, <1>7, <1>8 DEF Attempt

LEMMA ProbeTicker ==
    ASSUME TypeOK, TickerInv, Tick
    PROVE  TickerInv'
<1>1. /\ wait["daemon"] \in Nat /\ period \in Nat /\ pc' = pc
      /\ pc["daemon"] \in {"sleep", "post", "done"}
      /\ pc["daemon"] = "post" => wait["daemon"] > 0
      /\ wait'["daemon"] = IF wait["daemon"] > 0 THEN wait["daemon"] - 1 ELSE 0
      /\ period' = IF period > 0 THEN period - 1 ELSE 0
    BY DEF TypeOK, Tick, Loops
<1> QED
    BY <1>1 DEF TickerInv

LEMMA ProbeCount ==
    ASSUME ProbeInv, TypeOK', [Next]_vars
    PROVE  CountInv'
<1>1. /\ TypeOK /\ TickerInv /\ CountInv
      /\ probes \in [Kinds -> [1 .. LeaseTicks -> Nat]]
      /\ probes' \in [Kinds -> [1 .. LeaseTicks -> Nat]]
    BY DEF ProbeInv, TypeOK
<1>2. "retry" \in Loops /\ "daemon" \in Loops /\ LeaseTicks \in 1 .. LeaseTicks
    BY DEF Loops
<1>3. /\ \A k, l : Used(k, l) \in {0, 1} /\ Used(k, l)' \in {0, 1}
      /\ \A k, l : (Fresh(k, l)' => Fresh(k, l)) => Used(k, l) <= Used(k, l)'
      /\ \A k, l : Fresh(k, l) /\ ~Fresh(k, l)' => Used(k, l) + 1 <= Used(k, l)'
    <2>1. ASSUME NEW k, NEW l
          PROVE  /\ Used(k, l) = IF Fresh(k, l) THEN 0 ELSE 1
                 /\ Used(k, l)' = IF Fresh(k, l)' THEN 0 ELSE 1
        BY Zenon DEF Used
    <2> QED
        BY <2>1
<1>4. ASSUME NEW k \in Kinds, Calm, probes'[k] = probes[k]
      PROVE  /\ probes'[k][LeaseTicks] <= Used(k, "retry")' + Used(k, "daemon")'
             /\ \A r \in 1 .. LeaseTicks : probes'[k][r] <= 2
    <2>1. Used(k, "retry") <= Used(k, "retry")' /\ Used(k, "daemon") <= Used(k, "daemon")'
        BY <1>2, <1>3, <1>4 DEF Calm
    <2> QED
        BY <1>1, <1>3, <1>4, <2>1 DEF CountInv
<1>5. ASSUME NEW k \in Kinds, NEW l \in Loops, Calm, Takes(k, l)
      PROVE  /\ probes'[k][LeaseTicks] <= Used(k, "retry")' + Used(k, "daemon")'
             /\ \A r \in 1 .. LeaseTicks : probes'[k][r] <= 2
    <2>1. /\ Used(k, "retry") <= Used(k, "retry")' /\ Used(k, "daemon") <= Used(k, "daemon")'
          /\ Used(k, l) + 1 <= Used(k, l)' /\ l \in {"retry", "daemon"}
        BY <1>2, <1>3, <1>5 DEF Calm, Takes, Loops
    <2>2. /\ Used(k, "retry") \in {0, 1} /\ Used(k, "retry")' \in {0, 1}
          /\ Used(k, "daemon") \in {0, 1} /\ Used(k, "daemon")' \in {0, 1}
        BY <1>3
    <2>3. /\ probes'[k][LeaseTicks] = probes[k][LeaseTicks] + 1
          /\ \A r \in 1 .. LeaseTicks \ {LeaseTicks} : probes'[k][r] = probes[k][r]
          /\ probes[k][LeaseTicks] \in Nat
        BY <1>1, <1>5 DEF Takes
    <2>4. probes[k][LeaseTicks] <= Used(k, "retry") + Used(k, "daemon")
        BY <1>1 DEF CountInv
    <2>5. probes'[k][LeaseTicks] <= Used(k, "retry")' + Used(k, "daemon")'
        BY <2>1, <2>2, <2>3, <2>4
    <2>6. probes'[k][LeaseTicks] <= 2
        BY <2>2, <2>3, <2>5
    <2> QED
        BY <1>1, <2>3, <2>5, <2>6 DEF CountInv
<1>6. ASSUME NEW l \in Loops, Attempt(l)
      PROVE  CountInv'
    <2>1. Calm /\ \A k \in Kinds : probes'[k] = probes[k] \/ Takes(k, l)
        BY <1>1, <1>6, AttemptShares
    <2> QED
        BY <1>4, <1>5, <2>1 DEF CountInv
<1>7. CASE Tick
    <2>1. ASSUME NEW k \in Kinds
          PROVE  /\ probes'[k][LeaseTicks] = 0
                 /\ \A r \in 1 .. LeaseTicks :
                      r # LeaseTicks => probes'[k][r] = probes[k][r + 1]
        BY <1>1, <1>7 DEF Tick
    <2>2. \A k, l : Used(k, l)' \in {0, 1}
        BY <1>3
    <2>3. ASSUME NEW k \in Kinds
          PROVE  /\ probes'[k][LeaseTicks] <= Used(k, "retry")' + Used(k, "daemon")'
                 /\ \A r \in 1 .. LeaseTicks : probes'[k][r] <= 2
        <3>1. 0 <= Used(k, "retry")' + Used(k, "daemon")'
            BY <2>2
        <3>2. ASSUME NEW r \in 1 .. LeaseTicks PROVE probes'[k][r] <= 2
            <4>1. CASE r = LeaseTicks
                BY <2>1, <4>1
            <4>2. CASE r # LeaseTicks
                <5>1. r + 1 \in 1 .. LeaseTicks
                    BY <4>2
                <5> QED
                    BY <1>1, <2>1, <4>2, <5>1 DEF CountInv
            <4> QED
                BY <4>1, <4>2
        <3> QED
            BY <2>1, <3>1, <3>2
    <2> QED
        BY <2>3 DEF CountInv
<1>8. CASE PoolChanges \/ UNCHANGED vars
    BY <1>1, <1>8 DEF PoolChanges, vars, CountInv, Used, Fresh
<1> QED
    BY <1>6, <1>7, <1>8 DEF Next

\* The shares when time does not pass.
LEMMA CalmShares ==
    ASSUME TypeOK, TypeOK', NEW k \in Kinds, Calm, probes'[k] = probes[k],
           NEW R \in SUBSET (1 .. LeaseTicks), NEW D \in SUBSET (1 .. LeaseTicks),
           Shares(k, R, D)
    PROVE  Shares(k, R, D)'
<1>1. Live(k)' = Live(k)
    BY DEF Live
<1>2. /\ Fresh(k, "retry")' => Fresh(k, "retry")
      /\ Fresh(k, "daemon")' => Fresh(k, "daemon")
    BY DEF Calm, Loops
<1>3. period \in Nat /\ period' \in Nat /\ wait["retry"] \in Nat /\ wait'["retry"] \in Nat
    BY DEF TypeOK, Loops
<1>4. ASSUME NEW r \in R
      PROVE  /\ Fresh(k, "retry")' => r + RetryTicks <= LeaseTicks
             /\ pc'["retry"] = "sleep" => r + RetryTicks <= LeaseTicks + wait'["retry"]
    <2>1. /\ Fresh(k, "retry") => r + RetryTicks <= LeaseTicks
          /\ pc["retry"] = "sleep" => r + RetryTicks <= LeaseTicks + wait["retry"]
        BY Zenon DEF Shares
    <2>2. r + RetryTicks <= LeaseTicks + RetryTicks
        OBVIOUS
    <2> QED
        BY <1>2, <2>1, <2>2, Zenon DEF Calm
<1>5. ASSUME NEW r \in D
      PROVE  /\ Fresh(k, "daemon")' => r + DaemonTicks <= LeaseTicks
             /\ r + DaemonTicks <= LeaseTicks + period'
    <2>1. r + DaemonTicks <= LeaseTicks + period /\ period' >= period
        BY Zenon DEF Shares, Calm
    <2>2. /\ r \in Nat /\ DaemonTicks \in Nat /\ LeaseTicks \in Nat
          /\ period \in Nat /\ period' \in Nat
        BY <1>3
    <2>3. \A a, b, c, d \in Nat : a <= b + c /\ d >= c => a <= b + d
        OBVIOUS
    <2>4. r + DaemonTicks <= LeaseTicks + period'
        <3>1. r + DaemonTicks \in Nat
            BY <2>2
        <3> QED
            BY <2>1, <2>2, <2>3, <3>1, Zenon
    <2> QED
        BY <1>2, <2>4 DEF Shares
<1> QED
    BY <1>1, <1>4, <1>5 DEF Shares, Apart

\* The newest probe is as far from the others as its loop promised.
LEMMA ApartAdd ==
    ASSUME NEW S \in SUBSET (1 .. LeaseTicks), NEW d \in Nat \ {0}, Apart(S, d),
           \A r \in S : r + d <= LeaseTicks
    PROVE  Apart(S \cup {LeaseTicks}, d)
<1> SUFFICES ASSUME NEW r \in S \cup {LeaseTicks}, NEW s \in S \cup {LeaseTicks}, r < s
             PROVE  r + d <= s
    BY DEF Apart
<1>1. r \in 1 .. LeaseTicks /\ s \in 1 .. LeaseTicks
    OBVIOUS
<1>2. CASE s = LeaseTicks
    BY <1>1, <1>2
<1>3. CASE s \in S
    <2>1. r # LeaseTicks
        BY <1>1
    <2> QED
        BY <1>3, <2>1 DEF Apart
<1> QED
    BY <1>2, <1>3

LEMMA TakeShares ==
    ASSUME TypeOK, TypeOK', NEW k \in Kinds, NEW l \in Loops, Calm, Takes(k, l),
           NEW R \in SUBSET (1 .. LeaseTicks), NEW D \in SUBSET (1 .. LeaseTicks),
           Shares(k, R, D)
    PROVE  \/ Shares(k, R \cup {LeaseTicks}, D)'
           \/ Shares(k, R, D \cup {LeaseTicks})'
<1>1. Live(k)' \subseteq Live(k) \cup {LeaseTicks}
    <2>1. /\ probes[k] \in [1 .. LeaseTicks -> Nat]
          /\ probes'[k] = [probes[k] EXCEPT ![LeaseTicks] = @ + 1]
        BY DEF TypeOK, Takes
    <2> QED
        BY <2>1 DEF Live
<1>2. /\ Fresh(k, "retry")' => Fresh(k, "retry")
      /\ Fresh(k, "daemon")' => Fresh(k, "daemon")
    BY DEF Calm, Loops
<1>3. /\ Live(k) \subseteq R \cup D /\ Apart(R, RetryTicks) /\ Apart(D, DaemonTicks)
      /\ \A r \in R :
           /\ Fresh(k, "retry") => r + RetryTicks <= LeaseTicks
           /\ pc["retry"] = "sleep" => r + RetryTicks <= LeaseTicks + wait["retry"]
      /\ \A r \in D :
           /\ Fresh(k, "daemon") => r + DaemonTicks <= LeaseTicks
           /\ r + DaemonTicks <= LeaseTicks + period
    BY DEF Shares
<1>4. period' = period
    BY DEF Takes
<1>5. CASE l = "retry"
    <2>1. Fresh(k, "retry") /\ ~Fresh(k, "retry")' /\ pc'["retry"] # "sleep"
        BY <1>5 DEF Takes
    <2>2. Apart(R \cup {LeaseTicks}, RetryTicks)
        BY <1>3, <2>1, ApartAdd
    <2>3. Live(k)' \subseteq (R \cup {LeaseTicks}) \cup D
        BY <1>1, <1>3
    <2>4. \A r \in D :
            /\ Fresh(k, "daemon")' => r + DaemonTicks <= LeaseTicks
            /\ r + DaemonTicks <= LeaseTicks + period'
        BY <1>2, <1>3, <1>4, Zenon
    <2> QED
        BY <1>3, <2>1, <2>2, <2>3, <2>4, Zenon DEF Shares, Apart
<1>6. CASE l = "daemon"
    <2>1. Fresh(k, "daemon") /\ ~Fresh(k, "daemon")' /\ period = DaemonTicks
        BY <1>6 DEF Takes
    <2>2. Apart(D \cup {LeaseTicks}, DaemonTicks)
        BY <1>3, <2>1, ApartAdd
    <2>3. Live(k)' \subseteq R \cup (D \cup {LeaseTicks})
        BY <1>1, <1>3
    <2>4. \A r \in D \cup {LeaseTicks} : r + DaemonTicks <= LeaseTicks + period'
        BY <1>3, <1>4, <2>1
    <2>5. \A r \in R :
            /\ Fresh(k, "retry")' => r + RetryTicks <= LeaseTicks
            /\ pc'["retry"] = "sleep" => r + RetryTicks <= LeaseTicks + wait'["retry"]
        <3>1. \A r \in R : r + RetryTicks <= LeaseTicks + RetryTicks
            OBVIOUS
        <3> QED
            BY <1>2, <1>3, <3>1, Zenon DEF Calm
    <2> QED
        BY <1>3, <2>1, <2>2, <2>3, <2>4, <2>5, Zenon DEF Shares, Apart
<1> QED
    BY <1>5, <1>6 DEF Loops

\* When time passes, all probes have one tick less.
Older(S) == {r \in 1 .. LeaseTicks : r + 1 \in S}

LEMMA TickShares ==
    ASSUME TypeOK, NEW k \in Kinds, Tick,
           NEW R \in SUBSET (1 .. LeaseTicks), NEW D \in SUBSET (1 .. LeaseTicks),
           Shares(k, R, D)
    PROVE  Shares(k, Older(R), Older(D))'
<1>1. /\ wait["retry"] \in Nat /\ period \in Nat /\ pc' = pc
      /\ wait'["retry"] = IF wait["retry"] > 0 THEN wait["retry"] - 1 ELSE 0
      /\ period' = IF period > 0 THEN period - 1 ELSE 0
      /\ pc["retry"] \in {"sleep", "post", "done"}
      /\ pc["daemon"] \in {"sleep", "post", "done"}
      /\ pc["retry"] = "sleep" => wait["retry"] # 0
    BY DEF TypeOK, Tick, Loops
<1>2. /\ Live(k) \subseteq R \cup D /\ Apart(R, RetryTicks) /\ Apart(D, DaemonTicks)
      /\ \A r \in R :
           pc["retry"] = "sleep" => r + RetryTicks <= LeaseTicks + wait["retry"]
      /\ \A r \in D : r + DaemonTicks <= LeaseTicks + period
    BY DEF Shares
<1>3. Live(k)' \subseteq Older(R) \cup Older(D)
    <2> SUFFICES ASSUME NEW r \in 1 .. LeaseTicks, probes'[k][r] > 0
                 PROVE  r \in Older(R) \cup Older(D)
        BY DEF Live
    <2>1. probes'[k][r] = IF r = LeaseTicks THEN 0 ELSE probes[k][r + 1]
        BY DEF Tick
    <2>2. r # LeaseTicks /\ probes[k][r + 1] > 0
        BY <2>1
    <2>3. r + 1 \in 1 .. LeaseTicks
        BY <2>2
    <2>4. r + 1 \in R \cup D
        BY <1>2, <2>2, <2>3 DEF Live
    <2> QED
        BY <2>4 DEF Older
<1>4. Apart(Older(R), RetryTicks) /\ Apart(Older(D), DaemonTicks)
    <2>1. ASSUME NEW S \in SUBSET (1 .. LeaseTicks), NEW d \in Nat, Apart(S, d)
          PROVE  Apart(Older(S), d)
        BY <2>1 DEF Apart, Older
    <2> QED
        BY <1>2, <2>1
<1>5. ASSUME NEW r \in Older(R)
      PROVE  /\ Fresh(k, "retry")' => r + RetryTicks <= LeaseTicks
             /\ pc'["retry"] = "sleep" => r + RetryTicks <= LeaseTicks + wait'["retry"]
    <2>1. r \in Nat /\ r + 1 \in R
        BY DEF Older
    <2>2. pc["retry"] = "sleep" => (r + 1) + RetryTicks <= LeaseTicks + wait["retry"]
        BY <1>2, <2>1
    <2>3. pc["retry"] = "sleep" => r + RetryTicks <= LeaseTicks + wait'["retry"]
        BY <1>1, <2>1, <2>2
    <2>4. Fresh(k, "retry")' => pc["retry"] = "sleep" /\ wait'["retry"] = 0
        BY <1>1 DEF Fresh
    <2> QED
        BY <1>1, <2>1, <2>3, <2>4
<1>6. ASSUME NEW r \in Older(D)
      PROVE  /\ Fresh(k, "daemon")' => r + DaemonTicks <= LeaseTicks
             /\ r + DaemonTicks <= LeaseTicks + period'
    <2>1. r \in Nat /\ r + 1 \in D
        BY DEF Older
    <2>2. (r + 1) + DaemonTicks <= LeaseTicks + period
        BY <1>2, <2>1
    <2>3. r + DaemonTicks <= LeaseTicks + period'
        BY <1>1, <2>1, <2>2
    <2>4. Fresh(k, "daemon")' => period' = 0
        BY <1>1 DEF Fresh
    <2> QED
        BY <2>1, <2>3, <2>4
<1>7. Older(R)' = Older(R) /\ Older(D)' = Older(D)
    BY DEF Older
<1> QED
    BY <1>3, <1>4, <1>5, <1>6, <1>7 DEF Shares, Apart

LEMMA ProbeSpacing ==
    ASSUME ProbeInv, TypeOK', [Next]_vars
    PROVE  SpacingInv'
<1>1. TypeOK /\ TickerInv /\ LeaseTicks \in 1 .. LeaseTicks
    BY DEF ProbeInv
<1>2. SUFFICES ASSUME NEW k \in Kinds
               PROVE  \E R, D \in SUBSET (1 .. LeaseTicks) : Shares(k, R, D)'
    BY Zenon DEF SpacingInv
<1>3. PICK R \in SUBSET (1 .. LeaseTicks), D \in SUBSET (1 .. LeaseTicks) :
        Shares(k, R, D)
    BY DEF ProbeInv, SpacingInv
<1>4. ASSUME NEW l \in Loops, Attempt(l)
      PROVE  \E X, Y \in SUBSET (1 .. LeaseTicks) : Shares(k, X, Y)'
    <2>1. Calm /\ (probes'[k] = probes[k] \/ Takes(k, l))
        BY <1>1, <1>4, AttemptShares
    <2>2. CASE probes'[k] = probes[k]
        BY <1>1, <1>3, <2>1, <2>2, CalmShares
    <2>3. CASE Takes(k, l)
        <3>1. \/ Shares(k, R \cup {LeaseTicks}, D)'
              \/ Shares(k, R, D \cup {LeaseTicks})'
            BY <1>1, <1>3, <2>1, <2>3, TakeShares
        <3>2. /\ R \cup {LeaseTicks} \in SUBSET (1 .. LeaseTicks)
              /\ D \cup {LeaseTicks} \in SUBSET (1 .. LeaseTicks)
            BY <1>1
        <3> QED
            BY <3>1, <3>2, Zenon
    <2> QED
        BY <2>1, <2>2, <2>3
<1>5. CASE Tick
    <2>1. Shares(k, Older(R), Older(D))'
        BY <1>1, <1>3, <1>5, TickShares
    <2>2. PICK X \in SUBSET (1 .. LeaseTicks), Y \in SUBSET (1 .. LeaseTicks) :
            X = Older(R) /\ Y = Older(D)
        BY DEF Older
    <2>3. Shares(k, X, Y)'
        BY <2>1, <2>2 DEF Shares, Older
    <2> QED
        BY <2>3, Zenon
<1>6. CASE PoolChanges \/ UNCHANGED vars
    <2>1. UNCHANGED <<pc, wait, period, probes>>
        BY <1>6 DEF PoolChanges, vars
    <2>2. Shares(k, R, D)'
        BY <1>3, <2>1 DEF Shares, Live, Fresh, Apart
    <2> QED
        BY <2>2, Zenon
<1> QED
    BY <1>4, <1>5, <1>6 DEF Next

LEMMA ProbeInit ==
    ASSUME Init
    PROVE  ProbeInv
<1>1. TypeOK
    BY TypeInit
<1>2. TickerInv
    BY DEF Init, TickerInv, Loops
<1>3. \A k \in Kinds, r \in 1 .. LeaseTicks : probes[k][r] = 0
    BY DEF Init
<1>4. CountInv
    BY <1>3 DEF CountInv, Used
<1>5. ASSUME NEW k \in Kinds PROVE Shares(k, {}, {})
    BY <1>3 DEF Shares, Live, Apart
<1>6. SpacingInv
    <2>1. {} \in SUBSET (1 .. LeaseTicks)
        OBVIOUS
    <2> QED
        BY <1>5, <2>1, Zenon DEF SpacingInv
<1> QED
    BY <1>1, <1>2, <1>4, <1>6 DEF ProbeInv

LEMMA ProbeStep ==
    ASSUME ProbeInv, [Next]_vars
    PROVE  ProbeInv'
<1>1. TypeOK /\ TickerInv
    BY DEF ProbeInv
<1>2. TypeOK'
    BY <1>1, TypeStep
<1>3. TickerInv'
    <2>1. ASSUME NEW l \in Loops, Attempt(l) PROVE TickerInv'
        BY <1>1, <2>1, AttemptShares
    <2>2. CASE PoolChanges \/ UNCHANGED vars
        BY <1>1, <2>2 DEF PoolChanges, vars, TickerInv
    <2> QED
        BY <1>1, <2>1, <2>2, ProbeTicker DEF Next
<1>4. CountInv' /\ SpacingInv'
    BY <1>2, ProbeCount, ProbeSpacing
<1> QED
    BY <1>2, <1>3, <1>4 DEF ProbeInv

\* Numbers at least d apart are in different blocks of d.
LEMMA Blocks ==
    ASSUME NEW a \in Nat, NEW b \in Nat, NEW d \in Nat \ {0}, a + d <= b
    PROVE  a \div d # b \div d
OBVIOUS

LEMMA BlocksBound ==
    ASSUME NEW a \in Nat, NEW n \in Nat \ {0}, NEW d \in Nat \ {0}, a + 1 <= n
    PROVE  /\ a \div d \in Nat /\ (n + d - 1) \div d \in Nat
           /\ a \div d <= ((n + d - 1) \div d) - 1
<1>1. n - 1 \in Nat /\ a <= n - 1
    OBVIOUS
<1>2. ((n - 1) + d) \div d = ((n - 1) \div d) + 1
    BY <1>1
<1>3. a \div d \in Nat /\ (n - 1) \div d \in Nat /\ a \div d <= (n - 1) \div d
    BY <1>1
<1>4. (n - 1) + d = n + d - 1
    OBVIOUS
<1> QED
    BY <1>2, <1>3, <1>4

\* So there are at most Ceil(LeaseTicks, d) live probes of a loop.
LEMMA ApartFew ==
    ASSUME NEW S \in SUBSET (1 .. LeaseTicks), NEW d \in Nat \ {0}, Apart(S, d)
    PROVE  /\ IsFiniteSet(S) /\ Cardinality(S) \in Nat /\ Ceil(LeaseTicks, d) \in Nat
           /\ Cardinality(S) <= Ceil(LeaseTicks, d)
<1> DEFINE n == Ceil(LeaseTicks, d)
           T == 0 .. n - 1
           f == [r \in S |-> (r - 1) \div d]
<1>1. n = (LeaseTicks + d - 1) \div d
    BY DEF Ceil
<1>2. n \in Nat /\ \A r \in 1 .. LeaseTicks : (r - 1) \div d \in T
    <2>1. ASSUME NEW r \in 1 .. LeaseTicks
          PROVE  n \in Nat /\ (r - 1) \div d \in Nat /\ (r - 1) \div d <= n - 1
        <3>1. r - 1 \in Nat /\ (r - 1) + 1 <= LeaseTicks
            OBVIOUS
        <3> QED
            BY <1>1, <3>1, BlocksBound
    <2>2. 1 \in 1 .. LeaseTicks
        OBVIOUS
    <2>3. n \in Nat
        BY <2>1, <2>2
    <2> HIDE DEF n
    <2> QED
        BY <2>1, <2>3
<1> HIDE DEF n
<1>3. f \in Injection(S, T)
    <2>1. f \in [S -> T]
        BY <1>2
    <2>2. ASSUME NEW r \in S, NEW s \in S, r < s
          PROVE  f[r] # f[s]
        <3>1. r - 1 \in Nat /\ s - 1 \in Nat /\ (r - 1) + d <= s - 1
            BY <2>2 DEF Apart
        <3> QED
            BY <3>1, Blocks
    <2>3. ASSUME NEW r \in S, NEW s \in S, f[r] = f[s]
          PROVE  r = s
        <3>1. r \in Nat /\ s \in Nat
            OBVIOUS
        <3> HIDE DEF f
        <3>2. ~(r < s) /\ ~(s < r)
            BY <2>2, <2>3
        <3> QED
            BY <3>1, <3>2
    <2> QED
        BY <2>1, <2>3, Zenon DEF Injection, IsInjective
<1>4. IsFiniteSet(T) /\ Cardinality(T) = n
    BY <1>2, FS_Interval
<1>5. IsFiniteSet(S) /\ Cardinality(S) <= Cardinality(T)
    BY <1>3, <1>4, FS_Injection
<1>6. Cardinality(S) \in Nat
    BY <1>5, FS_CardinalityType
<1> QED
    BY <1>2, <1>4, <1>5, <1>6 DEF n

\* register_with_mining_pool: however long registration fails, the probes hold
\* no more slots of a kind than the retry loop and the daemon can take within
\* one lease, and no two of one loop in the same tick.
THEOREM ProbesBoundedCorrect == Spec => []ProbesBounded
<1>1. ASSUME ProbeInv PROVE ProbesBounded
    <2> SUFFICES ASSUME NEW k \in Kinds
                 PROVE  Cardinality(Live(k)) <=
                          Ceil(LeaseTicks, RetryTicks) + Ceil(LeaseTicks, DaemonTicks)
        BY <1>1 DEF ProbesBounded, ProbeInv, CountInv
    <2>1. PICK R \in SUBSET (1 .. LeaseTicks), D \in SUBSET (1 .. LeaseTicks) :
            Shares(k, R, D)
        BY <1>1 DEF ProbeInv, SpacingInv
    <2>2. /\ IsFiniteSet(R) /\ Cardinality(R) \in Nat
          /\ Ceil(LeaseTicks, RetryTicks) \in Nat
          /\ Cardinality(R) <= Ceil(LeaseTicks, RetryTicks)
        BY <2>1, ApartFew DEF Shares
    <2>3. /\ IsFiniteSet(D) /\ Cardinality(D) \in Nat
          /\ Ceil(LeaseTicks, DaemonTicks) \in Nat
          /\ Cardinality(D) <= Ceil(LeaseTicks, DaemonTicks)
        BY <2>1, ApartFew DEF Shares
    <2>4. /\ IsFiniteSet(R \cup D)
          /\ Cardinality(R \cup D) = Cardinality(R) + Cardinality(D) - Cardinality(R \cap D)
        BY <2>2, <2>3, FS_Union
    <2>5. Cardinality(R \cap D) \in Nat /\ Cardinality(R \cup D) \in Nat
        BY <2>2, <2>4, FS_CardinalityType, FS_Intersection
    <2>6. Live(k) \in SUBSET (R \cup D)
        BY <2>1 DEF Shares
    <2>7. Cardinality(Live(k)) \in Nat /\ Cardinality(Live(k)) <= Cardinality(R \cup D)
        BY <2>4, <2>6, FS_Subset, FS_CardinalityType
    <2> QED
        BY ONLY <2>2, <2>3, <2>4, <2>5, <2>7
<1> QED
    BY <1>1, ProbeInit, ProbeStep, PTL DEF Spec
=============================================================================
