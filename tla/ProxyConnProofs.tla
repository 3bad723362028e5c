-------------------------- MODULE ProxyConnProofs --------------------------
(***************************************************************************)
(* Proofs about ProxyConn, for every number of connections and everything  *)
(* clients and targets may send: types; that only entitled clients get a   *)
(* target; that the replies follow the protocols; that the payload arrives *)
(* from its first byte; and how a relay ends.                              *)
(*                                                                         *)
(* Connections share nothing, so the invariant speaks of one connection:   *)
(* where the handler stands says what it has read and what it has replied. *)
(***************************************************************************)
EXTENDS ProxyConn, SequenceTheorems, WellFoundedInduction, TLAPS

\* A non-empty set of naturals has a least element.
LEMMA LeastNatural ==
    ASSUME NEW S, S \subseteq Nat, S # {}
    PROVE  \E i \in S : \A j \in S : i <= j
<1>1. PICK i \in S : \A j \in S : <<j, i>> \notin OpToRel(<, Nat)
    BY NatLessThanWellFounded, WFMin, Zenon
<1>2. ASSUME NEW j \in S
      PROVE  i <= j
    <2>1. i \in Nat /\ j \in Nat
        BY <1>2
    <2>2. j < i => <<j, i>> \in OpToRel(<, Nat)
        BY <2>1 DEF OpToRel
    <2>3. ~(j < i)
        BY <1>1, <2>2, Zenon
    <2> QED
        BY <2>1, <2>3
<1> QED
    BY <1>2

\* What a client may send next is an item.
LEMMA NextItemsTypes ==
    ASSUME NEW c \in Conns
    PROVE  NextItems(c) \subseteq Items
BY DEF NextItems, Items

\* Nothing happens to connection c.
Same(c) ==
    /\ UNCHANGED <<kind[c], pc[c], sent[c], got[c], cEnd[c], replies[c]>>
    /\ UNCHANGED <<target[c], fwd[c], tSent[c], tGot[c], tEnd[c], lost[c]>>

\* The handler reads one item and goes on to l, with replies r.
LEMMA StepEffect ==
    ASSUME TypeOK, NEW c \in Conns, Ready(c), NEW r \in Seq(Replies),
           NEW l \in {"dial", "closed"} \cup Handshake, Step(c, l, r),
           l = "header" => got[c] + 1 <= MaxHeader
    PROVE  /\ TypeOK'
           /\ \A x \in Conns \ {c} : Same(x)
           /\ got'[c] = got[c] + 1 /\ pc'[c] = l /\ replies'[c] = replies[c] \o r
           /\ UNCHANGED <<kind, client, target, fwd, remote, tGot, lost>>
<1> USE DEF TypeOK, Step, client, remote, Ready
<1>1. replies' \in [Conns -> Seq(Replies)]
    OBVIOUS
<1>2. got' \in [Conns -> Nat] /\ \A x \in Conns : got'[x] <= Len(sent'[x])
    OBVIOUS
<1>3. pc' \in [Conns -> {"new", "dial", "relay", "closed"} \cup Handshake]
    OBVIOUS
<1>4. \A x \in Conns : pc'[x] = "header" => got'[x] <= MaxHeader
    OBVIOUS
<1>5. UNCHANGED <<listening, kind, client, target, fwd, remote, tGot, lost>>
    OBVIOUS
<1>6. TypeOK'
    BY <1>1, <1>2, <1>3, <1>4, <1>5
<1>7. \A x \in Conns \ {c} : Same(x)
    BY <1>5 DEF Same
<1> QED
    BY <1>5, <1>6, <1>7

LEMMA CloseEffect ==
    ASSUME TypeOK, NEW c \in Conns, Close(c), NEW r \in Seq(Replies),
           replies' = [replies EXCEPT ![c] = @ \o r]
    PROVE  /\ TypeOK'
           /\ \A x \in Conns \ {c} : Same(x)
           /\ pc'[c] = "closed" /\ replies'[c] = replies[c] \o r
           /\ UNCHANGED <<kind, client, got, target, fwd, remote, tGot, lost>>
<1> USE DEF TypeOK, Close, client, remote
<1>1. replies' \in [Conns -> Seq(Replies)]
    OBVIOUS
<1>2. pc' \in [Conns -> {"new", "dial", "relay", "closed"} \cup Handshake]
    OBVIOUS
<1>3. UNCHANGED <<listening, kind, client, got, target, fwd, remote, tGot, lost>>
    OBVIOUS
<1>4. TypeOK'
    BY <1>1, <1>2, <1>3
<1>5. \A x \in Conns \ {c} : Same(x)
    BY <1>3 DEF Same
<1> QED
    BY <1>3, <1>4, <1>5

\* What a step that reads sees, and where it goes.
LEMMA ReadSteps ==
    ASSUME NEW c \in Conns
    PROVE  /\ ReadGreeting(c) =>
                /\ pc[c] = "greet" /\ Ready(c)
                /\ \/ Item(c) = "greet" /\ Step(c, "auth", <<"method">>)
                   \/ Step(c, "closed", <<"nomethod">>)
                   \/ Step(c, "closed", <<>>)
           /\ ReadAuth(c) =>
                /\ pc[c] = "auth" /\ Ready(c)
                /\ \/ Item(c) = "good" /\ Step(c, "request", <<"authok">>)
                   \/ Step(c, "closed", <<"authfail">>)
                   \/ Step(c, "closed", <<>>)
           /\ ReadRequest(c) =>
                /\ pc[c] = "request" /\ Ready(c)
                /\ \/ Item(c) = "connect" /\ Step(c, "dial", <<>>)
                   \/ Step(c, "closed", <<"nocommand">>)
                   \/ Step(c, "closed", <<"noatyp">>)
                   \/ Step(c, "closed", <<>>)
<1>1. ReadGreeting(c) =>
        /\ pc[c] = "greet" /\ Ready(c)
        /\ \/ Item(c) = "greet" /\ Step(c, "auth", <<"method">>)
           \/ Step(c, "closed", <<"nomethod">>)
           \/ Step(c, "closed", <<>>)
    BY Zenon DEF ReadGreeting
<1>2. ReadAuth(c) =>
        /\ pc[c] = "auth" /\ Ready(c)
        /\ \/ Item(c) = "good" /\ Step(c, "request", <<"authok">>)
           \/ Step(c, "closed", <<"authfail">>)
           \/ Step(c, "closed", <<>>)
    BY Zenon DEF ReadAuth
<1>3. ReadRequest(c) =>
        /\ pc[c] = "request" /\ Ready(c)
        /\ \/ Item(c) = "connect" /\ Step(c, "dial", <<>>)
           \/ Step(c, "closed", <<"nocommand">>)
           \/ Step(c, "closed", <<"noatyp">>)
           \/ Step(c, "closed", <<>>)
    BY Zenon DEF ReadRequest
<1> QED
    BY <1>1, <1>2, <1>3, Zenon

\* ReadHeader: the block is too long, goes on, is refused or is complete.
LEMMA HeaderSteps ==
    ASSUME TypeOK, NEW c \in Conns, ReadHeader(c)
    PROVE  LET head == SubSeq(sent[c], 1, got[c] + 1)
           IN  /\ pc[c] = "header" /\ Ready(c)
               /\ Len(head) = got[c] + 1
               /\ \A i \in 1 .. got[c] + 1 : head[i] = sent[c][i]
               /\ \/ Step(c, "closed", <<>>)
                  \/ /\ got[c] + 1 <= MaxHeader /\ Item(c) # "end"
                     /\ Step(c, "header", <<>>)
                  \/ Step(c, "closed", <<"400">>)
                  \/ Step(c, "closed", <<"407">>)
                  \/ /\ got[c] + 1 <= MaxHeader /\ Item(c) = "end"
                     /\ head[1] = "connect" /\ BasicAuth(head) = "good"
                     /\ Step(c, "dial", <<>>)
<1> DEFINE head == SubSeq(sent[c], 1, got[c] + 1)
<1>1. pc[c] = "header" /\ Ready(c)
    BY Zenon DEF ReadHeader
<1>2. sent[c] \in Seq(Items) /\ got[c] \in Nat /\ got[c] + 1 <= Len(sent[c])
    BY <1>1 DEF TypeOK, Ready
<1>3. Len(head) = got[c] + 1 /\ \A i \in 1 .. got[c] + 1 : head[i] = sent[c][i]
    BY <1>2
<1>4. CASE Len(head) > MaxHeader
    <2>1. ~(Len(head) <= MaxHeader)
        BY <1>2, <1>3, <1>4, BoundsAssumption
    <2>2. Step(c, "closed", <<>>)
        BY <1>4, <2>1, Zenon DEF ReadHeader
    <2> QED
        BY <1>1, <1>3, <2>2
<1>5. CASE ~(Len(head) > MaxHeader)
    <2>1. Len(head) <= MaxHeader
        BY <1>5, <1>2, <1>3, BoundsAssumption
    <2>2. \/ Item(c) # "end" /\ Step(c, "header", <<>>)
          \/ Step(c, "closed", <<"400">>)
          \/ Step(c, "closed", <<"407">>)
          \/ /\ Item(c) = "end" /\ head[1] = "connect" /\ BasicAuth(head) = "good"
             /\ Step(c, "dial", <<>>)
        BY <1>5, <2>1, Zenon DEF ReadHeader
    <2> QED
        BY <1>1, <1>3, <2>1, <2>2
<1> QED
    BY <1>4, <1>5

\* The first Proxy-Authorization line is the one that is looked at.
LEMMA BasicAuthFirst ==
    ASSUME NEW head \in Seq(Items), BasicAuth(head) = "good"
    PROVE  \E i \in 1 .. Len(head) :
             head[i] = "good" /\ \A j \in 1 .. i : head[j] # "wrong"
<1> DEFINE auths == {i \in 1 .. Len(head) : head[i] \in {"good", "wrong"}}
           first == CHOOSE i \in auths : \A j \in auths : i <= j
<1>1. auths # {} /\ head[first] = "good"
    BY DEF BasicAuth
<1>2. auths \subseteq Nat
    OBVIOUS
<1>3. \E i \in auths : \A j \in auths : i <= j
    BY <1>1, <1>2, LeastNatural
<1>4. first \in auths /\ \A j \in auths : first <= j
    BY <1>3
<1> HIDE DEF first
<1>5. \A j \in 1 .. first : head[j] # "wrong"
    <2> SUFFICES ASSUME NEW j \in 1 .. first, head[j] = "wrong" PROVE FALSE
        OBVIOUS
    <2>1. j \in auths
        BY <1>4
    <2>2. j = first
        BY <1>2, <1>4, <2>1
    <2> QED
        BY <1>1, <2>2
<1> QED
    BY <1>1, <1>4, <1>5

-----------------------------------------------------------------------------
(* The invariant of one connection.                                        *)

\* The first n items are a handshake that entitles the client to a target.
Shaken(c, n) ==
    /\ n \in 1 .. Len(sent[c])
    /\ kind[c] = "socks5" =>
         n = 3 /\ sent[c][1] = "greet" /\ sent[c][2] = "good" /\ sent[c][3] = "connect"
    /\ kind[c] = "http" =>
         /\ n <= MaxHeader /\ sent[c][n] = "end" /\ sent[c][1] = "connect"
         /\ \A i \in 1 .. n : sent[c][i] = "end" => i = n
         /\ \E i \in 1 .. n :
              sent[c][i] = "good" /\ \A j \in 1 .. i : sent[c][j] # "wrong"

\* What has been replied before a target is connected, with it, and without.
Before(c) == IF kind[c] = "socks5" THEN <<"method", "authok">> ELSE <<>>
Connected(c) ==
    IF kind[c] = "socks5" THEN <<"method", "authok", "success">> ELSE <<"200">>
Failed(c) ==
    IF kind[c] = "socks5"
    THEN {<<>>, <<"nomethod">>, <<"method">>, <<"method", "authfail">>,
          <<"method", "authok">>, <<"method", "authok", "refused">>,
          <<"method", "authok", "general">>, <<"method", "authok", "nocommand">>,
          <<"method", "authok", "noatyp">>}
    ELSE {<<>>, <<"400">>, <<"407">>, <<"502">>}

\* The handshake so far.
HandshakeInv(c) ==
    /\ pc[c] \in {"new", "greet"} => got[c] = 0 /\ replies[c] = <<>>
    /\ pc[c] \in {"greet", "auth", "request"} => kind[c] = "socks5"
    /\ pc[c] \in {"auth", "request"} => got[c] >= 1 /\ sent[c][1] = "greet"
    /\ pc[c] = "auth" => got[c] = 1 /\ replies[c] = <<"method">>
    /\ pc[c] = "request" =>
         got[c] = 2 /\ sent[c][2] = "good" /\ replies[c] = <<"method", "authok">>
    /\ pc[c] = "header" =>
         /\ kind[c] = "http" /\ replies[c] = <<>>
         /\ \A i \in 1 .. got[c] : sent[c][i] # "end"
    /\ pc[c] = "dial" => Shaken(c, got[c]) /\ replies[c] = Before(c)

\* With a target: what has been read since the handshake was forwarded.
RelayInv(c) ==
    target[c] =>
        /\ pc[c] \in {"relay", "closed"} /\ replies[c] = Connected(c)
        /\ \E n \in 1 .. Len(sent[c]) :
             /\ Shaken(c, n) /\ got[c] = n + Len(fwd[c])
             /\ \A i \in 1 .. Len(fwd[c]) : fwd[c][i] = n + i
        /\ pc[c] = "closed" /\ ~lost[c] =>
             (cEnd[c] /\ ~Ready(c)) \/ (tEnd[c] /\ tGot[c] = tSent[c])

\* Without one: nothing was forwarded.
NoTargetInv(c) ==
    ~target[c] =>
        /\ fwd[c] = <<>> /\ pc[c] # "relay"
        /\ pc[c] = "closed" => replies[c] \in Failed(c)

ConnInv(c) == HandshakeInv(c) /\ RelayInv(c) /\ NoTargetInv(c)

ProxyInv == TypeOK /\ \A c \in Conns : ConnInv(c)

LEMMA SameKeeps ==
    ASSUME NEW c \in Conns, ConnInv(c), Same(c)
    PROVE  ConnInv(c)'
BY DEF Same, ConnInv, HandshakeInv, RelayInv, NoTargetInv, Shaken, Before,
       Connected, Failed, Ready

\* A step of one connection keeps the invariant when it keeps that connection's.
LEMMA OneConnection ==
    ASSUME ProxyInv, NEW c \in Conns, TypeOK', ConnInv(c)',
           \A x \in Conns \ {c} : Same(x)
    PROVE  ProxyInv'
<1>1. ASSUME NEW x \in Conns PROVE ConnInv(x)'
    <2>1. CASE x = c
        BY <2>1, Zenon
    <2>2. CASE x # c
        BY <2>2, SameKeeps DEF ProxyInv
    <2> QED
        BY <2>1, <2>2
<1> QED
    BY <1>1 DEF ProxyInv

LEMMA Concatenations ==
    /\ \A r \in Replies : <<>> \o <<r>> = <<r>> /\ <<r>> \in Seq(Replies)
    /\ \A r, t \in Replies : <<r>> \o <<t>> = <<r, t>>
    /\ \A r, t, u \in Replies : <<r, t>> \o <<u>> = <<r, t, u>>
    /\ \A s \in Seq(Replies) : s \o <<>> = s
    /\ <<>> \in Seq(Replies)
<1>1. \A r \in Replies : <<>> \o <<r>> = <<r>> /\ <<r>> \in Seq(Replies)
    OBVIOUS
<1>2. ASSUME NEW r \in Replies, NEW t \in Replies
      PROVE  <<r>> \o <<t>> = <<r, t>>
    <2>1. <<r>> \in Seq(Replies) /\ <<t>> \in Seq(Replies)
        OBVIOUS
    <2>2. /\ <<r>> \o <<t>> \in Seq(Replies) /\ Len(<<r>> \o <<t>>) = 2
          /\ (<<r>> \o <<t>>)[1] = r /\ (<<r>> \o <<t>>)[2] = t
        BY <2>1, ConcatProperties
    <2>3. <<r, t>> \in Seq(Replies) /\ Len(<<r, t>>) = 2
        OBVIOUS
    <2>4. \A i \in 1 .. 2 : (<<r>> \o <<t>>)[i] = <<r, t>>[i]
        BY <2>2
    <2> QED
        BY <2>2, <2>3, <2>4, SeqEqual, Zenon
<1>3. ASSUME NEW r \in Replies, NEW t \in Replies, NEW u \in Replies
      PROVE  <<r, t>> \o <<u>> = <<r, t, u>>
    <2>1. <<r, t>> \in Seq(Replies) /\ <<u>> \in Seq(Replies)
        OBVIOUS
    <2>2. /\ <<r, t>> \o <<u>> \in Seq(Replies) /\ Len(<<r, t>> \o <<u>>) = 3
          /\ (<<r, t>> \o <<u>>)[1] = r /\ (<<r, t>> \o <<u>>)[2] = t
          /\ (<<r, t>> \o <<u>>)[3] = u
        BY <2>1, ConcatProperties
    <2>3. <<r, t, u>> \in Seq(Replies) /\ Len(<<r, t, u>>) = 3
        OBVIOUS
    <2>4. \A i \in 1 .. 3 : (<<r, t>> \o <<u>>)[i] = <<r, t, u>>[i]
        BY <2>2
    <2> QED
        BY <2>2, <2>3, <2>4, SeqEqual, Zenon
<1>4. \A s \in Seq(Replies) : s \o <<>> = s
    OBVIOUS
<1> QED
    BY <1>1, <1>2, <1>3, <1>4

\* The steps of the SOCKS5 handshake: from where, seeing what, to where, with
\* which replies.
Socks5Step(c, l, r) ==
    \/ pc[c] = "greet" /\ Item(c) = "greet" /\ l = "auth" /\ r = <<"method">>
    \/ pc[c] = "auth" /\ Item(c) = "good" /\ l = "request" /\ r = <<"authok">>
    \/ pc[c] = "request" /\ Item(c) = "connect" /\ l = "dial" /\ r = <<>>
    \/ pc[c] \in {"greet", "auth", "request"} /\ l = "closed" /\ r = <<>>
    \/ pc[c] = "greet" /\ l = "closed" /\ r = <<"nomethod">>
    \/ pc[c] = "auth" /\ l = "closed" /\ r = <<"authfail">>
    \/ pc[c] = "request" /\ l = "closed" /\ r \in {<<"nocommand">>, <<"noatyp">>}

LEMMA ProxySocks5Step ==
    ASSUME ProxyInv, NEW c \in Conns, NEW l, NEW r,
           Ready(c), Step(c, l, r), Socks5Step(c, l, r)
    PROVE  ProxyInv'
<1> USE DEF ProxyInv
<1> TypeOK /\ ConnInv(c)
    OBVIOUS
<1>1. /\ {"method", "nomethod", "authok", "authfail", "nocommand", "noatyp"}
           \subseteq Replies
      /\ {"auth", "request"} \subseteq Handshake
    BY DEF Replies, Handshake
<1>2. /\ l \in {"dial", "closed", "auth", "request"} /\ r \in Seq(Replies)
      /\ pc[c] \in {"greet", "auth", "request"}
    BY <1>1, Concatenations DEF Socks5Step
<1>3. /\ TypeOK' /\ \A x \in Conns \ {c} : Same(x)
      /\ got'[c] = got[c] + 1 /\ pc'[c] = l /\ replies'[c] = replies[c] \o r
      /\ UNCHANGED <<kind, client, target, fwd, remote, tGot, lost>>
    BY <1>1, <1>2, StepEffect
<1>4. /\ sent[c] \in Seq(Items) /\ got[c] \in Nat /\ got[c] + 1 <= Len(sent[c])
      /\ Item(c) = sent[c][got[c] + 1] /\ ~target[c]
      /\ kind[c] = "socks5" /\ sent' = sent
    BY <1>2, <1>3 DEF TypeOK, Ready, Item, ConnInv, RelayInv, HandshakeInv, client
<1>5. /\ <<>> \o <<"method">> = <<"method">> /\ <<>> \o <<"nomethod">> = <<"nomethod">>
      /\ <<"method">> \o <<"authok">> = <<"method", "authok">>
      /\ <<"method">> \o <<"authfail">> = <<"method", "authfail">>
      /\ <<"method", "authok">> \o <<"nocommand">> = <<"method", "authok", "nocommand">>
      /\ <<"method", "authok">> \o <<"noatyp">> = <<"method", "authok", "noatyp">>
      /\ replies[c] \o <<>> = replies[c]
    <2>1. replies[c] \in Seq(Replies)
        BY DEF TypeOK
    <2> QED
        BY <1>1, <2>1, Concatenations
<1>6. HandshakeInv(c)
    BY DEF ConnInv
<1>7. HandshakeInv(c)'
    <2>1. CASE l = "auth"
        <3>1. /\ pc[c] = "greet" /\ Item(c) = "greet" /\ r = <<"method">>
            BY <2>1 DEF Socks5Step
        <3>2. got[c] = 0 /\ replies[c] = <<>>
            BY <1>6, <3>1 DEF HandshakeInv
        <3>3. replies'[c] = <<"method">>
            BY ONLY <1>3, <1>5, <3>1, <3>2
        <3>4. got'[c] = 1 /\ sent'[c][1] = "greet"
            <4>1. got'[c] = got[c] + 1 /\ sent'[c] = sent[c]
                BY <1>3, <1>4, Zenon
            <4>2. sent[c][got[c] + 1] = "greet"
                BY <1>4, <3>1, Zenon
            <4> QED
                BY ONLY <3>2, <4>1, <4>2
        <3> QED
            BY <1>3, <1>4, <2>1, <3>3, <3>4 DEF HandshakeInv
    <2>2. CASE l = "request"
        <3>1. /\ pc[c] = "auth" /\ Item(c) = "good" /\ r = <<"authok">>
            BY <2>2 DEF Socks5Step
        <3>2. /\ replies'[c] = <<"method", "authok">> /\ got'[c] = 2
              /\ sent'[c][1] = "greet" /\ sent'[c][2] = "good"
            <4>1. got[c] = 1 /\ replies[c] = <<"method">> /\ sent[c][1] = "greet"
                BY <1>6, <3>1 DEF HandshakeInv
            <4>2. replies'[c] = <<"method", "authok">>
                BY ONLY <1>3, <1>5, <3>1, <4>1
            <4>3. got'[c] = 2 /\ sent'[c][1] = "greet" /\ sent'[c][2] = "good"
                <5>1. got'[c] = got[c] + 1 /\ sent'[c] = sent[c]
                    BY <1>3, <1>4, Zenon
                <5>2. sent[c][got[c] + 1] = "good"
                    BY <1>4, <3>1, Zenon
                <5> QED
                    BY ONLY <4>1, <5>1, <5>2
            <4> QED
                BY <4>2, <4>3
        <3> QED
            BY <1>3, <1>4, <2>2, <3>2 DEF HandshakeInv
    <2>3. CASE l = "dial"
        <3>1. /\ pc[c] = "request" /\ Item(c) = "connect" /\ r = <<>>
            BY <2>3 DEF Socks5Step
        <3>2. /\ replies'[c] = <<"method", "authok">> /\ got'[c] = 3
              /\ sent'[c][1] = "greet" /\ sent'[c][2] = "good" /\ sent'[c][3] = "connect"
            <4>1. /\ got[c] = 2 /\ replies[c] = <<"method", "authok">>
                  /\ sent[c][1] = "greet" /\ sent[c][2] = "good"
                BY <1>6, <3>1 DEF HandshakeInv
            <4>2. replies'[c] = <<"method", "authok">>
                BY ONLY <1>3, <1>5, <3>1, <4>1
            <4>3. /\ got'[c] = 3 /\ sent'[c][1] = "greet" /\ sent'[c][2] = "good"
                  /\ sent'[c][3] = "connect"
                <5>1. got'[c] = got[c] + 1 /\ sent'[c] = sent[c]
                    BY <1>3, <1>4, Zenon
                <5>2. sent[c][got[c] + 1] = "connect"
                    BY <1>4, <3>1, Zenon
                <5> QED
                    BY ONLY <4>1, <5>1, <5>2
            <4> QED
                BY <4>2, <4>3
        <3> QED
            BY <1>3, <1>4, <2>3, <3>2 DEF HandshakeInv, Shaken, Before
    <2>4. CASE l = "closed"
        BY <1>3, <2>4 DEF HandshakeInv
    <2> QED
        BY <1>2, <2>1, <2>2, <2>3, <2>4
<1>8. l = "closed" => replies'[c] \in Failed(c)
    <2> SUFFICES ASSUME l = "closed" PROVE replies'[c] \in Failed(c)
        OBVIOUS
    <2>1. CASE pc[c] = "greet"
        <3>1. replies'[c] \in {<<>>, <<"nomethod">>}
            BY <1>3, <1>5, <1>6, <2>1 DEF HandshakeInv, Socks5Step
        <3> QED
            BY <1>4, <3>1 DEF Failed
    <2>2. CASE pc[c] = "auth"
        <3>1. replies'[c] \in {<<"method">>, <<"method", "authfail">>}
            BY <1>3, <1>5, <1>6, <2>2 DEF HandshakeInv, Socks5Step
        <3> QED
            BY <1>4, <3>1 DEF Failed
    <2>3. CASE pc[c] = "request"
        <3>1. replies'[c] \in {<<"method", "authok">>, <<"method", "authok", "nocommand">>,
                               <<"method", "authok", "noatyp">>}
            BY <1>3, <1>5, <1>6, <2>3 DEF HandshakeInv, Socks5Step
        <3> QED
            BY <1>4, <3>1 DEF Failed
    <2> QED
        BY <1>2, <2>1, <2>2, <2>3
<1>9. ConnInv(c)'
    <2>1. RelayInv(c)'
        BY <1>3, <1>4 DEF RelayInv
    <2>2. NoTargetInv(c)'
        BY <1>2, <1>3, <1>4, <1>8 DEF ConnInv, NoTargetInv, Failed
    <2> QED
        BY <1>7, <2>1, <2>2 DEF ConnInv
<1> QED
    BY <1>3, <1>9, OneConnection

LEMMA ProxyRead ==
    ASSUME ProxyInv, NEW c \in Conns,
           ReadGreeting(c) \/ ReadAuth(c) \/ ReadRequest(c)
    PROVE  ProxyInv'
<1>1. CASE ReadGreeting(c)
    <2>1. PICK l, r : Ready(c) /\ Step(c, l, r) /\ Socks5Step(c, l, r)
        BY <1>1, ReadSteps, Zenon DEF Socks5Step
    <2> QED
        BY <2>1, ProxySocks5Step
<1>2. CASE ReadAuth(c)
    <2>1. PICK l, r : Ready(c) /\ Step(c, l, r) /\ Socks5Step(c, l, r)
        BY <1>2, ReadSteps, Zenon DEF Socks5Step
    <2> QED
        BY <2>1, ProxySocks5Step
<1>3. CASE ReadRequest(c)
    <2>1. PICK l, r : Ready(c) /\ Step(c, l, r) /\ Socks5Step(c, l, r)
        BY <1>3, ReadSteps, Zenon DEF Socks5Step
    <2> QED
        BY <2>1, ProxySocks5Step
<1> QED
    BY <1>1, <1>2, <1>3

\* A connection that never had a target may be closed with any failed reply.
LEMMA ClosedWithoutTarget ==
    ASSUME ProxyInv, NEW c \in Conns, TypeOK', \A x \in Conns \ {c} : Same(x),
           pc'[c] = "closed", ~target[c], UNCHANGED <<kind, target, fwd>>,
           replies'[c] \in Failed(c)
    PROVE  ProxyInv'
<1>1. ConnInv(c)
    BY DEF ProxyInv
<1>2. HandshakeInv(c)' /\ RelayInv(c)'
    BY DEF HandshakeInv, RelayInv
<1>3. NoTargetInv(c)'
    BY <1>1 DEF ConnInv, NoTargetInv, Failed
<1> QED
    BY <1>2, <1>3, OneConnection DEF ConnInv

LEMMA ProxyHeader ==
    ASSUME ProxyInv, NEW c \in Conns, ReadHeader(c)
    PROVE  ProxyInv'
<1> DEFINE head == SubSeq(sent[c], 1, got[c] + 1)
<1>1. TypeOK /\ ConnInv(c)
    BY DEF ProxyInv
<1>2. /\ pc[c] = "header" /\ Ready(c) /\ Len(head) = got[c] + 1
      /\ \A i \in 1 .. got[c] + 1 : head[i] = sent[c][i]
      /\ \/ Step(c, "closed", <<>>)
         \/ got[c] + 1 <= MaxHeader /\ Item(c) # "end" /\ Step(c, "header", <<>>)
         \/ Step(c, "closed", <<"400">>)
         \/ Step(c, "closed", <<"407">>)
         \/ /\ got[c] + 1 <= MaxHeader /\ Item(c) = "end"
            /\ head[1] = "connect" /\ BasicAuth(head) = "good"
            /\ Step(c, "dial", <<>>)
    BY <1>1, HeaderSteps
<1>3. /\ kind[c] = "http" /\ replies[c] = <<>> /\ ~target[c]
      /\ \A i \in 1 .. got[c] : sent[c][i] # "end"
    BY <1>1, <1>2 DEF ConnInv, HandshakeInv, RelayInv
<1>4. /\ sent[c] \in Seq(Items) /\ got[c] \in Nat /\ got[c] + 1 <= Len(sent[c])
      /\ Item(c) = sent[c][got[c] + 1]
    BY <1>1, <1>2 DEF TypeOK, Ready, Item
<1>5. /\ {"400", "407"} \subseteq Replies /\ "header" \in Handshake
      /\ <<>> \o <<"400">> = <<"400">> /\ <<>> \o <<"407">> = <<"407">>
      /\ <<>> \o <<>> = <<>>
      /\ {<<>>, <<"400">>, <<"407">>} \subseteq Seq(Replies)
    BY Concatenations DEF Replies, Handshake
<1> HIDE DEF head
<1>6. ASSUME NEW r \in {<<>>, <<"400">>, <<"407">>}, Step(c, "closed", r)
      PROVE  ProxyInv'
    <2>1. /\ TypeOK' /\ \A x \in Conns \ {c} : Same(x)
          /\ pc'[c] = "closed" /\ replies'[c] = replies[c] \o r
          /\ UNCHANGED <<kind, target, fwd>>
        BY <1>1, <1>2, <1>5, <1>6, StepEffect
    <2>2. replies'[c] = r
        BY <1>3, <1>5, <2>1
    <2>3. replies'[c] \in Failed(c)
        BY <1>3, <1>6, <2>2 DEF Failed
    <2> QED
        BY <1>3, <2>1, <2>3, ClosedWithoutTarget
<1>7. CASE got[c] + 1 <= MaxHeader /\ Item(c) # "end" /\ Step(c, "header", <<>>)
    <2>1. /\ TypeOK' /\ \A x \in Conns \ {c} : Same(x)
          /\ got'[c] = got[c] + 1 /\ pc'[c] = "header"
          /\ replies'[c] = replies[c] \o <<>>
          /\ UNCHANGED <<kind, client, target, fwd, remote, tGot, lost>>
        BY <1>1, <1>2, <1>5, <1>7, StepEffect
    <2>2. sent'[c] = sent[c] /\ sent[c][got[c] + 1] # "end"
        BY <1>4, <1>7, <2>1 DEF client
    <2>3. \A i \in 1 .. got'[c] : sent'[c][i] # "end"
        <3> SUFFICES ASSUME NEW i \in 1 .. got[c] + 1 PROVE sent[c][i] # "end"
            BY <2>1, <2>2
        <3>1. i = got[c] + 1 \/ i \in 1 .. got[c]
            BY <1>4
        <3> QED
            BY <1>3, <2>2, <3>1
    <2>4. kind'[c] = "http" /\ replies'[c] = <<>> /\ ~target'[c]
        BY <1>3, <1>5, <2>1
    <2>5. HandshakeInv(c)' /\ RelayInv(c)'
        BY <2>1, <2>3, <2>4 DEF HandshakeInv, RelayInv
    <2>6. NoTargetInv(c)'
        BY <1>1, <1>3, <2>1 DEF ConnInv, NoTargetInv
    <2> QED
        BY <2>1, <2>5, <2>6, OneConnection DEF ConnInv
<1>8. CASE /\ got[c] + 1 <= MaxHeader /\ Item(c) = "end"
           /\ head[1] = "connect" /\ BasicAuth(head) = "good"
           /\ Step(c, "dial", <<>>)
    <2>1. /\ TypeOK' /\ \A x \in Conns \ {c} : Same(x)
          /\ got'[c] = got[c] + 1 /\ pc'[c] = "dial"
          /\ replies'[c] = replies[c] \o <<>>
          /\ UNCHANGED <<kind, client, target, fwd, remote, tGot, lost>>
        BY <1>1, <1>2, <1>5, <1>8, StepEffect
    <2>2. sent'[c] = sent[c] /\ sent[c][got[c] + 1] = "end"
        BY <1>4, <1>8, <2>1 DEF client
    <2>3. head \in Seq(Items)
        BY <1>4 DEF head
    <2>4. PICK k \in 1 .. Len(head) :
            head[k] = "good" /\ \A j \in 1 .. k : head[j] # "wrong"
        BY <1>8, <2>3, BasicAuthFirst
    <2>5. /\ k \in 1 .. got[c] + 1 /\ sent[c][k] = "good"
          /\ \A j \in 1 .. k : sent[c][j] # "wrong"
        <3>1. /\ Len(head) = got[c] + 1 /\ got[c] \in Nat
              /\ \A i \in 1 .. got[c] + 1 : head[i] = sent[c][i]
            BY <1>2, <1>4
        <3>2. k \in 1 .. got[c] + 1 /\ \A j \in 1 .. k : j \in 1 .. got[c] + 1
            BY ONLY <2>4, <3>1
        <3> QED
            BY ONLY <2>4, <3>1, <3>2, Zenon
    <2>6. sent[c][1] = "connect"
        BY <1>2, <1>4, <1>8
    <2>7. \A i \in 1 .. got[c] + 1 : sent[c][i] = "end" => i = got[c] + 1
        BY <1>3, <1>4
    <2>8. Shaken(c, got[c])'
        <3>1. /\ got'[c] \in 1 .. Len(sent'[c]) /\ got'[c] <= MaxHeader
              /\ sent'[c][got'[c]] = "end" /\ kind'[c] = "http"
            BY <1>3, <1>4, <1>8, <2>1, <2>2
        <3>2. /\ \A i \in 1 .. got'[c] : sent'[c][i] = "end" => i = got'[c]
              /\ k \in 1 .. got'[c] /\ sent'[c][k] = "good" /\ sent'[c][1] = "connect"
              /\ \A j \in 1 .. k : sent'[c][j] # "wrong"
            BY <2>1, <2>2, <2>5, <2>6, <2>7
        <3> QED
            BY <3>1, <3>2 DEF Shaken
    <2>9. kind'[c] = "http" /\ replies'[c] = <<>> /\ ~target'[c]
        BY <1>3, <1>5, <2>1
    <2>10. HandshakeInv(c)' /\ RelayInv(c)'
        BY <2>1, <2>8, <2>9 DEF HandshakeInv, RelayInv, Before
    <2>11. NoTargetInv(c)'
        BY <1>1, <1>3, <2>1 DEF ConnInv, NoTargetInv
    <2> QED
        BY <2>1, <2>10, <2>11, OneConnection DEF ConnInv
<1> QED
    BY <1>2, <1>6, <1>7, <1>8, Zenon

\* The handler ends before it has a target.
LEMMA ProxyGivesUp ==
    ASSUME ProxyInv, NEW c \in Conns,
           ReadFails(c) \/ HandshakeTimeout(c) \/ DialFails(c) \/ ReplyFails(c)
    PROVE  ProxyInv'
<1>1. TypeOK /\ HandshakeInv(c) /\ RelayInv(c) /\ pc[c] \in Handshake \cup {"dial"}
    BY DEF ProxyInv, ConnInv, ReadFails, HandshakeTimeout, DialFails, ReplyFails
<1>2. ~target[c] /\ kind[c] \in {"socks5", "http"} /\ replies[c] \in Seq(Replies)
    BY <1>1 DEF RelayInv, TypeOK, Handshake
<1>3. replies[c] \in Failed(c)
    BY <1>1, <1>2 DEF HandshakeInv, Failed, Before, Handshake
<1>4. CASE ReadFails(c) \/ HandshakeTimeout(c) \/ ReplyFails(c)
    <2>1. Close(c) /\ replies' = replies
        BY <1>4 DEF ReadFails, HandshakeTimeout, ReplyFails
    <2>2. replies[c] \o <<>> = replies[c] /\ <<>> \in Seq(Replies)
        BY <1>2, Concatenations
    <2>3. replies' = [replies EXCEPT ![c] = @ \o <<>>]
        BY <1>1, <2>1, <2>2 DEF TypeOK
    <2>4. /\ TypeOK' /\ pc'[c] = "closed"
          /\ \A x \in Conns \ {c} : Same(x)
          /\ UNCHANGED <<kind, target, fwd>>
        BY <1>1, <2>1, <2>2, <2>3, CloseEffect
    <2>5. replies'[c] \in Failed(c)
        BY <1>3, <2>1
    <2> QED
        BY <1>2, <2>4, <2>5, ClosedWithoutTarget
<1>5. CASE DialFails(c)
    <2>1. PICK r \in IF kind[c] = "socks5" THEN {"refused", "general"} ELSE {"502"} :
            replies' = [replies EXCEPT ![c] = Append(@, r)]
        BY <1>5 DEF DialFails
    <2>2. Close(c) /\ pc[c] = "dial" /\ replies[c] = Before(c)
        BY <1>1, <1>5 DEF DialFails, HandshakeInv
    <2>3. r \in Replies /\ <<r>> \in Seq(Replies)
        BY <2>1 DEF Replies
    <2>4. Append(replies[c], r) = replies[c] \o <<r>>
        BY <1>2, <2>3
    <2>5. replies' = [replies EXCEPT ![c] = @ \o <<r>>]
        BY <2>1, <2>4
    <2>6. /\ TypeOK' /\ pc'[c] = "closed"
          /\ \A x \in Conns \ {c} : Same(x)
          /\ replies'[c] = replies[c] \o <<r>>
          /\ UNCHANGED <<kind, target, fwd>>
        BY <1>1, <2>2, <2>3, <2>5, CloseEffect
    <2>7. replies'[c] \in Failed(c)
        <3>1. CASE kind[c] = "socks5"
            <4>1. replies'[c] = <<"method", "authok">> \o <<r>>
                BY <2>2, <2>6, <3>1 DEF Before
            <4>2. "method" \in Replies /\ "authok" \in Replies
                BY DEF Replies
            <4>3. replies'[c] = <<"method", "authok", r>>
                BY <2>3, <4>1, <4>2, Concatenations
            <4>4. r \in {"refused", "general"}
                BY <2>1, <3>1
            <4> QED
                BY <3>1, <4>3, <4>4 DEF Failed
        <3>2. CASE kind[c] # "socks5"
            <4>1. replies'[c] = <<>> \o <<r>>
                BY <2>2, <2>6, <3>2 DEF Before
            <4>2. replies'[c] = <<r>>
                BY <2>3, <4>1, Concatenations
            <4>3. r = "502"
                BY <2>1, <3>2
            <4> QED
                BY <3>2, <4>2, <4>3 DEF Failed
        <3> QED
            BY <3>1, <3>2
    <2> QED
        BY <1>2, <2>6, <2>7, ClosedWithoutTarget
<1> QED
    BY <1>4, <1>5

\* A relay ends; nothing but the position of the handler changes.
LEMMA ProxyRelayEnd ==
    ASSUME ProxyInv, NEW c \in Conns, RelayEnd(c)
    PROVE  ProxyInv'
<1>1. /\ TypeOK /\ RelayInv(c) /\ pc[c] = "relay" /\ NoTargetInv(c)
      /\ Close(c) /\ replies' = replies
    BY DEF ProxyInv, ConnInv, RelayEnd
<1>2. target[c] /\ replies[c] \in Seq(Replies)
    BY <1>1 DEF NoTargetInv, TypeOK
<1>3. replies[c] \o <<>> = replies[c] /\ <<>> \in Seq(Replies)
    BY <1>2, Concatenations
<1>4. replies' = [replies EXCEPT ![c] = @ \o <<>>]
    BY <1>1, <1>3 DEF TypeOK
<1>5. /\ TypeOK' /\ pc'[c] = "closed"
      /\ \A x \in Conns \ {c} : Same(x)
      /\ UNCHANGED <<kind, client, got, target, fwd, remote, tGot, lost>>
    BY <1>1, <1>3, <1>4, CloseEffect
<1>6. UNCHANGED <<sent, cEnd, tSent, tEnd>>
    BY <1>5 DEF client, remote
<1>7. HandshakeInv(c)' /\ NoTargetInv(c)'
    BY <1>2, <1>5 DEF HandshakeInv, NoTargetInv
<1>8. /\ replies'[c] = Connected(c)'
      /\ \E n \in 1 .. Len(sent'[c]) :
           /\ Shaken(c, n)' /\ got'[c] = n + Len(fwd'[c])
           /\ \A i \in 1 .. Len(fwd'[c]) : fwd'[c][i] = n + i
    BY <1>1, <1>2, <1>5, <1>6 DEF RelayInv, Shaken, Connected
<1>9. ~lost'[c] => (cEnd'[c] /\ ~Ready(c)') \/ (tEnd'[c] /\ tGot'[c] = tSent'[c])
    BY <1>5, <1>6 DEF RelayEnd, Ready
<1>10. RelayInv(c)'
    BY <1>5, <1>8, <1>9, Zenon DEF RelayInv
<1> QED
    BY <1>5, <1>7, <1>10, OneConnection DEF ConnInv

\* The target is connected: what was read so far is the handshake.
LEMMA ProxyDialOk ==
    ASSUME ProxyInv, NEW c \in Conns, DialOk(c)
    PROVE  ProxyInv'
<1>1. TypeOK /\ HandshakeInv(c) /\ RelayInv(c) /\ NoTargetInv(c) /\ pc[c] = "dial"
    BY DEF ProxyInv, ConnInv, DialOk
<1>2. /\ ~target[c] /\ Shaken(c, got[c]) /\ replies[c] = Before(c) /\ fwd[c] = <<>>
      /\ got[c] \in Nat /\ replies[c] \in Seq(Replies) /\ kind[c] \in {"socks5", "http"}
    BY <1>1 DEF HandshakeInv, RelayInv, NoTargetInv, TypeOK
<1> DEFINE r == IF kind[c] = "socks5" THEN "success" ELSE "200"
<1>3. r \in Replies /\ "method" \in Replies /\ "authok" \in Replies
    BY DEF Replies
<1>4. /\ target'[c] = TRUE /\ pc'[c] = "relay" /\ replies'[c] = Append(replies[c], r)
      /\ UNCHANGED <<listening, kind, sent, cEnd, got, fwd, tSent, tEnd, tGot, lost>>
    BY <1>1 DEF DialOk, TypeOK, client, remote
<1>5. Append(replies[c], r) \in Seq(Replies) /\ Append(replies[c], r) = replies[c] \o <<r>>
    BY <1>2, <1>3
<1>6. TypeOK'
    <2>1. replies' \in [Conns -> Seq(Replies)]
        BY <1>1, <1>5 DEF DialOk, TypeOK
    <2>2. /\ target' \in [Conns -> BOOLEAN]
          /\ pc' \in [Conns -> {"new", "dial", "relay", "closed"} \cup Handshake]
          /\ \A x \in Conns : pc'[x] = "header" => pc[x] = "header"
        BY <1>1 DEF DialOk, TypeOK
    <2> QED
        BY <1>1, <1>4, <2>1, <2>2 DEF TypeOK
<1>7. \A x \in Conns \ {c} : Same(x)
    BY <1>1, <1>4 DEF DialOk, TypeOK, Same
<1>8. replies'[c] = Connected(c)'
    <2>1. CASE kind[c] = "socks5"
        <3>1. replies[c] \o <<r>> = <<"method", "authok", r>>
            BY <1>2, <1>3, <2>1, Concatenations DEF Before
        <3> QED
            BY <1>4, <1>5, <2>1, <3>1 DEF Connected
    <2>2. CASE kind[c] # "socks5"
        <3>1. replies[c] \o <<r>> = <<r>>
            BY <1>2, <1>3, <2>2, Concatenations DEF Before
        <3> QED
            BY <1>4, <1>5, <2>2, <3>1 DEF Connected
    <2> QED
        BY <2>1, <2>2
<1>9. /\ got[c] \in 1 .. Len(sent'[c]) /\ Shaken(c, got[c])
      /\ got'[c] = got[c] + Len(fwd'[c]) /\ Len(fwd'[c]) = 0
    BY <1>2, <1>4 DEF Shaken
<1>10. RelayInv(c)'
    <2>1. \E n \in 1 .. Len(sent'[c]) :
            /\ Shaken(c, n)' /\ got'[c] = n + Len(fwd'[c])
            /\ \A i \in 1 .. Len(fwd'[c]) : fwd'[c][i] = n + i
        <3>1. PICK m \in 1 .. Len(sent'[c]) : m = got[c]
            BY <1>9
        <3>2. Shaken(c, m)'
            BY <1>2, <1>4, <3>1 DEF Shaken
        <3>3. got'[c] = m + Len(fwd'[c]) /\ \A i \in 1 .. Len(fwd'[c]) : fwd'[c][i] = m + i
            BY <1>9, <3>1
        <3> QED
            BY <3>2, <3>3, Zenon
    <2> QED
        BY <1>4, <1>8, <2>1 DEF RelayInv
<1>11. HandshakeInv(c)' /\ NoTargetInv(c)'
    BY <1>4 DEF HandshakeInv, NoTargetInv
<1> QED
    BY <1>6, <1>7, <1>10, <1>11, OneConnection DEF ConnInv

\* One more item is forwarded: the next one.
LEMMA ProxyRelayOut ==
    ASSUME ProxyInv, NEW c \in Conns, RelayOut(c)
    PROVE  ProxyInv'
<1>1. TypeOK /\ RelayInv(c) /\ NoTargetInv(c) /\ pc[c] = "relay" /\ Ready(c)
    BY DEF ProxyInv, ConnInv, RelayOut
<1>2. PICK n \in 1 .. Len(sent[c]) :
        /\ Shaken(c, n) /\ got[c] = n + Len(fwd[c])
        /\ \A i \in 1 .. Len(fwd[c]) : fwd[c][i] = n + i
    BY <1>1 DEF RelayInv, NoTargetInv
<1>3. /\ target[c] /\ replies[c] = Connected(c) /\ got[c] \in Nat
      /\ fwd[c] \in Seq(Nat) /\ sent[c] \in Seq(Items) /\ got[c] < Len(sent[c])
    BY <1>1 DEF RelayInv, NoTargetInv, TypeOK, Ready
<1>4. /\ got'[c] = got[c] + 1 /\ fwd'[c] = Append(fwd[c], got[c] + 1)
      /\ UNCHANGED <<listening, kind, pc, sent, cEnd, replies, target, tSent, tEnd,
                     tGot, lost>>
    BY <1>1 DEF RelayOut, TypeOK, client, remote
<1>5. TypeOK'
    <2>1. fwd' \in [Conns -> Seq(Nat)]
        BY <1>1, <1>3 DEF RelayOut, TypeOK
    <2>2. /\ got' \in [Conns -> Nat] /\ \A x \in Conns : got'[x] <= Len(sent[x])
          /\ \A x \in Conns : pc[x] = "header" => got'[x] <= MaxHeader
        BY <1>1, <1>3 DEF RelayOut, TypeOK
    <2> QED
        BY <1>1, <1>4, <2>1, <2>2 DEF TypeOK
<1>6. \A x \in Conns \ {c} : Same(x)
    BY <1>1, <1>4 DEF RelayOut, TypeOK, Same
<1>7. /\ Len(fwd'[c]) = Len(fwd[c]) + 1 /\ fwd'[c][Len(fwd[c]) + 1] = got[c] + 1
      /\ \A i \in 1 .. Len(fwd[c]) : fwd'[c][i] = fwd[c][i]
      /\ Len(fwd[c]) \in Nat
    BY <1>3, <1>4
<1>8. got'[c] = n + Len(fwd'[c]) /\ \A i \in 1 .. Len(fwd'[c]) : fwd'[c][i] = n + i
    <2>1. got'[c] = got[c] + 1 /\ got[c] = n + Len(fwd[c]) /\ n \in Nat
        BY <1>2, <1>4
    <2>2. ASSUME NEW i \in 1 .. Len(fwd'[c])
          PROVE  fwd'[c][i] = n + i
        <3>1. i \in 1 .. Len(fwd[c]) \/ i = Len(fwd[c]) + 1
            BY <1>7
        <3>2. \A j \in 1 .. Len(fwd[c]) : fwd'[c][j] = n + j
            BY <1>2, <1>7, Zenon
        <3>3. fwd'[c][Len(fwd[c]) + 1] = n + (Len(fwd[c]) + 1)
            BY <1>7, <2>1
        <3> QED
            BY <3>1, <3>2, <3>3, Zenon
    <2>3. got'[c] = n + Len(fwd'[c])
        BY ONLY <1>7, <2>1
    <2> QED
        BY <2>2, <2>3
<1>9. Shaken(c, n)' /\ n \in 1 .. Len(sent'[c]) /\ replies'[c] = Connected(c)'
    BY <1>2, <1>3, <1>4 DEF Shaken, Connected
<1>10. RelayInv(c)'
    <2>1. \E m \in 1 .. Len(sent'[c]) :
            /\ Shaken(c, m)' /\ got'[c] = m + Len(fwd'[c])
            /\ \A i \in 1 .. Len(fwd'[c]) : fwd'[c][i] = m + i
        BY <1>8, <1>9, Zenon
    <2>2. pc'[c] = "relay"
        BY <1>1, <1>4
    <2> QED
        BY <1>9, <2>1, <2>2 DEF RelayInv
<1>11. HandshakeInv(c)' /\ NoTargetInv(c)'
    BY <1>1, <1>3, <1>4 DEF HandshakeInv, NoTargetInv
<1> QED
    BY <1>5, <1>6, <1>10, <1>11, OneConnection DEF ConnInv

\* What only a live relay sees: an answer, or the end of a stream.
LEMMA ProxyRelayEvents ==
    ASSUME ProxyInv, NEW c \in Conns,
           \/ RelayBack(c) \/ TargetSend(c) \/ TargetEnd(c)
    PROVE  ProxyInv'
<1>1. TypeOK /\ ConnInv(c) /\ pc[c] = "relay"
    BY DEF ProxyInv, RelayBack, TargetSend, TargetEnd
<1>2. UNCHANGED <<listening, kind, pc, sent, cEnd, got, replies, target, fwd, lost>>
    BY DEF RelayBack, TargetSend, TargetEnd, client, remote
<1>3. TypeOK'
    <2>1. CASE RelayBack(c)
        BY <1>1, <1>2, <2>1 DEF TypeOK, RelayBack, remote
    <2>2. CASE TargetSend(c)
        BY <1>1, <1>2, <2>2, BoundsAssumption DEF TypeOK, TargetSend
    <2>3. CASE TargetEnd(c)
        BY <1>1, <1>2, <2>3 DEF TypeOK, TargetEnd
    <2> QED
        BY <2>1, <2>2, <2>3
<1>4. \A x \in Conns \ {c} : Same(x)
    BY <1>1, <1>2 DEF TypeOK, RelayBack, TargetSend, TargetEnd, remote, Same
<1>5. ConnInv(c)'
    BY <1>1, <1>2 DEF ConnInv, HandshakeInv, RelayInv, NoTargetInv, Shaken, Connected
<1> QED
    BY <1>3, <1>4, <1>5, OneConnection

\* What was read stays what it was when the client sends more.
LEMMA ProxyClientSend ==
    ASSUME ProxyInv, NEW c \in Conns, ClientSend(c)
    PROVE  ProxyInv'
<1>1. TypeOK /\ HandshakeInv(c) /\ RelayInv(c) /\ NoTargetInv(c) /\ pc[c] # "closed"
    BY DEF ProxyInv, ConnInv, ClientSend, Alive
<1>2. PICK x \in Items : sent' = [sent EXCEPT ![c] = Append(@, x)]
    BY NextItemsTypes DEF ClientSend
<1>3. UNCHANGED <<listening, kind, pc, cEnd, got, replies, target, fwd, tSent, tEnd,
                  tGot, lost>>
    BY DEF ClientSend, remote
<1>4. sent[c] \in Seq(Items) /\ got[c] \in Nat /\ got[c] <= Len(sent[c])
    BY <1>1 DEF TypeOK
<1>5. sent'[c] = Append(sent[c], x)
    BY <1>1, <1>2 DEF TypeOK
<1>6. /\ Len(sent'[c]) = Len(sent[c]) + 1 /\ sent'[c] \in Seq(Items)
      /\ \A i \in 1 .. Len(sent[c]) : sent'[c][i] = sent[c][i]
      /\ Len(sent[c]) \in Nat
    BY <1>4, <1>5
<1>7. TypeOK'
    <2>1. sent' \in [Conns -> Seq(Items)]
        BY <1>1, <1>2, <1>4 DEF TypeOK
    <2>2. \A y \in Conns : got[y] <= Len(sent'[y])
        <3> SUFFICES ASSUME NEW y \in Conns PROVE got[y] <= Len(sent'[y])
            OBVIOUS
        <3>1. CASE y = c
            BY <1>4, <1>6, <3>1
        <3>2. CASE y # c
            BY <1>1, <1>2, <3>2 DEF TypeOK
        <3> QED
            BY <3>1, <3>2
    <2> QED
        BY <1>1, <1>3, <2>1, <2>2 DEF TypeOK
<1>8. \A y \in Conns \ {c} : Same(y)
    BY <1>1, <1>2, <1>3 DEF TypeOK, Same
<1>9. ASSUME NEW n, Shaken(c, n)
      PROVE  Shaken(c, n)' /\ n \in 1 .. Len(sent'[c])
    <2>1. n \in 1 .. Len(sent[c]) /\ n \in 1 .. Len(sent'[c])
        BY <1>6, <1>9 DEF Shaken
    <2>2. \A i \in 1 .. n : sent'[c][i] = sent[c][i]
        BY <1>6, <2>1
    <2>3. kind[c] = "socks5" =>
            /\ n = 3 /\ sent'[c][1] = "greet" /\ sent'[c][2] = "good"
            /\ sent'[c][3] = "connect"
        BY <1>9, <2>2 DEF Shaken
    <2>4. kind[c] = "http" =>
            /\ n <= MaxHeader /\ sent'[c][n] = "end" /\ sent'[c][1] = "connect"
            /\ \A i \in 1 .. n : sent'[c][i] = "end" => i = n
        BY <1>9, <2>1, <2>2 DEF Shaken
    <2>5. kind[c] = "http" =>
            \E i \in 1 .. n :
              sent'[c][i] = "good" /\ \A j \in 1 .. i : sent'[c][j] # "wrong"
        <3> SUFFICES ASSUME kind[c] = "http"
                     PROVE  \E i \in 1 .. n :
                       sent'[c][i] = "good" /\ \A j \in 1 .. i : sent'[c][j] # "wrong"
            OBVIOUS
        <3>1. PICK i \in 1 .. n :
                sent[c][i] = "good" /\ \A j \in 1 .. i : sent[c][j] # "wrong"
            BY <1>9, Zenon DEF Shaken
        <3>2. \A j \in 1 .. i : j \in 1 .. n
            BY <2>1
        <3> QED
            BY <2>2, <3>1, <3>2, Zenon
    <2> QED
        BY <1>3, <2>1, <2>3, <2>4, <2>5, Zenon DEF Shaken
<1>10. HandshakeInv(c)'
    <2>1. \A i \in 1 .. got[c] : sent'[c][i] = sent[c][i]
        BY <1>4, <1>6
    <2>2. pc[c] = "dial" => Shaken(c, got[c])'
        <3>1. PICK n \in Nat : n = got[c]
            BY <1>4
        <3>2. pc[c] = "dial" => Shaken(c, n)'
            BY <1>1, <1>9, <3>1 DEF HandshakeInv
        <3> QED
            BY <1>3, <3>1, <3>2 DEF Shaken
    <2>3. /\ pc'[c] \in {"new", "greet"} => got'[c] = 0 /\ replies'[c] = <<>>
          /\ pc'[c] \in {"greet", "auth", "request"} => kind'[c] = "socks5"
          /\ pc'[c] = "auth" => got'[c] = 1 /\ replies'[c] = <<"method">>
          /\ pc'[c] = "request" => got'[c] = 2 /\ replies'[c] = <<"method", "authok">>
          /\ pc'[c] = "header" => kind'[c] = "http" /\ replies'[c] = <<>>
          /\ pc'[c] = "dial" => replies'[c] = Before(c)'
        BY <1>1, <1>3 DEF HandshakeInv, Before
    <2>4. /\ pc'[c] \in {"auth", "request"} => got'[c] >= 1 /\ sent'[c][1] = "greet"
          /\ pc'[c] = "request" => sent'[c][2] = "good"
          /\ pc'[c] = "header" => \A i \in 1 .. got'[c] : sent'[c][i] # "end"
        BY <1>1, <1>3, <1>4, <2>1 DEF HandshakeInv
    <2> QED
        BY <1>3, <2>2, <2>3, <2>4 DEF HandshakeInv
<1>11. RelayInv(c)'
    <2>1. CASE target[c]
        <3>1. PICK n \in 1 .. Len(sent[c]) :
                /\ Shaken(c, n) /\ got[c] = n + Len(fwd[c])
                /\ \A i \in 1 .. Len(fwd[c]) : fwd[c][i] = n + i
            BY <1>1, <2>1 DEF RelayInv
        <3>2. Shaken(c, n)' /\ n \in 1 .. Len(sent'[c])
            BY <1>9, <3>1
        <3>3. \E m \in 1 .. Len(sent'[c]) :
                /\ Shaken(c, m)' /\ got'[c] = m + Len(fwd'[c])
                /\ \A i \in 1 .. Len(fwd'[c]) : fwd'[c][i] = m + i
            BY <1>3, <3>1, <3>2, Zenon
        <3> QED
            BY <1>1, <1>3, <2>1, <3>3 DEF RelayInv, Connected
    <2>2. CASE ~target[c]
        BY <1>3, <2>2 DEF RelayInv
    <2> QED
        BY <2>1, <2>2
<1>12. NoTargetInv(c)'
    BY <1>1, <1>3 DEF NoTargetInv
<1> QED
    BY <1>7, <1>8, <1>10, <1>11, <1>12, OneConnection DEF ConnInv

\* A connection that is not closed is accepted, half-closed or reset.
LEMMA ProxyClientEvents ==
    ASSUME ProxyInv, NEW c \in Conns, Accept(c) \/ ClientEnd(c) \/ Reset(c)
    PROVE  ProxyInv'
<1>1. /\ TypeOK /\ HandshakeInv(c) /\ RelayInv(c) /\ NoTargetInv(c)
      /\ pc[c] # "closed"
    BY DEF ProxyInv, ConnInv, Accept, ClientEnd, Reset, Alive
<1>2. UNCHANGED <<listening, kind, sent, got, replies, target, fwd, tSent, tEnd, tGot>>
    BY DEF Accept, ClientEnd, Reset, client, remote
<1>3. /\ \A x \in Conns \ {c} : Same(x)
      /\ TypeOK'
    <2>1. CASE Accept(c)
        <3>1. \A x \in Conns \ {c} : Same(x)
            BY <1>1, <1>2, <2>1 DEF TypeOK, Accept, Same, client
        <3>2. /\ pc' \in [Conns -> {"new", "dial", "relay", "closed"} \cup Handshake]
              /\ got[c] = 0
            BY <1>1, <2>1 DEF TypeOK, Accept, Handshake, HandshakeInv
        <3>3. \A x \in Conns : pc'[x] = "header" => got[x] <= MaxHeader
            BY <1>1, <2>1, <3>2, BoundsAssumption DEF TypeOK, Accept
        <3> QED
            BY <1>1, <1>2, <2>1, <3>1, <3>2, <3>3 DEF TypeOK, Accept, client
    <2>2. CASE ClientEnd(c)
        BY <1>1, <1>2, <2>2 DEF TypeOK, ClientEnd, Same
    <2>3. CASE Reset(c)
        BY <1>1, <1>2, <2>3 DEF TypeOK, Reset, Same, client
    <2> QED
        BY <2>1, <2>2, <2>3
<1>4. ConnInv(c)'
    <2>1. CASE Accept(c)
        <3>1. /\ pc[c] = "new" /\ kind[c] \in {"socks5", "http"}
              /\ pc'[c] = IF kind[c] = "socks5" THEN "greet" ELSE "header"
            BY <1>1, <2>1 DEF TypeOK, Accept
        <3>2. got[c] = 0 /\ replies[c] = <<>> /\ ~target[c]
            BY <1>1, <3>1 DEF HandshakeInv, RelayInv
        <3>3. /\ got'[c] = 0 /\ replies'[c] = <<>> /\ ~target'[c] /\ kind'[c] = kind[c]
              /\ \A i \in 1 .. got'[c] : sent'[c][i] # "end"
            BY <1>2, <3>2
        <3>4. HandshakeInv(c)'
            BY <3>1, <3>3 DEF HandshakeInv
        <3>5. RelayInv(c)' /\ NoTargetInv(c)'
            BY <1>1, <1>2, <3>1, <3>2 DEF RelayInv, NoTargetInv
        <3> QED
            BY <3>4, <3>5 DEF ConnInv
    <2>2. CASE ClientEnd(c) \/ Reset(c)
        <3>1. pc' = pc
            BY <2>2 DEF ClientEnd, Reset
        <3>2. HandshakeInv(c)' /\ NoTargetInv(c)'
            BY <1>1, <1>2, <3>1 DEF HandshakeInv, NoTargetInv, Shaken, Before
        <3>3. RelayInv(c)'
            BY <1>1, <1>2, <3>1 DEF RelayInv, Shaken, Connected
        <3> QED
            BY <3>2, <3>3 DEF ConnInv
    <2> QED
        BY <2>1, <2>2
<1> QED
    BY <1>3, <1>4, OneConnection

LEMMA ProxyUnchanged ==
    ASSUME ProxyInv, Cancel \/ UNCHANGED vars
    PROVE  ProxyInv'
<1>1. /\ \A c \in Conns : Same(c)
      /\ listening' \in BOOLEAN
      /\ UNCHANGED <<kind, pc, client, got, replies, target, fwd, remote, tGot, lost>>
    BY DEF ProxyInv, TypeOK, Cancel, vars, client, remote, Same
<1>2. TypeOK'
    BY <1>1 DEF ProxyInv, TypeOK, client, remote
<1> QED
    BY <1>1, <1>2, SameKeeps DEF ProxyInv

-----------------------------------------------------------------------------
LEMMA ProxyInit ==
    ASSUME Init
    PROVE  ProxyInv
<1>1. TypeOK
    BY BoundsAssumption DEF Init, TypeOK
<1>2. ASSUME NEW c \in Conns PROVE ConnInv(c)
    BY DEF Init, ConnInv, HandshakeInv, RelayInv, NoTargetInv
<1> QED
    BY <1>1, <1>2 DEF ProxyInv

LEMMA ProxyStep ==
    ASSUME ProxyInv, [Next]_vars
    PROVE  ProxyInv'
<1>1. ASSUME NEW c \in Conns, Handler(c)
      PROVE  ProxyInv'
    BY <1>1, ProxyRead, ProxyHeader, ProxyGivesUp, ProxyDialOk, ProxyRelayOut,
       ProxyRelayEvents, ProxyRelayEnd DEF Handler
<1>2. ASSUME NEW c \in Conns,
             \/ Accept(c) \/ ClientSend(c) \/ ClientEnd(c) \/ Reset(c)
             \/ TargetSend(c) \/ TargetEnd(c)
      PROVE  ProxyInv'
    BY <1>2, ProxyClientSend, ProxyClientEvents, ProxyRelayEvents
<1> QED
    BY <1>1, <1>2, ProxyUnchanged DEF Next

LEMMA ProxyInvariant == Spec => []ProxyInv
BY ProxyInit, ProxyStep, PTL DEF Spec

-----------------------------------------------------------------------------
(* What the invariant says of the properties.                              *)

\* What was read is the whole handshake, and no more.
LEMMA ShakenEntitled ==
    ASSUME TypeOK, NEW c \in Conns, NEW n, Shaken(c, n)
    PROVE  HeadLen(c) = n /\ Entitled(c)
<1>1. sent[c] \in Seq(Items) /\ n \in 1 .. Len(sent[c]) /\ kind[c] \in {"socks5", "http"}
    BY DEF TypeOK, Shaken
<1>2. CASE kind[c] = "socks5"
    <2>1. /\ n = 3 /\ sent[c][1] = "greet" /\ sent[c][2] = "good"
          /\ sent[c][3] = "connect" /\ 3 <= Len(sent[c])
        BY <1>1, <1>2 DEF Shaken
    <2> DEFINE s == SubSeq(sent[c], 1, 3)
               t == <<"greet", "good", "connect">>
    <2>2. s \in Seq(Items) /\ Len(s) = 3 /\ \A i \in 1 .. 3 : s[i] = sent[c][i]
        BY <1>1, <2>1
    <2>3. t \in Seq(Items) /\ Len(t) = 3 /\ \A i \in 1 .. 3 : t[i] = sent[c][i]
        BY <2>1 DEF Items
    <2> HIDE DEF s, t
    <2>4. s = t
        BY <2>2, <2>3, SeqEqual, Zenon
    <2> QED
        BY <1>2, <2>1, <2>4 DEF s, t, HeadLen, Entitled
<1>3. CASE kind[c] = "http"
    <2>1. /\ n <= MaxHeader /\ sent[c][n] = "end" /\ sent[c][1] = "connect"
          /\ \A i \in 1 .. n : sent[c][i] = "end" => i = n
        BY <1>3 DEF Shaken
    <2>2. \E i \in 1 .. n :
            sent[c][i] = "good" /\ \A j \in 1 .. i : sent[c][j] # "wrong"
        BY <1>3, Zenon DEF Shaken
    <2>3. n \in HeadEnds(c) /\ \A f \in HeadEnds(c) : n <= f
        BY <1>1, <2>1 DEF HeadEnds
    <2>4. HeadEnds(c) \subseteq Nat
        BY DEF HeadEnds
    <2>5. HeadLen(c) \in HeadEnds(c) /\ \A f \in HeadEnds(c) : HeadLen(c) <= f
        <3>1. HeadLen(c) = CHOOSE e \in HeadEnds(c) : \A f \in HeadEnds(c) : e <= f
            BY <1>3 DEF HeadLen
        <3> QED
            BY <2>3, <3>1, Zenon
    <2>6. HeadLen(c) = n
        BY <2>3, <2>4, <2>5
    <2> QED
        BY <1>3, <2>1, <2>2, <2>3, <2>6 DEF Entitled
<1> QED
    BY <1>1, <1>2, <1>3

\* t is the beginning of s.
Begins(s, t) == \E n \in 0 .. Len(s) : t = SubSeq(s, 1, n)

\* A sequence that agrees with the beginning of another is that beginning.
LEMMA Beginning ==
    ASSUME NEW s \in Seq(Replies), NEW t \in Seq(Replies), Len(t) <= Len(s),
           \A i \in 1 .. Len(t) : t[i] = s[i]
    PROVE  Begins(s, t)
<1>1. Len(t) \in 0 .. Len(s)
    OBVIOUS
<1>2. /\ SubSeq(s, 1, Len(t)) \in Seq(Replies) /\ Len(SubSeq(s, 1, Len(t))) = Len(t)
      /\ \A i \in 1 .. Len(t) : SubSeq(s, 1, Len(t))[i] = s[i]
    BY <1>1
<1>3. t = SubSeq(s, 1, Len(t))
    BY <1>2, SeqEqual, Zenon
<1> QED
    BY <1>1, <1>3 DEF Begins

\* Conversations have at most three replies.
LEMMA Beginnings ==
    /\ \A r \in Replies : Begins(<<r>>, <<>>)
    /\ \A r \in Replies : Begins(<<r>>, <<r>>)
    /\ \A r, t \in Replies : Begins(<<r, t>>, <<r>>)
    /\ \A r, t \in Replies : Begins(<<r, t>>, <<r, t>>)
    /\ \A r, t, u \in Replies : Begins(<<r, t, u>>, <<r, t>>)
    /\ \A r, t, u \in Replies : Begins(<<r, t, u>>, <<r, t, u>>)
<1>1. ASSUME NEW a \in Seq(Replies) PROVE Begins(a, a)
    BY Beginning
<1>2. \A r, t, u \in Replies :
        {<<>>, <<r>>, <<r, t>>, <<r, t, u>>} \subseteq Seq(Replies)
    OBVIOUS
<1>3. ASSUME NEW r \in Replies
      PROVE  Begins(<<r>>, <<>>)
    <2>1. Len(<<>>) <= Len(<<r>>) /\ \A i \in 1 .. Len(<<>>) : <<>>[i] = <<r>>[i]
        OBVIOUS
    <2> QED
        BY <1>2, <2>1, Beginning
<1>4. ASSUME NEW r \in Replies, NEW t \in Replies
      PROVE  Begins(<<r, t>>, <<r>>)
    <2>1. Len(<<r>>) <= Len(<<r, t>>) /\ \A i \in 1 .. Len(<<r>>) : <<r>>[i] = <<r, t>>[i]
        OBVIOUS
    <2> QED
        BY <1>2, <2>1, Beginning
<1>5. ASSUME NEW r \in Replies, NEW t \in Replies, NEW u \in Replies
      PROVE  Begins(<<r, t, u>>, <<r, t>>)
    <2>1. /\ Len(<<r, t>>) <= Len(<<r, t, u>>)
          /\ \A i \in 1 .. Len(<<r, t>>) : <<r, t>>[i] = <<r, t, u>>[i]
        OBVIOUS
    <2> QED
        BY <1>2, <2>1, Beginning
<1> QED
    BY <1>1, <1>2, <1>3, <1>4, <1>5

\* A failed or a successful handshake is the beginning of a conversation; only
\* the successful one announces a target.
LEMMA ConversationsHave ==
    ASSUME NEW c \in Conns, kind[c] \in {"socks5", "http"},
           NEW t \in Failed(c) \cup {Connected(c)}
    PROVE  /\ \E s \in Conversations(kind[c]) : Begins(s, t)
           /\ t \in Failed(c) =>
                \A i \in DOMAIN t : t[i] \notin {"success", "200"}
           /\ t = Connected(c) =>
                \E i \in DOMAIN t : t[i] \in {"success", "200"}
<1>1. CASE kind[c] = "socks5"
    <2> DEFINE ends == {"success", "refused", "general", "nocommand", "noatyp"}
    <2>1. /\ <<"nomethod">> \in Conversations(kind[c])
          /\ <<"method", "authfail">> \in Conversations(kind[c])
          /\ \A r \in ends : <<"method", "authok", r>> \in Conversations(kind[c])
        BY <1>1 DEF Conversations
    <2>2. \/ t \in {<<>>, <<"nomethod">>}
          \/ t \in {<<"method">>, <<"method", "authfail">>}
          \/ t = <<"method", "authok">>
          \/ \E r \in ends : t = <<"method", "authok", r>>
        BY <1>1 DEF Failed, Connected
    <2>3. \E s \in Conversations(kind[c]) : Begins(s, t)
        <3>1. /\ "method" \in Replies /\ "nomethod" \in Replies /\ "authok" \in Replies
              /\ "authfail" \in Replies /\ "general" \in Replies
              /\ \A r \in ends : r \in Replies
            BY DEF Replies
        <3>2. CASE t \in {<<>>, <<"nomethod">>}
            <4>1. /\ Begins(<<"nomethod">>, <<>>)
                  /\ Begins(<<"nomethod">>, <<"nomethod">>)
                BY <3>1, Beginnings, Zenon
            <4> QED
                BY <2>1, <3>2, <4>1, Zenon
        <3>3. CASE t \in {<<"method">>, <<"method", "authfail">>}
            <4>1. /\ Begins(<<"method", "authfail">>, <<"method">>)
                  /\ Begins(<<"method", "authfail">>, <<"method", "authfail">>)
                BY <3>1, Beginnings, Zenon
            <4> QED
                BY <2>1, <3>3, <4>1, Zenon
        <3>4. CASE t = <<"method", "authok">>
            <4>1. <<"method", "authok", "general">> \in Conversations(kind[c])
                BY <2>1
            <4>2. Begins(<<"method", "authok", "general">>, <<"method", "authok">>)
                BY <3>1, Beginnings, Zenon
            <4> QED
                BY <3>4, <4>1, <4>2, Zenon
        <3>5. ASSUME NEW r \in ends, t = <<"method", "authok", r>>
              PROVE  \E s \in Conversations(kind[c]) : Begins(s, t)
            <4>1. Begins(<<"method", "authok", r>>, <<"method", "authok", r>>)
                BY <3>1, Beginnings, Zenon
            <4> QED
                BY <2>1, <3>5, <4>1, Zenon
        <3> QED
            BY <2>2, <3>2, <3>3, <3>4, <3>5
    <2>4. t \in Failed(c) => \A i \in DOMAIN t : t[i] \notin {"success", "200"}
        BY <1>1 DEF Failed
    <2>5. t = Connected(c) => \E i \in DOMAIN t : t[i] \in {"success", "200"}
        BY <1>1 DEF Connected
    <2> QED
        BY <2>3, <2>4, <2>5
<1>2. CASE kind[c] = "http"
    <2>1. \A r \in {"400", "407", "200", "502"} : <<r>> \in Conversations(kind[c])
        BY <1>2 DEF Conversations
    <2>2. t = <<>> \/ \E r \in {"400", "407", "200", "502"} : t = <<r>>
        BY <1>2 DEF Failed, Connected
    <2>3. \E s \in Conversations(kind[c]) : Begins(s, t)
        <3>1. PICK r \in {"400", "407", "200", "502"} : t \in {<<>>, <<r>>}
            BY <2>2
        <3>2. r \in Replies
            BY DEF Replies
        <3>3. Begins(<<r>>, <<>>) /\ Begins(<<r>>, <<r>>)
            BY <3>2, Beginnings, Zenon
        <3> QED
            BY <2>1, <3>1, <3>3, Zenon
    <2>4. t \in Failed(c) => \A i \in DOMAIN t : t[i] \notin {"success", "200"}
        BY <1>2 DEF Failed
    <2>5. t = Connected(c) => \E i \in DOMAIN t : t[i] \in {"success", "200"}
        BY <1>2 DEF Connected
    <2> QED
        BY <2>3, <2>4, <2>5
<1> QED
    BY <1>1, <1>2

-----------------------------------------------------------------------------
\* The variables of all connections keep their types; what was read never
\* exceeds what was sent, and an unfinished header block never its limit.
THEOREM TypeCorrect == Spec => []TypeOK
<1>1. ProxyInv => TypeOK
    BY DEF ProxyInv
<1> QED
    BY <1>1, ProxyInvariant, PTL

\* handle_connection: no client gets a target whose complete handshake did not
\* present a valid credential and a supported command, however its messages are
\* split, pipelined or cut short.
THEOREM DialOnlyEntitledCorrect == Spec => []DialOnlyEntitled
<1>1. ASSUME ProxyInv PROVE DialOnlyEntitled
    <2> SUFFICES ASSUME NEW c \in Conns, pc[c] \in {"dial", "relay"} \/ target[c]
                 PROVE  Entitled(c)
        BY DEF DialOnlyEntitled
    <2>1. TypeOK /\ ConnInv(c)
        BY <1>1 DEF ProxyInv
    <2>2. \E n \in Nat : Shaken(c, n)
        <3>1. CASE pc[c] = "dial"
            BY <2>1, <3>1 DEF ConnInv, HandshakeInv, TypeOK
        <3>2. CASE target[c]
            BY <2>1, <3>2 DEF ConnInv, RelayInv
        <3> QED
            BY <2>1, <3>1, <3>2 DEF ConnInv, NoTargetInv
    <2> QED
        BY <2>1, <2>2, ShakenEntitled
<1> QED
    BY <1>1, ProxyInvariant, PTL

\* The replies are the beginning of a conversation of the client's protocol,
\* with a target announced exactly when there is one: no time-out or error adds
\* a second final reply.
THEOREM RepliesInProtocolCorrect == Spec => []RepliesInProtocol
<1>1. ASSUME ProxyInv PROVE RepliesInProtocol
    <2>1. ASSUME NEW c \in Conns
          PROVE  /\ \E s \in Conversations(kind[c]) : Begins(s, replies[c])
                 /\ target[c] <=> \E i \in DOMAIN replies[c] :
                                    replies[c][i] \in {"success", "200"}
        <3>1. TypeOK /\ HandshakeInv(c) /\ RelayInv(c) /\ NoTargetInv(c)
            BY <1>1 DEF ProxyInv, ConnInv
        <3>2. kind[c] \in {"socks5", "http"} /\ target[c] \in BOOLEAN
            BY <3>1 DEF TypeOK
        <3>3. CASE target[c]
            <4>1. replies[c] = Connected(c)
                BY <3>1, <3>3 DEF RelayInv
            <4> QED
                BY <3>2, <3>3, <4>1, ConversationsHave
        <3>4. CASE ~target[c]
            <4>1. pc[c] \in {"new", "dial", "closed", "greet", "auth", "request", "header"}
                BY <3>1, <3>4 DEF NoTargetInv, TypeOK, Handshake
            <4>2. replies[c] \in Failed(c)
                BY <3>1, <3>2, <3>4, <4>1 DEF NoTargetInv, HandshakeInv, Failed, Before
            <4> QED
                BY <3>2, <3>4, <4>2, ConversationsHave
        <3> QED
            BY <3>3, <3>4
    <2> QED
        BY <2>1, Zenon DEF RepliesInProtocol, Begins
<1> QED
    BY <1>1, ProxyInvariant, PTL

\* The target gets the client's payload from its first byte, in order and
\* without gaps, also when it was sent together with the handshake.
THEOREM PayloadIntactCorrect == Spec => []PayloadIntact
<1>1. ASSUME ProxyInv PROVE PayloadIntact
    <2> SUFFICES ASSUME NEW c \in Conns
                 PROVE  fwd[c] = [i \in 1 .. Len(fwd[c]) |-> HeadLen(c) + i]
        BY DEF PayloadIntact
    <2>1. TypeOK /\ RelayInv(c) /\ NoTargetInv(c) /\ fwd[c] \in Seq(Nat)
        BY <1>1 DEF ProxyInv, ConnInv, TypeOK
    <2>2. \A i \in 1 .. Len(fwd[c]) : fwd[c][i] = HeadLen(c) + i
        <3>1. CASE target[c]
            <4>1. PICK n \in 1 .. Len(sent[c]) :
                    Shaken(c, n) /\ \A i \in 1 .. Len(fwd[c]) : fwd[c][i] = n + i
                BY <2>1, <3>1 DEF RelayInv
            <4>2. HeadLen(c) = n
                BY <2>1, <4>1, ShakenEntitled
            <4> QED
                BY <4>1, <4>2
        <3>2. CASE ~target[c]
            BY <2>1, <3>2 DEF NoTargetInv
        <3> QED
            BY <3>1, <3>2
    <2> QED
        BY <2>1, <2>2
<1> QED
    BY <1>1, ProxyInvariant, PTL

\* A relay that nobody reset ends with one direction completely delivered.
THEOREM RelayEndsDrainedCorrect == Spec => []RelayEndsDrained
<1>1. ASSUME ProxyInv PROVE RelayEndsDrained
    <2> SUFFICES ASSUME NEW c \in Conns, pc[c] = "closed", target[c], ~lost[c]
                 PROVE  \/ cEnd[c] /\ Len(fwd[c]) = Len(sent[c]) - HeadLen(c)
                        \/ tEnd[c] /\ tGot[c] = tSent[c]
        BY DEF RelayEndsDrained
    <2>1. TypeOK /\ RelayInv(c)
        BY <1>1 DEF ProxyInv, ConnInv
    <2>2. PICK n \in 1 .. Len(sent[c]) : Shaken(c, n) /\ got[c] = n + Len(fwd[c])
        BY <2>1 DEF RelayInv
    <2>3. HeadLen(c) = n
        BY <2>1, <2>2, ShakenEntitled
    <2>4. /\ sent[c] \in Seq(Items) /\ fwd[c] \in Seq(Nat) /\ got[c] \in Nat
          /\ got[c] <= Len(sent[c])
        BY <2>1 DEF TypeOK
    <2>5. ~Ready(c) => Len(fwd[c]) = Len(sent[c]) - HeadLen(c)
        <3>1. Len(sent[c]) \in Nat /\ Len(fwd[c]) \in Nat /\ n \in Nat
            BY <2>4
        <3>2. ~Ready(c) => got[c] = Len(sent[c])
            BY <2>4, <3>1 DEF Ready
        <3>3. got[c] = Len(sent[c]) => Len(fwd[c]) = Len(sent[c]) - n
            BY ONLY <2>2, <3>1
        <3> QED
            BY <2>3, <3>2, <3>3, Zenon
    <2> QED
        BY <2>1, <2>5 DEF RelayInv
<1> QED
    BY <1>1, ProxyInvariant, PTL
=============================================================================
