------------------------------ MODULE ProxyConn ------------------------------
(***************************************************************************)
(* A connection to one of the two proxies, from accept to close: SOCKS5    *)
(* (greeting, authentication, request) or HTTP CONNECT (header block), the *)
(* connection to the target, the reply, and the relay, with clients that   *)
(* stall, pipeline, half-close or reset, and the handshake and connect     *)
(* time-outs.                                                              *)
(*                                                                         *)
(* What the client sends is a sequence of items, each the unit one step of *)
(* the handler consumes: a SOCKS5 message, a piece of a header block, or a *)
(* piece of payload.  Connections share nothing but the listener.          *)
(***************************************************************************)
EXTENDS Naturals, Sequences

CONSTANTS
    Conns,       \* connections
    MaxSend,     \* bound of the items a client sends
    MaxReply,    \* bound of the pieces of payload a target sends
    MaxHeader    \* MAX_HEADER_SIZE, in items

ASSUME BoundsAssumption == MaxSend \in Nat /\ MaxReply \in Nat /\ MaxHeader \in Nat

VARIABLES
    listening,   \* the accept loops run
    kind,        \* "socks5" or "http"
    pc,          \* where handle_connection stands
    sent,        \* what the client has sent
    got,         \* how many items of it the handler has read
    cEnd,        \* the client has shut down its sending side
    replies,     \* what the handler has written to the client before the relay
    target,      \* the handler has a connection to the target
    fwd,         \* positions in sent of what was relayed to the target
    tSent,       \* how many pieces the target has sent
    tGot,        \* how many of them were relayed to the client
    tEnd,        \* the target has shut down its sending side
    lost         \* a socket was reset or failed

client == <<sent, cEnd>>
remote == <<tSent, tEnd>>
vars == <<listening, kind, pc, client, got, replies, target, fwd, remote, tGot,
          lost>>

Handshake == {"greet", "auth", "request", "header"}
Items == {"greet", "nomethod", "good", "wrong", "connect", "other", "atyp",
          "pad", "end", "junk", "data"}
Replies == {"method", "nomethod", "authok", "authfail", "success", "refused",
            "general", "nocommand", "noatyp", "400", "407", "200", "502"}

TypeOK ==
    /\ listening \in BOOLEAN
    /\ kind \in [Conns -> {"socks5", "http"}]
    /\ pc \in [Conns -> {"new", "dial", "relay", "closed"} \cup Handshake]
    /\ sent \in [Conns -> Seq(Items)]
    /\ got \in [Conns -> Nat] /\ \A c \in Conns : got[c] <= Len(sent[c])
    /\ \A c \in Conns : pc[c] = "header" => got[c] <= MaxHeader
    /\ replies \in [Conns -> Seq(Replies)]
    /\ fwd \in [Conns -> Seq(Nat)]
    /\ tSent \in [Conns -> 0 .. MaxReply] /\ tGot \in [Conns -> Nat]
    /\ \A c \in Conns : tGot[c] <= tSent[c]
    /\ {cEnd, tEnd, target, lost} \subseteq [Conns -> BOOLEAN]

Init ==
    /\ listening = TRUE
    /\ kind \in [Conns -> {"socks5", "http"}]
    /\ pc = [c \in Conns |-> "new"]
    /\ sent = [c \in Conns |-> <<>>]
    /\ got = [c \in Conns |-> 0]
    /\ cEnd = [c \in Conns |-> FALSE]
    /\ replies = [c \in Conns |-> <<>>]
    /\ target = [c \in Conns |-> FALSE]
    /\ fwd = [c \in Conns |-> <<>>]
    /\ tSent = [c \in Conns |-> 0]
    /\ tGot = [c \in Conns |-> 0]
    /\ tEnd = [c \in Conns |-> FALSE]
    /\ lost = [c \in Conns |-> FALSE]

-----------------------------------------------------------------------------
(* Clients, targets and the network (external).                            *)

Alive(c) == pc[c] \notin {"new", "closed"}

\* What a client can put next: messages of the protocol in order, each one
\* good or bad, then payload, without waiting for any reply.
HeadEnds(c) == {i \in 1 .. Len(sent[c]) : sent[c][i] = "end"}
NextItems(c) ==
    LET n == Len(sent[c]) + 1
    IN  IF kind[c] = "socks5"
        THEN CASE n = 1 -> {"greet", "nomethod", "junk"}
               [] n = 2 -> {"good", "wrong", "junk"}
               [] n = 3 -> {"connect", "other", "atyp", "junk"}
               [] OTHER -> {"data"}
        ELSE CASE n = 1 -> {"connect", "other"}
               [] n > 1 /\ HeadEnds(c) = {} -> {"good", "wrong", "pad", "end"}
               [] OTHER -> {"data"}

ClientSend(c) ==
    /\ Alive(c) /\ ~cEnd[c] /\ ~lost[c]
    /\ Len(sent[c]) < MaxSend
    /\ \E x \in NextItems(c) : sent' = [sent EXCEPT ![c] = Append(@, x)]
    /\ UNCHANGED <<listening, kind, pc, cEnd, got, replies, target, fwd, remote,
                   tGot, lost>>

ClientEnd(c) ==
    /\ Alive(c) /\ ~cEnd[c]
    /\ cEnd' = [cEnd EXCEPT ![c] = TRUE]
    /\ UNCHANGED <<listening, kind, pc, sent, got, replies, target, fwd, remote,
                   tGot, lost>>

TargetSend(c) ==
    /\ pc[c] = "relay" /\ ~tEnd[c] /\ tSent[c] < MaxReply
    /\ tSent' = [tSent EXCEPT ![c] = @ + 1]
    /\ UNCHANGED <<listening, kind, pc, client, got, replies, target, fwd, tEnd,
                   tGot, lost>>

TargetEnd(c) ==
    /\ pc[c] = "relay" /\ ~tEnd[c]
    /\ tEnd' = [tEnd EXCEPT ![c] = TRUE]
    /\ UNCHANGED <<listening, kind, pc, client, got, replies, target, fwd, tSent,
                   tGot, lost>>

Reset(c) ==
    /\ Alive(c) /\ ~lost[c]
    /\ lost' = [lost EXCEPT ![c] = TRUE]
    /\ UNCHANGED <<listening, kind, pc, client, got, replies, target, fwd, remote,
                   tGot>>

-----------------------------------------------------------------------------
(* The handler.                                                            *)

\* run_socks5_server, run_http_connect_server: accept and spawn.
Accept(c) ==
    /\ listening /\ pc[c] = "new"
    /\ pc' = [pc EXCEPT ![c] = IF kind[c] = "socks5" THEN "greet" ELSE "header"]
    /\ UNCHANGED <<listening, kind, client, got, replies, target, fwd, remote,
                   tGot, lost>>

\* The token is cancelled: the loops end, the connections go on.
Cancel ==
    /\ listening
    /\ listening' = FALSE
    /\ UNCHANGED <<kind, pc, client, got, replies, target, fwd, remote, tGot, lost>>

\* The item about to be read, and the step that reads it.
Ready(c) == got[c] < Len(sent[c])
Item(c) == sent[c][got[c] + 1]
Step(c, l, r) ==
    /\ got' = [got EXCEPT ![c] = @ + 1]
    /\ pc' = [pc EXCEPT ![c] = l]
    /\ replies' = [replies EXCEPT ![c] = @ \o r]
    /\ UNCHANGED <<listening, kind, client, target, fwd, remote, tGot, lost>>

\* The handler returns: both sockets are dropped.
Close(c) ==
    /\ pc' = [pc EXCEPT ![c] = "closed"]
    /\ UNCHANGED <<listening, kind, client, got, target, fwd, remote, tGot, lost>>

ReadGreeting(c) ==
    /\ pc[c] = "greet" /\ Ready(c)
    /\ CASE Item(c) = "greet" -> Step(c, "auth", <<"method">>)
         [] Item(c) = "nomethod" -> Step(c, "closed", <<"nomethod">>)
         [] OTHER -> Step(c, "closed", <<>>)

\* Mutant: the failure is answered but the handler goes on.
ReadAuth_GoesOn(c) ==
    /\ pc[c] = "auth" /\ Ready(c)
    /\ CASE Item(c) = "good" -> Step(c, "request", <<"authok">>)
         [] Item(c) = "wrong" -> Step(c, "request", <<"authfail">>)
         [] OTHER -> Step(c, "closed", <<>>)

ReadAuth(c) ==
    /\ pc[c] = "auth" /\ Ready(c)
    /\ CASE Item(c) = "good" -> Step(c, "request", <<"authok">>)
         [] Item(c) = "wrong" -> Step(c, "closed", <<"authfail">>)
         [] OTHER -> Step(c, "closed", <<>>)

\* The command is looked at before the address type.
ReadRequest(c) ==
    /\ pc[c] = "request" /\ Ready(c)
    /\ CASE Item(c) = "connect" -> Step(c, "dial", <<>>)
         [] Item(c) = "other" -> Step(c, "closed", <<"nocommand">>)
         [] Item(c) = "atyp" -> Step(c, "closed", <<"noatyp">>)
         [] OTHER -> Step(c, "closed", <<>>)

\* The first Proxy-Authorization line of the header block decides.
BasicAuth(head) ==
    LET auths == {i \in 1 .. Len(head) : head[i] \in {"good", "wrong"}}
    IN  IF auths = {} THEN "none" ELSE head[CHOOSE i \in auths : \A j \in auths : i <= j]

\* Mutant: everything received is read.
ReadHeader_Buffered(c) ==
    /\ pc[c] = "header" /\ Ready(c)
    /\ got' = [got EXCEPT ![c] = Len(sent[c])]
    /\ LET ok == /\ HeadEnds(c) # {} /\ sent[c][1] = "connect"
                 /\ BasicAuth(sent[c]) = "good"
       IN  pc' = [pc EXCEPT ![c] = IF ok THEN "dial" ELSE "closed"]
    /\ UNCHANGED <<listening, kind, client, replies, target, fwd, remote, tGot, lost>>

\* read_headers, item by item: too long, or not yet at the blank line, or
\* complete, when request line and credentials are looked at in this order.
ReadHeader(c) ==
    /\ pc[c] = "header" /\ Ready(c)
    /\ LET head == SubSeq(sent[c], 1, got[c] + 1)
       IN  CASE Len(head) > MaxHeader -> Step(c, "closed", <<>>)
             [] Len(head) <= MaxHeader /\ Item(c) # "end" -> Step(c, "header", <<>>)
             [] Len(head) <= MaxHeader /\ Item(c) = "end" ->
                  IF head[1] # "connect" THEN Step(c, "closed", <<"400">>)
                  ELSE IF BasicAuth(head) # "good" THEN Step(c, "closed", <<"407">>)
                  ELSE Step(c, "dial", <<>>)

\* The client has gone, or stops in the middle of a message.
ReadFails(c) ==
    /\ pc[c] \in Handshake
    /\ lost[c] \/ (cEnd[c] /\ ~Ready(c))
    /\ Close(c) /\ UNCHANGED replies

\* Mutants: the time-out answers like a failed connect; it covers the first
\* message only.
HandshakeTimeout_Replies(c) ==
    /\ pc[c] \in Handshake
    /\ Close(c)
    /\ replies' = [replies EXCEPT ![c] = Append(@, "general")]

HandshakeTimeout_FirstOnly(c) ==
    /\ pc[c] \in {"greet", "header"}
    /\ Close(c) /\ UNCHANGED replies

\* HANDSHAKE_TIMEOUT, or the header time-out: dropped without a reply.
HandshakeTimeout(c) ==
    /\ pc[c] \in Handshake
    /\ Close(c) /\ UNCHANGED replies

DialOk(c) ==
    /\ pc[c] = "dial" /\ ~lost[c]
    /\ target' = [target EXCEPT ![c] = TRUE]
    /\ replies' = [replies EXCEPT ![c] =
                     Append(@, IF kind[c] = "socks5" THEN "success" ELSE "200")]
    /\ pc' = [pc EXCEPT ![c] = "relay"]
    /\ UNCHANGED <<listening, kind, client, got, fwd, remote, tGot, lost>>

\* The target refuses or cannot be reached, the operating system gives up, or
\* (SOCKS5 only) TARGET_CONNECT_TIMEOUT passes.
DialFails(c) ==
    /\ pc[c] = "dial"
    /\ \E r \in IF kind[c] = "socks5" THEN {"refused", "general"} ELSE {"502"} :
         replies' = [replies EXCEPT ![c] = Append(@, r)]
    /\ Close(c)

\* The connection is made but the client's socket fails on the reply.
ReplyFails(c) ==
    /\ pc[c] = "dial" /\ lost[c]
    /\ Close(c) /\ UNCHANGED replies

\* copy(client -> target) and copy(target -> client).
RelayOut(c) ==
    /\ pc[c] = "relay" /\ Ready(c) /\ ~lost[c]
    /\ got' = [got EXCEPT ![c] = @ + 1]
    /\ fwd' = [fwd EXCEPT ![c] = Append(@, got[c] + 1)]
    /\ UNCHANGED <<listening, kind, pc, client, replies, target, remote, tGot, lost>>

RelayBack(c) ==
    /\ pc[c] = "relay" /\ tGot[c] < tSent[c] /\ ~lost[c]
    /\ tGot' = [tGot EXCEPT ![c] = @ + 1]
    /\ UNCHANGED <<listening, kind, pc, client, got, replies, target, fwd, remote,
                   lost>>

\* Mutant: the relay ends on the end of a stream, read or not.
RelayEnd_NotDrained(c) ==
    /\ pc[c] = "relay"
    /\ lost[c] \/ cEnd[c] \/ tEnd[c]
    /\ Close(c) /\ UNCHANGED replies

\* select!: the first copy to finish ends the relay, the other is dropped.
RelayEnd(c) ==
    /\ pc[c] = "relay"
    /\ \/ lost[c]
       \/ cEnd[c] /\ ~Ready(c)
       \/ tEnd[c] /\ tGot[c] = tSent[c]
    /\ Close(c) /\ UNCHANGED replies

Handler(c) ==
    \/ ReadGreeting(c) \/ ReadAuth(c) \/ ReadRequest(c) \/ ReadHeader(c)
    \/ ReadFails(c) \/ HandshakeTimeout(c)
    \/ DialOk(c) \/ DialFails(c) \/ ReplyFails(c)
    \/ RelayOut(c) \/ RelayBack(c) \/ RelayEnd(c)

Next ==
    \/ \E c \in Conns :
         \/ Accept(c) \/ Handler(c)
         \/ ClientSend(c) \/ ClientEnd(c) \/ Reset(c)
         \/ TargetSend(c) \/ TargetEnd(c)
    \/ Cancel

\* The handler's task is polled and its timers fire; nothing is assumed of
\* clients and targets.
Spec == Init /\ [][Next]_vars /\ \A c \in Conns : WF_vars(Handler(c))

-----------------------------------------------------------------------------
(* Properties                                                              *)

\* The handshake of a connection, as the protocols define it: where it ends
\* in what the client sent, and whether it entitles the client to a target.
HeadLen(c) ==
    IF kind[c] = "socks5" THEN 3
    ELSE CHOOSE e \in HeadEnds(c) : \A f \in HeadEnds(c) : e <= f
Entitled(c) ==
    IF kind[c] = "socks5"
    THEN SubSeq(sent[c], 1, 3) = <<"greet", "good", "connect">>
    ELSE /\ HeadEnds(c) # {} /\ HeadLen(c) <= MaxHeader
         /\ sent[c][1] = "connect"
         /\ \E i \in 1 .. HeadLen(c) :
              sent[c][i] = "good" /\ \A j \in 1 .. i : sent[c][j] # "wrong"

\* The handler connects to a target only for a client whose complete
\* handshake presented a valid credential and a supported command, however
\* its messages were split, pipelined or cut short (socks5.rs:82-188,
\* http_connect.rs:59-117).
DialOnlyEntitled ==
    \A c \in Conns : pc[c] \in {"dial", "relay"} \/ target[c] => Entitled(c)

\* The conversations the two protocols allow, with every way they may end.
Conversations(k) ==
    IF k = "socks5"
    THEN {<<"nomethod">>, <<"method", "authfail">>} \cup
         {<<"method", "authok", r>> : r \in {"success", "refused", "general",
                                             "nocommand", "noatyp"}}
    ELSE {<<r>> : r \in {"400", "407", "200", "502"}}

\* What the client reads is the beginning of one of these, a target is
\* announced exactly when there is one, and the relay starts after that: no
\* time-out or error adds a second final reply (socks5.rs:185, 198-216,
\* http_connect.rs:117-133).
RepliesInProtocol ==
    \A c \in Conns :
        /\ \E s \in Conversations(kind[c]) :
             \E n \in 0 .. Len(s) : replies[c] = SubSeq(s, 1, n)
        /\ target[c] <=> \E i \in DOMAIN replies[c] :
                           replies[c][i] \in {"success", "200"}

\* The target gets the client's payload from its first byte, in order and
\* without gaps, also when the client sent it together with the handshake:
\* reading the handshake takes no byte too many (socks5.rs:84-168,
\* http_connect.rs:151-169).
PayloadIntact ==
    \A c \in Conns :
        fwd[c] = [i \in 1 .. Len(fwd[c]) |-> HeadLen(c) + i]

\* A relay that nobody reset ends with one direction completely delivered
\* (socks5.rs:225-228, http_connect.rs:142-145).
RelayEndsDrained ==
    \A c \in Conns : pc[c] = "closed" /\ target[c] /\ ~lost[c] =>
        \/ cEnd[c] /\ Len(fwd[c]) = Len(sent[c]) - HeadLen(c)
        \/ tEnd[c] /\ tGot[c] = tSent[c]

\* Every connection ends: whatever a client does or leaves undone, an accepted
\* connection comes to its relay or is closed, and a relay is closed when one
\* side has ended its stream, even if the other stays silent for ever
\* (socks5.rs:82, 192, 225; http_connect.rs:59, 142).
ConnectionEnds ==
    \A c \in Conns :
        /\ pc[c] \in Handshake \cup {"dial"} ~> pc[c] \in {"relay", "closed"}
        /\ pc[c] = "relay" /\ (cEnd[c] \/ tEnd[c] \/ lost[c]) ~> pc[c] = "closed"
=============================================================================
