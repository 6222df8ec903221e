------------------------------- MODULE Gateway -------------------------------
(***************************************************************************)
(* The WebSocket gateway (apps/gs-gateway): the upgrade requests of        *)
(* browsers, the lookup of the shard's address, the connection to the      *)
(* shard and the relay of bytes between the two sockets.                   *)
(*                                                                         *)
(* Of Node's sockets the model has what the code relies on.  The sockets   *)
(* of an HTTP server stay half open after the peer's FIN; a socket made by *)
(* connect() answers a FIN and closes.  "error" and "close" follow a       *)
(* destroy() at once, and an "error" nobody listens to ends the process.   *)
(*                                                                         *)
(* Operators named ..._Faulty hold a plausible mistake; see module Room.   *)
(***************************************************************************)
EXTENDS Naturals, Sequences

CONSTANTS
  Conn,        \* browser connections, each used once
  MaxFrames    \* bound of the model: frames a browser or a shard sends

ASSUME MaxFramesAssumption == MaxFrames \in Nat \ {0} /\ MaxFrames < 404

VARIABLES
  gateway,     \* "up", or "stopping" between the signal and process.exit
  handler,     \* how far handleUpgrade is: "idle", "lookup", "connecting",
               \* "relay" or "over"
  socket,      \* to the browser: "none", "open", "ended" by us, or "closed"
  upstream,    \* to the shard: also "connecting"
  browser,     \* the other end: "none", "open", "finished" (FIN) or "gone"
  browserSent, \* frames the browser has sent, numbered from 1
  shardSent,   \* frames the shard has sent, numbered from 1
  toShard,     \* written to the shard: 0 stands for the upgrade request
  toBrowser    \* written to the browser: frames, or the status of an answer

sockets == <<socket, upstream>>
data == <<browserSent, shardSent, toShard, toBrowser>>
vars == <<gateway, handler, sockets, browser, data>>

Init ==
  /\ gateway = "up"
  /\ handler = [c \in Conn |-> "idle"]
  /\ socket = [c \in Conn |-> "none"]
  /\ upstream = [c \in Conn |-> "none"]
  /\ browser = [c \in Conn |-> "none"]
  /\ browserSent = [c \in Conn |-> 0]
  /\ shardSent = [c \in Conn |-> 0]
  /\ toShard = [c \in Conn |-> <<>>]
  /\ toBrowser = [c \in Conn |-> <<>>]

Writable(c) == socket[c] = "open"

\* What reject writes before it ends the socket.
Answer(c, status) ==
  toBrowser' = IF Writable(c) THEN [toBrowser EXCEPT ![c] = Append(@, status)]
               ELSE toBrowser

Finished(c) == handler' = [handler EXCEPT ![c] = "over"]

\* reject, before there is a connection to the shard.
Reject(c, status) ==
  /\ Answer(c, status) /\ Finished(c)
  /\ socket' = [socket EXCEPT ![c] = IF browser[c] = "finished" THEN "closed" ELSE "ended"]

CloseBoth_Faulty(c) ==     \* only the "close" handler of the shard's socket
  /\ socket' = [socket EXCEPT ![c] = "closed"] /\ Finished(c)
  /\ UNCHANGED upstream
\* The "close" handlers: whichever socket closes destroys the other one. Node
\* emits "close" before it turns to the next event of any socket, so that nothing
\* happens between the end of the one and the destroy() of the other.
CloseBoth(c) ==
  /\ socket' = [socket EXCEPT ![c] = "closed"] /\ Finished(c)
  /\ upstream' = [upstream EXCEPT ![c] = "closed"]

\* The "error" handler of the shard's socket: reject, then "close" follows.
UpstreamError(c) == CloseBoth(c) /\ Answer(c, 502)

-----------------------------------------------------------------------------
(* handleUpgrade.                                                          *)

\* The "upgrade" event; head holds what the browser sent along.
Accept(c) ==
  /\ gateway = "up" /\ handler[c] = "idle"
  /\ browser' = [browser EXCEPT ![c] = "open"]
  /\ \E head \in 0 .. 1 : browserSent' = [browserSent EXCEPT ![c] = head]

Upgrade(c) ==
  /\ Accept(c)
  /\ handler' = [handler EXCEPT ![c] = "lookup"]
  /\ socket' = [socket EXCEPT ![c] = "open"]
  /\ UNCHANGED <<gateway, upstream, shardSent, toShard, toBrowser>>

\* shardFromUrl finds no shard in the path.
BadPath(c) ==
  /\ Accept(c) /\ Finished(c)
  /\ socket' = [socket EXCEPT ![c] = "ended"]
  /\ toBrowser' = [toBrowser EXCEPT ![c] = <<404>>]
  /\ UNCHANGED <<gateway, upstream, shardSent, toShard>>

\* redis.hmget fails, or session:<shard> is gone.
LookupFails(c) ==
  /\ handler[c] = "lookup"
  /\ \E status \in {404, 503} : Reject(c, status)
  /\ UNCHANGED <<gateway, upstream, browser, browserSent, shardSent, toShard>>

LookupFound(c) ==
  /\ handler[c] = "lookup" /\ Writable(c)
  /\ handler' = [handler EXCEPT ![c] = "connecting"]
  /\ upstream' = [upstream EXCEPT ![c] = "connecting"]
  /\ UNCHANGED <<gateway, socket, browser, data>>

Handshake_Faulty(c) == IF browserSent[c] = 0 THEN <<0>> ELSE <<1, 0>>    \* head first
\* serializeRequest(req), then head.
Handshake(c) == IF browserSent[c] = 0 THEN <<0>> ELSE <<0, 1>>

\* The "connect" event.
Connected(c) ==
  /\ handler[c] = "connecting"
  /\ handler' = [handler EXCEPT ![c] = "relay"]
  /\ upstream' = [upstream EXCEPT ![c] = "open"]
  /\ toShard' = [toShard EXCEPT ![c] = Handshake(c)]
  /\ UNCHANGED <<gateway, socket, browser, browserSent, shardSent, toBrowser>>

ConnectRefused(c) ==
  /\ handler[c] = "connecting" /\ UpstreamError(c)
  /\ UNCHANGED <<gateway, browser, browserSent, shardSent, toShard>>

Timed_Faulty(c) == FALSE    \* no setTimeout
\* upstream.setTimeout(UPSTREAM_CONNECT_TIMEOUT_MS), cleared by "connect".
Timed(c) == upstream[c] = "connecting"

ConnectTimesOut(c) ==
  /\ Timed(c) /\ UpstreamError(c)
  /\ UNCHANGED <<gateway, browser, browserSent, shardSent, toShard>>

-----------------------------------------------------------------------------
(* socket.pipe(upstream).pipe(socket) and the end of a relay.              *)

Unrelayed(c) == browserSent[c] + 1 - Len(toShard[c])

RelayToShard(c) ==
  /\ handler[c] = "relay" /\ upstream[c] = "open" /\ Unrelayed(c) > 0
  /\ toShard' = [toShard EXCEPT ![c] = Append(@, Len(@))]
  /\ UNCHANGED <<gateway, handler, sockets, browser, browserSent, shardSent, toBrowser>>

RelayToBrowser(c) ==
  /\ handler[c] = "relay" /\ Writable(c) /\ Len(toBrowser[c]) < shardSent[c]
  /\ toBrowser' = [toBrowser EXCEPT ![c] = Append(@, Len(@) + 1)]
  /\ UNCHANGED <<gateway, handler, sockets, browser, browserSent, shardSent, toShard>>

AfterEnd_Faulty == "open"    \* pipe with end: false
AfterEnd == "ended"

\* The browser's FIN has been read: pipe calls upstream.end().
BrowserEnd(c) ==
  /\ handler[c] = "relay" /\ browser[c] = "finished"
  /\ upstream[c] = "open" /\ Unrelayed(c) = 0
  /\ upstream' = [upstream EXCEPT ![c] = AfterEnd]
  /\ UNCHANGED <<gateway, handler, socket, browser, data>>

\* The shard's FIN: its socket answers and closes. What the browser's socket
\* still buffers is lost with it.
ShardEnd(c) ==
  /\ upstream[c] \in {"open", "ended"} /\ CloseBoth(c)
  /\ UNCHANGED <<gateway, browser, data>>

\* An error of the shard's socket during the relay.
ShardResets(c) ==
  /\ upstream[c] \in {"open", "ended"} /\ UpstreamError(c)
  /\ UNCHANGED <<gateway, browser, browserSent, shardSent, toShard>>

-----------------------------------------------------------------------------
(* The two peers, and the end of the process.                              *)

\* A browser speaks after the answer to its upgrade.
BrowserSends(c) ==
  /\ browser[c] = "open" /\ socket[c] = "open" /\ toBrowser[c] # <<>>
  /\ browserSent[c] < MaxFrames
  /\ browserSent' = [browserSent EXCEPT ![c] = @ + 1]
  /\ UNCHANGED <<gateway, handler, sockets, browser, shardSent, toShard, toBrowser>>

ShardSends(c) ==
  /\ upstream[c] \in {"open", "ended"} /\ shardSent[c] < MaxFrames
  /\ shardSent' = [shardSent EXCEPT ![c] = @ + 1]
  /\ UNCHANGED <<gateway, handler, sockets, browser, browserSent, toShard, toBrowser>>

BrowserFinishes(c) ==
  /\ browser[c] = "open" /\ socket[c] # "closed"
  /\ browser' = [browser EXCEPT ![c] = "finished"]
  /\ socket' = [socket EXCEPT ![c] = IF @ = "ended" THEN "closed" ELSE @]
  /\ UNCHANGED <<gateway, handler, upstream, data>>

\* A process that ends takes every connection with it; another one follows.
ProcessEnds ==
  /\ gateway' = "up"
  /\ handler' = [c \in Conn |-> IF handler[c] = "idle" THEN "idle" ELSE "over"]
  /\ socket' = [c \in Conn |-> IF socket[c] = "none" THEN "none" ELSE "closed"]
  /\ upstream' = [c \in Conn |-> IF upstream[c] = "none" THEN "none" ELSE "closed"]

\* The browser's connection breaks. The socket has an "error" handler only
\* once there is a socket to the shard (line 78).
BrowserResets(c) ==
  /\ browser[c] \in {"open", "finished"} /\ socket[c] # "closed"
  /\ browser' = [browser EXCEPT ![c] = "gone"]
  /\ \/ upstream[c] # "none" /\ CloseBoth(c) /\ UNCHANGED gateway
     \/ upstream[c] = "none" /\ ProcessEnds
  /\ UNCHANGED data

\* SIGTERM: server.close(), then redis.quit() and process.exit().
Stop ==
  /\ gateway = "up" /\ gateway' = "stopping"
  /\ UNCHANGED <<handler, sockets, browser, data>>

Exit == gateway = "stopping" /\ ProcessEnds /\ UNCHANGED <<browser, data>>

Next ==
  \/ \E c \in Conn :
       \/ Upgrade(c) \/ BadPath(c) \/ LookupFails(c) \/ LookupFound(c)
       \/ Connected(c) \/ ConnectRefused(c) \/ ConnectTimesOut(c)
       \/ RelayToShard(c) \/ RelayToBrowser(c)
       \/ BrowserEnd(c) \/ ShardEnd(c) \/ ShardResets(c)
       \/ BrowserSends(c) \/ ShardSends(c) \/ BrowserFinishes(c) \/ BrowserResets(c)
  \/ Stop \/ Exit

Spec == Init /\ [][Next]_vars

\* Redis answers or the client gives up, the timer fires, pipes move what they
\* have, and a shard (ws) answers the end of its connection with its own.
Fairness ==
  \A c \in Conn :
    /\ WF_vars(LookupFails(c) \/ LookupFound(c))
    /\ WF_vars(ConnectTimesOut(c))
    /\ WF_vars(RelayToShard(c)) /\ WF_vars(BrowserEnd(c))
    /\ WF_vars(upstream[c] = "ended" /\ ShardEnd(c))

FairSpec == Spec /\ Fairness

-----------------------------------------------------------------------------
TypeOK ==
  /\ gateway \in {"up", "stopping"}
  /\ handler \in [Conn -> {"idle", "lookup", "connecting", "relay", "over"}]
  /\ socket \in [Conn -> {"none", "open", "ended", "closed"}]
  /\ upstream \in [Conn -> {"none", "connecting", "open", "ended", "closed"}]
  /\ browser \in [Conn -> {"none", "open", "finished", "gone"}]
  /\ browserSent \in [Conn -> 0 .. MaxFrames]
  /\ shardSent \in [Conn -> 0 .. MaxFrames]
  /\ toShard \in [Conn -> Seq(0 .. MaxFrames)]
  /\ toBrowser \in [Conn -> Seq(1 .. MaxFrames \cup {404, 502, 503})]

\* Neither half of a relay outlives the other, whenever and whyever one side
\* goes, and a connection to a shard exists only for an upgrade that is under
\* way (gs-gateway/src/index.ts:71: if one side closes, so does the other).
NoHalfRelay ==
  \A c \in Conn :
    upstream[c] # "none" =>
      /\ socket[c] = "closed" <=> upstream[c] = "closed"
      /\ upstream[c] # "closed" <=> handler[c] \in {"connecting", "relay"}

\* What a shard reads is the request, what came with it, and what the browser
\* sent after it, in that order with nothing missing in between. What a browser
\* reads is what the shard sent, and after it at most one answer of the
\* gateway, with which the connection is over.
RelayedInOrder ==
  \A c \in Conn :
    /\ \A i \in DOMAIN toShard[c] : toShard[c][i] = i - 1
    /\ handler[c] = "relay" => Len(toShard[c]) \in 1 .. browserSent[c] + 1
    /\ upstream[c] = "ended" => Len(toShard[c]) = browserSent[c] + 1
    /\ \A i \in DOMAIN toBrowser[c] :
         toBrowser[c][i] = i \/ (i = Len(toBrowser[c]) /\ handler[c] = "over")

\* Every upgrade is decided: relayed, answered or cut off, though Redis may be
\* down, the address stale, and the browser gone while it waits.
UpgradeSettles ==
  \A c \in Conn : handler[c] \in {"lookup", "connecting"} ~> handler[c] \in {"relay", "over"}

\* A browser that leaves does not keep its shard connection, and so its seat
\* in the room, for ever.
AbandonedRelaysEnd ==
  \A c \in Conn :
    handler[c] = "relay" /\ browser[c] = "finished" ~> upstream[c] = "closed"
=============================================================================
