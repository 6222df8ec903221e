---------------------------- MODULE Gateway_proofs ----------------------------
(***************************************************************************)
(* The safety invariants of Gateway, for every set of connections and any  *)
(* number of frames.                                                       *)
(***************************************************************************)
EXTENDS Gateway, TLAPS

\* How the two sockets of a connection go along with its handler.
Stages(c) ==
  /\ handler[c] = "idle" => socket[c] = "none" /\ upstream[c] = "none" /\ browser[c] = "none"
  /\ handler[c] = "lookup" => socket[c] = "open" /\ upstream[c] = "none"
  /\ handler[c] = "connecting" => socket[c] = "open" /\ upstream[c] = "connecting"
  /\ handler[c] = "relay" => socket[c] = "open" /\ upstream[c] \in {"open", "ended"}
  /\ upstream[c] = "ended" => browser[c] = "finished"
  /\ handler[c] = "over" =>
       /\ socket[c] \in {"ended", "closed"} /\ upstream[c] \in {"none", "closed"}
       /\ upstream[c] = "closed" => socket[c] = "closed"

\* Nothing is relayed before the relay begins.
Early(c) ==
  handler[c] \in {"idle", "lookup", "connecting"} =>
    toShard[c] = <<>> /\ toBrowser[c] = <<>> /\ browserSent[c] \in 0 .. 1

\* RelayedInOrder, of one connection.
Ordered(c) ==
  /\ \A i \in DOMAIN toShard[c] : toShard[c][i] = i - 1
  /\ handler[c] = "relay" => Len(toShard[c]) \in 1 .. browserSent[c] + 1
  /\ upstream[c] = "ended" => Len(toShard[c]) = browserSent[c] + 1
  /\ \A i \in DOMAIN toBrowser[c] :
       toBrowser[c][i] = i \/ (i = Len(toBrowser[c]) /\ handler[c] = "over")

ConnInv(c) == Stages(c) /\ Early(c) /\ Ordered(c)

IInv == TypeOK /\ \A c \in Conn : ConnInv(c)

LEMMA InitIInv == Init => IInv
BY MaxFramesAssumption DEF Init, IInv, TypeOK, ConnInv, Stages, Early, Ordered

\* What a step leaves alone keeps its invariant.
LEMMA Untouched ==
  ASSUME NEW d \in Conn, ConnInv(d),
         handler'[d] = handler[d], socket'[d] = socket[d],
         upstream'[d] = upstream[d], browser'[d] = browser[d],
         browserSent'[d] = browserSent[d],
         toShard'[d] = toShard[d], toBrowser'[d] = toBrowser[d]
  PROVE  ConnInv(d)'
BY DEF ConnInv, Stages, Early, Ordered

\* The end of a connection, with or without an answer to the browser.
LEMMA ClosedInv ==
  ASSUME IInv, NEW d \in Conn,
         handler'[d] = "over", toShard'[d] = toShard[d],
         socket'[d] \in {"ended", "closed"}, upstream'[d] \in {"none", "closed"},
         upstream'[d] = "closed" => socket'[d] = "closed",
         \/ toBrowser'[d] = toBrowser[d] /\ (handler[d] = "over" \/ Ordered(d))
         \/ handler[d] # "over" /\ \E n \in {404, 502, 503} : toBrowser'[d] = Append(toBrowser[d], n)
  PROVE  ConnInv(d)'
<1>1. toBrowser[d] \in Seq(1 .. MaxFrames \cup {404, 502, 503}) BY DEF IInv, TypeOK
<1>2. Ordered(d) BY DEF IInv, ConnInv
<1>3. Stages(d)' /\ Early(d)' BY DEF Stages, Early
<1>4. ASSUME NEW i \in DOMAIN toBrowser'[d]
      PROVE  toBrowser'[d][i] = i \/ i = Len(toBrowser'[d])
  <2>1. CASE toBrowser'[d] = toBrowser[d] BY <1>2, <1>4, <2>1 DEF Ordered
  <2>2. CASE /\ handler[d] # "over"
             /\ \E n \in {404, 502, 503} : toBrowser'[d] = Append(toBrowser[d], n)
    BY <1>1, <1>2, <1>4, <2>2 DEF Ordered
  <2> QED BY <2>1, <2>2
<1>5. Ordered(d)' BY <1>2, <1>4 DEF Ordered
<1> QED BY <1>3, <1>5 DEF ConnInv

\* The type of what closing both sockets leaves behind.
LEMMA CloseType ==
  ASSUME TypeOK, NEW c \in Conn, CloseBoth(c)
  PROVE  /\ socket' \in [Conn -> {"none", "open", "ended", "closed"}]
         /\ upstream' \in [Conn -> {"none", "connecting", "open", "ended", "closed"}]
         /\ handler' \in [Conn -> {"idle", "lookup", "connecting", "relay", "over"}]
         /\ socket'[c] = "closed" /\ upstream'[c] = "closed" /\ handler'[c] = "over"
         /\ \A d \in Conn \ {c} : /\ socket'[d] = socket[d] /\ upstream'[d] = upstream[d]
                                  /\ handler'[d] = handler[d]
BY DEF TypeOK, CloseBoth, Finished

\* The type of what an answer of the gateway leaves behind.
LEMMA AnswerType ==
  ASSUME TypeOK, NEW c \in Conn, NEW status \in {404, 502, 503}, Answer(c, status)
  PROVE  /\ toBrowser' \in [Conn -> Seq(1 .. MaxFrames \cup {404, 502, 503})]
         /\ toBrowser'[c] \in {toBrowser[c], Append(toBrowser[c], status)}
         /\ \A d \in Conn \ {c} : toBrowser'[d] = toBrowser[d]
BY DEF TypeOK, Answer

\* reject, of a connection without a socket to the shard.
LEMMA RejectStep ==
  ASSUME IInv, NEW c \in Conn, handler[c] = "lookup", NEW status \in {404, 503},
         Reject(c, status),
         UNCHANGED <<gateway, upstream, browser, browserSent, shardSent, toShard>>
  PROVE  IInv'
<1>1. /\ toBrowser' \in [Conn -> Seq(1 .. MaxFrames \cup {404, 502, 503})]
      /\ toBrowser'[c] \in {toBrowser[c], Append(toBrowser[c], status)}
      /\ \A d \in Conn \ {c} : toBrowser'[d] = toBrowser[d]
  BY AnswerType DEF IInv, Reject
<1>2. TypeOK' BY <1>1, ZenonT(30) DEF IInv, TypeOK, Reject, Finished
<1>3. ASSUME NEW d \in Conn \ {c} PROVE ConnInv(d)'
  BY <1>1, <1>3, Untouched DEF IInv, TypeOK, Reject, Finished
<1>4. handler'[c] = "over" /\ socket'[c] \in {"ended", "closed"} /\ upstream'[c] = "none"
  BY DEF IInv, ConnInv, Stages, TypeOK, Reject, Finished
<1>5. ConnInv(c)'
  BY <1>1, <1>4, ClosedInv DEF IInv, ConnInv
<1> QED BY <1>2, <1>3, <1>5 DEF IInv

\* Both sockets go, and the browser may still get an answer.
LEMMA CloseStep ==
  ASSUME IInv, NEW c \in Conn, handler[c] \in {"connecting", "relay"}, CloseBoth(c),
         toBrowser' = toBrowser \/ Answer(c, 502),
         gateway' = gateway,
         UNCHANGED <<browserSent, shardSent, toShard>>,
         browser' \in [Conn -> {"none", "open", "finished", "gone"}],
         \A d \in Conn \ {c} : browser'[d] = browser[d]
  PROVE  IInv'
<1>1. /\ toBrowser' \in [Conn -> Seq(1 .. MaxFrames \cup {404, 502, 503})]
      /\ toBrowser'[c] \in {toBrowser[c], Append(toBrowser[c], 502)}
      /\ \A d \in Conn \ {c} : toBrowser'[d] = toBrowser[d]
  BY AnswerType, SMTT(30) DEF IInv, TypeOK
<1>2. /\ TypeOK'
      /\ socket'[c] = "closed" /\ upstream'[c] = "closed" /\ handler'[c] = "over"
      /\ \A d \in Conn \ {c} : /\ socket'[d] = socket[d] /\ upstream'[d] = upstream[d]
                               /\ handler'[d] = handler[d]
  BY <1>1, CloseType, SMTT(30) DEF IInv, TypeOK
<1>3. ASSUME NEW d \in Conn \ {c} PROVE ConnInv(d)'
  BY <1>1, <1>2, <1>3, Untouched DEF IInv
<1>4. ConnInv(c)' BY <1>1, <1>2, ClosedInv DEF IInv, ConnInv
<1> QED BY <1>2, <1>3, <1>4 DEF IInv

\* The end of the process closes what is open.
LEMMA EndStep ==
  ASSUME IInv, ProcessEnds, UNCHANGED data,
         browser' \in [Conn -> {"none", "open", "finished", "gone"}],
         \A d \in Conn : handler[d] = "idle" => browser'[d] = browser[d]
  PROVE  IInv'
<1>1. TypeOK' BY DEF IInv, TypeOK, ProcessEnds, data
<1>2. ASSUME NEW d \in Conn PROVE ConnInv(d)'
  <2>1. CASE handler[d] = "idle"
    BY <2>1, Untouched DEF IInv, ConnInv, Stages, ProcessEnds, data
  <2>2. CASE handler[d] # "idle"
    <3>1. /\ handler'[d] = "over" /\ socket'[d] = "closed"
          /\ upstream'[d] \in {"none", "closed"}
      BY <2>2, ZenonT(30) DEF IInv, ConnInv, Stages, TypeOK, ProcessEnds
    <3> QED BY <3>1, ClosedInv DEF IInv, ConnInv, data
  <2> QED BY <2>1, <2>2
<1> QED BY <1>1, <1>2 DEF IInv

LEMMA NextIInv == IInv /\ [Next]_vars => IInv'
<1> SUFFICES ASSUME IInv, [Next]_vars PROVE IInv' OBVIOUS
<1> USE DEF IInv
<1>1. ASSUME NEW c \in Conn, Upgrade(c) \/ BadPath(c) PROVE IInv'
  <2>1. PICK head \in 0 .. 1 : /\ browserSent' = [browserSent EXCEPT ![c] = head]
                              /\ head \in 0 .. MaxFrames
    BY <1>1, MaxFramesAssumption DEF Upgrade, BadPath, Accept
  <2>2. /\ upstream[c] = "none" /\ toShard[c] = <<>> /\ toBrowser[c] = <<>>
        /\ browserSent'[c] \in 0 .. 1
    BY <1>1, <2>1 DEF Upgrade, BadPath, Accept, ConnInv, Stages, Early, TypeOK
  <2>3. ASSUME NEW d \in Conn \ {c} PROVE ConnInv(d)'
    BY <1>1, <2>3, Untouched DEF Upgrade, BadPath, Accept, Finished, TypeOK
  <2>4. CASE Upgrade(c)
    <3>1. TypeOK' BY <2>1, <2>4 DEF Upgrade, Accept, TypeOK
    <3>2. /\ handler'[c] = "lookup" /\ socket'[c] = "open" /\ upstream'[c] = "none"
          /\ toShard'[c] = <<>> /\ toBrowser'[c] = <<>>
      BY <2>2, <2>4 DEF Upgrade, TypeOK
    <3>3. ConnInv(c)' BY <2>2, <3>2 DEF ConnInv, Stages, Early, Ordered
    <3> QED BY <2>3, <3>1, <3>3
  <2>5. CASE BadPath(c)
    <3>1. <<404>> \in Seq(1 .. MaxFrames \cup {404, 502, 503}) OBVIOUS
    <3>2. TypeOK' BY <2>1, <2>5, <3>1 DEF BadPath, Accept, Finished, TypeOK
    <3>3. /\ handler'[c] = "over" /\ socket'[c] = "ended" /\ upstream'[c] = "none"
          /\ toShard'[c] = <<>> /\ toBrowser'[c] = <<404>>
      BY <2>2, <2>5 DEF BadPath, Finished, TypeOK
    <3>4. ConnInv(c)' BY <3>3 DEF ConnInv, Stages, Early, Ordered
    <3> QED BY <2>3, <3>2, <3>4
  <2> QED BY <1>1, <2>4, <2>5
<1>2. ASSUME NEW c \in Conn, LookupFails(c) PROVE IInv'
  BY <1>2, RejectStep DEF LookupFails
<1>3. ASSUME NEW c \in Conn, LookupFound(c) PROVE IInv'
  <2>1. TypeOK' BY <1>3 DEF LookupFound, TypeOK, data
  <2>2. ASSUME NEW d \in Conn \ {c} PROVE ConnInv(d)'
    BY <1>3, <2>2, Untouched DEF LookupFound, TypeOK, data
  <2>3. ConnInv(c)'
    BY <1>3 DEF LookupFound, TypeOK, data, ConnInv, Stages, Early, Ordered
  <2> QED BY <2>1, <2>2, <2>3
<1>4. ASSUME NEW c \in Conn, Connected(c) PROVE IInv'
  <2>1. Handshake(c) \in Seq(0 .. MaxFrames)
    <3>1. 0 \in 0 .. MaxFrames /\ 1 \in 0 .. MaxFrames BY MaxFramesAssumption
    <3>2. <<0>> \in Seq(0 .. MaxFrames) /\ <<0, 1>> \in Seq(0 .. MaxFrames) BY <3>1
    <3> QED BY <3>2 DEF Handshake
  <2>2. TypeOK' BY <1>4, <2>1 DEF Connected, TypeOK
  <2>3. ASSUME NEW d \in Conn \ {c} PROVE ConnInv(d)'
    BY <1>4, <2>3, Untouched DEF Connected, TypeOK
  <2>4. browserSent[c] \in 0 .. 1 /\ toBrowser[c] = <<>> /\ socket[c] = "open"
    BY <1>4 DEF Connected, ConnInv, Early, Stages
  <2>5. ConnInv(c)'
    BY <1>4, <2>4 DEF Connected, Handshake, TypeOK, ConnInv, Stages, Early, Ordered
  <2> QED BY <2>2, <2>3, <2>5
<1>5. ASSUME NEW c \in Conn, ConnectRefused(c) \/ ConnectTimesOut(c) PROVE IInv'
  <2>1. handler[c] = "connecting"
    BY <1>5, ZenonT(30) DEF ConnectRefused, ConnectTimesOut, Timed, ConnInv, Stages, TypeOK
  <2> QED BY <1>5, <2>1, CloseStep, ZenonT(30) DEF ConnectRefused, ConnectTimesOut, UpstreamError, TypeOK
<1>6. ASSUME NEW c \in Conn, RelayToShard(c) PROVE IInv'
  <2>1. /\ toShard[c] \in Seq(0 .. MaxFrames) /\ browserSent[c] \in 0 .. MaxFrames
        /\ Len(toShard[c]) <= browserSent[c]
    BY <1>6 DEF RelayToShard, Unrelayed, TypeOK
  <2>2. Append(toShard[c], Len(toShard[c])) \in Seq(0 .. MaxFrames)
    BY <2>1, MaxFramesAssumption
  <2>3. TypeOK' BY <1>6, <2>2 DEF RelayToShard, TypeOK, sockets
  <2>4. ASSUME NEW d \in Conn \ {c} PROVE ConnInv(d)'
    BY <1>6, <2>4, Untouched DEF RelayToShard, TypeOK, sockets
  <2>5. toShard'[c] = Append(toShard[c], Len(toShard[c]))
    BY <1>6 DEF RelayToShard, TypeOK
  <2>6. Ordered(c)'
    BY <1>6, <2>1, <2>5, MaxFramesAssumption
    DEF RelayToShard, ConnInv, Stages, Ordered, sockets
  <2>7. Stages(c)' /\ Early(c)'
    BY <1>6 DEF RelayToShard, ConnInv, Stages, Early, sockets
  <2> QED BY <2>3, <2>4, <2>6, <2>7 DEF ConnInv
<1>7. ASSUME NEW c \in Conn, RelayToBrowser(c) PROVE IInv'
  <2>1. /\ toBrowser[c] \in Seq(1 .. MaxFrames \cup {404, 502, 503})
        /\ shardSent[c] \in 0 .. MaxFrames /\ Len(toBrowser[c]) < shardSent[c]
    BY <1>7 DEF RelayToBrowser, TypeOK
  <2>2. Append(toBrowser[c], Len(toBrowser[c]) + 1) \in Seq(1 .. MaxFrames \cup {404, 502, 503})
    BY <2>1, MaxFramesAssumption
  <2>3. TypeOK' BY <1>7, <2>2 DEF RelayToBrowser, TypeOK, sockets
  <2>4. ASSUME NEW d \in Conn \ {c} PROVE ConnInv(d)'
    BY <1>7, <2>4, Untouched DEF RelayToBrowser, TypeOK, sockets
  <2>5. toBrowser'[c] = Append(toBrowser[c], Len(toBrowser[c]) + 1)
    BY <1>7 DEF RelayToBrowser, TypeOK
  <2>6. Ordered(c)'
    BY <1>7, <2>1, <2>5 DEF RelayToBrowser, ConnInv, Ordered, sockets
  <2>7. Stages(c)' /\ Early(c)'
    BY <1>7 DEF RelayToBrowser, ConnInv, Stages, Early, sockets
  <2> QED BY <2>3, <2>4, <2>6, <2>7 DEF ConnInv
<1>8. ASSUME NEW c \in Conn, BrowserEnd(c) PROVE IInv'
  <2>1. TypeOK' BY <1>8 DEF BrowserEnd, AfterEnd, TypeOK, data
  <2>2. ASSUME NEW d \in Conn \ {c} PROVE ConnInv(d)'
    BY <1>8, <2>2, Untouched DEF BrowserEnd, TypeOK, data
  <2>3. Len(toShard[c]) = browserSent[c] + 1
    BY <1>8 DEF BrowserEnd, Unrelayed, TypeOK
  <2>4. ConnInv(c)'
    BY <1>8, <2>3 DEF BrowserEnd, AfterEnd, TypeOK, data, ConnInv, Stages, Early, Ordered
  <2> QED BY <2>1, <2>2, <2>4
<1>9. ASSUME NEW c \in Conn, ShardEnd(c) \/ ShardResets(c) PROVE IInv'
  <2>1. handler[c] = "relay"
    BY <1>9, ZenonT(30) DEF ShardEnd, ShardResets, ConnInv, Stages, TypeOK
  <2> QED BY <1>9, <2>1, CloseStep, ZenonT(30) DEF ShardEnd, ShardResets, UpstreamError, TypeOK, data
<1>10. ASSUME NEW c \in Conn, BrowserSends(c) PROVE IInv'
  <2>1. handler[c] = "relay" /\ upstream[c] = "open"
    BY <1>10, ZenonT(30) DEF BrowserSends, ConnInv, Stages, Early, TypeOK
  <2>2. /\ browserSent[c] \in 0 .. MaxFrames /\ browserSent[c] + 1 \in 0 .. MaxFrames
        /\ browserSent'[c] = browserSent[c] + 1
    BY <1>10, MaxFramesAssumption DEF BrowserSends, TypeOK
  <2>3. TypeOK' BY <1>10, <2>2 DEF BrowserSends, TypeOK, sockets
  <2>4. ASSUME NEW d \in Conn \ {c} PROVE ConnInv(d)'
    BY <1>10, <2>4, Untouched DEF BrowserSends, TypeOK, sockets
  <2>5. ConnInv(c)'
    BY <1>10, <2>1, <2>2
    DEF BrowserSends, TypeOK, sockets, ConnInv, Stages, Early, Ordered
  <2> QED BY <2>3, <2>4, <2>5
<1>11. ASSUME NEW c \in Conn, ShardSends(c) PROVE IInv'
  <2>1. shardSent[c] + 1 \in 0 .. MaxFrames
    BY <1>11, MaxFramesAssumption DEF ShardSends, TypeOK
  <2>2. TypeOK' BY <1>11, <2>1 DEF ShardSends, TypeOK, sockets
  <2> QED BY <1>11, <2>2, Untouched DEF ShardSends, sockets
<1>12. ASSUME NEW c \in Conn, BrowserFinishes(c) PROVE IInv'
  <2>1. TypeOK' BY <1>12 DEF BrowserFinishes, TypeOK, data
  <2>2. ASSUME NEW d \in Conn \ {c} PROVE ConnInv(d)'
    BY <1>12, <2>2, Untouched DEF BrowserFinishes, TypeOK, data
  <2>3. ConnInv(c)'
    BY <1>12 DEF BrowserFinishes, TypeOK, data, ConnInv, Stages, Early, Ordered
  <2> QED BY <2>1, <2>2, <2>3
<1>13. ASSUME NEW c \in Conn, BrowserResets(c) PROVE IInv'
  <2>1. /\ browser' \in [Conn -> {"none", "open", "finished", "gone"}]
        /\ \A d \in Conn \ {c} : browser'[d] = browser[d]
        /\ handler[c] # "idle"
    BY <1>13 DEF BrowserResets, TypeOK, ConnInv, Stages
  <2>2. CASE upstream[c] # "none" /\ CloseBoth(c) /\ UNCHANGED gateway
    <3>1. handler[c] \in {"connecting", "relay"}
      BY <1>13, <2>2 DEF BrowserResets, TypeOK, ConnInv, Stages
    <3> QED BY <1>13, <2>1, <2>2, <3>1, CloseStep DEF BrowserResets, data
  <2>3. CASE upstream[c] = "none" /\ ProcessEnds
    BY <1>13, <2>1, <2>3, EndStep DEF BrowserResets
  <2> QED BY <1>13, <2>2, <2>3 DEF BrowserResets
<1>14. CASE Stop
  <2>1. TypeOK' BY <1>14 DEF Stop, TypeOK, sockets, data
  <2> QED BY <1>14, <2>1, Untouched DEF Stop, sockets, data
<1>15. CASE Exit
  BY <1>15, EndStep DEF Exit, TypeOK
<1>16. CASE UNCHANGED vars
  <2>1. TypeOK' BY <1>16 DEF vars, sockets, data, TypeOK
  <2> QED BY <1>16, <2>1, Untouched DEF vars, sockets, data
<1> QED
  BY <1>1, <1>2, <1>3, <1>4, <1>5, <1>6, <1>7, <1>8, <1>9, <1>10, <1>11, <1>12,
     <1>13, <1>14, <1>15, <1>16 DEF Next

\* The strengthened invariant holds in every reachable state.
THEOREM Inductive == Spec => []IInv
BY InitIInv, NextIInv, PTL DEF Spec

\* Every socket, counter and stream stays in its range (gs-gateway/src/index.ts).
THEOREM TypeCorrect == Spec => []TypeOK
BY Inductive, PTL DEF IInv

\* No half of a relay outlives the other (gs-gateway/src/index.ts:78 to 80).
THEOREM Halves == Spec => []NoHalfRelay
<1>1. IInv => NoHalfRelay
  BY DEF IInv, TypeOK, ConnInv, Stages, NoHalfRelay
<1> QED BY <1>1, Inductive, PTL

\* Bytes are relayed in order and completely, and an answer of the gateway is
\* the last thing a browser reads (gs-gateway/src/index.ts:67 to 77).
THEOREM InOrder == Spec => []RelayedInOrder
<1>1. IInv => RelayedInOrder
  BY DEF IInv, ConnInv, Ordered, RelayedInOrder
<1> QED BY <1>1, Inductive, PTL
=============================================================================
