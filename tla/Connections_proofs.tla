------------------------- MODULE Connections_proofs -------------------------
(***************************************************************************)
(* The safety invariants of Connections, for every set of connections and  *)
(* codes and every capacity.                                               *)
(***************************************************************************)
EXTENDS Connections, FiniteSetTheorems, TLAPS

\* What handleJoin relies on between its awaits: its connection is in no room
\* yet, and the code it waits for is a normalized one.
JoinsPending ==
  \A s \in Socket : stage[s] # "idle" => joined[s] = Null /\ wanted[s] \in NormalCode

IInv ==
  /\ TypeOK /\ MembershipAgrees /\ RoomsAreInhabited /\ WithinCapacity
  /\ JoinsPending

\* Normalizing a code gives a normalized one (normalizeRoomCode is idempotent).
LEMMA NormalIsNormal == \A c \in Code : Normal[c] \in NormalCode
BY NormalAssumption DEF NormalCode

\* A join that is allowed by the size check leaves room for it.
LEMMA AddWithin ==
  ASSUME NEW M \in SUBSET Socket, NEW s \in Socket, ~(Cardinality(M) >= Capacity),
         Cardinality(M) <= Capacity
  PROVE  Cardinality(M \cup {s}) <= Capacity
<1>1. IsFiniteSet(M) BY SocketAssumption, FS_Subset
<1>2. Cardinality(M) \in Nat BY <1>1, FS_CardinalityType
<1>3. Cardinality(M \cup {s}) = Cardinality(M) \/ Cardinality(M \cup {s}) = Cardinality(M) + 1
  BY <1>1, FS_AddElement
<1> QED BY <1>2, <1>3, CapacityAssumption

\* Nor does a departure overfill a room.
LEMMA RemoveWithin ==
  ASSUME NEW M \in SUBSET Socket, NEW s \in Socket, Cardinality(M) <= Capacity
  PROVE  Cardinality(M \ {s}) <= Capacity
<1>1. IsFiniteSet(M) BY SocketAssumption, FS_Subset
<1>2. /\ Cardinality(M) \in Nat /\ Cardinality(M \ {s}) \in Nat
      /\ Cardinality(M \ {s}) <= Cardinality(M)
  BY <1>1, FS_Subset, FS_CardinalityType
<1> QED BY <1>2, CapacityAssumption

\* The invariant holds of an empty shard.
LEMMA InitIInv == Init => IInv
<1> SUFFICES ASSUME Init PROVE IInv OBVIOUS
<1>1. TypeOK BY DEF Init, TypeOK
<1>2. MembershipAgrees BY DEF Init, MembershipAgrees
<1>3. RoomsAreInhabited BY DEF Init, RoomsAreInhabited
<1>4. WithinCapacity BY FS_EmptySet, CapacityAssumption DEF Init, WithinCapacity
<1>5. JoinsPending BY DEF Init, JoinsPending
<1> QED BY <1>1, <1>2, <1>3, <1>4, <1>5 DEF IInv

\* Steps that only start, await or give up a join.
LEMMA PendingStep ==
  ASSUME IInv, NEW s \in Socket, TypeOK',
         UNCHANGED <<conn, joined, members, created>>,
         \A t \in Socket : t # s => stage'[t] = stage[t] /\ wanted'[t] = wanted[t],
         stage'[s] # "idle" => joined[s] = Null /\ wanted'[s] \in NormalCode
  PROVE  IInv'
<1>1. MembershipAgrees' BY DEF IInv, MembershipAgrees
<1>2. RoomsAreInhabited' BY DEF IInv, RoomsAreInhabited
<1>3. WithinCapacity' BY DEF IInv, WithinCapacity
<1>4. JoinsPending' BY DEF IInv, JoinsPending
<1> QED BY <1>1, <1>2, <1>3, <1>4 DEF IInv

\* Steps that touch sockets only, and close none for good.
LEMMA SocketStep ==
  ASSUME IInv, TypeOK', UNCHANGED <<joinVars, roomVars>>,
         \A t \in Socket : (conn'[t] = "closed") <=> (conn[t] = "closed")
  PROVE  IInv'
<1>1. MembershipAgrees' BY DEF IInv, MembershipAgrees, roomVars
<1>2. RoomsAreInhabited' BY DEF IInv, RoomsAreInhabited, roomVars
<1>3. WithinCapacity' BY DEF IInv, WithinCapacity, roomVars
<1>4. JoinsPending' BY DEF IInv, JoinsPending, roomVars, joinVars
<1> QED BY <1>1, <1>2, <1>3, <1>4 DEF IInv

\* Close keeps closed connections closed, and closes none for good.
LEMMA CloseKeeps ==
  ASSUME TypeOK, NEW s \in Socket, Close(s)
  PROVE  /\ conn' \in [Socket -> {"open", "closing", "closed"}]
         /\ \A t \in Socket : (conn'[t] = "closed") <=> (conn[t] = "closed")
BY DEF TypeOK, Close

\* The rest of handleJoin once the room is there, on an open connection.
LEMMA EnterStep ==
  ASSUME IInv, NEW s \in Socket, stage[s] # "idle", conn[s] = "open",
         Enter(s, wanted[s])
  PROVE  IInv'
<1> DEFINE c == wanted[s]
<1>1. c \in NormalCode /\ c \in Code /\ joined[s] = Null
  BY DEF IInv, JoinsPending, NormalCode
<1>2. /\ TypeOK /\ MembershipAgrees /\ RoomsAreInhabited /\ WithinCapacity
      /\ JoinsPending
  BY DEF IInv
<1>3. /\ stage' = [stage EXCEPT ![s] = "idle"] /\ wanted' = [wanted EXCEPT ![s] = Null]
      /\ created' = created \cup {c} /\ UNCHANGED <<silent, alive>>
  BY DEF Enter, Done
<1>4. CASE IsFull(c) /\ Close(s) /\ UNCHANGED <<joined, members>>
  <2>1. members[c] # {}
    <3>1. Cardinality({}) = 0 BY FS_EmptySet
    <3> QED BY <3>1, <1>4, CapacityAssumption DEF IsFull
  <2>2. c \in created BY <2>1, <1>1, <1>2 DEF RoomsAreInhabited
  <2>3. created' = created BY <2>2, <1>3
  <2>4. TypeOK' BY <1>2, <1>3, <1>4, <2>3, CloseKeeps DEF TypeOK
  <2>5. MembershipAgrees' BY <1>2, <1>4, CloseKeeps DEF MembershipAgrees
  <2>6. RoomsAreInhabited' BY <1>2, <1>4, <2>3 DEF RoomsAreInhabited
  <2>7. WithinCapacity' BY <1>2, <1>4 DEF WithinCapacity
  <2>8. JoinsPending' BY <1>2, <1>3, <1>4 DEF JoinsPending, TypeOK
  <2> QED BY <2>4, <2>5, <2>6, <2>7, <2>8 DEF IInv
<1>5. CASE /\ ~IsFull(c) /\ joined' = [joined EXCEPT ![s] = c]
           /\ members' = [members EXCEPT ![c] = @ \cup {s}] /\ UNCHANGED conn
  <2>1. TypeOK' BY <1>1, <1>2, <1>3, <1>5 DEF TypeOK
  <2>2. MembershipAgrees'
    <3> SUFFICES ASSUME NEW t \in Socket, NEW d \in Code
                 PROVE  t \in members'[d] <=> joined'[t] = d /\ conn'[t] # "closed"
      BY DEF MembershipAgrees
    <3>1. t \in members[d] <=> joined[t] = d /\ conn[t] # "closed"
      BY <1>2 DEF MembershipAgrees
    <3>2. members'[d] = IF d = c THEN members[d] \cup {s} ELSE members[d]
      BY <1>1, <1>2, <1>5 DEF TypeOK
    <3>3. joined'[t] = IF t = s THEN c ELSE joined[t] BY <1>2, <1>5 DEF TypeOK
    <3> QED BY <3>1, <3>2, <3>3, <1>1, <1>5, NullAssumption
  <2>3. RoomsAreInhabited' BY <1>1, <1>2, <1>3, <1>5 DEF RoomsAreInhabited, TypeOK
  <2>4. WithinCapacity'
    <3> SUFFICES ASSUME NEW d \in Code PROVE Cardinality(members'[d]) <= Capacity
      BY DEF WithinCapacity
    <3>1. CASE d = c
      <4>1. members'[d] = members[c] \cup {s} /\ members[c] \in SUBSET Socket
        BY <1>1, <1>2, <1>5, <3>1 DEF TypeOK
      <4>2. ~(Cardinality(members[c]) >= Capacity) /\ Cardinality(members[c]) <= Capacity
        BY <1>1, <1>2, <1>5 DEF WithinCapacity, IsFull
      <4> QED BY <4>1, <4>2, AddWithin
    <3>2. CASE d # c BY <1>2, <1>5, <3>2 DEF WithinCapacity, TypeOK
    <3> QED BY <3>1, <3>2
  <2>5. JoinsPending' BY <1>2, <1>3, <1>5 DEF JoinsPending, TypeOK
  <2> QED BY <2>1, <2>2, <2>3, <2>4, <2>5 DEF IInv
<1> QED BY <1>4, <1>5 DEF Enter

\* The "close" event: the connection leaves its room, and a room that is empty
\* then leaves the manager.
LEMMA CloseEventStep ==
  ASSUME IInv, NEW s \in Socket, CloseEvent(s)
  PROVE  IInv'
<1>1. /\ TypeOK /\ MembershipAgrees /\ RoomsAreInhabited /\ WithinCapacity
      /\ JoinsPending
  BY DEF IInv
<1>2. /\ conn[s] = "closing" /\ conn' = [conn EXCEPT ![s] = "closed"]
      /\ UNCHANGED <<silent, alive, stage, wanted, joined>>
  BY DEF CloseEvent, joinVars
<1>3. JoinsPending' BY <1>1, <1>2 DEF JoinsPending
<1>4. CASE joined[s] \in created
  <2> DEFINE c == joined[s]
  <2>1. c \in Code /\ c \in NormalCode BY <1>1, <1>4 DEF TypeOK, NormalCode
  <2>2. /\ members' = [members EXCEPT ![c] = @ \ {s}]
        /\ created' = IF members'[c] = {} THEN created \ {c} ELSE created
    BY <1>4 DEF CloseEvent, RemoveIfEmpty
  <2>3. TypeOK' BY <1>1, <1>2, <2>1, <2>2 DEF TypeOK
  <2>4. \A d \in Code : members'[d] = IF d = c THEN members[d] \ {s} ELSE members[d]
    BY <1>1, <2>1, <2>2 DEF TypeOK
  <2>5. MembershipAgrees'
    <3> SUFFICES ASSUME NEW t \in Socket, NEW d \in Code
                 PROVE  t \in members'[d] <=> joined'[t] = d /\ conn'[t] # "closed"
      BY DEF MembershipAgrees
    <3>1. t \in members[d] <=> joined[t] = d /\ conn[t] # "closed"
      BY <1>1 DEF MembershipAgrees
    <3>2. conn'[t] = IF t = s THEN "closed" ELSE conn[t] BY <1>1, <1>2 DEF TypeOK
    <3> QED BY <1>2, <2>4, <3>1, <3>2
  <2>6. RoomsAreInhabited' BY <1>1, <2>1, <2>2, <2>4 DEF RoomsAreInhabited
  <2>7. WithinCapacity'
    <3> SUFFICES ASSUME NEW d \in Code PROVE Cardinality(members'[d]) <= Capacity
      BY DEF WithinCapacity
    <3>1. members[d] \in SUBSET Socket /\ Cardinality(members[d]) <= Capacity
      BY <1>1 DEF WithinCapacity, TypeOK
    <3> QED BY <2>4, <3>1, RemoveWithin
  <2> QED BY <1>3, <2>3, <2>5, <2>6, <2>7 DEF IInv
<1>5. CASE joined[s] \notin created
  <2>1. UNCHANGED <<members, created>> BY <1>5 DEF CloseEvent
  <2>2. joined[s] = Null
    <3>1. ASSUME joined[s] \in Code PROVE FALSE
      <4>1. s \in members[joined[s]] BY <1>1, <1>2, <3>1 DEF MembershipAgrees
      <4> QED BY <1>1, <1>5, <3>1, <4>1 DEF RoomsAreInhabited
    <3> QED BY <1>1, <3>1 DEF TypeOK, NormalCode
  <2>3. TypeOK' BY <1>1, <1>2, <2>1 DEF TypeOK
  <2>4. MembershipAgrees'
    BY <1>1, <1>2, <2>1, <2>2, NullAssumption DEF MembershipAgrees, TypeOK
  <2>5. RoomsAreInhabited' BY <1>1, <2>1 DEF RoomsAreInhabited
  <2>6. WithinCapacity' BY <1>1, <2>1 DEF WithinCapacity
  <2> QED BY <1>3, <2>3, <2>4, <2>5, <2>6 DEF IInv
<1> QED BY <1>4, <1>5

\* A place taken by a new connection: the old one was in no room any more.
LEMMA ConnectStep ==
  ASSUME IInv, NEW s \in Socket, Connect(s)
  PROVE  IInv'
<1>1. /\ TypeOK /\ MembershipAgrees /\ RoomsAreInhabited /\ WithinCapacity
      /\ JoinsPending
  BY DEF IInv
<1>2. /\ conn[s] = "closed" /\ stage[s] = "idle"
      /\ conn' = [conn EXCEPT ![s] = "open"] /\ joined' = [joined EXCEPT ![s] = Null]
      /\ silent' = silent \ {s} /\ alive' = alive \cup {s}
      /\ UNCHANGED <<stage, wanted, members, created>>
  BY DEF Connect, joinVars
<1>3. TypeOK' BY <1>1, <1>2 DEF TypeOK
<1>4. MembershipAgrees'
  BY <1>1, <1>2, NullAssumption DEF MembershipAgrees, TypeOK
<1>5. RoomsAreInhabited' BY <1>1, <1>2 DEF RoomsAreInhabited
<1>6. WithinCapacity' BY <1>1, <1>2 DEF WithinCapacity
<1>7. JoinsPending' BY <1>1, <1>2 DEF JoinsPending, TypeOK
<1> QED BY <1>3, <1>4, <1>5, <1>6, <1>7 DEF IInv

\* A process that ends is followed by an empty one.
LEMMA ProcessEnds ==
  ASSUME NEW s \in Socket, UnreadableCookie(s) PROVE IInv'
<1>1. TypeOK' BY DEF UnreadableCookie, TypeOK
<1>2. MembershipAgrees' BY DEF UnreadableCookie, MembershipAgrees
<1>3. RoomsAreInhabited' BY DEF UnreadableCookie, RoomsAreInhabited
<1>4. WithinCapacity' BY FS_EmptySet, CapacityAssumption DEF UnreadableCookie, WithinCapacity
<1>5. JoinsPending' BY DEF UnreadableCookie, JoinsPending
<1> QED BY <1>1, <1>2, <1>3, <1>4, <1>5 DEF IInv

\* Every step preserves the invariant.
LEMMA NextIInv == IInv /\ [Next]_vars => IInv'
<1> SUFFICES ASSUME IInv, [Next]_vars PROVE IInv' OBVIOUS
<1> USE DEF IInv
<1>1. CASE Heartbeat
  <2>1. TypeOK' BY <1>1 DEF Heartbeat, Survivors, TypeOK, joinVars, roomVars
  <2> QED BY <1>1, <2>1, SocketStep DEF Heartbeat, TypeOK
<1>2. ASSUME NEW s \in Socket, Connect(s) PROVE IInv' BY <1>2, ConnectStep
<1>3. ASSUME NEW s \in Socket, CloseEvent(s) PROVE IInv' BY <1>3, CloseEventStep
<1>4. ASSUME NEW s \in Socket, PeerCloses(s) PROVE IInv'
  <2>1. TypeOK' BY <1>4, CloseKeeps DEF PeerCloses, TypeOK, joinVars, roomVars
  <2> QED BY <1>4, <2>1, SocketStep, CloseKeeps DEF PeerCloses
<1>5. ASSUME NEW s \in Socket, PeerVanishes(s) PROVE IInv'
  <2>1. TypeOK' BY <1>5 DEF PeerVanishes, TypeOK, joinVars, roomVars
  <2> QED BY <1>5, <2>1, SocketStep DEF PeerVanishes
<1>6. ASSUME NEW s \in Socket, Pong(s) PROVE IInv'
  <2>1. TypeOK' BY <1>6 DEF Pong, TypeOK, joinVars, roomVars
  <2> QED BY <1>6, <2>1, SocketStep DEF Pong
<1>7. ASSUME NEW s \in Socket, NEW c \in Code, JoinMessage(s, c) PROVE IInv'
  <2>1. Normal[c] \in NormalCode BY NormalIsNormal
  <2>2. TypeOK'
    BY <1>7, <2>1 DEF JoinMessage, Normalized, TypeOK, socketVars, roomVars
  <2> QED
    BY <1>7, <2>1, <2>2, PendingStep
    DEF JoinMessage, MayJoin, Normalized, TypeOK, socketVars, roomVars
<1>8. ASSUME NEW s \in Socket, stage[s] # "idle", GiveUp(s) PROVE IInv'
  <2>1. TypeOK' BY <1>8 DEF GiveUp, Done, TypeOK, socketVars, roomVars
  <2> QED BY <1>8, <2>1, PendingStep DEF GiveUp, Done, TypeOK, socketVars, roomVars
<1>9. ASSUME NEW s \in Socket, IdentityKnown(s) PROVE IInv'
  <2>1. CASE StillOpen(s) /\ wanted[s] \in created /\ Enter(s, wanted[s])
    BY <1>9, <2>1, EnterStep DEF IdentityKnown, StillOpen
  <2>2. CASE /\ StillOpen(s) /\ stage' = [stage EXCEPT ![s] = "assignment"]
             /\ UNCHANGED <<socketVars, wanted, roomVars>>
    <3>1. TypeOK' BY <2>2 DEF TypeOK, socketVars, roomVars
    <3>2. joined[s] = Null /\ wanted[s] \in NormalCode
      BY <1>9 DEF IdentityKnown, JoinsPending
    <3> QED BY <2>2, <3>1, <3>2, PendingStep DEF TypeOK, socketVars, roomVars
  <2> QED BY <1>8, <1>9, <2>1, <2>2 DEF IdentityKnown
<1>10. ASSUME NEW s \in Socket, AssignmentKnown(s) PROVE IInv'
  <2>1. CASE Done(s) /\ NotFound(s) /\ UNCHANGED <<silent, alive, roomVars>>
    <3>1. /\ conn' \in [Socket -> {"open", "closing", "closed"}]
          /\ \A t \in Socket : (conn'[t] = "closed") <=> (conn[t] = "closed")
      BY <2>1, CloseKeeps DEF NotFound
    <3>2. TypeOK' BY <2>1, <3>1 DEF TypeOK, Done, roomVars
    <3>3. MembershipAgrees' BY <2>1, <3>1 DEF MembershipAgrees, roomVars
    <3>4. RoomsAreInhabited' /\ WithinCapacity'
      BY <2>1 DEF RoomsAreInhabited, WithinCapacity, roomVars
    <3>5. JoinsPending' BY <2>1 DEF JoinsPending, Done, TypeOK, roomVars
    <3> QED BY <3>2, <3>3, <3>4, <3>5
  <2>2. CASE StillOpen(s) /\ Enter(s, wanted[s])
    BY <1>10, <2>2, EnterStep DEF AssignmentKnown, StillOpen
  <2> QED BY <1>8, <1>10, <2>1, <2>2 DEF AssignmentKnown
<1>11. ASSUME NEW s \in Socket, UnreadableCookie(s) PROVE IInv'
  BY <1>11, ProcessEnds
<1>12. CASE UNCHANGED vars
  BY <1>12 DEF vars, socketVars, joinVars, roomVars, TypeOK, MembershipAgrees,
               RoomsAreInhabited, WithinCapacity, JoinsPending
<1> QED BY <1>1, <1>2, <1>3, <1>4, <1>5, <1>6, <1>7, <1>9, <1>10, <1>11, <1>12 DEF Next

\* The strengthened invariant holds in every reachable state.
THEOREM Inductive == Spec => []IInv
BY InitIInv, NextIInv, PTL DEF Spec

\* Types, and rooms under normalized codes only (index.ts:86).
THEOREM TypeCorrect == Spec => []TypeOK
BY Inductive, PTL DEF IInv

\* Rooms and connections agree about who is where, whatever happens while
\* handleJoin awaits (index.ts:80, 93 and 100).
THEOREM Membership == Spec => []MembershipAgrees
BY Inductive, PTL DEF IInv

\* The room manager keeps exactly the rooms with players (RoomManager), and the
\* size check of handleJoin bounds every one of them (Room.isFull).
THEOREM SoundRooms == Spec => []RoomsAreSound
<1>1. IInv => RoomsAreSound BY DEF IInv, RoomsAreSound
<1> QED BY <1>1, Inductive, PTL
=============================================================================
