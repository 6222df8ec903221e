---------------------------- MODULE Connections ----------------------------
(***************************************************************************)
(* The WebSocket connections of a shard and its rooms (index.ts,           *)
(* RoomManager): handleJoin with its two awaits, the close event, and the  *)
(* ping heartbeat.  What happens inside a room is in module Room.          *)
(*                                                                         *)
(* Operators named ..._Faulty hold a plausible mistake; see module Room.   *)
(***************************************************************************)
EXTENDS Naturals, FiniteSets

CONSTANTS
  Socket,      \* places for connections
  Code,        \* room codes as people write them
  Normal,      \* normalizeRoomCode
  Capacity,    \* ROOM_CAPACITY
  Null

ASSUME SocketAssumption == IsFiniteSet(Socket)
ASSUME NormalAssumption ==
  Normal \in [Code -> Code] /\ \A c \in Code : Normal[Normal[c]] = Normal[c]
ASSUME CapacityAssumption == Capacity \in Nat \ {0}
ASSUME NullAssumption == Null \notin Code

VARIABLES
  conn,        \* readyState: "open", "closing" or "closed"
  silent,      \* connections whose peer is gone without a word
  alive,       \* the alive set of the heartbeat
  stage,       \* where handleJoin awaits: "identity", "assignment", or "idle"
  wanted,      \* the normalized code of the join under way
  joined,      \* state.joinedRoomId
  members,     \* the players of each room, by their sockets
  created      \* the keys of RoomManager.rooms

socketVars == <<conn, silent, alive>>
joinVars == <<stage, wanted>>
roomVars == <<joined, members, created>>
vars == <<socketVars, joinVars, roomVars>>

Init ==
  /\ conn = [s \in Socket |-> "closed"]
  /\ silent = {} /\ alive = {}
  /\ stage = [s \in Socket |-> "idle"]
  /\ wanted = [s \in Socket |-> Null]
  /\ joined = [s \in Socket |-> Null]
  /\ members = [c \in Code |-> {}]
  /\ created = {}

\* The "connection" event, with a fresh ConnectionState.  Its identity is known
\* in the end: a token that is missing or invalid makes a guest.
Connect(s) ==
  /\ conn[s] = "closed" /\ stage[s] = "idle"
  /\ conn' = [conn EXCEPT ![s] = "open"]
  /\ silent' = silent \ {s} /\ alive' = alive \cup {s}
  /\ joined' = [joined EXCEPT ![s] = Null]
  /\ UNCHANGED <<joinVars, members, created>>

\* The same with a session cookie that cannot be decoded: readCookie is called
\* outside the try of identifyConnection, so state.identity is rejected while
\* nobody waits for it.  The runtime ends the process for that (Node.js 22, no
\* handler): connections, joins and rooms are gone, and another process starts.
UnreadableCookie(s) ==
  /\ conn[s] = "closed" /\ stage[s] = "idle"
  /\ conn' = [t \in Socket |-> "closed"]
  /\ silent' = {} /\ alive' = {}
  /\ stage' = [t \in Socket |-> "idle"]
  /\ wanted' = [t \in Socket |-> Null]
  /\ joined' = [t \in Socket |-> Null]
  /\ members' = [c \in Code |-> {}]
  /\ created' = {}

-----------------------------------------------------------------------------
(* handleJoin.                                                             *)

Normalized(c) == Normal[c]

MayJoin(s) == joined[s] = Null /\ stage[s] = "idle"

\* A join message, up to `await state.identity`.
JoinMessage(s, c) ==
  /\ conn[s] = "open" /\ s \notin silent
  /\ MayJoin(s)
  /\ stage' = [stage EXCEPT ![s] = "identity"]
  /\ wanted' = [wanted EXCEPT ![s] = Normalized(c)]
  /\ UNCHANGED <<socketVars, roomVars>>

StillOpen_Faulty(s) == TRUE
StillOpen(s) == conn[s] = "open"

Close(s) == conn' = IF conn[s] = "open" THEN [conn EXCEPT ![s] = "closing"] ELSE conn

Done(s) ==
  /\ stage' = [stage EXCEPT ![s] = "idle"]
  /\ wanted' = [wanted EXCEPT ![s] = Null]

GiveUp(s) == Done(s) /\ UNCHANGED <<socketVars, roomVars>>

IsFull(c) == Cardinality(members[c]) >= Capacity

\* The rest of handleJoin once the room is there.
Enter(s, c) ==
  /\ Done(s)
  /\ created' = created \cup {c}
  /\ \/ IsFull(c) /\ Close(s) /\ UNCHANGED <<joined, members>>
     \/ /\ ~IsFull(c)
        /\ joined' = [joined EXCEPT ![s] = c]
        /\ members' = [members EXCEPT ![c] = @ \cup {s}]
        /\ UNCHANGED conn
  /\ UNCHANGED <<silent, alive>>

\* After `await state.identity`: a room this process holds needs no check.
IdentityKnown(s) ==
  /\ stage[s] = "identity"
  /\ \/ ~StillOpen(s) /\ GiveUp(s)
     \/ StillOpen(s) /\ wanted[s] \in created /\ Enter(s, wanted[s])
     \/ /\ StillOpen(s) /\ wanted[s] \notin created
        /\ stage' = [stage EXCEPT ![s] = "assignment"]
        /\ UNCHANGED <<socketVars, wanted, roomVars>>

NotFound_Faulty(s) == UNCHANGED conn
NotFound(s) == Close(s)

\* After `await isRoomAssignedHere`, whose answer is Redis's, or true when
\* Redis fails.
AssignmentKnown(s) ==
  /\ stage[s] = "assignment"
  /\ \/ Done(s) /\ NotFound(s) /\ UNCHANGED <<silent, alive, roomVars>>
     \/ ~StillOpen(s) /\ GiveUp(s)
     \/ StillOpen(s) /\ Enter(s, wanted[s])

-----------------------------------------------------------------------------
(* Departures.                                                             *)

RemoveIfEmpty_Faulty(c) == UNCHANGED created
RemoveIfEmpty(c) == created' = IF members'[c] = {} THEN created \ {c} ELSE created

\* The "close" event and handleClose, which leaves state.joinedRoomId as it is.
CloseEvent(s) ==
  /\ conn[s] = "closing"
  /\ conn' = [conn EXCEPT ![s] = "closed"]
  /\ IF joined[s] \in created
     THEN /\ members' = [members EXCEPT ![joined[s]] = @ \ {s}]
          /\ RemoveIfEmpty(joined[s])
     ELSE UNCHANGED <<members, created>>
  /\ UNCHANGED <<silent, alive, joinVars, joined>>

PeerCloses(s) ==
  /\ conn[s] = "open" /\ s \notin silent
  /\ Close(s)
  /\ UNCHANGED <<silent, alive, joinVars, roomVars>>

\* The network goes away without a close.
PeerVanishes(s) ==
  /\ conn[s] # "closed" /\ s \notin silent
  /\ silent' = silent \cup {s}
  /\ UNCHANGED <<conn, alive, joinVars, roomVars>>

Survivors_Faulty == alive
\* Who is in the alive set when the interval is over: nobody, until a pong.
Survivors == {}

\* The interval: terminate who has not answered the last ping, ping the others.
Heartbeat ==
  /\ conn' = [s \in Socket |-> IF conn[s] = "open" /\ s \notin alive
                               THEN "closing" ELSE conn[s]]
  /\ alive' = Survivors
  /\ UNCHANGED <<silent, joinVars, roomVars>>

Pong(s) ==
  /\ conn[s] = "open" /\ s \notin silent \cup alive
  /\ alive' = alive \cup {s}
  /\ UNCHANGED <<conn, silent, joinVars, roomVars>>

Next ==
  \/ Heartbeat
  \/ \E s \in Socket :
       \/ Connect(s) \/ UnreadableCookie(s) \/ IdentityKnown(s) \/ AssignmentKnown(s)
       \/ CloseEvent(s) \/ PeerCloses(s) \/ PeerVanishes(s) \/ Pong(s)
       \/ \E c \in Code : JoinMessage(s, c)

Spec == Init /\ [][Next]_vars

\* The interval runs, the runtime delivers close events (a closing handshake
\* that gets no answer is cut off), and the promises that a join awaits settle:
\* the one of the identity is rejected only when its process ends at once, and
\* the one of the assignment never.
Fairness ==
  /\ WF_vars(Heartbeat)
  /\ \A s \in Socket : WF_vars(CloseEvent(s)) /\ WF_vars(IdentityKnown(s))
                                              /\ WF_vars(AssignmentKnown(s))

FairSpec == Spec /\ Fairness

-----------------------------------------------------------------------------
(* Properties.                                                             *)

NormalCode == {c \in Code : Normal[c] = c}

\* Rooms go by normalized codes only, so that no room exists twice under two
\* spellings (index.ts:86).
TypeOK ==
  /\ conn \in [Socket -> {"open", "closing", "closed"}]
  /\ silent \subseteq Socket /\ alive \subseteq Socket
  /\ stage \in [Socket -> {"idle", "identity", "assignment"}]
  /\ wanted \in [Socket -> NormalCode \cup {Null}]
  /\ joined \in [Socket -> NormalCode \cup {Null}]
  /\ members \in [Code -> SUBSET Socket]
  /\ created \subseteq NormalCode

\* A room has the connections that joined it and are not closed, and no other:
\* no dead socket enters a room after its close event, which nobody would ever
\* remove (index.ts:99), and no connection is in two rooms.
MembershipAgrees ==
  \A s \in Socket, c \in Code :
    s \in members[c] <=> joined[s] = c /\ conn[s] # "closed"

\* The rooms of the manager are those with players: none is leaked empty, and
\* nobody plays in a room the manager has forgotten.
RoomsAreInhabited == \A c \in Code : c \in created <=> members[c] # {}

\* Joins that await at the same time do not overfill a room.
WithinCapacity == \A c \in Code : Cardinality(members[c]) <= Capacity

\* Rooms are neither leaked nor lost nor overfilled while joins await.
RoomsAreSound == RoomsAreInhabited /\ WithinCapacity

\* A join on a connection that stays open ends in a room; every other join ends
\* with the connection closed, by an answer, by the peer or with the process.
JoinIsAnswered ==
  \A s \in Socket : stage[s] # "idle" ~> joined[s] # Null \/ conn[s] # "open"

\* index.ts:267: a connection that was cut silently does not stay in its room.
SilentPeersLeave ==
  \A s \in Socket, c \in Code :
    s \in silent /\ s \in members[c] ~> s \notin members[c]
=============================================================================
