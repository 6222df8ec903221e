----------------------------- MODULE Placement -----------------------------
(***************************************************************************)
(* Where rooms live: the matchmaking service, the shards, and the          *)
(* projection of both in Redis (apps/matchmaking, occupancy.ts,            *)
(* matchmaking.ts and the shutdown of index.ts).                           *)
(*                                                                         *)
(* One Redis pipeline is one step: it is applied when it is issued, or it  *)
(* is lost and the caller logs that (one that the Redis client holds back  *)
(* and sends later is not modelled).  The DELETE callback of an emptied    *)
(* room, an /assign request and a join travel on their own, for as long as *)
(* they please: time passes in ticks of one heartbeat interval, and a tick *)
(* waits for nothing but the heartbeats of the shards that run.            *)
(*                                                                         *)
(* Operators named ..._Faulty hold a plausible mistake; see module Room.   *)
(***************************************************************************)
EXTENDS Naturals

CONSTANTS
  Shard, Code,
  Request,     \* places for POST /assign requests
  Client,      \* places for joins that await the assignment check
  Capacity,    \* DEFAULT_ROOM_CAPACITY
  Ttl,         \* PROJECTION_TTL_SECONDS in ticks
  MaxBegun,    \* bound of the model: requests, joins and departures per tick
  MaxNotices,  \* bound of the model: DELETE callbacks under way per code
  FaultBound,  \* bound of the model: crashes, lost calls, handlers that lose writes
  Null

ASSUME CapacityAssumption == Capacity \in Nat \ {0}
ASSUME TtlAssumption == Ttl \in Nat \ {0}
ASSUME BoundsAssumption == {MaxBegun, MaxNotices, FaultBound} \subseteq Nat
ASSUME NullAssumption == Null \notin Shard \cup Code \cup Nat

VARIABLES
  state,       \* "new", "up", "stopping", "notifying", "exited" or "crashed"
  players,     \* players of each room of a shard; 0: no such room
  hash,        \* room:<code> in Redis, with the ticks it has left
  joinable,    \* rooms:joinable
  session,     \* ticks that session:<shard> has left; 0: no such key
  notices,     \* DELETE /rooms/<code> calls under way
  assign,      \* the /assign requests under way
  joining,     \* joins after a positive isRoomAssignedHere
  prune,       \* the stale list between the two steps of readJoinableRooms
  loose,       \* history: codes whose record was lost while the room was in
               \* use, or that somebody was let into without a check
  beat,        \* shards whose heartbeat was in this tick
  begun,       \* requests, joins and departures that began in this tick
  faults

shardVars == <<state, players, joining>>
redisVars == <<hash, joinable, session>>
callVars == <<notices, assign, prune>>
clockVars == <<beat, begun>>
vars == <<shardVars, redisVars, callVars, clockVars, loose, faults>>

Begin == begun < MaxBegun /\ begun' = begun + 1 /\ UNCHANGED beat

Fault == faults < FaultBound /\ faults' = faults + 1

NoHash == [shard |-> Null, count |-> Null, left |-> 0]

\* Some shard has the room, or is letting somebody in.
InUse(c) ==
  \/ \E s \in Shard : players[s][c] > 0
  \/ \E k \in Client : joining[k] # Null /\ joining[k].code = c

\* The records of the codes C are gone.
Loosen(C) == loose' = loose \cup {c \in C : InUse(c)}

Init ==
  /\ state = [s \in Shard |-> "new"]
  /\ players = [s \in Shard |-> [c \in Code |-> 0]]
  /\ hash = [c \in Code |-> NoHash]
  /\ joinable = {} /\ session = [s \in Shard |-> 0]
  /\ notices = [c \in Code |-> 0]
  /\ assign = [q \in Request |-> Null]
  /\ joining = [k \in Client |-> Null]
  /\ prune = {} /\ loose = {} /\ beat = {} /\ begun = 0 /\ faults = 0

-----------------------------------------------------------------------------
(* Matchmaking.                                                            *)

\* pickShardForNewRoom takes one of the shards that report; which of them the
\* packing prefers is abstracted.
PickShard(q) ==
  /\ Begin /\ assign[q] = Null
  /\ \E s \in Shard :
       /\ session[s] > 0
       /\ assign' = [assign EXCEPT ![q] = [shard |-> s, code |-> Null]]
  /\ UNCHANGED <<shardVars, redisVars, notices, prune, loose, faults>>

\* No expiry at all.
Forever == Ttl + 1

ClaimLife_Faulty(c) == IF hash[c].left = 0 THEN Forever ELSE hash[c].left
\* EXPIRE ... NX
ClaimLife(c) == IF hash[c].left = 0 THEN Ttl ELSE hash[c].left

Free_Faulty(c) == TRUE
\* HSETNX on the field shard succeeds.
Free(c) == hash[c].shard = Null

\* claimRoomCode: one HSETNX of its loop.
ClaimCode(q, c) ==
  /\ assign[q] # Null /\ assign[q].code = Null
  /\ Free(c)
  /\ hash' = [hash EXCEPT ![c].shard = assign[q].shard, ![c].left = ClaimLife(c)]
  /\ assign' = [assign EXCEPT ![q].code = c]
  /\ UNCHANGED <<shardVars, joinable, session, notices, prune, clockVars, loose, faults>>

\* Every draw met a code in use: 503.
ClaimFails(q) ==
  /\ assign[q] # Null /\ assign[q].code = Null
  /\ \E c \in Code : ~Free(c)
  /\ assign' = [assign EXCEPT ![q] = Null]
  /\ UNCHANGED <<shardVars, redisVars, notices, prune, clockVars, loose, faults>>

\* The reservation is completed and the client answered.
Reserve(q) ==
  /\ assign[q] # Null /\ assign[q].code # Null
  /\ hash' = [hash EXCEPT ![assign[q].code].count = 0, ![assign[q].code].left = Ttl]
  /\ assign' = [assign EXCEPT ![q] = Null]
  /\ UNCHANGED <<shardVars, joinable, session, notices, prune, clockVars, loose, faults>>

\* The request fails between two of its steps.
AssignDies(q) ==
  /\ assign[q] # Null /\ Fault
  /\ assign' = [assign EXCEPT ![q] = Null]
  /\ UNCHANGED <<shardVars, redisVars, notices, prune, clockVars, loose>>

\* A room readJoinableRooms would return.
Alive(c) == hash[c].shard # Null /\ ~(hash[c].count \in Nat /\ hash[c].count >= Capacity)

\* GET /rooms, or the choice of a room to match into: first the reads, ...
ReadJoinable ==
  /\ Begin /\ prune = {}
  /\ prune' = {c \in joinable : ~Alive(c)}
  /\ UNCHANGED <<shardVars, redisVars, notices, assign, loose, faults>>

\* ... then the SREM of what was stale then, unless it fails.
Prune ==
  /\ prune # {} /\ prune' = {}
  /\ \/ joinable' = joinable \ prune /\ UNCHANGED faults
     \/ Fault /\ UNCHANGED joinable
  /\ UNCHANGED <<shardVars, hash, session, notices, assign, clockVars, loose>>

\* DELETE /rooms/:roomId
RoomClosed(c) ==
  /\ notices[c] > 0
  /\ notices' = [notices EXCEPT ![c] = @ - 1]
  /\ hash' = [hash EXCEPT ![c] = NoHash] /\ Loosen({c})
  /\ joinable' = joinable \ {c}
  /\ UNCHANGED <<shardVars, session, assign, prune, clockVars, faults>>

\* The call or the pipeline of its handler fails; nobody tries again.
NoticeLost(c) ==
  /\ notices[c] > 0 /\ Fault
  /\ notices' = [notices EXCEPT ![c] = @ - 1]
  /\ UNCHANGED <<shardVars, redisVars, assign, prune, clockVars, loose>>

-----------------------------------------------------------------------------
(* A shard.                                                                *)

Running(s) == state[s] \in {"up", "stopping", "notifying"}

PublishLoad_Faulty(s) == session' = [session EXCEPT ![s] = Forever]
\* publishSessionLoad
PublishLoad(s) == session' = [session EXCEPT ![s] = Ttl]

Projection_Faulty(s, c, n) == [hash[c] EXCEPT !.count = n, !.left = Ttl]
Projection(s, c, n) == [shard |-> s, count |-> n, left |-> Ttl]

\* Of the rooms that are synced, those with n[c] players that are not full.
JoinableAfter(R, n) == {c \in R : n[c] < Capacity}

\* syncOccupancy of the rooms R, for a shard with n[c] players in room c.
SyncOccupancy(s, R, n) ==
  /\ hash' = [c \in Code |-> IF c \in R THEN Projection(s, c, n[c]) ELSE hash[c]]
  /\ joinable' = (joinable \ R) \cup JoinableAfter(R, n)

\* What a handler reports: the rooms R and the load, each in a pipeline of its
\* own. One that fails is logged and not repeated.
Report(s, R, n) ==
  \E kept \in SUBSET R, heard \in BOOLEAN :
    /\ SyncOccupancy(s, kept, n)
    /\ IF heard THEN PublishLoad(s) ELSE UNCHANGED session
    /\ IF heard /\ kept = R THEN UNCHANGED faults ELSE Fault

Start(s) ==
  /\ state[s] = "new"
  /\ state' = [state EXCEPT ![s] = "up"]
  /\ Report(s, {}, players[s])
  /\ UNCHANGED <<players, joining, callVars, clockVars, loose>>

\* handleJoin with the room at hand.
Enter(s, c) ==
  /\ players[s][c] < Capacity
  /\ players' = [players EXCEPT ![s][c] = @ + 1]
  /\ Report(s, {c}, players'[s])

JoinRoomAtHand(s, c) ==
  /\ Begin /\ Running(s) /\ players[s][c] > 0
  /\ Enter(s, c)
  /\ UNCHANGED <<state, joining, callVars, loose>>

Assigned(s, c) == hash[c].shard = s

\* isRoomAssignedHere, which lets a client in when Redis fails. The code and the
\* shard are what the client says.
CheckAssignment(k, s, c) ==
  /\ Begin /\ joining[k] = Null /\ Running(s) /\ players[s][c] = 0
  /\ \/ Assigned(s, c) /\ UNCHANGED <<loose, faults>>
     \/ Fault /\ loose' = loose \cup {c}
  /\ joining' = [joining EXCEPT ![k] = [shard |-> s, code |-> c]]
  /\ UNCHANGED <<state, players, redisVars, callVars>>

\* The room may have been made, filled or emptied meanwhile.
JoinAfterCheck(k) ==
  /\ joining[k] # Null
  /\ joining' = [joining EXCEPT ![k] = Null]
  /\ LET s == joining[k].shard  c == joining[k].code
     IN  \/ Enter(s, c)
         \/ players[s][c] >= Capacity /\ UNCHANGED <<players, redisVars, faults>>
  /\ UNCHANGED <<state, callVars, clockVars, loose>>

LastOut(s, c) == players[s][c] = 1

\* handleClose: the last one out tells matchmaking.
LeaveRoom(s, c) ==
  /\ Begin /\ Running(s) /\ players[s][c] > 0
  /\ players' = [players EXCEPT ![s][c] = @ - 1]
  /\ \/ /\ LastOut(s, c) /\ notices[c] < MaxNotices
        /\ notices' = [notices EXCEPT ![c] = @ + 1]
        /\ Report(s, {}, players'[s])
     \/ ~LastOut(s, c) /\ Report(s, {c}, players'[s]) /\ UNCHANGED notices
  /\ UNCHANGED <<state, joining, assign, prune, loose>>

RoomsOf(s) == {c \in Code : players[s][c] > 0}

\* startProjectionHeartbeat, which shutdown does not stop.
Heartbeat(s) ==
  /\ Running(s) /\ beat' = beat \cup {s}
  /\ Report(s, RoomsOf(s), players[s])
  /\ UNCHANGED <<shardVars, callVars, begun, loose>>

BeginShutdown(s) ==
  /\ state[s] = "up"
  /\ state' = [state EXCEPT ![s] = "stopping"]
  /\ UNCHANGED <<players, joining, redisVars, callVars, clockVars, loose, faults>>

\* clearSessionLoad, then notifyRoomClosed for every room.
ClearLoad(s) ==
  /\ state[s] = "stopping"
  /\ \A c \in RoomsOf(s) : notices[c] < MaxNotices
  /\ state' = [state EXCEPT ![s] = "notifying"]
  /\ \/ session' = [session EXCEPT ![s] = 0] /\ UNCHANGED faults
     \/ Fault /\ UNCHANGED session
  /\ notices' = [c \in Code |-> IF c \in RoomsOf(s) THEN notices[c] + 1 ELSE notices[c]]
  /\ UNCHANGED <<players, joining, hash, joinable, assign, prune, clockVars, loose>>

\* The process ends, with its rooms and the joins it was working on.
Stop(s, how) ==
  /\ state' = [state EXCEPT ![s] = how]
  /\ players' = [players EXCEPT ![s] = [c \in Code |-> 0]]
  /\ joining' = [k \in Client |-> IF joining[k] # Null /\ joining[k].shard = s
                                  THEN Null ELSE joining[k]]
  /\ UNCHANGED <<redisVars, callVars, clockVars, loose>>

Exit(s) ==
  /\ state[s] = "notifying"
  /\ \A c \in RoomsOf(s) : notices[c] = 0
  /\ Stop(s, "exited") /\ UNCHANGED faults

Crash(s) == Running(s) /\ Fault /\ Stop(s, "crashed")

-----------------------------------------------------------------------------
Older(left) == IF left \in {0, Forever} THEN left ELSE left - 1

Tick ==
  /\ \A s \in Shard : Running(s) => s \in beat
  /\ beat' = {} /\ begun' = 0
  /\ session' = [s \in Shard |-> Older(session[s])]
  /\ hash' = [c \in Code |-> IF hash[c].left = 1 THEN NoHash
                             ELSE [hash[c] EXCEPT !.left = Older(@)]]
  /\ Loosen({c \in Code : hash[c].left = 1})
  /\ UNCHANGED <<shardVars, joinable, callVars, faults>>

Matchmaking(q) == PickShard(q) \/ ClaimFails(q) \/ Reserve(q) \/ \E c \in Code : ClaimCode(q, c)

Shutdown(s) == ClearLoad(s) \/ Exit(s)

Next ==
  \/ Tick \/ ReadJoinable \/ Prune
  \/ \E q \in Request : Matchmaking(q) \/ AssignDies(q)
  \/ \E c \in Code : RoomClosed(c) \/ NoticeLost(c)
  \/ \E k \in Client : JoinAfterCheck(k)
  \/ \E s \in Shard :
       \/ Start(s) \/ Heartbeat(s) \/ BeginShutdown(s) \/ Shutdown(s) \/ Crash(s)
       \/ \E c \in Code :
            \/ JoinRoomAtHand(s, c) \/ LeaveRoom(s, c)
            \/ \E k \in Client : CheckAssignment(k, s, c)

Spec == Init /\ [][Next]_vars

\* The clock runs, timers fire, and calls that are under way come to an end, no
\* matter when.
Fairness ==
  /\ WF_vars(Tick) /\ WF_vars(Prune)
  /\ \A s \in Shard : WF_vars(s \notin beat /\ Heartbeat(s)) /\ WF_vars(Shutdown(s))
  /\ \A c \in Code : WF_vars(RoomClosed(c))
  /\ \A q \in Request : WF_vars(assign[q] # Null /\ Matchmaking(q))
  /\ \A k \in Client : WF_vars(JoinAfterCheck(k))

FairSpec == Spec /\ Fairness

-----------------------------------------------------------------------------
(* Properties.                                                             *)

TypeOK ==
  /\ state \in [Shard -> {"new", "up", "stopping", "notifying", "exited", "crashed"}]
  /\ players \in [Shard -> [Code -> 0 .. Capacity]]
  /\ hash \in [Code -> [shard : Shard \cup {Null}, count : 0 .. Capacity \cup {Null},
                        left : 0 .. Ttl]]
  /\ joinable \subseteq Code /\ prune \subseteq Code /\ loose \subseteq Code
  /\ session \in [Shard -> 0 .. Ttl]
  /\ notices \in [Code -> 0 .. MaxNotices]
  /\ assign \in [Request -> [shard : Shard, code : Code \cup {Null}] \cup {Null}]
  /\ joining \in [Client -> [shard : Shard, code : Code] \cup {Null}]
  /\ beat \subseteq Shard /\ begun \in 0 .. MaxBegun /\ faults \in 0 .. FaultBound

\* Room c lives in two processes. (A shard that is shutting down has given its
\* rooms up.)
Split(c) ==
  \E s, t \in Shard :
    /\ s # t /\ state[s] = "up" /\ state[t] = "up"
    /\ players[s][c] > 0 /\ players[t][c] > 0

\* occupancy.ts:87: the assignment check is there lest a room exist in two
\* processes.  With requests that contest a code, codes that are drawn again, and
\* calls that fail or come late, it and HSETNX guarantee this: a room does so only
\* if its record was lost while it was in use, or the check could not be made.
SplitNeedsLoss == \A c \in Code : Split(c) => c \in loose

\* Crashed or stopped, a shard and its rooms are forgotten.
DeadShardsAreForgotten ==
  \A s \in Shard : state[s] \in {"exited", "crashed"} ~>
                     session[s] = 0 /\ \A c \in Code : hash[c].shard # s

\* A code that nobody uses does not stay taken, whatever step of the assignment
\* or the callback was lost.
UnusedCodesAreFreed ==
  \A c \in Code : hash[c].left > 0 ~> hash[c].left = 0 \/ \E s \in Shard : players[s][c] > 0

\* While a room lives, what Redis says of it is right again and again, although
\* writes are lost and late callbacks and SREMs remove them: its record names its
\* shard and, when it has a place, it is among the candidates.
LiveRoomsAreProjected ==
  \A s \in Shard, c \in Code :
    <>[](players[s][c] > 0) =>
      []<>(hash[c].shard = s /\ (players[s][c] < Capacity => c \in joinable))
=============================================================================
