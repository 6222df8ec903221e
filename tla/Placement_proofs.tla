---------------------------- MODULE Placement_proofs ----------------------------
(***************************************************************************)
(* Theorems about module Placement, for any number of shards, codes,       *)
(* requests and clients.                                                   *)
(***************************************************************************)
EXTENDS Placement, TLAPS

Counts == 0 .. Capacity
HashType == [shard : Shard \cup {Null}, count : Counts \cup {Null}, left : 0 .. Ttl]
AssignType == [shard : Shard, code : Code \cup {Null}] \cup {Null}
JoiningType == [shard : Shard, code : Code] \cup {Null}

-----------------------------------------------------------------------------
(* Types.                                                                  *)

LEMMA InitTyped == Init => TypeOK
<1> SUFFICES ASSUME Init PROVE TypeOK
  OBVIOUS
<1> USE CapacityAssumption, TtlAssumption, NullAssumption, BoundsAssumption
<1>1. players \in [Shard -> [Code -> Counts]]
  BY DEF Init, Counts
<1>2. hash \in [Code -> HashType]
  <2>1. NoHash \in HashType
    BY DEF NoHash, HashType, Counts
  <2> QED
    BY <2>1 DEF Init
<1>3. session \in [Shard -> 0 .. Ttl] /\ notices \in [Code -> 0 .. MaxNotices]
  BY DEF Init
<1>4. assign \in [Request -> AssignType] /\ joining \in [Client -> JoiningType]
  BY DEF Init, AssignType, JoiningType
<1>5. begun \in 0 .. MaxBegun /\ faults \in 0 .. FaultBound
  BY DEF Init
<1>6. state \in [Shard -> {"new", "up", "stopping", "notifying", "exited", "crashed"}]
  BY DEF Init
<1> QED
  BY <1>1, <1>2, <1>3, <1>4, <1>5, <1>6
     DEF Init, TypeOK, Counts, HashType, AssignType, JoiningType

LEMMA BeginTyped ==
  ASSUME TypeOK, Begin
  PROVE  begun' \in 0 .. MaxBegun /\ beat' \subseteq Shard
BY BoundsAssumption DEF TypeOK, Begin

LEMMA FaultTyped ==
  ASSUME TypeOK, Fault
  PROVE  faults' \in 0 .. FaultBound
BY BoundsAssumption DEF TypeOK, Fault

LEMMA LoadTyped ==
  ASSUME TypeOK, NEW s \in Shard, PublishLoad(s)
  PROVE  session' \in [Shard -> 0 .. Ttl]
BY TtlAssumption DEF TypeOK, PublishLoad

\* A snapshot of rooms of the shard has the type of the keys it writes.
LEMMA SyncTyped ==
  ASSUME TypeOK, NEW s \in Shard, NEW R \in SUBSET Code, NEW n \in [Code -> Counts],
         SyncOccupancy(s, R, n)
  PROVE  hash' \in [Code -> HashType] /\ joinable' \subseteq Code
<1>1. \A c \in Code : Projection(s, c, n[c]) \in HashType
  BY TtlAssumption DEF Projection, HashType
<1>2. \A c \in Code : hash[c] \in HashType
  BY DEF TypeOK, HashType, Counts
<1>3. hash' \in [Code -> HashType]
  BY <1>1, <1>2 DEF SyncOccupancy
<1>4. joinable' \subseteq Code
  BY DEF SyncOccupancy, JoinableAfter, TypeOK
<1> QED
  BY <1>3, <1>4

LEMMA ReportTyped ==
  ASSUME TypeOK, NEW s \in Shard, NEW R \in SUBSET Code, NEW n \in [Code -> Counts],
         Report(s, R, n)
  PROVE  /\ hash' \in [Code -> HashType] /\ joinable' \subseteq Code
         /\ session' \in [Shard -> 0 .. Ttl] /\ faults' \in 0 .. FaultBound
<1>1. PICK kept \in SUBSET R, heard \in BOOLEAN :
        /\ SyncOccupancy(s, kept, n)
        /\ IF heard THEN PublishLoad(s) ELSE UNCHANGED session
        /\ IF heard /\ kept = R THEN UNCHANGED faults ELSE Fault
  BY DEF Report
<1>2. kept \in SUBSET Code
  OBVIOUS
<1>3. hash' \in [Code -> HashType] /\ joinable' \subseteq Code
  BY <1>1, <1>2, SyncTyped
<1>4. session' \in [Shard -> 0 .. Ttl]
  BY <1>1, LoadTyped DEF TypeOK
<1>5. faults' \in 0 .. FaultBound
  BY <1>1, FaultTyped DEF TypeOK
<1> QED
  BY <1>3, <1>4, <1>5

LEMMA EnterTyped ==
  ASSUME TypeOK, NEW s \in Shard, NEW c \in Code, Enter(s, c)
  PROVE  /\ players' \in [Shard -> [Code -> Counts]]
         /\ hash' \in [Code -> HashType] /\ joinable' \subseteq Code
         /\ session' \in [Shard -> 0 .. Ttl] /\ faults' \in 0 .. FaultBound
<1>1. players' \in [Shard -> [Code -> Counts]]
  <2>1. players[s][c] + 1 \in Counts
    BY CapacityAssumption DEF TypeOK, Enter, Counts
  <2>2. [players[s] EXCEPT ![c] = @ + 1] \in [Code -> Counts]
    BY <2>1 DEF TypeOK, Counts
  <2> QED
    BY <2>2 DEF TypeOK, Enter, Counts
<1>2. players'[s] \in [Code -> Counts] /\ {c} \in SUBSET Code
  BY <1>1
<1>3. Report(s, {c}, players'[s])
  BY DEF Enter
<1> QED
  BY <1>1, <1>2, <1>3, ReportTyped

LEMMA StepTyped == TypeOK /\ [Next]_vars => TypeOK'
<1> SUFFICES ASSUME TypeOK, [Next]_vars PROVE TypeOK'
  OBVIOUS
<1> USE CapacityAssumption, TtlAssumption, NullAssumption, BoundsAssumption
<1>1. CASE Tick
  <2>1. hash' \in [Code -> HashType]
    <3>1. \A c \in Code : hash[c] \in HashType /\ hash[c].left \in 0 .. Ttl
      BY DEF TypeOK, HashType, Counts
    <3>2. NoHash \in HashType
      BY DEF NoHash, HashType, Counts
    <3>3. \A c \in Code : Older(hash[c].left) \in 0 .. Ttl
      BY <3>1 DEF Older, Forever
    <3>4. \A c \in Code : [hash[c] EXCEPT !.left = Older(@)] \in HashType
      BY <3>1, <3>3 DEF HashType
    <3> QED
      BY <1>1, <3>2, <3>4 DEF Tick
  <2>2. session' \in [Shard -> 0 .. Ttl]
    <3>1. \A n \in 0 .. Ttl : Older(n) \in 0 .. Ttl
      BY DEF Older, Forever
    <3>2. \A s \in Shard : session[s] \in 0 .. Ttl
      BY DEF TypeOK
    <3>3. \A s \in Shard : Older(session[s]) \in 0 .. Ttl
      BY <3>1, <3>2
    <3> QED
      BY <1>1, <3>3 DEF Tick
  <2>3. loose' \subseteq Code
    BY <1>1 DEF Tick, Loosen, TypeOK
  <2> QED
    BY <1>1, <2>1, <2>2, <2>3 DEF Tick, TypeOK, HashType, Counts, shardVars, callVars
<1>2. CASE ReadJoinable
  BY <1>2, BeginTyped DEF ReadJoinable, TypeOK, shardVars, redisVars
<1>3. CASE Prune
  <2>1. joinable' \subseteq Code /\ faults' \in 0 .. FaultBound
    BY <1>3, FaultTyped DEF Prune, TypeOK
  <2> QED
    BY <1>3, <2>1 DEF Prune, TypeOK, shardVars, clockVars
<1>4. ASSUME NEW q \in Request, PickShard(q) PROVE TypeOK'
  <2>1. assign' \in [Request -> AssignType]
    BY <1>4 DEF PickShard, TypeOK, AssignType
  <2> QED
    BY <1>4, <2>1, BeginTyped DEF PickShard, TypeOK, AssignType, shardVars, redisVars
<1>5. ASSUME NEW q \in Request, ClaimFails(q) \/ AssignDies(q) PROVE TypeOK'
  <2>1. assign' \in [Request -> AssignType]
    BY <1>5 DEF ClaimFails, AssignDies, TypeOK, AssignType
  <2>2. faults' \in 0 .. FaultBound
    BY <1>5, FaultTyped DEF ClaimFails, AssignDies, TypeOK
  <2> QED
    BY <1>5, <2>1, <2>2
       DEF ClaimFails, AssignDies, TypeOK, AssignType, shardVars, redisVars, clockVars
<1>6. ASSUME NEW q \in Request, Reserve(q) PROVE TypeOK'
  <2>1. assign' \in [Request -> AssignType]
    BY <1>6 DEF Reserve, TypeOK, AssignType
  <2>2. hash' \in [Code -> HashType]
    <3>1. assign[q] \in [shard : Shard, code : Code \cup {Null}] /\ assign[q].code # Null
      BY <1>6 DEF Reserve, TypeOK
    <3>2. PICK c \in Code : c = assign[q].code
      BY <3>1
    <3>3. hash' = [hash EXCEPT ![c].count = 0, ![c].left = Ttl]
      BY <1>6, <3>2 DEF Reserve
    <3>4. hash \in [Code -> HashType]
      BY DEF TypeOK, HashType, Counts
    <3>5. [hash[c] EXCEPT !.count = 0, !.left = Ttl] \in HashType
      <4>1. hash[c] \in HashType /\ 0 \in Counts /\ Ttl \in 0 .. Ttl
        BY <3>4 DEF Counts
      <4> QED
        BY <4>1 DEF HashType
    <3>6. hash'[c] = [hash[c] EXCEPT !.count = 0, !.left = Ttl]
      BY <3>3, <3>4 DEF HashType
    <3> QED
      BY <3>3, <3>4, <3>5, <3>6
  <2> QED
    BY <1>6, <2>1, <2>2
       DEF Reserve, TypeOK, AssignType, HashType, Counts, shardVars, clockVars
<1>7. ASSUME NEW q \in Request, NEW c \in Code, ClaimCode(q, c) PROVE TypeOK'
  <2>1. assign[q] \in [shard : Shard, code : Code \cup {Null}]
    BY <1>7 DEF ClaimCode, TypeOK
  <2>2. assign' \in [Request -> AssignType]
    BY <1>7, <2>1 DEF ClaimCode, TypeOK, AssignType
  <2>3. ClaimLife(c) \in 0 .. Ttl /\ assign[q].shard \in Shard
    BY <2>1 DEF ClaimLife, TypeOK
  <2>4. hash' \in [Code -> HashType]
    <3>1. hash \in [Code -> HashType]
      BY DEF TypeOK, HashType, Counts
    <3>2. [hash[c] EXCEPT !.shard = assign[q].shard, !.left = ClaimLife(c)] \in HashType
      BY <2>3, <3>1 DEF HashType
    <3>3. hash' = [hash EXCEPT ![c].shard = assign[q].shard, ![c].left = ClaimLife(c)]
      BY <1>7 DEF ClaimCode
    <3>4. hash'[c] = [hash[c] EXCEPT !.shard = assign[q].shard, !.left = ClaimLife(c)]
      BY <3>1, <3>3 DEF HashType
    <3> QED
      BY <3>1, <3>2, <3>3, <3>4
  <2> QED
    BY <1>7, <2>2, <2>4
       DEF ClaimCode, TypeOK, AssignType, HashType, Counts, shardVars, clockVars
<1>8. ASSUME NEW c \in Code, RoomClosed(c) PROVE TypeOK'
  <2>1. NoHash \in HashType
    BY DEF NoHash, HashType, Counts
  <2>2. hash' \in [Code -> HashType]
    BY <1>8, <2>1 DEF RoomClosed, TypeOK, HashType, Counts
  <2>3. notices' \in [Code -> 0 .. MaxNotices] /\ loose' \subseteq Code
    BY <1>8 DEF RoomClosed, Loosen, TypeOK
  <2> QED
    BY <1>8, <2>2, <2>3 DEF RoomClosed, TypeOK, HashType, Counts, shardVars, clockVars
<1>9. ASSUME NEW c \in Code, NoticeLost(c) PROVE TypeOK'
  <2>1. notices' \in [Code -> 0 .. MaxNotices]
    BY <1>9 DEF NoticeLost, TypeOK
  <2> QED
    BY <1>9, <2>1, FaultTyped DEF NoticeLost, TypeOK, shardVars, redisVars, clockVars
<1>10. ASSUME NEW k \in Client, JoinAfterCheck(k) PROVE TypeOK'
  <2>1. joining[k] \in [shard : Shard, code : Code]
    BY <1>10 DEF JoinAfterCheck, TypeOK
  <2>2. PICK s \in Shard, c \in Code : s = joining[k].shard /\ c = joining[k].code
    BY <2>1
  <2>3. joining' \in [Client -> JoiningType]
    BY <1>10 DEF JoinAfterCheck, TypeOK, JoiningType
  <2>4. CASE Enter(s, c)
    BY <1>10, <2>3, <2>4, EnterTyped
       DEF JoinAfterCheck, TypeOK, JoiningType, HashType, Counts, callVars, clockVars
  <2>5. CASE ~Enter(s, c)
    BY <1>10, <2>2, <2>3, <2>5
       DEF JoinAfterCheck, TypeOK, JoiningType, redisVars, callVars, clockVars
  <2> QED
    BY <2>4, <2>5
<1>11. ASSUME NEW s \in Shard, Start(s) PROVE TypeOK'
  <2>1. {} \in SUBSET Code /\ players[s] \in [Code -> Counts] /\ Report(s, {}, players[s])
    BY <1>11 DEF Start, TypeOK, Counts
  <2>2. /\ hash' \in [Code -> HashType] /\ joinable' \subseteq Code
        /\ session' \in [Shard -> 0 .. Ttl] /\ faults' \in 0 .. FaultBound
    BY <2>1, ReportTyped
  <2> QED
    BY <1>11, <2>2 DEF Start, TypeOK, HashType, Counts, callVars, clockVars
<1>12. ASSUME NEW s \in Shard, Heartbeat(s) PROVE TypeOK'
  <2>1. RoomsOf(s) \in SUBSET Code /\ players[s] \in [Code -> Counts]
    BY DEF RoomsOf, TypeOK, Counts
  <2>2. /\ hash' \in [Code -> HashType] /\ joinable' \subseteq Code
        /\ session' \in [Shard -> 0 .. Ttl] /\ faults' \in 0 .. FaultBound
    BY <1>12, <2>1, ReportTyped DEF Heartbeat
  <2> QED
    BY <1>12, <2>2 DEF Heartbeat, TypeOK, HashType, Counts, shardVars, callVars
<1>13. ASSUME NEW s \in Shard, BeginShutdown(s) PROVE TypeOK'
  BY <1>13 DEF BeginShutdown, TypeOK, redisVars, callVars, clockVars
<1>14. ASSUME NEW s \in Shard, ClearLoad(s) PROVE TypeOK'
  <2>1. notices' \in [Code -> 0 .. MaxNotices]
    BY <1>14 DEF ClearLoad, TypeOK, RoomsOf
  <2>2. session' \in [Shard -> 0 .. Ttl] /\ faults' \in 0 .. FaultBound
    <3>1. /\ session' = [session EXCEPT ![s] = 0] \/ session' = session
          /\ faults' = faults \/ Fault
      BY <1>14 DEF ClearLoad
    <3> QED
      BY <3>1, FaultTyped DEF TypeOK
  <2>3. UNCHANGED <<players, joining, hash, joinable, assign, prune, clockVars, loose>>
    BY <1>14 DEF ClearLoad
  <2>4. state' \in [Shard -> {"new", "up", "stopping", "notifying", "exited", "crashed"}]
    BY <1>14 DEF ClearLoad, TypeOK
  <2> QED
    BY <2>1, <2>2, <2>3, <2>4 DEF TypeOK, clockVars
<1>15. ASSUME NEW s \in Shard, Exit(s) \/ Crash(s) PROVE TypeOK'
  <2>1. [c \in Code |-> 0] \in [Code -> 0 .. Capacity]
    OBVIOUS
  <2>2. PICK how \in {"exited", "crashed"} : Stop(s, how)
    BY <1>15 DEF Exit, Crash
  <2>3. faults' \in 0 .. FaultBound
    BY <1>15, FaultTyped DEF Exit, Crash, TypeOK
  <2>4. players' \in [Shard -> [Code -> 0 .. Capacity]]
    BY <2>1, <2>2 DEF Stop, TypeOK
  <2>5. joining' \in [Client -> JoiningType]
    BY <2>2 DEF Stop, TypeOK, JoiningType
  <2> QED
    BY <2>2, <2>3, <2>4, <2>5 DEF Stop, TypeOK, JoiningType, redisVars, callVars, clockVars
<1>16. ASSUME NEW s \in Shard, NEW c \in Code, JoinRoomAtHand(s, c) PROVE TypeOK'
  BY <1>16, EnterTyped, BeginTyped
     DEF JoinRoomAtHand, TypeOK, HashType, Counts, callVars
<1>17. ASSUME NEW s \in Shard, NEW c \in Code, LeaveRoom(s, c) PROVE TypeOK'
  <2>1. players' \in [Shard -> [Code -> Counts]]
    <3>1. players[s][c] - 1 \in Counts
      BY <1>17 DEF TypeOK, LeaveRoom, Counts
    <3>2. [players[s] EXCEPT ![c] = @ - 1] \in [Code -> Counts]
      BY <3>1 DEF TypeOK, Counts
    <3> QED
      BY <1>17, <3>2 DEF TypeOK, LeaveRoom, Counts
  <2>2. players'[s] \in [Code -> Counts] /\ {c} \in SUBSET Code
    BY <2>1
  <2>3. /\ hash' \in [Code -> HashType] /\ joinable' \subseteq Code
        /\ session' \in [Shard -> 0 .. Ttl] /\ faults' \in 0 .. FaultBound
    <3>1. PICK R \in {{}, {c}} : Report(s, R, players'[s])
      BY <1>17 DEF LeaveRoom
    <3>2. R \in SUBSET Code
      BY <3>1
    <3> QED
      BY <2>2, <3>1, <3>2, ReportTyped
  <2>4. notices' \in [Code -> 0 .. MaxNotices]
    BY <1>17 DEF LeaveRoom, TypeOK
  <2> QED
    BY <1>17, <2>1, <2>3, <2>4, BeginTyped DEF LeaveRoom, TypeOK, HashType, Counts
<1>18. ASSUME NEW s \in Shard, NEW c \in Code, NEW k \in Client, CheckAssignment(k, s, c)
       PROVE  TypeOK'
  <2>1. joining' \in [Client -> JoiningType]
    BY <1>18 DEF CheckAssignment, TypeOK, JoiningType
  <2>2. faults' \in 0 .. FaultBound /\ loose' \subseteq Code
    BY <1>18, FaultTyped DEF CheckAssignment, TypeOK
  <2> QED
    BY <1>18, <2>1, <2>2, BeginTyped
       DEF CheckAssignment, TypeOK, JoiningType, redisVars, callVars
<1>19. CASE UNCHANGED vars
  BY <1>19 DEF TypeOK, vars, shardVars, redisVars, callVars, clockVars
<1> QED
  BY <1>1, <1>2, <1>3, <1>4, <1>5, <1>6, <1>7, <1>8, <1>9, <1>10, <1>11, <1>12, <1>13,
     <1>14, <1>15, <1>16, <1>17, <1>18, <1>19 DEF Next, Matchmaking, Shutdown

\* occupancy.ts and apps/matchmaking: the keys in Redis and the tables of the
\* processes keep to their types and limits, whatever is lost or crashes.
THEOREM TypeCorrect == Spec => []TypeOK
BY InitTyped, StepTyped, PTL DEF Spec

-----------------------------------------------------------------------------
(* One process per room.                                                   *)

\* Somebody is in room c of shard s, or about to enter it.
Lively(s, c) ==
  \/ players[s][c] > 0
  \/ \E k \in Client : joining[k] # Null /\ joining[k].shard = s /\ joining[k].code = c

\* While the record of a room in use was never lost, it names the shard.
Recorded == \A s \in Shard, c \in Code : Lively(s, c) /\ c \notin loose => hash[c].shard = s

RInv == TypeOK /\ Recorded

\* Of a step: it leads nobody to a room, and no code is forgotten to be loose.
NobodyNew ==
  /\ \A s \in Shard, c \in Code : Lively(s, c)' => Lively(s, c)
  /\ loose \subseteq loose'

LEMMA InitRecorded == Init => RInv
<1> SUFFICES ASSUME Init PROVE RInv
  OBVIOUS
<1>1. \A s \in Shard, c \in Code : ~Lively(s, c)
  BY DEF Init, Lively
<1> QED
  BY <1>1, InitTyped DEF RInv, Recorded

LEMMA LivelyInUse ==
  ASSUME NEW s \in Shard, NEW c \in Code, Lively(s, c)
  PROVE  InUse(c)
BY DEF Lively, InUse

\* A step that leaves the rooms, the joins and the shards of the records alone.
LEMMA NobodyMoves ==
  ASSUME RInv, UNCHANGED <<players, joining>>, loose \subseteq loose',
         \A c \in Code : hash'[c].shard = hash[c].shard
  PROVE  Recorded'
BY DEF RInv, Recorded, Lively

\* The records of the codes C are lost.
LEMMA RecordsLost ==
  ASSUME RInv, UNCHANGED <<players, joining>>, NEW C \in SUBSET Code, Loosen(C),
         \A c \in Code \ C : hash'[c].shard = hash[c].shard
  PROVE  Recorded'
<1> SUFFICES ASSUME NEW s \in Shard, NEW c \in Code, Lively(s, c)', c \notin loose'
             PROVE  hash'[c].shard = s
  BY DEF Recorded
<1>1. Lively(s, c)
  BY DEF Lively
<1>2. c \notin C /\ c \notin loose
  BY <1>1, LivelyInUse DEF Loosen
<1> QED
  BY <1>1, <1>2 DEF RInv, Recorded

\* A report of rooms that somebody is in, or was in when the handler began, with
\* nobody new elsewhere.
LEMMA ReportRecorded ==
  ASSUME RInv, NEW s \in Shard, NEW R \in SUBSET Code, NEW n, Report(s, R, n),
         \A c \in R : Lively(s, c), NobodyNew
  PROVE  Recorded'
<1>1. PICK kept \in SUBSET R : SyncOccupancy(s, kept, n)
  BY DEF Report
<1>2. \A c \in kept : hash'[c].shard = s
  <2>1. \A c \in kept : c \in Code
    OBVIOUS
  <2> QED
    BY <1>1, <2>1 DEF SyncOccupancy, Projection
<1>3. \A c \in Code \ kept : hash'[c] = hash[c]
  BY <1>1 DEF SyncOccupancy
<1> SUFFICES ASSUME NEW t \in Shard, NEW c \in Code, Lively(t, c)', c \notin loose'
             PROVE  hash'[c].shard = t
  BY DEF Recorded
<1>4. Lively(t, c) /\ c \notin loose
  BY DEF NobodyNew
<1>5. hash[c].shard = t
  BY <1>4 DEF RInv, Recorded
<1>6. CASE c \in kept
  <2>1. Lively(s, c)
    BY <1>6
  <2>2. hash[c].shard = s
    BY <1>4, <2>1 DEF RInv, Recorded
  <2> QED
    BY <1>2, <1>5, <1>6, <2>2
<1>7. CASE c \notin kept
  BY <1>3, <1>5, <1>7
<1> QED
  BY <1>6, <1>7

\* A player enters room c of shard s, where somebody was or was about to be.
LEMMA EnterRecorded ==
  ASSUME RInv, NEW s \in Shard, NEW c \in Code, Enter(s, c), Lively(s, c), NEW k,
         joining' \in {joining, [joining EXCEPT ![k] = Null]}, loose' = loose
  PROVE  Recorded'
<1>1. TypeOK
  BY DEF RInv
<1>2. \A t \in Shard, d \in Code : t # s \/ d # c => players'[t][d] = players[t][d]
  BY <1>1 DEF Enter, TypeOK
<1>3. \A j \in Client : joining'[j] # Null => joining'[j] = joining[j]
  BY <1>1 DEF TypeOK
<1>4. NobodyNew
  BY <1>2, <1>3 DEF NobodyNew, Lively
<1>5. Report(s, {c}, players'[s]) /\ {c} \in SUBSET Code
  BY DEF Enter
<1>6. \A d \in {c} : Lively(s, d)
  OBVIOUS
<1> QED
  BY <1>4, <1>5, <1>6, ReportRecorded

LEMMA StepRecorded == RInv /\ [Next]_vars => RInv'
<1> SUFFICES ASSUME RInv, [Next]_vars PROVE RInv'
  OBVIOUS
<1>0. TypeOK /\ Recorded
  BY DEF RInv
<1>0a. TypeOK'
  BY <1>0, StepTyped
<1> SUFFICES Recorded'
  BY <1>0a DEF RInv
<1>1. CASE Tick
  <2> DEFINE C == {c \in Code : hash[c].left = 1}
  <2>1. UNCHANGED <<players, joining>> /\ C \in SUBSET Code /\ Loosen(C)
    BY <1>1 DEF Tick, shardVars
  <2>2. \A c \in Code \ C : hash'[c].shard = hash[c].shard
    BY <1>0, <1>1 DEF Tick, TypeOK
  <2> HIDE DEF C
  <2> QED
    BY <2>1, <2>2, RecordsLost
<1>2. CASE ReadJoinable \/ Prune
  BY <1>2, NobodyMoves DEF ReadJoinable, Prune, shardVars, redisVars
<1>3. ASSUME NEW q \in Request, PickShard(q) \/ ClaimFails(q) \/ AssignDies(q) PROVE Recorded'
  BY <1>3, NobodyMoves DEF PickShard, ClaimFails, AssignDies, shardVars, redisVars
<1>4. ASSUME NEW q \in Request, Reserve(q) PROVE Recorded'
  <2>1. \A c \in Code : hash'[c].shard = hash[c].shard
    BY <1>0, <1>4 DEF Reserve, TypeOK
  <2> QED
    BY <1>4, <2>1, NobodyMoves DEF Reserve, shardVars
<1>5. ASSUME NEW q \in Request, NEW c \in Code, ClaimCode(q, c) PROVE Recorded'
  <2>1. UNCHANGED <<players, joining, loose>> /\ hash[c].shard = Null
    BY <1>5 DEF ClaimCode, Free, shardVars
  <2>2. \A d \in Code : d # c => hash'[d] = hash[d]
    BY <1>0, <1>5 DEF ClaimCode, TypeOK
  <2>3. \A s \in Shard : Lively(s, c) => c \in loose
    BY <1>0, <2>1, NullAssumption DEF Recorded
  <2>4. \A s \in Shard, d \in Code : Lively(s, d)' <=> Lively(s, d)
    BY <2>1 DEF Lively
  <2> QED
    BY <1>0, <2>1, <2>2, <2>3, <2>4 DEF Recorded
<1>6. ASSUME NEW c \in Code, RoomClosed(c) PROVE Recorded'
  <2>1. UNCHANGED <<players, joining>> /\ {c} \in SUBSET Code /\ Loosen({c})
    BY <1>6 DEF RoomClosed, shardVars
  <2>2. \A d \in Code \ {c} : hash'[d].shard = hash[d].shard
    BY <1>0, <1>6 DEF RoomClosed, TypeOK
  <2> QED
    BY <2>1, <2>2, RecordsLost
<1>7. ASSUME NEW c \in Code, NoticeLost(c) PROVE Recorded'
  BY <1>7, NobodyMoves DEF NoticeLost, shardVars, redisVars
<1>8. ASSUME NEW k \in Client, JoinAfterCheck(k) PROVE Recorded'
  <2>1. joining[k] # Null /\ joining[k] \in [shard : Shard, code : Code]
    BY <1>0, <1>8 DEF JoinAfterCheck, TypeOK
  <2>2. PICK s \in Shard, c \in Code : s = joining[k].shard /\ c = joining[k].code
    BY <2>1
  <2>3. joining' = [joining EXCEPT ![k] = Null] /\ loose' = loose
    BY <1>8 DEF JoinAfterCheck
  <2>4. CASE Enter(s, c)
    <3>1. Lively(s, c)
      BY <2>1, <2>2 DEF Lively
    <3>2. joining' \in {joining, [joining EXCEPT ![k] = Null]} /\ loose' = loose
      BY <2>3
    <3> QED
      BY <2>4, <3>1, <3>2, EnterRecorded
  <2>5. CASE UNCHANGED <<players, redisVars, faults>>
    <3>1. \A t \in Shard, d \in Code : Lively(t, d)' => Lively(t, d)
      BY <1>0, <2>3, <2>5 DEF Lively, TypeOK
    <3> QED
      BY <1>0, <2>3, <2>5, <3>1 DEF Recorded, redisVars
  <2> QED
    BY <1>8, <2>2, <2>4, <2>5 DEF JoinAfterCheck
<1>9. ASSUME NEW s \in Shard, BeginShutdown(s) \/ ClearLoad(s) PROVE Recorded'
  BY <1>9, NobodyMoves DEF BeginShutdown, ClearLoad, redisVars
<1>10. ASSUME NEW s \in Shard, Exit(s) \/ Crash(s) PROVE Recorded'
  <2>1. PICK how : Stop(s, how)
    BY <1>10 DEF Exit, Crash
  <2>2. \A t \in Shard, d \in Code : players'[t][d] > 0 => players[t][d] > 0
    BY <1>0, <2>1 DEF Stop, TypeOK
  <2>3. \A j \in Client : joining'[j] # Null => joining'[j] = joining[j]
    BY <2>1 DEF Stop
  <2>4. \A t \in Shard, d \in Code : Lively(t, d)' => Lively(t, d)
    BY <2>2, <2>3 DEF Lively
  <2> QED
    BY <1>0, <2>1, <2>4 DEF Stop, Recorded, redisVars
<1>11. ASSUME NEW s \in Shard, Start(s) PROVE Recorded'
  <2>1. NobodyNew
    BY <1>11 DEF Start, NobodyNew, Lively
  <2>2. Report(s, {}, players[s]) /\ {} \in SUBSET Code /\ \A c \in {} : Lively(s, c)
    BY <1>11 DEF Start
  <2> QED
    BY <2>1, <2>2, ReportRecorded
<1>12. ASSUME NEW s \in Shard, Heartbeat(s) PROVE Recorded'
  <2>1. NobodyNew
    BY <1>12 DEF Heartbeat, NobodyNew, Lively, shardVars
  <2>2. RoomsOf(s) \in SUBSET Code /\ \A c \in RoomsOf(s) : Lively(s, c)
    BY DEF RoomsOf, Lively
  <2>3. Report(s, RoomsOf(s), players[s])
    BY <1>12 DEF Heartbeat
  <2> QED
    BY <2>1, <2>2, <2>3, ReportRecorded
<1>13. ASSUME NEW s \in Shard, NEW c \in Code, JoinRoomAtHand(s, c) PROVE Recorded'
  <2>1. Lively(s, c) /\ Enter(s, c) /\ joining' = joining /\ loose' = loose
    BY <1>13 DEF JoinRoomAtHand, Lively
  <2> QED
    BY <2>1, EnterRecorded
<1>14. ASSUME NEW s \in Shard, NEW c \in Code, LeaveRoom(s, c) PROVE Recorded'
  <2>1. /\ players' = [players EXCEPT ![s][c] = @ - 1]
        /\ players[s][c] > 0 /\ UNCHANGED <<joining, loose>>
    BY <1>14 DEF LeaveRoom
  <2>2. \A t \in Shard, d \in Code : players'[t][d] > 0 => players[t][d] > 0
    <3>1. players[s][c] \in Nat
      BY <1>0 DEF TypeOK
    <3> QED
      BY <1>0, <2>1, <3>1 DEF TypeOK
  <2>3. NobodyNew
    BY <2>1, <2>2 DEF NobodyNew, Lively
  <2>4. PICK R \in {{}, {c}} : Report(s, R, players'[s])
    BY <1>14 DEF LeaveRoom
  <2>5. R \in SUBSET Code /\ \A d \in R : Lively(s, d)
    BY <2>1, <2>4 DEF Lively
  <2> QED
    BY <2>3, <2>4, <2>5, ReportRecorded
<1>15. ASSUME NEW s \in Shard, NEW c \in Code, NEW k \in Client, CheckAssignment(k, s, c)
       PROVE  Recorded'
  <2>1. /\ hash[c].shard = s \/ c \in loose'
        /\ UNCHANGED <<players, hash>> /\ loose \subseteq loose'
        /\ joining' = [joining EXCEPT ![k] = [shard |-> s, code |-> c]]
    BY <1>15 DEF CheckAssignment, Assigned, redisVars
  <2>2. \A t \in Shard, d \in Code : Lively(t, d)' => Lively(t, d) \/ (t = s /\ d = c)
    BY <1>0, <2>1 DEF Lively, TypeOK
  <2> QED
    BY <1>0, <2>1, <2>2 DEF Recorded
<1>16. CASE UNCHANGED vars
  BY <1>16, NobodyMoves DEF vars, shardVars, redisVars
<1> QED
  BY <1>1, <1>2, <1>3, <1>4, <1>5, <1>6, <1>7, <1>8, <1>9, <1>10, <1>11, <1>12, <1>13,
     <1>14, <1>15, <1>16 DEF Next, Matchmaking, Shutdown

\* occupancy.ts:87: whatever requests contest a code, whatever writes, callbacks
\* and processes are lost and however late callbacks, requests and joins go on, a
\* room comes to live in two processes only after its record was lost while it was
\* in use, or after the check of the assignment failed and let somebody in.
THEOREM SplitByLossOnly == Spec => []SplitNeedsLoss
<1>1. RInv => SplitNeedsLoss
  <2> SUFFICES ASSUME RInv, NEW c \in Code, Split(c), c \notin loose PROVE FALSE
    BY DEF SplitNeedsLoss
  <2>1. PICK s \in Shard, t \in Shard : s # t /\ Lively(s, c) /\ Lively(t, c)
    BY DEF Split, Lively
  <2> QED
    BY <2>1 DEF RInv, Recorded
<1> QED
  BY <1>1, InitRecorded, StepRecorded, PTL DEF Spec
=============================================================================
