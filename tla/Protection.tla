----------------------------- MODULE Protection -----------------------------
(***************************************************************************)
(* Scale-in protection of a shard (protection.ts): the PUTs that           *)
(* syncTaskProtection sends to the ECS agent, the answers, and the         *)
(* agent's own record, which expires.                                      *)
(*                                                                         *)
(* Time passes in ticks, several to PROTECTION_REFRESH_MS.  Every tick     *)
(* sees a heartbeat (20 s), and a PUT ends within its tick: fetch gives up *)
(* after 5 minutes at the latest.  Concurrent PUTs use connections of      *)
(* their own, so the agent and the process see them in any order.          *)
(*                                                                         *)
(* Operators named ..._Faulty hold a plausible mistake; see module Room.   *)
(***************************************************************************)
EXTENDS Naturals

CONSTANTS
  Call,        \* places for concurrent PUTs
  Refresh,     \* PROTECTION_REFRESH_MS in ticks
  MaxRooms,    \* bound of the model: rooms of the shard
  MaxFaults,   \* bound of the model: PUTs that fail
  None

ASSUME RefreshAssumption == Refresh \in Nat \ {0}
ASSUME MaxRoomsAssumption == MaxRooms \in Nat \ {0}
ASSUME MaxFaultsAssumption == MaxFaults \in Nat
ASSUME NoneAssumption == None \notin Nat /\ None \notin [enabled : BOOLEAN, applied : BOOLEAN]

Expires == 2 * Refresh

VARIABLES
  rooms,       \* roomManager.roomCount
  age,         \* ticks since protectedSince, or None for null
  calls,       \* the PUTs under way
  remaining,   \* ticks until the agent's protection expires; 0: unprotected
  beat,        \* has there been a heartbeat in this tick?
  faults

vars == <<rooms, age, calls, remaining, beat, faults>>

Init ==
  /\ rooms = 0 /\ age = None
  /\ calls = [c \in Call |-> None]
  /\ remaining = 0 /\ beat = FALSE /\ faults = 0

Idle == \A c \in Call : calls[c] = None

Stale_Faulty == FALSE
Stale == age # None /\ age > Refresh

\* The two tests of syncTaskProtection, for n rooms.
WantsEnable_Faulty(n) == age = None \/ Stale
WantsEnable(n) == n > 0 /\ (age = None \/ Stale)
WantsDisable(n) == n = 0 /\ age # None

\* syncTaskProtection up to its fetch.
Sync(n) ==
  IF WantsEnable(n) \/ WantsDisable(n)
  THEN \E c \in Call :
         /\ calls[c] = None
         /\ calls' = [calls EXCEPT ![c] = [enabled |-> WantsEnable(n), applied |-> FALSE]]
  ELSE UNCHANGED calls

OpenRoom ==
  /\ rooms < MaxRooms
  /\ rooms' = rooms + 1 /\ Sync(rooms + 1)
  /\ UNCHANGED <<age, remaining, beat, faults>>

CloseRoom ==
  /\ rooms > 0
  /\ rooms' = rooms - 1 /\ Sync(rooms - 1)
  /\ UNCHANGED <<age, remaining, beat, faults>>

\* The interval of startProjectionHeartbeat; joins and departures that leave
\* the number of rooms alone do the same.
Heartbeat ==
  /\ beat' = TRUE /\ Sync(rooms)
  /\ UNCHANGED <<rooms, age, remaining, faults>>

AgentApplies(c) ==
  /\ calls[c] # None /\ ~calls[c].applied
  /\ calls' = [calls EXCEPT ![c].applied = TRUE]
  /\ remaining' = IF calls[c].enabled THEN Expires ELSE 0
  /\ UNCHANGED <<rooms, age, beat, faults>>

\* The rest of syncTaskProtection. A PUT ends in the tick it began in, so its
\* `now` is of age 0.
Recorded(c) == IF calls[c].enabled THEN 0 ELSE None

Return(c) ==
  /\ calls[c] # None /\ calls[c].applied
  /\ age' = Recorded(c)
  /\ calls' = [calls EXCEPT ![c] = None]
  /\ UNCHANGED <<rooms, remaining, beat, faults>>

\* The fetch throws or the agent refuses; what the agent did stays.
Fail(c) ==
  /\ calls[c] # None
  /\ faults < MaxFaults /\ faults' = faults + 1
  /\ calls' = [calls EXCEPT ![c] = None]
  /\ UNCHANGED <<rooms, age, remaining, beat>>

\* An age beyond Refresh makes no difference to the code.
Tick ==
  /\ Idle /\ beat
  /\ age' = IF age = None \/ age > Refresh THEN age ELSE age + 1
  /\ remaining' = IF remaining = 0 THEN 0 ELSE remaining - 1
  /\ beat' = FALSE
  /\ UNCHANGED <<rooms, calls, faults>>

Next ==
  \/ OpenRoom \/ CloseRoom \/ Heartbeat \/ Tick
  \/ \E c \in Call : AgentApplies(c) \/ Return(c) \/ Fail(c)

Spec == Init /\ [][Next]_vars

\* The clock runs, the timer fires, and the agent answers.
Fairness ==
  /\ WF_vars(Tick) /\ WF_vars(Heartbeat /\ ~beat)
  /\ \A c \in Call : WF_vars(AgentApplies(c)) /\ WF_vars(Return(c))

FairSpec == Spec /\ Fairness

-----------------------------------------------------------------------------
TypeOK ==
  /\ rooms \in 0 .. MaxRooms
  /\ age \in 0 .. Refresh + 1 \cup {None}
  /\ calls \in [Call -> [enabled : BOOLEAN, applied : BOOLEAN] \cup {None}]
  /\ remaining \in 0 .. Expires
  /\ beat \in BOOLEAN /\ faults \in 0 .. MaxFaults

\* The protection a shard with rooms knows it has does not run out: it is
\* renewed at half of its time, with room for a PUT that fails (protection.ts:16).
NeverExpiresInUse ==
  [][Tick /\ rooms > 0 /\ age # None /\ remaining > 0 => remaining' > 0]_vars

\* Whatever the order of the PUTs, a shard that keeps rooms is protected again
\* and again, and one that stays empty is released for good in the end.
ProtectionFollowsRooms ==
  /\ <>[](rooms > 0) => []<>(remaining > 0)
  /\ <>[](rooms = 0) => <>[](remaining = 0)
=============================================================================
