--------------------------- MODULE Protection_proofs ---------------------------
(***************************************************************************)
(* Theorems about module Protection, for every refresh interval, any       *)
(* number of rooms and of PUTs under way.                                  *)
(***************************************************************************)
EXTENDS Protection, TLAPS

\* There is time for every PUT that fails: what is left at half of the
\* protection's time is more ticks than there are failures.
EnoughTime == Refresh >= MaxFaults + 2

\* A PUT that has protected the shard did so in this tick, and no time has
\* passed since, unless another PUT has ended the protection.
AppliedNow ==
  \A c \in Call : calls[c] # None /\ calls[c].enabled /\ calls[c].applied
                    => remaining \in {0, Expires}

\* The process never takes its protection for younger than it is.
KnowsItsAge ==
  age # None /\ age <= Refresh /\ remaining > 0 => remaining + age >= Expires

\* Once it is time to refresh, each tick that ends without a success has seen
\* a failure of its own.
LateByFailures ==
  age = Refresh + 1 /\ remaining > 0 =>
    /\ remaining + faults >= Refresh - 1
    /\ beat /\ Idle => remaining + faults >= Refresh

IInv == TypeOK /\ AppliedNow /\ KnowsItsAge /\ LateByFailures

-----------------------------------------------------------------------------
LEMMA InitOK == Init => IInv
<1> SUFFICES ASSUME Init PROVE IInv
  OBVIOUS
<1> USE RefreshAssumption, MaxRoomsAssumption, NoneAssumption, MaxFaultsAssumption DEF Init
<1>1. TypeOK
  <2>1. calls \in [Call -> [enabled : BOOLEAN, applied : BOOLEAN] \cup {None}]
    OBVIOUS
  <2>2. rooms = 0 /\ faults = 0 /\ beat \in BOOLEAN
    OBVIOUS
  <2>3. 0 \in 0 .. MaxRooms /\ 0 \in 0 .. MaxFaults
    OBVIOUS
  <2>4. age \in 0 .. Refresh + 1 \cup {None}
    OBVIOUS
  <2>5. remaining \in 0 .. Expires
    BY DEF Expires
  <2> QED
    BY <2>1, <2>2, <2>3, <2>4, <2>5 DEF TypeOK
<1>2. AppliedNow
  BY DEF AppliedNow
<1>3. KnowsItsAge /\ LateByFailures
  BY DEF KnowsItsAge, LateByFailures
<1> QED
  BY <1>1, <1>2, <1>3 DEF IInv

\* A synchronisation starts at most one PUT, of a kind that is not yet applied;
\* when a refresh is due, or the shard has no rooms left, it does start one.
LEMMA SyncStep ==
  ASSUME TypeOK, NEW n \in Nat, Sync(n)
  PROVE  /\ calls' \in [Call -> [enabled : BOOLEAN, applied : BOOLEAN] \cup {None}]
         /\ \A c \in Call : calls[c] # None => calls'[c] = calls[c]
         /\ \A c \in Call : calls'[c] # None /\ calls'[c].applied => calls[c] # None
         /\ age = Refresh + 1 => \E c \in Call : calls'[c] # None
<1> USE RefreshAssumption, NoneAssumption
<1>1. CASE WantsEnable(n) \/ WantsDisable(n)
  <2>1. PICK c \in Call :
          /\ calls[c] = None
          /\ calls' = [calls EXCEPT ![c] = [enabled |-> WantsEnable(n), applied |-> FALSE]]
    BY <1>1 DEF Sync
  <2>2. WantsEnable(n) \in BOOLEAN
    BY DEF WantsEnable
  <2>3. [enabled |-> WantsEnable(n), applied |-> FALSE] \in [enabled : BOOLEAN, applied : BOOLEAN]
    BY <2>2
  <2>4. calls'[c] = [enabled |-> WantsEnable(n), applied |-> FALSE]
    BY <2>1 DEF TypeOK
  <2>5. \A d \in Call : d # c => calls'[d] = calls[d]
    BY <2>1 DEF TypeOK
  <2>6. calls' \in [Call -> [enabled : BOOLEAN, applied : BOOLEAN] \cup {None}]
    BY <2>1, <2>3 DEF TypeOK
  <2> QED
    BY <2>1, <2>3, <2>4, <2>5, <2>6
<1>2. CASE ~(WantsEnable(n) \/ WantsDisable(n))
  <2>1. UNCHANGED calls
    BY <1>2 DEF Sync
  <2>2. age # Refresh + 1
    BY <1>2 DEF WantsEnable, WantsDisable, Stale
  <2> QED
    BY <2>1, <2>2 DEF TypeOK
<1> QED
  BY <1>1, <1>2

\* A step that only synchronises, and changes the number of rooms or the beat.
LEMMA Synchronised ==
  ASSUME IInv, NEW n \in Nat, Sync(n), UNCHANGED <<age, remaining, faults>>,
         beat' \in BOOLEAN, rooms' \in 0 .. MaxRooms
  PROVE  IInv'
<1> USE RefreshAssumption, NoneAssumption, MaxRoomsAssumption, MaxFaultsAssumption
<1>1. TypeOK
  BY DEF IInv
<1>2. TypeOK'
  BY <1>1, SyncStep DEF TypeOK, Expires
<1>3. AppliedNow'
  BY <1>1, SyncStep DEF IInv, AppliedNow, Expires
<1>4. KnowsItsAge'
  BY DEF IInv, KnowsItsAge, Expires
<1>5. LateByFailures'
  <2>1. CASE age = Refresh + 1
    <3>1. ~Idle'
      BY <1>1, <2>1, SyncStep DEF Idle
    <3> QED
      BY <1>1, <3>1 DEF IInv, LateByFailures, TypeOK, Expires
  <2>2. CASE age # Refresh + 1
    BY <2>2 DEF LateByFailures
  <2> QED
    BY <2>1, <2>2
<1> QED
  BY <1>2, <1>3, <1>4, <1>5 DEF IInv

LEMMA StepOK == IInv /\ [Next]_vars => IInv'
<1> SUFFICES ASSUME IInv, [Next]_vars PROVE IInv'
  OBVIOUS
<1> USE RefreshAssumption, NoneAssumption, MaxRoomsAssumption, MaxFaultsAssumption
<1>0. TypeOK /\ AppliedNow /\ KnowsItsAge /\ LateByFailures
  BY DEF IInv
<1>1. CASE OpenRoom
  <2>1. rooms + 1 \in Nat /\ Sync(rooms + 1) /\ rooms' \in 0 .. MaxRooms
    BY <1>0, <1>1 DEF OpenRoom, TypeOK
  <2>2. UNCHANGED <<age, remaining, beat, faults>> /\ beat' \in BOOLEAN
    BY <1>0, <1>1 DEF OpenRoom, TypeOK
  <2> QED
    BY <2>1, <2>2, Synchronised
<1>2. CASE CloseRoom
  <2>1. rooms - 1 \in Nat /\ Sync(rooms - 1) /\ rooms' \in 0 .. MaxRooms
    BY <1>0, <1>2 DEF CloseRoom, TypeOK
  <2>2. UNCHANGED <<age, remaining, beat, faults>> /\ beat' \in BOOLEAN
    BY <1>0, <1>2 DEF CloseRoom, TypeOK
  <2> QED
    BY <2>1, <2>2, Synchronised
<1>3. CASE Heartbeat
  <2>1. rooms \in Nat /\ Sync(rooms) /\ rooms' \in 0 .. MaxRooms
    BY <1>0, <1>3 DEF Heartbeat, TypeOK
  <2>2. UNCHANGED <<age, remaining, faults>> /\ beat' = TRUE
    BY <1>3 DEF Heartbeat
  <2> QED
    BY <2>1, <2>2, Synchronised
<1>4. CASE Tick
  <2>1. \A c \in Call : calls'[c] = None
    BY <1>4 DEF Tick, Idle
  <2>2. TypeOK'
    <3>1. age' \in 0 .. Refresh + 1 \cup {None}
      BY <1>0, <1>4 DEF Tick, TypeOK
    <3>2. remaining' \in 0 .. Expires
      BY <1>0, <1>4 DEF Tick, TypeOK, Expires
    <3> QED
      BY <1>0, <1>4, <3>1, <3>2 DEF Tick, TypeOK, Expires
  <2>3. AppliedNow'
    BY <2>1 DEF AppliedNow
  <2>4. KnowsItsAge'
    BY <1>0, <1>4 DEF Tick, TypeOK, KnowsItsAge, Expires
  <2>5. LateByFailures'
    <3> SUFFICES ASSUME age' = Refresh + 1, remaining' > 0
                 PROVE  remaining' + faults' >= Refresh - 1
      BY <1>4 DEF Tick, LateByFailures
    <3>1. remaining' = remaining - 1 /\ remaining > 0 /\ faults' = faults
      BY <1>0, <1>4 DEF Tick, TypeOK, Expires
    <3>2. CASE age = Refresh
      BY <1>0, <3>1, <3>2 DEF KnowsItsAge, Expires, TypeOK
    <3>3. CASE age = Refresh + 1
      <4>1. beat /\ Idle
        BY <1>4 DEF Tick
      <4> QED
        BY <1>0, <3>1, <3>3, <4>1 DEF LateByFailures, TypeOK, Expires
    <3> QED
      BY <1>0, <1>4, <3>2, <3>3 DEF Tick, TypeOK
  <2> QED
    BY <2>2, <2>3, <2>4, <2>5 DEF IInv
<1>5. ASSUME NEW c \in Call, AgentApplies(c) PROVE IInv'
  <2>1. calls[c] \in [enabled : BOOLEAN, applied : BOOLEAN]
    BY <1>0, <1>5 DEF AgentApplies, TypeOK
  <2>2. /\ calls'[c] = [calls[c] EXCEPT !.applied = TRUE]
        /\ \A d \in Call : d # c => calls'[d] = calls[d]
    BY <1>0, <1>5 DEF AgentApplies, TypeOK
  <2>3. calls'[c] \in [enabled : BOOLEAN, applied : BOOLEAN] /\ calls'[c] # None
    BY <2>1, <2>2
  <2>4. remaining' \in {0, Expires}
    BY <1>5 DEF AgentApplies
  <2>5. TypeOK'
    <3>1. calls' \in [Call -> [enabled : BOOLEAN, applied : BOOLEAN] \cup {None}]
      BY <1>0, <1>5, <2>2, <2>3 DEF AgentApplies, TypeOK
    <3> QED
      BY <1>0, <1>5, <2>4, <3>1 DEF AgentApplies, TypeOK, Expires
  <2>6. AppliedNow'
    BY <2>4 DEF AppliedNow, Expires
  <2>7. KnowsItsAge'
    BY <1>0, <1>5, <2>4 DEF AgentApplies, KnowsItsAge, Expires, TypeOK
  <2>8. LateByFailures'
    <3>1. ~Idle'
      BY <2>3 DEF Idle
    <3> QED
      BY <1>0, <1>5, <2>4, <3>1 DEF AgentApplies, LateByFailures, Expires, TypeOK
  <2> QED
    BY <2>5, <2>6, <2>7, <2>8 DEF IInv
<1>6. ASSUME NEW c \in Call, Return(c) PROVE IInv'
  <2>1. \A d \in Call : calls'[d] # None => calls'[d] = calls[d]
    BY <1>0, <1>6 DEF Return, TypeOK
  <2>2. age' = None \/ (age' = 0 /\ calls[c].enabled /\ calls[c].applied /\ calls[c] # None)
    BY <1>6 DEF Return, Recorded
  <2>3. TypeOK'
    <3>1. calls' \in [Call -> [enabled : BOOLEAN, applied : BOOLEAN] \cup {None}]
      BY <1>0, <1>6 DEF Return, TypeOK
    <3> QED
      BY <1>0, <1>6, <2>2, <3>1 DEF Return, TypeOK, Expires
  <2>4. AppliedNow'
    BY <1>0, <1>6, <2>1 DEF Return, AppliedNow, Expires
  <2>5. KnowsItsAge'
    BY <1>0, <1>6, <2>2 DEF Return, AppliedNow, KnowsItsAge, Expires, TypeOK
  <2>6. LateByFailures'
    BY <2>2 DEF LateByFailures
  <2> QED
    BY <2>3, <2>4, <2>5, <2>6 DEF IInv
<1>7. ASSUME NEW c \in Call, Fail(c) PROVE IInv'
  <2>1. \A d \in Call : calls'[d] # None => calls'[d] = calls[d]
    BY <1>0, <1>7 DEF Fail, TypeOK
  <2>2. faults' = faults + 1 /\ faults + 1 <= MaxFaults /\ UNCHANGED <<age, remaining>>
    BY <1>0, <1>7 DEF Fail, TypeOK
  <2>3. TypeOK'
    <3>1. calls' \in [Call -> [enabled : BOOLEAN, applied : BOOLEAN] \cup {None}]
      BY <1>0, <1>7 DEF Fail, TypeOK
    <3> QED
      BY <1>0, <1>7, <2>2, <3>1 DEF Fail, TypeOK, Expires
  <2>4. AppliedNow'
    BY <1>0, <2>1, <2>2 DEF AppliedNow, Expires
  <2>5. KnowsItsAge'
    BY <1>0, <2>2 DEF KnowsItsAge, Expires
  <2>6. LateByFailures'
    <3>1. remaining \in Nat /\ faults \in Nat
      BY <1>0 DEF TypeOK, Expires
    <3>2. age' = Refresh + 1 /\ remaining' > 0 => remaining + faults >= Refresh - 1
      BY <1>0, <2>2 DEF LateByFailures
    <3> QED
      BY <2>2, <3>1, <3>2 DEF LateByFailures
  <2> QED
    BY <2>3, <2>4, <2>5, <2>6 DEF IInv
<1>8. CASE UNCHANGED vars
  BY <1>0, <1>8 DEF vars, IInv, TypeOK, AppliedNow, KnowsItsAge, LateByFailures,
                    Idle, Expires
<1> QED
  BY <1>1, <1>2, <1>3, <1>4, <1>5, <1>6, <1>7, <1>8 DEF Next

-----------------------------------------------------------------------------
\* protection.ts: the process and the agent keep to their types, whatever
\* calls overlap or fail.
THEOREM TypeCorrect == Spec => []TypeOK
<1>1. IInv => TypeOK
  BY DEF IInv
<1> QED
  BY <1>1, InitOK, StepOK, PTL DEF Spec

\* protection.ts:16: as long as there is time for every PUT that fails, the
\* protection that a shard with rooms knows of is renewed before it runs out.
THEOREM NeverExpires == EnoughTime /\ Spec => NeverExpiresInUse
<1>1. ASSUME EnoughTime, IInv
      PROVE  Tick /\ rooms > 0 /\ age # None /\ remaining > 0 => remaining' > 0
  <2> SUFFICES ASSUME Tick, age # None, remaining > 0 PROVE remaining' > 0
    OBVIOUS
  <2> USE RefreshAssumption, MaxFaultsAssumption
  <2>1. TypeOK /\ KnowsItsAge /\ LateByFailures
    BY <1>1 DEF IInv
  <2>2. remaining > 1
    <3>1. CASE age <= Refresh
      BY <1>1, <2>1, <3>1, NoneAssumption DEF KnowsItsAge, TypeOK, EnoughTime, Expires
    <3>2. CASE age = Refresh + 1
      <4>1. beat /\ Idle
        BY DEF Tick
      <4> QED
        BY <1>1, <2>1, <3>2, <4>1 DEF LateByFailures, TypeOK, EnoughTime, Expires
    <3> QED
      BY <2>1, <3>1, <3>2 DEF TypeOK
  <2> QED
    BY <2>1, <2>2 DEF Tick, TypeOK, Expires
<1>2. ASSUME EnoughTime, IInv, [Next]_vars
      PROVE  [Tick /\ rooms > 0 /\ age # None /\ remaining > 0 => remaining' > 0]_vars
  BY <1>1, <1>2
<1>3. EnoughTime => EnoughTime'
  BY DEF EnoughTime
<1> QED
  BY <1>2, <1>3, InitOK, StepOK, PTL DEF Spec, NeverExpiresInUse
=============================================================================
