----------------------------- MODULE Results_proofs -----------------------------
(***************************************************************************)
(* Theorems about module Results, for any number of games, members,        *)
(* workers and requests: no result the broker has is lost, and the totals  *)
(* implement module Recording.                                             *)
(***************************************************************************)
EXTENDS Results, FiniteSetTheorems, TLAPS

-----------------------------------------------------------------------------
(* Sequences of games.                                                     *)

LEMMA RangeType ==
  ASSUME NEW s \in Seq(Game)
  PROVE  Range(s) \subseteq Game
BY DEF Range

LEMMA RangeAppend ==
  ASSUME NEW s \in Seq(Game), NEW g \in Game
  PROVE  Append(s, g) \in Seq(Game) /\ Range(Append(s, g)) = Range(s) \cup {g}
<1>1. Append(s, g) \in Seq(Game) /\ DOMAIN Append(s, g) = 1 .. Len(s) + 1
  OBVIOUS
<1>2. \A i \in 1 .. Len(s) + 1 : Append(s, g)[i] = IF i = Len(s) + 1 THEN g ELSE s[i]
  OBVIOUS
<1>3. ASSUME NEW x \in Range(Append(s, g)) PROVE x \in Range(s) \cup {g}
  <2>1. PICK i \in 1 .. Len(s) + 1 : x = Append(s, g)[i]
    BY <1>1 DEF Range
  <2> QED
    BY <1>2, <2>1 DEF Range
<1>4. ASSUME NEW x \in Range(s) PROVE x \in Range(Append(s, g))
  <2>1. PICK i \in 1 .. Len(s) : x = s[i]
    BY DEF Range
  <2> QED
    BY <1>1, <1>2, <2>1 DEF Range
<1>5. g \in Range(Append(s, g))
  <2>1. Len(s) + 1 \in 1 .. Len(s) + 1 /\ Append(s, g)[Len(s) + 1] = g
    OBVIOUS
  <2> QED
    BY <1>1, <2>1 DEF Range
<1> QED
  BY <1>1, <1>3, <1>4, <1>5

LEMMA RangeConcat ==
  ASSUME NEW s \in Seq(Game), NEW t \in Seq(Game)
  PROVE  s \o t \in Seq(Game) /\ Range(s \o t) = Range(s) \cup Range(t)
<1>1. s \o t \in Seq(Game) /\ DOMAIN (s \o t) = 1 .. Len(s) + Len(t)
  OBVIOUS
<1>2. \A i \in 1 .. Len(s) + Len(t) :
        (s \o t)[i] = IF i <= Len(s) THEN s[i] ELSE t[i - Len(s)]
  OBVIOUS
<1>3. ASSUME NEW x \in Range(s \o t) PROVE x \in Range(s) \cup Range(t)
  <2>1. PICK i \in 1 .. Len(s) + Len(t) : x = (s \o t)[i]
    BY <1>1 DEF Range
  <2>2. CASE i <= Len(s)
    BY <1>2, <2>1, <2>2 DEF Range
  <2>3. CASE i > Len(s)
    <3>1. i - Len(s) \in 1 .. Len(t) /\ x = t[i - Len(s)]
      BY <1>2, <2>1, <2>3
    <3> QED
      BY <3>1 DEF Range
  <2> QED
    BY <2>2, <2>3
<1>4. ASSUME NEW x \in Range(s) PROVE x \in Range(s \o t)
  <2>1. PICK i \in 1 .. Len(s) : x = s[i]
    BY DEF Range
  <2>2. i \in 1 .. Len(s) + Len(t) /\ x = (s \o t)[i]
    BY <1>2, <2>1
  <2> QED
    BY <1>1, <2>2 DEF Range
<1>5. ASSUME NEW x \in Range(t) PROVE x \in Range(s \o t)
  <2>1. PICK i \in 1 .. Len(t) : x = t[i]
    BY DEF Range
  <2>2. Len(s) + i \in 1 .. Len(s) + Len(t) /\ x = (s \o t)[Len(s) + i]
    BY <1>2, <2>1
  <2> QED
    BY <1>1, <2>2 DEF Range
<1> QED
  BY <1>1, <1>3, <1>4, <1>5

LEMMA RangeHead ==
  ASSUME NEW s \in Seq(Game), s # <<>>
  PROVE  /\ Head(s) \in Game /\ Tail(s) \in Seq(Game)
         /\ Range(s) = {Head(s)} \cup Range(Tail(s))
<1>1. Head(s) \in Game /\ Tail(s) \in Seq(Game) /\ <<Head(s)>> \in Seq(Game)
  OBVIOUS
<1>2. s = <<Head(s)>> \o Tail(s)
  OBVIOUS
<1>3. Range(<<Head(s)>>) = {Head(s)}
  BY DEF Range
<1>4. Range(<<Head(s)>> \o Tail(s)) = Range(<<Head(s)>>) \cup Range(Tail(s))
  BY <1>1, RangeConcat
<1> QED
  BY <1>1, <1>2, <1>3, <1>4

-----------------------------------------------------------------------------
(* Types.                                                                  *)

Busy(r) == request[r] # Null

LEMMA InitTyped == Init => TypeOK
<1> SUFFICES ASSUME Init PROVE TypeOK
  OBVIOUS
<1>1. <<>> \in Seq(Game)
  OBVIOUS
<1>2. gamesPlayed \in [User -> Nat] /\ lastPlayed \in [User -> Nat]
  BY DEF Init
<1>3. holding \in [Worker -> Game \cup {Null}] /\ request \in [Request -> RequestType \cup {Null}]
  BY DEF Init
<1> QED
  BY <1>1, <1>2, <1>3 DEF Init, TypeOK

LEMMA FaultTyped == ASSUME TypeOK, Fault PROVE faults' \in Nat
BY DEF TypeOK, Fault

\* What nobody waits for any more keeps its type.
LEMMA OrphanTyped ==
  ASSUME TypeOK, NEW w \in Worker, Orphan(w)
  PROVE  request' \in [Request -> RequestType \cup {Null}]
<1>1. ASSUME NEW r \in Request, Busy(r) PROVE [request[r] EXCEPT !.worker = Null] \in RequestType
  <2>1. request[r] \in RequestType
    BY <1>1 DEF TypeOK, Busy
  <2> QED
    BY <2>1 DEF RequestType
<1>2. \A r \in Request : request[r] \in RequestType \cup {Null}
  BY DEF TypeOK
<1> QED
  BY <1>1, <1>2 DEF Orphan, Busy

LEMMA SetStateTyped ==
  ASSUME TypeOK, NEW r \in Request, Busy(r), NEW state \in {"sent", "saving"} \cup Final,
         SetState(r, state)
  PROVE  request' \in [Request -> RequestType \cup {Null}]
<1>1. request[r] \in RequestType
  BY DEF TypeOK, Busy
<1>2. [request[r] EXCEPT !.state = state] \in RequestType
  BY <1>1 DEF RequestType
<1>3. request' = [request EXCEPT ![r] = [request[r] EXCEPT !.state = state]]
  BY DEF SetState
<1> QED
  BY <1>2, <1>3 DEF TypeOK

\* What the upsert of one player does to its request.
LEMMA UpsertEffect ==
  ASSUME TypeOK, NEW r \in Request, UpsertStats(r)
  PROVE  LET u == NextMember(r)
             g == request[r].game
             old == Totals(r, u)
             later == IF g >= old.last THEN g ELSE old.last
             new == [request[r] EXCEPT
                       !.done = request[r].done + 1,
                       !.played = [request[r].played EXCEPT ![u] = old.played + 1],
                       !.last = [request[r].last EXCEPT ![u] = later]]
         IN  /\ Busy(r) /\ u \in User
             /\ new \in RequestType /\ request' = [request EXCEPT ![r] = new]
<1> DEFINE u == NextMember(r)
           g == request[r].game
           old == Totals(r, u)
           later == IF g >= old.last THEN g ELSE old.last
           done == request[r].done + 1
           played == [request[r].played EXCEPT ![u] = old.played + 1]
           last == [request[r].last EXCEPT ![u] = later]
           new == [request[r] EXCEPT !.done = done, !.played = played, !.last = last]
<1>1. Busy(r) /\ request[r] \in RequestType
  BY DEF UpsertStats, Saving, Busy, TypeOK
<1>2. g \in Game /\ g \in Nat /\ request[r].done \in Nat /\ Roster[g] \in Seq(User)
  BY <1>1, GameAssumption, RosterAssumption DEF RequestType
<1>3. u \in User
  <2> DEFINE q == Roster[g]
             n == request[r].done
  <2>1. n < Len(q) /\ q \in Seq(User) /\ n \in Nat
    BY <1>2 DEF UpsertStats
  <2>2. u = q[n + 1]
    BY DEF NextMember
  <2> HIDE DEF q, n, u
  <2>3. n + 1 \in 1 .. Len(q)
    BY <2>1
  <2>4. q[n + 1] \in User
    BY <2>1, <2>3
  <2> QED BY <2>2, <2>4
<1>4. old.played \in Nat /\ old.last \in Nat
  BY <1>1, <1>3 DEF Totals, RequestType, TypeOK
<1>5. done \in Nat /\ later \in Nat /\ old.played + 1 \in Nat
  BY <1>2, <1>4
<1>6. request[r].played \in [User -> Nat] /\ request[r].last \in [User -> Nat]
  BY <1>1 DEF RequestType
<1>7. request' = [request EXCEPT ![r].done = @ + 1, ![r].played[u] = old.played + 1,
                                 ![r].last[u] = later]
  BY DEF UpsertStats
<1> HIDE DEF u, g, old, later
<1>8. request' = [request EXCEPT ![r] = new]
  BY <1>1, <1>7 DEF RequestType
<1>9. played \in [User -> Nat]
  BY <1>5, <1>6
<1>10. last \in [User -> Nat]
  BY <1>5, <1>6
<1> HIDE DEF played, last, done
<1>11. new \in RequestType
  BY <1>1, <1>5, <1>9, <1>10 DEF RequestType
<1> QED
  BY <1>1, <1>3, <1>8, <1>11 DEF u, g, old, later, played, last, done

LEMMA StepTyped == TypeOK /\ [Next]_vars => TypeOK'
<1> SUFFICES ASSUME TypeOK, [Next]_vars PROVE TypeOK'
  OBVIOUS
<1>0. /\ waiting \in Seq(Game) /\ wire \in Seq(Game) /\ queue \in Seq(Game)
      /\ Game \subseteq Nat
      /\ \A r \in Request : Busy(r) => request[r] \in RequestType
  BY GameAssumption DEF TypeOK, Busy
<1>1. ASSUME NEW g \in Game, Finish(g) PROVE TypeOK'
  <2>1. Append(wire, g) \in Seq(Game) /\ Append(waiting, g) \in Seq(Game)
    BY <1>0
  <2> QED
    BY <1>1, <2>1 DEF Finish, TypeOK, workerVars, dbVars
<1>2. CASE ChannelOpens
  <2>1. wire \o waiting \in Seq(Game) /\ <<>> \in Seq(Game)
    BY <1>0
  <2> QED
    BY <1>2, <2>1 DEF ChannelOpens, TypeOK, workerVars, dbVars
<1>3. CASE OpenFails \/ PublisherCutOff
  <2>1. Range(waiting) \subseteq Game /\ Range(wire) \subseteq Game /\ <<>> \in Seq(Game)
    BY <1>0, RangeType
  <2>2. faults' \in Nat
    BY <1>3, FaultTyped DEF OpenFails, PublisherCutOff
  <2> QED
    BY <1>3, <2>1, <2>2 DEF OpenFails, PublisherCutOff, TypeOK, workerVars, dbVars
<1>4. CASE Arrive
  <2>1. Tail(wire) \in Seq(Game) /\ Append(queue, Head(wire)) \in Seq(Game)
    BY <1>0, <1>4, RangeHead, RangeAppend DEF Arrive
  <2> QED
    BY <1>4, <2>1 DEF Arrive, TypeOK, workerVars, dbVars
<1>5. ASSUME NEW w \in Worker, StartWorker(w) PROVE TypeOK'
  BY <1>5 DEF StartWorker, TypeOK, publisherVars, dbVars
<1>6. ASSUME NEW w \in Worker, NEW r \in Request, Receive(w, r) PROVE TypeOK'
  <2>1. Head(queue) \in Game /\ Tail(queue) \in Seq(Game)
    BY <1>0, <1>6, RangeHead DEF Receive
  <2> DEFINE new == [worker |-> w, game |-> Head(queue), state |-> "sent", done |-> 0,
                     played |-> gamesPlayed, last |-> lastPlayed]
  <2>2. new \in RequestType
    BY <2>1 DEF RequestType, TypeOK
  <2>3. request' = [request EXCEPT ![r] = new]
    BY <1>6 DEF Receive
  <2> HIDE DEF new
  <2>4. request' \in [Request -> RequestType \cup {Null}]
    BY <2>2, <2>3 DEF TypeOK
  <2> QED
    BY <1>6, <2>1, <2>4 DEF Receive, TypeOK, publisherVars, dbVars
<1>7. ASSUME NEW w \in Worker, NEW r \in Request, Respond(w, r) PROVE TypeOK'
  <2>1. request' \in [Request -> RequestType \cup {Null}]
    BY <1>7 DEF Respond, TypeOK
  <2>2. /\ worker' \in [Worker -> {"down", "idle", "delivering", "backoff"}]
        /\ holding' \in [Worker -> Game \cup {Null}]
    BY <1>7 DEF Respond, TypeOK
  <2> QED
    BY <1>7, <2>1, <2>2 DEF Respond, TypeOK, publisherVars, dbVars
<1>8. ASSUME NEW w \in Worker, DeliveryFails(w) PROVE TypeOK'
  <2>1. request' \in [Request -> RequestType \cup {Null}] /\ faults' \in Nat
    BY <1>8, OrphanTyped, FaultTyped DEF DeliveryFails
  <2> QED
    BY <1>8, <2>1 DEF DeliveryFails, TypeOK, publisherVars, dbVars
<1>9. ASSUME NEW w \in Worker PROVE Redelivered(w) \in Seq(Game)
  <2>1. CASE holding[w] = Null
    BY <1>0, <2>1 DEF Redelivered
  <2>2. CASE holding[w] # Null
    <3>1. holding[w] \in Game
      BY <2>2 DEF TypeOK
    <3>2. <<holding[w]>> \in Seq(Game)
      BY <3>1
    <3> QED
      BY <1>0, <2>2, <3>2, RangeConcat DEF Redelivered
  <2> QED
    BY <2>1, <2>2
<1>10. ASSUME NEW w \in Worker, Requeue(w) PROVE TypeOK'
  BY <1>9, <1>10 DEF Requeue, TypeOK, publisherVars, dbVars
<1>11. ASSUME NEW w \in Worker, StopWorker(w) PROVE TypeOK'
  <2>1. request' \in [Request -> RequestType \cup {Null}] /\ faults' \in Nat
    BY <1>11, OrphanTyped, FaultTyped DEF StopWorker
  <2> QED
    BY <1>9, <1>11, <2>1 DEF StopWorker, TypeOK, publisherVars, dbVars
<1>12. ASSUME NEW r \in Request, Refuse(r) \/ InsertGame(r) PROVE TypeOK'
  <2>1. Busy(r) /\ \E state \in {"sent", "saving"} \cup Final : SetState(r, state)
    BY <1>12 DEF Refuse, InsertGame, Busy, Final
  <2>2. request' \in [Request -> RequestType \cup {Null}]
    BY <2>1, SetStateTyped
  <2> QED
    BY <1>12, <2>2 DEF Refuse, InsertGame, TypeOK, publisherVars, workerVars, dbVars
<1>13. ASSUME NEW r \in Request, UpsertStats(r) PROVE TypeOK'
  <2>1. request' \in [Request -> RequestType \cup {Null}]
    BY <1>13, UpsertEffect DEF TypeOK
  <2> QED
    BY <1>13, <2>1 DEF UpsertStats, TypeOK, publisherVars, workerVars, dbVars
<1>14. ASSUME NEW r \in Request, Commit(r) PROVE TypeOK'
  <2>1. Busy(r) /\ request[r] \in RequestType /\ SetState(r, "saved")
    BY <1>0, <1>14 DEF Commit, Saving, Busy
  <2>2. request' \in [Request -> RequestType \cup {Null}]
    BY <2>1, SetStateTyped DEF Final
  <2>3. gamesPlayed' \in [User -> Nat] /\ lastPlayed' \in [User -> Nat]
    BY <1>14, <2>1 DEF Commit, RequestType, TypeOK
  <2>4. games' \subseteq Game
    BY <1>14, <2>1 DEF Commit, RequestType, TypeOK
  <2> QED
    BY <1>14, <2>2, <2>3, <2>4 DEF Commit, TypeOK, publisherVars, workerVars
<1>15. ASSUME NEW r \in Request, SaveFails(r) \/ BrokenSaveFails(r) \/ DeadlockDetected(r)
       PROVE  TypeOK'
  <2>1. Rollback(r) /\ faults' \in Nat
    BY <1>15, FaultTyped DEF SaveFails, BrokenSaveFails, DeadlockDetected, TypeOK
  <2>2. Busy(r) /\ SetState(r, "unavailable")
    BY <2>1 DEF Rollback, Busy
  <2>3. request' \in [Request -> RequestType \cup {Null}]
    BY <2>2, SetStateTyped DEF Final
  <2> QED
    BY <2>1, <2>3 DEF Rollback, TypeOK, publisherVars, workerVars, dbVars
<1>16. ASSUME NEW r \in Request, AnswerNobody(r) PROVE TypeOK'
  BY <1>16 DEF AnswerNobody, TypeOK, publisherVars, workerVars, dbVars
<1>17. CASE UNCHANGED vars
  BY <1>17 DEF vars, publisherVars, workerVars, dbVars, TypeOK
<1> QED
  BY <1>1, <1>2, <1>3, <1>4, <1>5, <1>6, <1>7, <1>8, <1>10, <1>11, <1>12, <1>13, <1>14,
     <1>15, <1>16, <1>17 DEF Next, UserService, WorkerStep

\* events.ts, results-worker and history.service.ts: messages, requests and
\* tables keep to their types, whatever is lost, repeated or aborted.
THEOREM TypeCorrect == Spec => []TypeOK
BY InitTyped, StepTyped, PTL DEF Spec

-----------------------------------------------------------------------------
(* No result vanishes: who holds a message, and what an answer says.       *)

\* A worker without a message holds none.
EmptyHands == \A w \in Worker : worker[w] \in {"idle", "down"} => holding[w] = Null

\* A request somebody waits for is about the message its worker holds.
Served ==
  \A r \in Request : Busy(r) /\ request[r].worker # Null =>
    /\ worker[request[r].worker] = "delivering"
    /\ holding[request[r].worker] = request[r].game

OneRequest ==
  \A r, s \in Request :
    Busy(r) /\ Busy(s) /\ request[r].worker # Null
    /\ request[r].worker = request[s].worker => r = s

\* The answers after which the message is acked are true.
Told ==
  \A r \in Request : Busy(r) =>
    /\ request[r].state \in {"saved", "duplicate"} => request[r].game \in games
    /\ request[r].state = "rejected" => request[r].game \in Invalid

Waited == EmptyHands /\ Served /\ OneRequest

\* A step of the user service: r is about the same game of the same worker.
Onward(r) ==
  /\ Busy(r) /\ Busy(r)'
  /\ \A s \in Request \ {r} : request'[s] = request[s]
  /\ request'[r].worker = request[r].worker /\ request'[r].game = request[r].game
  /\ UNCHANGED workerVars

LEMMA OnwardWaited ==
  ASSUME TypeOK, Waited, NEW r \in Request, Onward(r)
  PROVE  Waited'
<1>1. \A s \in Request : Busy(s)' <=> Busy(s)
  BY DEF Onward, Busy
<1>2. \A s \in Request : request'[s].worker = request[s].worker /\ request'[s].game = request[s].game
  BY DEF Onward
<1>3. EmptyHands'
  BY DEF Waited, EmptyHands, Onward, workerVars
<1>4. Served'
  BY <1>1, <1>2 DEF Waited, Served, Onward, workerVars
<1>5. OneRequest'
  BY <1>1, <1>2 DEF Waited, OneRequest
<1> QED
  BY <1>3, <1>4, <1>5 DEF Waited

\* What the steps of the user service do to one request.
LEMMA ServiceOnward ==
  ASSUME TypeOK, NEW r \in Request,
         Refuse(r) \/ InsertGame(r) \/ UpsertStats(r) \/ Commit(r) \/ Rollback(r)
  PROVE  Onward(r)
<1>1. Busy(r) /\ request[r] \in RequestType
  BY DEF Refuse, InsertGame, UpsertStats, Commit, Rollback, Saving, Busy, TypeOK
<1>2. CASE \E state \in {"sent", "saving"} \cup Final :
             SetState(r, state) /\ UNCHANGED workerVars
  <2>1. PICK state \in {"sent", "saving"} \cup Final :
          SetState(r, state) /\ UNCHANGED workerVars
    BY <1>2
  <2> DEFINE new == [request[r] EXCEPT !.state = state]
  <2>2. new \in RequestType
    BY <1>1, <2>1 DEF RequestType
  <2>3. new.worker = request[r].worker /\ new.game = request[r].game
    BY <1>1 DEF RequestType
  <2>4. request' = [request EXCEPT ![r] = new]
    BY <2>1 DEF SetState
  <2> HIDE DEF new
  <2> QED
    BY <1>1, <2>1, <2>2, <2>3, <2>4, NullAssumption DEF Onward, Busy, TypeOK
<1>3. CASE UpsertStats(r)
  <2> DEFINE u == NextMember(r)
             g == request[r].game
             old == Totals(r, u)
             later == IF g >= old.last THEN g ELSE old.last
             done == request[r].done + 1
             played == [request[r].played EXCEPT ![u] = old.played + 1]
             last == [request[r].last EXCEPT ![u] = later]
             new == [request[r] EXCEPT !.done = done, !.played = played, !.last = last]
  <2>1. new \in RequestType /\ request' = [request EXCEPT ![r] = new]
    BY <1>3, UpsertEffect
  <2> HIDE DEF done, played, last
  <2>2. new.worker = request[r].worker /\ new.game = request[r].game
    BY <1>1 DEF RequestType
  <2> HIDE DEF new
  <2> QED
    BY <1>1, <1>3, <2>1, <2>2, NullAssumption DEF Onward, UpsertStats, Busy, TypeOK
<1> QED
  BY <1>2, <1>3 DEF Refuse, InsertGame, Commit, Rollback, Final

LEMMA InitWaited == Init => Waited /\ Told /\ NoResultVanishes
BY DEF Init, Waited, EmptyHands, Served, OneRequest, Busy, Told, NoResultVanishes

\* The requests a worker leaves behind are waited for by nobody.
LEMMA OrphanWaited ==
  ASSUME TypeOK, Waited, NEW w \in Worker, Orphan(w),
         \A v \in Worker \ {w} : worker'[v] = worker[v] /\ holding'[v] = holding[v],
         worker'[w] \in {"idle", "down"} => holding'[w] = Null
  PROVE  Waited'
<1>1. ASSUME NEW r \in Request, Busy(r)
      PROVE  request[r].worker \in Worker \cup {Null} /\ [request[r] EXCEPT !.worker = Null] # Null
  <2>1. request[r] \in RequestType
    BY <1>1 DEF TypeOK, Busy
  <2>2. [request[r] EXCEPT !.worker = Null] \in RequestType
    BY <2>1 DEF RequestType
  <2> QED
    BY <2>1, <2>2, NullAssumption DEF RequestType
<1>2. ASSUME NEW r \in Request, Busy(r)', request'[r].worker # Null
      PROVE  Busy(r) /\ request[r].worker # w /\ request'[r] = request[r]
  <2>1. CASE Busy(r) /\ request[r].worker = w
    <3>1. request[r] \in RequestType
      BY <2>1 DEF TypeOK, Busy
    <3> QED
      BY <1>2, <2>1, <3>1 DEF Orphan, RequestType, Busy
  <2> QED
    BY <1>2, <2>1 DEF Orphan, Busy
<1>3. EmptyHands'
  BY DEF Waited, EmptyHands
<1>4. Served'
  BY <1>1, <1>2 DEF Waited, Served
<1>5. OneRequest'
  <2> SUFFICES ASSUME NEW r \in Request, NEW s \in Request, Busy(r)', Busy(s)',
                      request'[r].worker # Null, request'[r].worker = request'[s].worker
               PROVE  r = s
    BY DEF OneRequest
  <2> QED
    BY <1>2 DEF Waited, OneRequest
<1> QED
  BY <1>3, <1>4, <1>5 DEF Waited

LEMMA ReceiveWaited ==
  ASSUME TypeOK, Waited, NEW w \in Worker, NEW r \in Request, Receive(w, r)
  PROVE  Waited'
<1>1. /\ request'[r].worker = w /\ request'[r].game = Head(queue)
      /\ holding'[w] = Head(queue) /\ worker'[w] = "delivering"
  BY DEF Receive, TypeOK
<1>2. /\ \A s \in Request \ {r} : request'[s] = request[s]
      /\ \A v \in Worker \ {w} : worker'[v] = worker[v] /\ holding'[v] = holding[v]
  BY DEF Receive, TypeOK
<1>3. \A s \in Request : Busy(s) => request[s].worker \in Worker \cup {Null} /\ request[s].worker # w
  <2> SUFFICES ASSUME NEW s \in Request, Busy(s)
               PROVE  request[s].worker \in Worker \cup {Null} /\ request[s].worker # w
    OBVIOUS
  <2>1. request[s].worker \in Worker \cup {Null}
    BY DEF TypeOK, Busy, RequestType
  <2> QED
    BY <2>1, NullAssumption DEF Receive, Waited, Served
<1>4. EmptyHands'
  BY <1>1, <1>2 DEF Waited, EmptyHands
<1>5. Served'
  <2> SUFFICES ASSUME NEW s \in Request, Busy(s)', request'[s].worker # Null
               PROVE  /\ worker'[request'[s].worker] = "delivering"
                      /\ holding'[request'[s].worker] = request'[s].game
    BY DEF Served
  <2>1. CASE s = r
    BY <1>1, <2>1
  <2>2. CASE s # r
    BY <1>2, <1>3, <2>2 DEF Waited, Served, Busy
  <2> QED
    BY <2>1, <2>2
<1>6. OneRequest'
  <2> SUFFICES ASSUME NEW s \in Request, NEW t \in Request, Busy(s)', Busy(t)',
                      request'[s].worker # Null, request'[s].worker = request'[t].worker
               PROVE  s = t
    BY DEF OneRequest
  <2>1. CASE s # r /\ t # r
    BY <1>2, <2>1 DEF Waited, OneRequest, Busy
  <2>2. CASE s = r /\ t # r
    BY <1>1, <1>2, <1>3, <2>2 DEF Busy
  <2>3. CASE s # r /\ t = r
    BY <1>1, <1>2, <1>3, <2>3 DEF Busy
  <2> QED
    BY <2>1, <2>2, <2>3
<1> QED
  BY <1>4, <1>5, <1>6 DEF Waited

LEMMA RespondWaited ==
  ASSUME TypeOK, Waited, NEW w \in Worker, NEW r \in Request, Respond(w, r)
  PROVE  Waited'
<1>1. /\ \A s \in Request \ {r} : request'[s] = request[s]
      /\ \A v \in Worker \ {w} : worker'[v] = worker[v] /\ holding'[v] = holding[v]
      /\ request'[r] = Null
  BY DEF Respond, TypeOK
<1>2. worker'[w] \in {"idle", "down"} => holding'[w] = Null
  BY DEF Respond, TypeOK
<1>3. \A s \in Request : Busy(s)' => Busy(s) /\ s # r /\ request'[s] = request[s]
  BY <1>1 DEF Busy
<1>4. \A s \in Request : Busy(s)' => request[s].worker # w
  BY <1>3, NullAssumption DEF Respond, Waited, OneRequest, Busy
<1>5. EmptyHands'
  BY <1>1, <1>2 DEF Waited, EmptyHands
<1>6. Served'
  <2> SUFFICES ASSUME NEW s \in Request, Busy(s)', request'[s].worker # Null
               PROVE  /\ worker'[request'[s].worker] = "delivering"
                      /\ holding'[request'[s].worker] = request'[s].game
    BY DEF Served
  <2>1. request[s].worker \in Worker \ {w}
    BY <1>3, <1>4 DEF TypeOK, Busy, RequestType
  <2> QED
    BY <1>1, <1>3, <2>1 DEF Waited, Served
<1>7. OneRequest'
  BY <1>3 DEF Waited, OneRequest
<1> QED
  BY <1>5, <1>6, <1>7 DEF Waited

LEMMA StepWaited == TypeOK /\ Waited /\ [Next]_vars => Waited'
<1> SUFFICES ASSUME TypeOK, Waited, [Next]_vars PROVE Waited'
  OBVIOUS
<1>1. ASSUME UNCHANGED <<workerVars, request>> PROVE Waited'
  BY <1>1 DEF Waited, EmptyHands, Served, OneRequest, Busy, workerVars
<1>2. CASE (\E g \in Game : Finish(g)) \/ ChannelOpens \/ OpenFails \/ PublisherCutOff
           \/ Arrive \/ UNCHANGED vars
  BY <1>1, <1>2 DEF Finish, ChannelOpens, OpenFails, PublisherCutOff, Arrive, vars
<1>3. ASSUME NEW w \in Worker, StartWorker(w) \/ Requeue(w) PROVE Waited'
  <2>1. /\ worker[w] # "delivering" /\ worker'[w] = "idle" /\ holding'[w] = Null
        /\ \A v \in Worker \ {w} : worker'[v] = worker[v] /\ holding'[v] = holding[v]
        /\ UNCHANGED request
    BY <1>3 DEF StartWorker, Requeue, TypeOK, Waited, EmptyHands
  <2>2. EmptyHands'
    BY <2>1 DEF Waited, EmptyHands
  <2>3. Served'
    <3> SUFFICES ASSUME NEW s \in Request, Busy(s), request[s].worker # Null
                 PROVE  /\ worker'[request[s].worker] = "delivering"
                        /\ holding'[request[s].worker] = request[s].game
      BY <2>1 DEF Served, Busy
    <3>1. request[s].worker \in Worker
      BY DEF TypeOK, Busy, RequestType
    <3> QED
      BY <2>1, <3>1 DEF Waited, Served
  <2> QED
    BY <2>1, <2>2, <2>3 DEF Waited, OneRequest, Busy
<1>4. ASSUME NEW w \in Worker, NEW r \in Request, Receive(w, r) \/ Respond(w, r) PROVE Waited'
  BY <1>4, ReceiveWaited, RespondWaited
<1>5. ASSUME NEW w \in Worker, DeliveryFails(w) \/ StopWorker(w) PROVE Waited'
  <2>1. /\ Orphan(w)
        /\ \A v \in Worker \ {w} : worker'[v] = worker[v] /\ holding'[v] = holding[v]
        /\ worker'[w] \in {"idle", "down"} => holding'[w] = Null
    BY <1>5 DEF DeliveryFails, StopWorker, TypeOK
  <2> QED
    BY <2>1, OrphanWaited
<1>6. ASSUME NEW r \in Request, UserService(r) \/ SaveFails(r) PROVE Waited'
  <2>1. CASE AnswerNobody(r)
    <3>1. \A s \in Request : Busy(s)' => Busy(s) /\ request'[s] = request[s]
      BY <2>1 DEF AnswerNobody, TypeOK, Busy
    <3> QED
      BY <2>1, <3>1 DEF AnswerNobody, Waited, EmptyHands, Served, OneRequest, workerVars
  <2>2. CASE ~AnswerNobody(r)
    BY <1>6, <2>2, ServiceOnward, OnwardWaited
       DEF UserService, SaveFails, BrokenSaveFails, DeadlockDetected
  <2> QED
    BY <2>1, <2>2
<1> QED
  BY <1>2, <1>3, <1>4, <1>5, <1>6 DEF Next, WorkerStep

LEMMA StepTold == TypeOK /\ Told /\ [Next]_vars => Told'
<1> SUFFICES ASSUME TypeOK, Told, [Next]_vars PROVE Told'
  OBVIOUS
<1> DEFINE True(r) ==
      /\ request[r].state \in {"saved", "duplicate"} => request[r].game \in games
      /\ request[r].state = "rejected" => request[r].game \in Invalid
<1>0. \A r \in Request : Busy(r) => True(r) /\ request[r] \in RequestType
  BY DEF Told, TypeOK, Busy
<1>1. games \subseteq games'
  BY DEF Next, Finish, ChannelOpens, OpenFails, PublisherCutOff, Arrive, WorkerStep, StartWorker,
     Requeue, Receive, Respond, DeliveryFails, StopWorker, UserService, Refuse, InsertGame,
     UpsertStats, Commit, BrokenSaveFails, DeadlockDetected, SaveFails, Rollback, AnswerNobody,
     vars, dbVars
\* Nothing else than the request of r changes.
<1>2. ASSUME NEW r \in Request, \A s \in Request \ {r} : request'[s] = request[s],
             Busy(r)' => True(r)'
      PROVE  Told'
  BY <1>0, <1>1, <1>2 DEF Told, Busy
<1>3. ASSUME UNCHANGED request PROVE Told'
  BY <1>0, <1>1, <1>3 DEF Told, Busy
<1>4. CASE (\E g \in Game : Finish(g)) \/ ChannelOpens \/ OpenFails \/ PublisherCutOff
           \/ Arrive \/ UNCHANGED vars
           \/ (\E w \in Worker : StartWorker(w) \/ Requeue(w))
  BY <1>3, <1>4 DEF Finish, ChannelOpens, OpenFails, PublisherCutOff, Arrive, vars, StartWorker,
     Requeue
<1>5. ASSUME NEW w \in Worker, NEW r \in Request, Receive(w, r) PROVE Told'
  <2>1. request'[r].state = "sent" /\ \A s \in Request \ {r} : request'[s] = request[s]
    BY <1>5 DEF Receive, TypeOK
  <2> QED
    BY <1>2, <2>1
<1>6. ASSUME NEW r \in Request, AnswerNobody(r) \/ \E w \in Worker : Respond(w, r)
      PROVE  Told'
  <2>1. request'[r] = Null /\ \A s \in Request \ {r} : request'[s] = request[s]
    BY <1>6 DEF Respond, AnswerNobody, TypeOK
  <2> QED
    BY <1>2, <2>1 DEF Busy
<1>7. ASSUME NEW w \in Worker, Orphan(w) PROVE Told'
  <2> SUFFICES ASSUME NEW r \in Request, Busy(r)' PROVE True(r)'
    BY DEF Told
  <2>1. CASE Busy(r)
    BY <1>0, <1>1, <1>7, <2>1 DEF Orphan, Busy, RequestType
  <2>2. CASE ~Busy(r)
    BY <1>7, <2>2 DEF Orphan, Busy
  <2> QED
    BY <2>1, <2>2
<1>8. ASSUME NEW r \in Request, NEW state, Busy(r), SetState(r, state),
             state \in {"saved", "duplicate"} => request[r].game \in games',
             state = "rejected" => request[r].game \in Invalid
      PROVE  Told'
  <2>1. /\ request'[r].state = state /\ request'[r].game = request[r].game
        /\ \A s \in Request \ {r} : request'[s] = request[s]
    BY <1>0, <1>8 DEF SetState, TypeOK, RequestType
  <2> QED
    BY <1>2, <1>8, <2>1
<1>9. ASSUME NEW r \in Request, UserService(r) \/ SaveFails(r), ~AnswerNobody(r) PROVE Told'
  <2>1. CASE Refuse(r)
    BY <1>8, <2>1 DEF Refuse, Busy
  <2>2. CASE InsertGame(r)
    <3>1. CASE AlreadySaved(request[r].game)
      BY <1>1, <1>8, <2>2, <3>1 DEF InsertGame, Busy, AlreadySaved
    <3>2. CASE ~AlreadySaved(request[r].game)
      BY <1>8, <2>2, <3>2 DEF InsertGame, Busy
    <3> QED
      BY <3>1, <3>2
  <2>3. CASE UpsertStats(r)
    <3>1. request'[r].state = request[r].state /\ request[r].state = "saving"
      BY <1>0, <2>3 DEF UpsertStats, TypeOK, Busy, RequestType, Saving
    <3>2. \A s \in Request \ {r} : request'[s] = request[s]
      BY <2>3 DEF UpsertStats, TypeOK
    <3> QED
      BY <1>2, <3>1, <3>2
  <2>4. CASE Commit(r)
    BY <1>8, <2>4 DEF Commit, Saving, Busy
  <2>5. CASE Rollback(r)
    BY <1>8, <2>5 DEF Rollback, Busy
  <2> QED
    BY <1>9, <2>1, <2>2, <2>3, <2>4, <2>5
       DEF UserService, SaveFails, BrokenSaveFails, DeadlockDetected
<1>10. CASE \E w \in Worker : WorkerStep(w) \/ DeliveryFails(w) \/ StopWorker(w)
  BY <1>4, <1>5, <1>6, <1>7, <1>10 DEF WorkerStep, DeliveryFails, StopWorker
<1>11. CASE \E r \in Request : UserService(r) \/ SaveFails(r)
  BY <1>6, <1>9, <1>11
<1> QED
  BY <1>4, <1>10, <1>11 DEF Next

\* Where the result of game g is, or why nobody looks for it.
Kept(g) ==
  \/ g \in lost \cup Range(waiting) \cup Range(wire)
  \/ g \in Range(queue) \cup Range(holding)
  \/ g \in games \cup Invalid

LEMMA StepKept ==
  TypeOK /\ Waited /\ Told /\ NoResultVanishes /\ [Next]_vars => NoResultVanishes'
<1> SUFFICES ASSUME TypeOK, Waited, Told, NoResultVanishes, [Next]_vars
             PROVE  NoResultVanishes'
  OBVIOUS
<1>0. /\ waiting \in Seq(Game) /\ wire \in Seq(Game) /\ queue \in Seq(Game)
      /\ finished \subseteq Game /\ DOMAIN holding = Worker
      /\ \A g \in Game : g # Null
      /\ \A g \in finished : Kept(g)
  BY NullAssumption DEF TypeOK, NoResultVanishes, Kept
<1>1. ASSUME \A g \in finished' : Kept(g)' PROVE NoResultVanishes'
  BY <1>1 DEF NoResultVanishes, Kept
<1>2. ASSUME NEW h \in Game, Finish(h) PROVE NoResultVanishes'
  <2>1. /\ Range(Append(wire, h)) = Range(wire) \cup {h}
        /\ Range(Append(waiting, h)) = Range(waiting) \cup {h}
    BY <1>0, RangeAppend
  <2> SUFFICES ASSUME NEW g \in finished' PROVE Kept(g)'
    BY <1>1
  <2>2. CASE g = h
    BY <1>2, <2>1, <2>2 DEF Finish, Kept
  <2>3. CASE g \in finished
    BY <1>0, <1>2, <2>1, <2>3 DEF Finish, Kept, workerVars, dbVars
  <2> QED
    BY <1>2, <2>2, <2>3 DEF Finish
<1>3. CASE ChannelOpens
  <2>1. Range(wire \o waiting) = Range(wire) \cup Range(waiting)
    BY <1>0, RangeConcat
  <2> QED
    BY <1>0, <1>1, <1>3, <2>1 DEF ChannelOpens, Kept, workerVars, dbVars
<1>4. CASE OpenFails \/ PublisherCutOff
  BY <1>0, <1>1, <1>4 DEF OpenFails, PublisherCutOff, Kept, workerVars, dbVars
<1>5. CASE Arrive
  <2>1. /\ Head(wire) \in Game /\ Range(wire) = {Head(wire)} \cup Range(Tail(wire))
        /\ Range(Append(queue, Head(wire))) = Range(queue) \cup {Head(wire)}
    BY <1>0, <1>5, RangeHead, RangeAppend DEF Arrive
  <2> QED
    BY <1>0, <1>1, <1>5, <2>1 DEF Arrive, Kept, workerVars, dbVars
<1>6. ASSUME NEW w \in Worker, StartWorker(w) PROVE NoResultVanishes'
  BY <1>0, <1>1, <1>6 DEF StartWorker, Kept, publisherVars, dbVars
<1>7. ASSUME NEW w \in Worker, NEW r \in Request, Receive(w, r) PROVE NoResultVanishes'
  <2>1. Range(queue) = {Head(queue)} \cup Range(Tail(queue))
    BY <1>0, <1>7, RangeHead DEF Receive
  <2>2. holding[w] = Null
    BY <1>7 DEF Receive, Waited, EmptyHands
  <2>3. holding'[w] = Head(queue) /\ DOMAIN holding' = Worker
        /\ \A v \in Worker \ {w} : holding'[v] = holding[v]
    BY <1>0, <1>7 DEF Receive
  <2>4. Head(queue) \in Range(holding')
    BY <2>3 DEF Range
  <2>5. \A g \in Range(holding) : g # Null => g \in Range(holding')
    BY <1>0, <2>2, <2>3 DEF Range
  <2> QED
    BY <1>0, <1>1, <1>7, <2>1, <2>4, <2>5 DEF Receive, Kept, publisherVars, dbVars
\* A worker drops the message it holds: nobody else does.
<1>8. ASSUME NEW w \in Worker, holding' = [holding EXCEPT ![w] = Null],
             NEW g \in Range(holding), g # holding[w]
      PROVE  g \in Range(holding')
  BY <1>0, <1>8 DEF Range
<1>9. ASSUME NEW w \in Worker, NEW r \in Request, Respond(w, r) PROVE NoResultVanishes'
  <2>1. CASE ~Acked(request[r].state)
    BY <1>0, <1>1, <1>9, <2>1 DEF Respond, Kept, publisherVars, dbVars
  <2>2. CASE Acked(request[r].state)
    <3>1. holding[w] \in games \cup Invalid
      BY <1>9, <2>2, NullAssumption DEF Respond, Acked, Waited, Served, Told, Busy
    <3>2. holding' = [holding EXCEPT ![w] = Null]
      BY <1>9, <2>2 DEF Respond
    <3> QED
      BY <1>0, <1>1, <1>8, <1>9, <3>1, <3>2 DEF Respond, Kept, publisherVars, dbVars
  <2> QED
    BY <2>1, <2>2
<1>10. ASSUME NEW w \in Worker, DeliveryFails(w) PROVE NoResultVanishes'
  BY <1>0, <1>1, <1>10 DEF DeliveryFails, Kept, publisherVars, dbVars
<1>11. ASSUME NEW w \in Worker, Requeue(w) \/ StopWorker(w) PROVE NoResultVanishes'
  <2>1. /\ holding' = [holding EXCEPT ![w] = Null] /\ queue' = Redelivered(w)
        /\ UNCHANGED <<finished, lost, waiting, wire, games>>
    BY <1>11 DEF Requeue, StopWorker, publisherVars, dbVars
  <2>2. /\ Range(queue) \subseteq Range(Redelivered(w))
        /\ holding[w] # Null => holding[w] \in Range(Redelivered(w))
    <3>1. CASE holding[w] = Null
      BY <3>1 DEF Redelivered
    <3>2. CASE holding[w] # Null
      <4>1. holding[w] \in Game
        BY <3>2 DEF TypeOK
      <4>2. <<holding[w]>> \in Seq(Game) /\ Range(<<holding[w]>>) = {holding[w]}
        BY <4>1 DEF Range
      <4> QED
        BY <1>0, <3>2, <4>2, RangeConcat DEF Redelivered
    <3> QED
      BY <3>1, <3>2
  <2> QED
    BY <1>0, <1>1, <1>8, <2>1, <2>2 DEF Kept
<1>12. ASSUME NEW r \in Request, UserService(r) \/ SaveFails(r) PROVE NoResultVanishes'
  <2>1. UNCHANGED <<publisherVars, queue, workerVars>> /\ games \subseteq games'
    BY <1>12 DEF UserService, SaveFails, Refuse, InsertGame, UpsertStats, Commit, BrokenSaveFails,
       DeadlockDetected, Rollback, AnswerNobody, dbVars
  <2> QED
    BY <1>0, <1>1, <2>1 DEF Kept, publisherVars, workerVars
<1>13. CASE UNCHANGED vars
  BY <1>0, <1>1, <1>13 DEF Kept, vars, publisherVars, workerVars, dbVars
<1>14. CASE \E w \in Worker : WorkerStep(w) \/ DeliveryFails(w) \/ StopWorker(w)
  BY <1>6, <1>7, <1>9, <1>10, <1>11, <1>14 DEF WorkerStep
<1> QED
  BY <1>2, <1>3, <1>4, <1>5, <1>12, <1>13, <1>14 DEF Next

\* events.ts, results-worker, POST /internal/games: however many workers stop,
\* requests time out and are repeated, and transactions fail, a result that
\* reached the broker is queued or held until it is saved or refused.
THEOREM NothingVanishes == Spec => []NoResultVanishes
<1>1. Init => TypeOK /\ Waited /\ Told /\ NoResultVanishes
  BY InitTyped, InitWaited
<1>2. TypeOK /\ Waited /\ Told /\ NoResultVanishes /\ [Next]_vars
      => (TypeOK /\ Waited /\ Told /\ NoResultVanishes)'
  BY StepTyped, StepWaited, StepTold, StepKept
<1> QED
  BY <1>1, <1>2, PTL DEF Spec

-----------------------------------------------------------------------------
(* The totals implement module Recording: what an open transaction has     *)
(* written of the totals.                                                  *)

\* The first k player rows of game g that belong to u.
RowsTo(g, u, k) == Cardinality({i \in 1 .. k : Roster[g][i] = u})

LEMMA RowsType ==
  ASSUME NEW g, NEW u, NEW k \in Nat
  PROVE  /\ RowsTo(g, u, k) \in Nat
         /\ RowsTo(g, u, k) = 0 <=> \A i \in 1 .. k : Roster[g][i] # u
<1> DEFINE S == {i \in 1 .. k : Roster[g][i] = u}
<1>1. IsFiniteSet(S)
  <2>1. IsFiniteSet(1 .. k)
    BY FS_Interval
  <2> QED
    BY <2>1, FS_Subset
<1>2. Cardinality(S) \in Nat /\ (Cardinality(S) = 0 <=> S = {})
  BY <1>1, FS_CardinalityType, FS_EmptySet
<1> QED
  BY <1>2 DEF RowsTo

LEMMA RowsStep ==
  ASSUME NEW g, NEW u, NEW k \in Nat
  PROVE  RowsTo(g, u, k + 1)
           = IF Roster[g][k + 1] = u THEN RowsTo(g, u, k) + 1 ELSE RowsTo(g, u, k)
<1> DEFINE S(n) == {i \in 1 .. n : Roster[g][i] = u}
<1>1. IsFiniteSet(S(k))
  <2>1. IsFiniteSet(1 .. k)
    BY FS_Interval
  <2> QED
    BY <2>1, FS_Subset
<1>2. k + 1 \notin S(k)
  OBVIOUS
<1>3. CASE Roster[g][k + 1] = u
  <2>1. S(k + 1) = S(k) \cup {k + 1}
    BY <1>3
  <2>2. Cardinality(S(k) \cup {k + 1}) = Cardinality(S(k)) + 1
    BY <1>1, <1>2, FS_AddElement
  <2> QED
    BY <1>3, <2>1, <2>2 DEF RowsTo
<1>4. CASE Roster[g][k + 1] # u
  <2>1. S(k + 1) = S(k)
    BY <1>4
  <2> QED
    BY <1>4, <2>1 DEF RowsTo
<1> QED
  BY <1>3, <1>4

\* A request whose game is not yet inserted has written nothing.
Fresh == \A r \in Request : Busy(r) /\ request[r].state = "sent" => request[r].done = 0

\* The version of u's row that the transaction of r has written.
Version(r, u) ==
  /\ request[r].played[u] = gamesPlayed[u] + RowsTo(request[r].game, u, request[r].done)
  /\ request[r].last[u] = IF lastPlayed[u] >= request[r].game THEN lastPlayed[u]
                                                             ELSE request[r].game

Ledger(r) ==
  /\ request[r].game \notin games
  /\ request[r].done <= Len(Roster[request[r].game])
  /\ \A u \in Locked(r) : Version(r, u)

Ledgers == \A r \in Request : Saving(r) => Ledger(r)

\* Two open transactions insert different games and hold different rows.
Apart ==
  \A r, s \in Request : r # s /\ Saving(r) /\ Saving(s) =>
    request[r].game # request[s].game /\ Locked(r) \cap Locked(s) = {}

Booked == Fresh /\ Ledgers /\ Apart

SameWork(r) ==
  /\ Busy(r)
  /\ request'[r].state = request[r].state /\ request'[r].game = request[r].game
  /\ request'[r].done = request[r].done
  /\ request'[r].played = request[r].played /\ request'[r].last = request[r].last

\* No step that leaves the tables alone, and opens or advances no transaction,
\* disturbs the books.
LEMMA SameBooked ==
  ASSUME TypeOK, Booked, UNCHANGED dbVars,
         \A r \in Request : Busy(r)' =>
           \/ request'[r].state \in Final
           \/ request'[r].state = "sent" /\ request'[r].done = 0
           \/ SameWork(r)
  PROVE  Booked'
<1>1. \A r \in Request : Saving(r)' => Saving(r) /\ SameWork(r)
  BY DEF Saving, SameWork, Final, Busy
<1>2. Fresh'
  BY DEF Booked, Fresh, SameWork, Final
<1>3. Ledgers'
  BY <1>1 DEF Booked, Ledgers, Ledger, Version, Locked, SameWork, dbVars
<1>4. \A r \in Request : Saving(r)' => Locked(r)' = Locked(r) /\ request'[r].game = request[r].game
  BY <1>1 DEF Locked, SameWork
<1>5. Apart'
  BY <1>1, <1>4 DEF Booked, Apart
<1> QED
  BY <1>2, <1>3, <1>5 DEF Booked

LEMMA InsertBooked ==
  ASSUME TypeOK, Booked, NEW r \in Request, InsertGame(r)
  PROVE  Booked'
<1> DEFINE g == request[r].game
<1>1. Busy(r) /\ request[r] \in RequestType /\ request[r].done = 0
  BY DEF InsertGame, Busy, TypeOK, Booked, Fresh
<1>2. CASE AlreadySaved(g)
  <2>1. /\ request'[r].state = "duplicate"
        /\ \A s \in Request \ {r} : request'[s] = request[s]
    BY <1>1, <1>2 DEF InsertGame, SetState, RequestType, TypeOK
  <2>2. \A s \in Request : Busy(s)' => request'[s].state \in Final \/ SameWork(s)
    BY <2>1 DEF Final, SameWork, Busy
  <2>3. UNCHANGED dbVars
    BY DEF InsertGame
  <2> QED
    BY <2>2, <2>3, SameBooked
<1>3. CASE ~AlreadySaved(g)
  <2>1. /\ request'[r].state = "saving" /\ request'[r].done = 0 /\ request'[r].game = g
        /\ \A s \in Request \ {r} : request'[s] = request[s]
        /\ UNCHANGED dbVars
    BY <1>1, <1>3 DEF InsertGame, SetState, RequestType, TypeOK
  <2>2. \A s \in Request \ {r} : /\ Saving(s)' <=> Saving(s)
                                 /\ Ledger(s)' <=> Ledger(s)
                                 /\ Locked(s)' = Locked(s)
    BY <2>1 DEF Saving, Ledger, Version, Locked, dbVars
  <2>3. Locked(r)' = {}
    BY <2>1 DEF Locked
  <2>4. g \notin games /\ Len(Roster[g]) \in Nat
    BY <1>1, <1>3, RosterAssumption DEF AlreadySaved, RequestType
  <2>5. Ledger(r)'
    BY <2>1, <2>3, <2>4 DEF Ledger, dbVars
  <2>6. \A s \in Request \ {r} : Saving(s) => request[s].game # g
    BY DEF InsertGame, BlockedBy
  <2>7. Fresh'
    BY <2>1 DEF Booked, Fresh, Busy
  <2>8. Ledgers'
    BY <2>2, <2>5 DEF Booked, Ledgers
  <2>9. Apart'
    <3> SUFFICES ASSUME NEW s \in Request, NEW t \in Request, s # t, Saving(s)', Saving(t)'
                 PROVE  /\ request'[s].game # request'[t].game
                        /\ Locked(s)' \cap Locked(t)' = {}
      BY DEF Apart
    <3>1. CASE s # r /\ t # r
      BY <2>1, <2>2, <3>1 DEF Booked, Apart
    <3>2. CASE s = r
      BY <2>1, <2>2, <2>3, <2>6, <3>2
    <3>3. CASE t = r
      BY <2>1, <2>2, <2>3, <2>6, <3>3
    <3> QED
      BY <3>1, <3>2, <3>3
  <2> QED
    BY <2>7, <2>8, <2>9 DEF Booked
<1> QED
  BY <1>2, <1>3

LEMMA UpsertBooked ==
  ASSUME TypeOK, Booked, NEW r \in Request, UpsertStats(r)
  PROVE  Booked'
<1>0. PICK u \in User : u = NextMember(r)
  BY UpsertEffect
<1> DEFINE g == request[r].game
           k == request[r].done
           old == Totals(r, u)
           later == IF g >= old.last THEN g ELSE old.last
           played == [request[r].played EXCEPT ![u] = old.played + 1]
           last == [request[r].last EXCEPT ![u] = later]
           new == [request[r] EXCEPT !.done = k + 1, !.played = played, !.last = last]
<1>1. /\ Busy(r) /\ request[r] \in RequestType /\ Saving(r)
      /\ new \in RequestType /\ request' = [request EXCEPT ![r] = new]
  BY <1>0, UpsertEffect DEF TypeOK, Busy, UpsertStats
<1>2. /\ new.done = k + 1 /\ new.game = g /\ new.state = request[r].state
      /\ new.played = played /\ new.last = last
  BY <1>1 DEF RequestType
<1>3. /\ request[r].played \in [User -> Nat] /\ request[r].last \in [User -> Nat]
      /\ k \in Nat /\ g \in Game /\ g \in Nat /\ Roster[g] \in Seq(User)
  BY <1>1, GameAssumption, RosterAssumption DEF RequestType
<1>4. /\ played[u] = old.played + 1 /\ last[u] = later
      /\ \A v \in User \ {u} : played[v] = request[r].played[v] /\ last[v] = request[r].last[v]
  BY <1>1, <1>3
<1> HIDE DEF played, last, new
<1>5. /\ request'[r].state = "saving" /\ request'[r].game = g /\ request'[r].done = k + 1
      /\ request'[r].played = played /\ request'[r].last = last
      /\ \A s \in Request \ {r} : request'[s] = request[s]
      /\ UNCHANGED dbVars
  BY <1>1, <1>2 DEF UpsertStats, Saving, TypeOK
<1>6. k < Len(Roster[g]) /\ u = Roster[g][k + 1]
  BY <1>0 DEF UpsertStats, NextMember
<1>7. Locked(r)' = Locked(r) \cup {u} /\ Locked(r) \subseteq User
  <2>1. 1 .. k + 1 = 1 .. k \cup {k + 1}
    <3>1. \A n \in Nat : 1 .. n + 1 = 1 .. n \cup {n + 1}
      OBVIOUS
    <3> QED
      BY ONLY <1>3, <3>1
  <2>2. Locked(r) = {Roster[g][i] : i \in 1 .. k}
    BY DEF Locked
  <2>3. Locked(r)' = {Roster[g][i] : i \in 1 .. k + 1}
    BY <1>5 DEF Locked
  <2>4. \A i \in 1 .. k : Roster[g][i] \in User
    BY <1>3, <1>6
  <2> HIDE DEF g, k
  <2> QED
    BY <1>6, <2>1, <2>2, <2>3, <2>4
<1>8. \A s \in Request \ {r} : /\ Saving(s)' <=> Saving(s)
                               /\ Ledger(s)' <=> Ledger(s)
                               /\ Locked(s)' = Locked(s)
  BY <1>5 DEF Saving, Ledger, Version, Locked, dbVars
<1>9. \A s \in Request \ {r} : Saving(s) => request[s].game # g /\ u \notin Locked(s)
  BY <1>0, <1>1, <1>6 DEF UpsertStats, BlockedBy, Booked, Apart
<1>10. Fresh'
  BY <1>5 DEF Booked, Fresh, Busy
<1>11. Ledger(r)'
  <2>1. Ledger(r) /\ lastPlayed \in [User -> Nat] /\ gamesPlayed \in [User -> Nat]
    BY <1>1 DEF Booked, Ledgers, TypeOK
  <2>2. Version(r, u)'
    <3>1. RowsTo(g, u, k + 1) = RowsTo(g, u, k) + 1 /\ RowsTo(g, u, k) \in Nat
      BY <1>3, <1>6, RowsStep, RowsType
    <3>2. old.played = gamesPlayed[u] + RowsTo(g, u, k)
      <4>1. CASE u \in Locked(r)
        BY <2>1, <4>1 DEF Totals, Ledger, Version
      <4>2. CASE u \notin Locked(r)
        <5>1. RowsTo(g, u, k) = 0
          BY <1>3, <4>2, RowsType DEF Locked
        <5> QED
          BY <1>1, <2>1, <4>2, <5>1 DEF Totals
      <4> QED
        BY <4>1, <4>2
    <3>3. later = IF lastPlayed[u] >= g THEN lastPlayed[u] ELSE g
      <4>1. lastPlayed[u] \in Nat
        BY <1>1, <2>1
      <4>2. CASE u \in Locked(r)
        BY <1>3, <2>1, <4>1, <4>2 DEF Totals, Ledger, Version
      <4>3. CASE u \notin Locked(r)
        BY <1>3, <4>1, <4>3 DEF Totals
      <4> QED
        BY <4>2, <4>3
    <3>4. gamesPlayed[u] \in Nat
      BY <1>1, <2>1
    <3> HIDE DEF g, k, old, later
    <3>5. played[u] = gamesPlayed[u] + RowsTo(g, u, k + 1)
      BY <1>4, <3>1, <3>2, <3>4
    <3> QED
      BY <1>4, <1>5, <3>3, <3>5 DEF Version, dbVars
  <2>3. ASSUME NEW v \in Locked(r), v # u PROVE Version(r, v)'
    <3>1. RowsTo(g, v, k + 1) = RowsTo(g, v, k) /\ v \in User
      BY <1>3, <1>6, <1>7, <2>3, RowsStep
    <3>2. Version(r, v)
      BY <2>1 DEF Ledger
    <3> QED
      BY <1>4, <1>5, <2>3, <3>1, <3>2 DEF Version, dbVars
  <2>4. \A v \in Locked(r)' : Version(r, v)'
    BY <1>7, <2>2, <2>3
  <2>5. k + 1 <= Len(Roster[g])
    BY <1>3, <1>6
  <2> QED
    BY <1>5, <2>1, <2>4, <2>5 DEF Ledger, dbVars
<1>12. Ledgers'
  BY <1>8, <1>11 DEF Booked, Ledgers
<1>13. Apart'
  <2> SUFFICES ASSUME NEW s \in Request, NEW t \in Request, s # t, Saving(s)', Saving(t)'
               PROVE  /\ request'[s].game # request'[t].game
                      /\ Locked(s)' \cap Locked(t)' = {}
    BY DEF Apart
  <2>1. CASE s # r /\ t # r
    BY <1>5, <1>8, <2>1 DEF Booked, Apart
  <2>2. ASSUME NEW o \in Request \ {r}, Saving(o)
        PROVE  Locked(o)' \cap Locked(r)' = {} /\ request'[o].game # g
    BY <1>1, <1>5, <1>7, <1>8, <1>9, <2>2 DEF Booked, Apart
  <2>3. CASE s = r
    BY <1>5, <1>8, <2>2, <2>3
  <2>4. CASE t = r
    BY <1>5, <1>8, <2>2, <2>4
  <2> QED
    BY <2>1, <2>3, <2>4
<1> QED
  BY <1>10, <1>12, <1>13 DEF Booked

\* A commit is one step of Recording, and the books of the others stay right.
LEMMA CommitBooked ==
  ASSUME TypeOK, Booked, NEW r \in Request, Commit(r)
  PROVE  Booked' /\ Recorded!Record(request[r].game)
<1> DEFINE g == request[r].game
           k == request[r].done
<1>1. /\ Saving(r) /\ Busy(r) /\ request[r] \in RequestType /\ k = Len(Roster[g])
  BY DEF Commit, Saving, Busy, TypeOK
<1>2. /\ k \in Nat /\ g \in Game /\ g \in Nat /\ Roster[g] \in Seq(User)
      /\ gamesPlayed \in [User -> Nat] /\ lastPlayed \in [User -> Nat]
  BY <1>1, GameAssumption, RosterAssumption DEF RequestType, TypeOK
<1>3. Ledger(r)
  BY <1>1 DEF Booked, Ledgers
<1>4. /\ request'[r].state = "saved" /\ \A s \in Request \ {r} : request'[s] = request[s]
      /\ games' = games \cup {g}
  BY <1>1 DEF Commit, SetState, RequestType, TypeOK
<1>5. \A u \in User \ Locked(r) : gamesPlayed'[u] = gamesPlayed[u] /\ lastPlayed'[u] = lastPlayed[u]
  BY DEF Commit
<1>6. ASSUME NEW s \in Request, Saving(s)'
      PROVE  /\ s # r /\ Saving(s) /\ request'[s] = request[s] /\ Locked(s)' = Locked(s)
             /\ request[s].game # g /\ Locked(s) \cap Locked(r) = {} /\ Locked(s) \subseteq User
  <2>1. s # r /\ Saving(s) /\ request'[s] = request[s]
    BY <1>4, <1>6 DEF Saving
  <2>2. Locked(s)' = Locked(s)
    BY <2>1 DEF Locked
  <2>3. Ledger(s) /\ request[s] \in RequestType
    BY <2>1 DEF Booked, Ledgers, Saving, TypeOK
  <2>4. Locked(s) \subseteq User
    BY <2>3, RosterAssumption DEF Locked, Ledger, RequestType
  <2> QED
    BY <1>1, <2>1, <2>2, <2>4 DEF Booked, Apart
<1>7. Fresh'
  BY <1>4 DEF Booked, Fresh, Busy
<1>8. Ledgers'
  <2> SUFFICES ASSUME NEW s \in Request, Saving(s)' PROVE Ledger(s)'
    BY DEF Ledgers
  <2>1. Ledger(s)
    BY <1>6 DEF Booked, Ledgers
  <2>2. \A u \in Locked(s) : gamesPlayed'[u] = gamesPlayed[u] /\ lastPlayed'[u] = lastPlayed[u]
    BY <1>5, <1>6
  <2> QED
    BY <1>4, <1>6, <2>1, <2>2 DEF Ledger, Version
<1>9. Apart'
  BY <1>6 DEF Booked, Apart
<1>10. Recorded!Record(g)
  <2>1. \A u \in User : Recorded!Rows(g, u) = RowsTo(g, u, k)
    <3>1. DOMAIN Roster[g] = 1 .. k
      BY <1>1, <1>2
    <3>2. ASSUME NEW u \in User PROVE Recorded!Rows(g, u) = RowsTo(g, u, k)
      <4>1. {i \in DOMAIN Roster[g] : Roster[g][i] = u} = {i \in 1 .. k : Roster[g][i] = u}
        BY <3>1
      <4> HIDE DEF g, k
      <4> QED
        BY <4>1 DEF Recorded!Rows, RowsTo, Recorded!Cardinality, Cardinality
    <3> QED
      BY <3>2
  <2>2. \A u \in User : RowsTo(g, u, k) \in Nat /\ (RowsTo(g, u, k) = 0 <=> u \notin Locked(r))
    <3> TAKE u \in User
    <3>1. u \in Locked(r) <=> \E i \in 1 .. k : Roster[g][i] = u
      BY DEF Locked
    <3> HIDE DEF g, k
    <3> QED
      BY <1>2, <3>1, RowsType
  <2>3. gamesPlayed' = [u \in User |-> gamesPlayed[u] + Recorded!Rows(g, u)]
    <3>1. \A u \in User : (IF u \in Locked(r) THEN request[r].played[u] ELSE gamesPlayed[u])
                          = gamesPlayed[u] + Recorded!Rows(g, u)
      BY <1>2, <1>3, <2>1, <2>2 DEF Ledger, Version
    <3> QED
      BY <3>1 DEF Commit
  <2>4. lastPlayed' = [u \in User |-> IF Recorded!Rows(g, u) = 0 THEN lastPlayed[u]
                                      ELSE Recorded!Later(lastPlayed[u], g)]
    <3>1. \A u \in User : (IF u \in Locked(r) THEN request[r].last[u] ELSE lastPlayed[u])
                          = IF Recorded!Rows(g, u) = 0 THEN lastPlayed[u]
                            ELSE Recorded!Later(lastPlayed[u], g)
      BY <1>3, <2>1, <2>2 DEF Ledger, Version, Recorded!Later
    <3> QED
      BY <3>1 DEF Commit
  <2> QED
    BY <1>3, <1>4, <2>3, <2>4 DEF Ledger, Recorded!Record
<1> QED
  BY <1>7, <1>8, <1>9, <1>10 DEF Booked

LEMMA StepBooked ==
  TypeOK /\ Booked /\ [Next]_vars => Booked' /\ (UNCHANGED dbVars \/ Recorded!Next)
<1> SUFFICES ASSUME TypeOK, Booked, [Next]_vars
             PROVE  Booked' /\ (UNCHANGED dbVars \/ Recorded!Next)
  OBVIOUS
<1>1. ASSUME UNCHANGED <<request, dbVars>> PROVE Booked'
  BY <1>1, SameBooked DEF SameWork, Busy
<1>2. CASE (\E g \in Game : Finish(g)) \/ ChannelOpens \/ OpenFails \/ PublisherCutOff
           \/ Arrive \/ UNCHANGED vars
           \/ (\E w \in Worker : StartWorker(w) \/ Requeue(w))
  <2>1. UNCHANGED <<request, dbVars>>
    BY <1>2 DEF Finish, ChannelOpens, OpenFails, PublisherCutOff, Arrive, vars, StartWorker, Requeue
  <2> QED
    BY <1>1, <2>1
<1>3. ASSUME NEW w \in Worker, NEW r \in Request, Receive(w, r)
      PROVE  Booked' /\ UNCHANGED dbVars
  <2>1. /\ request'[r].state = "sent" /\ request'[r].done = 0 /\ UNCHANGED dbVars
        /\ \A s \in Request \ {r} : request'[s] = request[s]
    BY <1>3 DEF Receive, TypeOK
  <2>2. \A s \in Request \ {r} : Busy(s)' => SameWork(s)
    BY <2>1 DEF SameWork, Busy
  <2> QED
    BY <2>1, <2>2, SameBooked
<1>4. ASSUME NEW r \in Request, AnswerNobody(r) \/ \E w \in Worker : Respond(w, r)
      PROVE  Booked' /\ UNCHANGED dbVars
  <2>1. /\ request'[r] = Null /\ \A s \in Request \ {r} : request'[s] = request[s]
        /\ UNCHANGED dbVars
    BY <1>4 DEF AnswerNobody, Respond, TypeOK
  <2>2. \A s \in Request : Busy(s)' => SameWork(s)
    BY <2>1 DEF SameWork, Busy
  <2> QED
    BY <2>1, <2>2, SameBooked
<1>5. ASSUME NEW w \in Worker, DeliveryFails(w) \/ StopWorker(w)
      PROVE  Booked' /\ UNCHANGED dbVars
  <2>1. Orphan(w) /\ UNCHANGED dbVars
    BY <1>5 DEF DeliveryFails, StopWorker
  <2>2. \A s \in Request : Busy(s) => request[s] \in RequestType
    BY DEF TypeOK, Busy
  <2>3. \A s \in Request : Busy(s)' => SameWork(s)
    BY <2>1, <2>2 DEF Orphan, SameWork, Busy, RequestType
  <2> QED
    BY <2>1, <2>3, SameBooked
<1>6. ASSUME NEW r \in Request, Refuse(r) \/ Rollback(r) PROVE Booked' /\ UNCHANGED dbVars
  <2>1. \E state \in Final : SetState(r, state)
    BY <1>6 DEF Refuse, Rollback, Final
  <2>2. UNCHANGED dbVars /\ Busy(r)
    BY <1>6 DEF Refuse, Rollback, Busy
  <2>3. /\ request'[r].state \in Final /\ \A s \in Request \ {r} : request'[s] = request[s]
    <3>1. request[r] \in RequestType
      BY <2>2 DEF TypeOK, Busy
    <3> QED
      BY <2>1, <3>1 DEF SetState, TypeOK, RequestType
  <2>4. \A s \in Request \ {r} : Busy(s)' => SameWork(s)
    BY <2>3 DEF SameWork, Busy
  <2> QED
    BY <2>2, <2>3, <2>4, SameBooked
<1>7. ASSUME NEW r \in Request, InsertGame(r) \/ UpsertStats(r)
      PROVE  Booked' /\ UNCHANGED dbVars
  BY <1>7, InsertBooked, UpsertBooked DEF InsertGame, UpsertStats
<1>8. ASSUME NEW r \in Request, Commit(r) PROVE Booked' /\ Recorded!Next
  <2>1. request[r].game \in Game
    BY <1>8 DEF Commit, Saving, TypeOK, RequestType
  <2> QED
    BY <1>8, <2>1, CommitBooked DEF Recorded!Next
<1>9. CASE \E w \in Worker : WorkerStep(w) \/ DeliveryFails(w) \/ StopWorker(w)
  <2>1. PICK w \in Worker : WorkerStep(w) \/ DeliveryFails(w) \/ StopWorker(w)
    BY <1>9
  <2>2. CASE StartWorker(w) \/ Requeue(w)
    BY <1>2, <2>2 DEF StartWorker, Requeue
  <2> QED
    BY <1>3, <1>4, <1>5, <2>1, <2>2 DEF WorkerStep
<1>10. CASE \E r \in Request : UserService(r) \/ SaveFails(r)
  BY <1>4, <1>6, <1>7, <1>8, <1>10 DEF UserService, SaveFails, BrokenSaveFails, DeadlockDetected
<1>11. CASE UNCHANGED vars
  BY <1>2, <1>11 DEF vars
<1>12. CASE (\E g \in Game : Finish(g)) \/ ChannelOpens \/ OpenFails \/ PublisherCutOff \/ Arrive
  BY <1>2, <1>12 DEF Finish, ChannelOpens, OpenFails, PublisherCutOff, Arrive
<1> QED
  BY <1>9, <1>10, <1>11, <1>12 DEF Next

\* HistoryService.saveGameResult with its retries: however requests overlap,
\* wait for each other, are abandoned, repeated or rolled back, a game is
\* recorded at most once, whole, and user_stats is the sum of what is recorded.
THEOREM ImplementsRecording == Spec => RecordedAtMostOnce
<1>1. Init => TypeOK /\ Booked /\ Recorded!Init
  <2>1. Init => Booked
    BY DEF Init, Booked, Fresh, Ledgers, Apart, Busy, Saving
  <2> QED
    BY <2>1, InitTyped DEF Init, Recorded!Init
<1>2. TypeOK /\ Booked /\ [Next]_vars => (TypeOK /\ Booked)'
  BY StepTyped, StepBooked
<1>3. TypeOK /\ Booked /\ [Next]_vars => [Recorded!Next]_<<games, gamesPlayed, lastPlayed>>
  BY StepBooked DEF dbVars
<1> QED
  BY <1>1, <1>2, <1>3, PTL DEF Spec, RecordedAtMostOnce, Recorded!Spec
=============================================================================
