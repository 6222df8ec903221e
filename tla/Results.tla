------------------------------- MODULE Results -------------------------------
(***************************************************************************)
(* A game result on its way from endGame to the totals of its players:     *)
(* the publisher of a shard (events.ts), the game.events queue, the        *)
(* results workers, and the transaction of the user service                *)
(* (HistoryService.saveGameResult) on Postgres.                            *)
(*                                                                         *)
(* RabbitMQ and Postgres are modelled by what the code relies on: unacked  *)
(* messages go back to their place at the head of the queue, an INSERT     *)
(* waits for an uncommitted row with the same key, and an upsert holds its *)
(* row until the transaction ends.  A wait cycle is broken by aborting one *)
(* of its transactions.                                                    *)
(*                                                                         *)
(* Operators named ..._Faulty hold a plausible mistake; see module Room.   *)
(***************************************************************************)
EXTENDS Integers, Sequences, FiniteSets, Functions

CONSTANTS
  Game,        \* game ids, numbered by the finishedAt of their event
  User,        \* members
  Roster,      \* the members among the players of each game, in rank order
  Worker,      \* results-worker processes
  Request,     \* places for HTTP requests inside the user service
  Invalid,     \* games whose event the DTO refuses with 400
  Broken,      \* games whose transaction fails each time
  Null,
  FaultBound   \* bound of the model: connection losses, timeouts, crashes, ...

ASSUME GameAssumption == Game \subseteq Nat \ {0}
ASSUME RosterAssumption == Roster \in [Game -> Seq(User)]
ASSUME KindsAssumption == Invalid \subseteq Game /\ Broken \subseteq Game
ASSUME FaultBoundAssumption == FaultBound \in Nat

\* The outcomes of deliver.
Final == {"saved", "duplicate", "rejected", "unavailable"}

\* A request: whose message it carries, how far its transaction is (the number
\* of player rows it has added), and that transaction's version of user_stats.
RequestType ==
  [worker : Worker \cup {Null}, game : Game,
   state : {"sent", "saving"} \cup Final, done : Nat,
   played : [User -> Nat], last : [User -> Nat]]

ASSUME NullAssumption ==
  Null \notin Game \cup Worker \cup User /\ Null \notin RequestType

VARIABLES
  finished,    \* games endGame has handed to publishGameEvent
  channel,     \* the publisher: "none", "opening" or "open"
  waiting,     \* publishGameEvent calls that await openChannel()
  wire,        \* sent by sendToQueue, not yet at the broker
  lost,        \* history: results the publisher gave up or lost
  queue,       \* ready messages of game.events
  worker,      \* "down", "idle", "delivering" or "backoff"
  holding,     \* the unacked message of a worker (prefetch 1)
  request,     \* what the user service is doing for a POST /internal/games
  games,       \* committed rows of table games
  gamesPlayed, \* committed user_stats.games_played
  lastPlayed,  \* committed user_stats.last_played_at
  faults       \* faults so far, for FaultBound

publisherVars == <<finished, channel, waiting, wire, lost>>
workerVars == <<worker, holding>>
dbVars == <<games, gamesPlayed, lastPlayed>>
vars == <<publisherVars, queue, workerVars, request, dbVars, faults>>

Fault == faults < FaultBound /\ faults' = faults + 1

Init ==
  /\ finished = {} /\ channel = "none" /\ waiting = <<>> /\ wire = <<>>
  /\ lost = {} /\ queue = <<>>
  /\ worker = [w \in Worker |-> "down"]
  /\ holding = [w \in Worker |-> Null]
  /\ request = [r \in Request |-> Null]
  /\ games = {}
  /\ gamesPlayed = [u \in User |-> 0]
  /\ lastPlayed = [u \in User |-> 0]
  /\ faults = 0

-----------------------------------------------------------------------------
(* The publisher.                                                          *)

\* publishGameEvent: getChannel, then sendToQueue. finishedAt is the time of
\* the call, and games are numbered by it.
Finish(g) ==
  /\ g \notin finished /\ \A h \in Game : h < g => h \in finished
  /\ finished' = finished \cup {g}
  /\ \/ /\ channel = "open"
        /\ wire' = Append(wire, g)
        /\ UNCHANGED <<channel, waiting>>
     \/ /\ channel # "open"
        /\ channel' = "opening"
        /\ waiting' = Append(waiting, g)
        /\ UNCHANGED wire
  /\ UNCHANGED <<lost, queue, workerVars, request, dbVars, faults>>

ChannelOpens ==
  /\ channel = "opening"
  /\ channel' = "open"
  /\ wire' = wire \o waiting /\ waiting' = <<>>
  /\ UNCHANGED <<finished, lost, queue, workerVars, request, dbVars, faults>>

\* openChannel resolves to null: every call that awaits it drops its event.
OpenFails ==
  /\ channel = "opening" /\ Fault
  /\ channel' = "none"
  /\ lost' = lost \cup Range(waiting) /\ waiting' = <<>>
  /\ UNCHANGED <<finished, wire, queue, workerVars, request, dbVars>>

\* The "close" event of the connection. What the broker has not read is gone.
PublisherCutOff ==
  /\ channel = "open" /\ Fault
  /\ channel' = "none"
  /\ lost' = lost \cup Range(wire) /\ wire' = <<>>
  /\ UNCHANGED <<finished, waiting, queue, workerVars, request, dbVars>>

Arrive ==
  /\ wire # <<>>
  /\ queue' = Append(queue, Head(wire)) /\ wire' = Tail(wire)
  /\ UNCHANGED <<finished, channel, waiting, lost, workerVars, request, dbVars,
                 faults>>

-----------------------------------------------------------------------------
(* A results worker.                                                       *)

\* main(): connected, prefetch(1), consuming.
StartWorker(w) ==
  /\ worker[w] = "down"
  /\ worker' = [worker EXCEPT ![w] = "idle"]
  /\ UNCHANGED <<publisherVars, queue, holding, request, dbVars, faults>>

\* handleMessage up to the fetch in deliver.
Receive(w, r) ==
  /\ worker[w] = "idle" /\ queue # <<>> /\ request[r] = Null
  /\ holding' = [holding EXCEPT ![w] = Head(queue)]
  /\ queue' = Tail(queue)
  /\ worker' = [worker EXCEPT ![w] = "delivering"]
  /\ request' = [request EXCEPT ![r] =
       [worker |-> w, game |-> Head(queue), state |-> "sent", done |-> 0,
        played |-> gamesPlayed, last |-> lastPlayed]]
  /\ UNCHANGED <<publisherVars, dbVars, faults>>

Acked_Faulty(outcome) == outcome \in Final
\* The outcomes of deliver after which the message is acked.
Acked(outcome) == outcome \in {"saved", "duplicate", "rejected"}

\* The response: ack, or sleep before the nack.
Respond(w, r) ==
  /\ worker[w] = "delivering" /\ request[r] # Null
  /\ request[r].worker = w /\ request[r].state \in Final
  /\ request' = [request EXCEPT ![r] = Null]
  /\ \/ /\ Acked(request[r].state)
        /\ worker' = [worker EXCEPT ![w] = "idle"]
        /\ holding' = [holding EXCEPT ![w] = Null]
     \/ /\ ~Acked(request[r].state)
        /\ worker' = [worker EXCEPT ![w] = "backoff"]
        /\ UNCHANGED holding
  /\ UNCHANGED <<publisherVars, queue, dbVars, faults>>

\* The user service goes on with a request nobody waits for any more.
Orphan(w) ==
  request' = [r \in Request |->
                IF request[r] # Null /\ request[r].worker = w
                THEN [request[r] EXCEPT !.worker = Null] ELSE request[r]]

\* fetch throws: refused, reset, or DELIVER_TIMEOUT_MS is over.
DeliveryFails(w) ==
  /\ worker[w] = "delivering" /\ Fault
  /\ worker' = [worker EXCEPT ![w] = "backoff"]
  /\ Orphan(w)
  /\ UNCHANGED <<publisherVars, queue, holding, dbVars>>

\* The broker puts an unacked message back where it was.
Redelivered(w) == IF holding[w] = Null THEN queue ELSE <<holding[w]>> \o queue

\* nack(msg, false, true) after REQUEUE_DELAY_MS.
Requeue(w) ==
  /\ worker[w] = "backoff"
  /\ worker' = [worker EXCEPT ![w] = "idle"]
  /\ queue' = Redelivered(w)
  /\ holding' = [holding EXCEPT ![w] = Null]
  /\ UNCHANGED <<publisherVars, request, dbVars, faults>>

\* A crash, the end of its connection, or shutdown(), at any point.
StopWorker(w) ==
  /\ worker[w] # "down" /\ Fault
  /\ worker' = [worker EXCEPT ![w] = "down"]
  /\ queue' = Redelivered(w)
  /\ holding' = [holding EXCEPT ![w] = Null]
  /\ Orphan(w)
  /\ UNCHANGED <<publisherVars, dbVars>>

-----------------------------------------------------------------------------
(* The user service: saveGameResult, one transaction per request.          *)

Saving(r) == request[r] # Null /\ request[r].state = "saving"

SetState(r, state) == request' = [request EXCEPT ![r].state = state]

\* Members whose user_stats row the transaction of r has written.
Locked(r) == {Roster[request[r].game][i] : i \in 1 .. request[r].done}

NextMember(r) == Roster[request[r].game][request[r].done + 1]

\* Whose end r waits for: the insert of the same game, or a row r needs.
BlockedBy(r, s) ==
  /\ r # s /\ Saving(s)
  /\ \/ /\ request[r] # Null /\ request[r].state = "sent"
        /\ request[r].game = request[s].game
     \/ /\ Saving(r) /\ request[r].done < Len(Roster[request[r].game])
        /\ NextMember(r) \in Locked(s)

Refuse(r) ==
  /\ request[r] # Null /\ request[r].state = "sent"
  /\ request[r].game \in Invalid
  /\ SetState(r, "rejected")
  /\ UNCHANGED <<publisherVars, queue, workerVars, dbVars, faults>>

AlreadySaved_Faulty(g) == FALSE
AlreadySaved(g) == g \in games

\* INSERT INTO games ... ON CONFLICT (id) DO NOTHING RETURNING id
InsertGame(r) ==
  /\ request[r] # Null /\ request[r].state = "sent"
  /\ request[r].game \notin Invalid
  /\ \A s \in Request : ~BlockedBy(r, s)
  /\ SetState(r, IF AlreadySaved(request[r].game) THEN "duplicate" ELSE "saving")
  /\ UNCHANGED <<publisherVars, queue, workerVars, dbVars, faults>>

\* The totals of u that the transaction of r adds to: its own version of the
\* row, or the committed one (the upsert reads the row it locks).
Totals(r, u) ==
  IF u \in Locked(r)
  THEN [played |-> request[r].played[u], last |-> request[r].last[u]]
  ELSE [played |-> gamesPlayed[u], last |-> lastPlayed[u]]

\* One player of the loop.
UpsertStats(r) ==
  /\ Saving(r) /\ request[r].done < Len(Roster[request[r].game])
  /\ \A s \in Request : ~BlockedBy(r, s)
  /\ LET u == NextMember(r)
         g == request[r].game
         old == Totals(r, u)
     IN  request' = [request EXCEPT
           ![r].done = @ + 1,
           ![r].played[u] = old.played + 1,
           ![r].last[u] = IF g >= old.last THEN g ELSE old.last]
  /\ UNCHANGED <<publisherVars, queue, workerVars, dbVars, faults>>

Commit(r) ==
  /\ Saving(r) /\ request[r].done = Len(Roster[request[r].game])
  /\ request[r].game \notin Broken
  /\ SetState(r, "saved")
  /\ games' = games \cup {request[r].game}
  /\ gamesPlayed' = [u \in User |-> IF u \in Locked(r) THEN request[r].played[u]
                                                      ELSE gamesPlayed[u]]
  /\ lastPlayed' = [u \in User |-> IF u \in Locked(r) THEN request[r].last[u]
                                                     ELSE lastPlayed[u]]
  /\ UNCHANGED <<publisherVars, queue, workerVars, faults>>

\* A 5xx answer; the transaction, if any, is rolled back.
Rollback(r) ==
  /\ request[r] # Null /\ request[r].state \in {"sent", "saving"}
  /\ SetState(r, "unavailable")
  /\ UNCHANGED <<publisherVars, queue, workerVars, dbVars>>

SaveFails(r) == Fault /\ Rollback(r)

BrokenSaveFails(r) ==
  /\ Saving(r) /\ request[r].game \in Broken
  /\ Rollback(r) /\ UNCHANGED faults

\* Postgres aborts one of two transactions that wait for each other.
DeadlockDetected(r) ==
  /\ \E s \in Request : BlockedBy(r, s) /\ BlockedBy(s, r)
  /\ Rollback(r) /\ UNCHANGED faults

\* The answer to a request whose worker no longer waits.
AnswerNobody(r) ==
  /\ request[r] # Null /\ request[r].worker = Null
  /\ request[r].state \in Final
  /\ request' = [request EXCEPT ![r] = Null]
  /\ UNCHANGED <<publisherVars, queue, workerVars, dbVars, faults>>

-----------------------------------------------------------------------------
UserService(r) ==
  \/ Refuse(r) \/ InsertGame(r) \/ UpsertStats(r) \/ Commit(r)
  \/ BrokenSaveFails(r) \/ DeadlockDetected(r) \/ AnswerNobody(r)

WorkerStep(w) ==
  \/ StartWorker(w) \/ Requeue(w)
  \/ \E r \in Request : Receive(w, r) \/ Respond(w, r)

Next ==
  \/ \E g \in Game : Finish(g)
  \/ ChannelOpens \/ OpenFails \/ PublisherCutOff \/ Arrive
  \/ \E w \in Worker : WorkerStep(w) \/ DeliveryFails(w) \/ StopWorker(w)
  \/ \E r \in Request : UserService(r) \/ SaveFails(r)

Spec == Init /\ [][Next]_vars

\* The k-th upsert of a transaction for g.
Upsert(g, k) ==
  \E r \in Request : /\ request[r] # Null /\ request[r].game = g
                    /\ request[r].done = k - 1 /\ UpsertStats(r)

\* The broker pushes g to a worker.
Delivery(g) ==
  \E w \in Worker, r \in Request :
    queue # <<>> /\ Head(queue) = g /\ Receive(w, r)

\* Processes that run go on running: the broker reads its socket and pushes
\* to consumers, a worker is restarted and its timers fire, Postgres and the
\* user service answer. The strong fairness is what REQUEUE_DELAY_MS buys: what
\* failed comes back that much later, so that whoever waited meanwhile goes
\* first. Postgres gives a freed row lock to the transaction that waits for it,
\* and the broker the message at the head to a worker that has no message.
Fairness ==
  /\ WF_vars(Arrive)
  /\ \A w \in Worker : WF_vars(WorkerStep(w))
  /\ \A r \in Request : WF_vars(UserService(r))
  /\ \A g \in Game : \A k \in 2 .. Len(Roster[g]) : SF_vars(Upsert(g, k))
  /\ \A g \in Game : SF_vars(Delivery(g))

FairSpec == Spec /\ Fairness

-----------------------------------------------------------------------------
(* Properties.                                                             *)

TypeOK ==
  /\ finished \subseteq Game /\ lost \subseteq Game /\ games \subseteq Game
  /\ channel \in {"none", "opening", "open"}
  /\ waiting \in Seq(Game) /\ wire \in Seq(Game) /\ queue \in Seq(Game)
  /\ worker \in [Worker -> {"down", "idle", "delivering", "backoff"}]
  /\ holding \in [Worker -> Game \cup {Null}]
  /\ request \in [Request -> RequestType \cup {Null}]
  /\ gamesPlayed \in [User -> Nat] /\ lastPlayed \in [User -> Nat]
  /\ faults \in Nat

\* Whatever is retried, timed out, orphaned or interleaved: a game counts once
\* for each of its player rows, wholly or not at all, and user_stats stays the
\* sum of game_players ("항상 game_players 와 일치한다", user-stats.entity.ts:4).
Recorded == INSTANCE Recording WITH recorded <- games
RecordedAtMostOnce == Recorded!Spec

\* A result the broker has is never lost: until it is saved, or refused for
\* its form, it is queued or held by a worker that has not acked it.
NoResultVanishes ==
  \A g \in finished :
    \/ g \in lost \cup Range(waiting) \cup Range(wire)
    \/ g \in Range(queue) \cup Range(holding)
    \/ g \in games \cup Invalid

\* With finitely many faults each queued result is saved, or refused, unless
\* its own transaction fails each time: a result that cannot be saved does not
\* stop those behind it, as long as a second worker takes them.
QueuedIsSettled ==
  \A g \in Game \ Broken : g \in Range(queue) ~> g \in games \cup Invalid
=============================================================================
