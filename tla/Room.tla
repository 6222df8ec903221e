-------------------------------- MODULE Room --------------------------------
(***************************************************************************)
(* One room of a game-session shard: the class Room of room.ts driven by   *)
(* the rules of game.ts and by the handlers of index.ts.                   *)
(*                                                                         *)
(* A Node process runs one handler or timer callback at a time, to its     *)
(* end, and none of the handlers modelled here awaits: each is one action. *)
(* A handler that calls startRound, endRound or endGame is the conjunction *)
(* of its own assignments and of the operator of that name; an operator    *)
(* that runs after an assignment of its caller reads the primed variable.  *)
(*                                                                         *)
(* Redis, sockets and the event queue only receive what a room sends and   *)
(* are left to other modules; `results' keeps what endGame publishes, and  *)
(* `reveals' the "round-ended" broadcasts of the current game.             *)
(*                                                                         *)
(* An operator whose name ends in _Faulty (or _Faulty2) is not part of the *)
(* model: it is the operator of that name with a plausible mistake in it,  *)
(* kept to show that a property notices the mistake.                       *)
(***************************************************************************)
EXTENDS Integers, Sequences, FiniteSets, Functions

CONSTANTS
  Player,                \* player ids: randomUUID() per join, so an id joins once
  Word,                  \* WORDS of words.ts
  Mark,                  \* what a segment looks like: a StrokeSegment's points
  Null,                  \* JavaScript null
  Capacity,              \* DEFAULT_ROOM_CAPACITY
  MinPlayersToStart,     \* MIN_PLAYERS_TO_START
  MaxRounds,             \* MAX_ROUNDS
  MaxBufferedStrokes,    \* MAX_BUFFERED_STROKES
  RoundDuration,         \* ROUND_DURATION_MS
  BaseAnswerScore,       \* BASE_ANSWER_SCORE
  SpeedBonusScore,       \* SPEED_BONUS_SCORE
  DrawerScorePerSolver,  \* DRAWER_SCORE_PER_SOLVER
  GameBound              \* bound of the model: games started in one room

ASSUME NullAssumption == Null \notin Player \cup Word \cup Nat \cup {"set"}
ASSUME WordAssumption == Word # {}
ASSUME RulesAssumption ==
  /\ Capacity \in Nat /\ MaxBufferedStrokes \in Nat /\ GameBound \in Nat
  /\ MinPlayersToStart \in Nat /\ MinPlayersToStart >= 2
  /\ MaxRounds \in Nat \ {0}
  /\ RoundDuration \in Nat \ {0}
  /\ BaseAnswerScore \in Nat /\ SpeedBonusScore \in Nat
  /\ DrawerScorePerSolver \in Nat

VARIABLES
  players,       \* keys of Room.players
  score,         \* Player.score; 0 for an id that is not in the room
  phase,         \* GamePhase
  gameId,        \* id of the running game or Null: the n-th randomUUID() is n
  round,         \* rounds started in the current or last game
  totalRounds,   \* announced by "game-started"
  drawerId,      \* who draws in the running round
  word,          \* the word of the running round
  roundEndsAt,   \* "set" while the round clock runs; its value is not kept
  strokes,       \* replay buffer: what was drawn, by whom, in which round
  solved,        \* solvedPlayerIds
  drawerQueue,   \* players still to draw, in order
  usedWords,     \* words of this game; the order of the array is never read
  roundTimer,    \* which callback the armed timer will run
  results,       \* history: the "game-finished" events published
  reveals,       \* history: the "round-ended" broadcasts of this game
  games,         \* history: games started
  drawn,         \* history: players in the room who drew in this game
  gone           \* history: ids that have left

roomVars == <<players, score, phase, gameId, round, totalRounds, drawerId,
              word, roundEndsAt, strokes, solved, drawerQueue, usedWords,
              roundTimer>>
vars == <<roomVars, results, reveals, games, drawn, gone>>

Without_Faulty(q, p) == q    \* removePlayer forgets the queue

\* drawerQueue.filter((id) => id !== p); an id is queued at most once.
Without(q, p) ==
  IF p \notin Range(q) THEN q
  ELSE LET k == CHOOSE i \in DOMAIN q : q[i] = p
       IN  [i \in 1 .. Len(q) - 1 |-> IF i < k THEN q[i] ELSE q[i + 1]]

\* unsolvedGuesserCount is the cardinality of this set.
UnsolvedGuessers(ps, drawer, done) == ps \ (done \cup {drawer})

\* Words pickWord may return: the unused ones, any word once all are used.
PickWord(used) == IF Word \subseteq used THEN Word ELSE Word \ used

\* Math.round of the bonus for an answer with `ms' left on the round clock.
AnswerScore(ms) ==
  BaseAnswerScore +
    (2 * SpeedBonusScore * ms + RoundDuration) \div (2 * RoundDuration)

\* shuffle(ids).slice(0, n)
DrawOrders(ps, n) == {q \in [1 .. n -> ps] : IsInjective(q)}

-----------------------------------------------------------------------------
\* A new Room(id).
FreshRoom ==
  /\ players = {} /\ score = [p \in Player |-> 0]
  /\ phase = "waiting" /\ gameId = Null
  /\ round = 0 /\ totalRounds = 0
  /\ drawerId = Null /\ word = Null /\ roundEndsAt = Null
  /\ strokes = <<>> /\ solved = {} /\ drawerQueue = <<>> /\ usedWords = {}
  /\ roundTimer = "none"

Init ==
  /\ FreshRoom
  /\ results = <<>> /\ reveals = <<>> /\ games = 0 /\ drawn = {} /\ gone = {}

-----------------------------------------------------------------------------
GameFinished_Faulty(id, roundsPlayed) ==    \* counts completed rounds only
  [gameId |-> id, roundsPlayed |-> roundsPlayed - 1,
   players |-> players', score |-> score']

\* The event endGame publishes, without the ranks.
GameFinished(id, roundsPlayed) ==
  [gameId |-> id, roundsPlayed |-> roundsPlayed,
   players |-> players', score |-> score']

Publish_Faulty(id, roundsPlayed) ==          \* not when too few are left
  IF Cardinality(players') >= MinPlayersToStart
  THEN results' = Append(results, GameFinished(id, roundsPlayed))
  ELSE UNCHANGED results

Publish(id, roundsPlayed) ==
  results' = Append(results, GameFinished(id, roundsPlayed))

EndGame(id, roundsPlayed) ==
  /\ phase' = "ended"
  /\ gameId' = Null
  /\ drawerId' = Null /\ word' = Null /\ roundEndsAt' = Null
  /\ drawerQueue' = <<>>
  /\ roundTimer' = "none"
  /\ Publish(id, roundsPlayed)

ClearStrokes_Faulty == UNCHANGED strokes
ClearStrokes == strokes' = <<>>

\* The running game goes on in a new round, or ends when nobody is left to
\* draw. `queue', `started' and `used' are what startRound finds in the room.
StartRound(id, queue, started, used) ==
  IF queue # <<>> /\ Head(queue) \in players
  THEN /\ round' = started + 1
       /\ drawerId' = Head(queue)
       /\ drawerQueue' = Tail(queue)
       /\ \E w \in PickWord(used) : word' = w /\ usedWords' = used \cup {w}
       /\ roundEndsAt' = "set"
       /\ solved' = {}
       /\ ClearStrokes
       /\ roundTimer' = "round"
       /\ phase' = "playing" /\ gameId' = id
       /\ drawn' = (IF started = 0 THEN {} ELSE drawn) \cup {Head(queue)}
       /\ UNCHANGED results
  ELSE /\ EndGame(id, started)
       /\ round' = started /\ usedWords' = used
       /\ UNCHANGED <<solved, strokes, drawn>>

Reveal_Faulty ==                             \* reads the word once it is cleared
  reveals' = Append(reveals, [round |-> round, word |-> word'])
Reveal == reveals' = Append(reveals, [round |-> round, word |-> word])

ArmIntermission_Faulty == roundTimer' = "none"
ArmIntermission ==
  roundTimer' = IF players' = {} THEN "none" ELSE "intermission"

\* Reveals the word and arms the intermission. The caller has set players'.
EndRound ==
  /\ drawerId' = Null /\ word' = Null /\ roundEndsAt' = Null
  /\ Reveal
  /\ ArmIntermission
  /\ UNCHANGED <<phase, gameId, round, totalRounds, usedWords, strokes,
                 results, games>>

-----------------------------------------------------------------------------
PushDrawer_Faulty(p) == UNCHANGED drawerQueue
PushDrawer_Faulty2(p) ==                     \* the newcomer draws next
  drawerQueue' = IF phase = "playing" THEN <<p>> \o drawerQueue
                                      ELSE drawerQueue
PushDrawer(p) ==
  drawerQueue' = IF phase = "playing" THEN Append(drawerQueue, p)
                                      ELSE drawerQueue

\* handleJoin from the capacity check on, for a room the shard holds.
Join(p) ==
  /\ p \notin players \cup gone
  /\ Cardinality(players) < Capacity
  /\ players' = players \cup {p}
  /\ score' = [score EXCEPT ![p] = 0]
  /\ PushDrawer(p)
  /\ UNCHANGED <<phase, gameId, round, totalRounds, drawerId, word,
                 roundEndsAt, strokes, solved, usedWords, roundTimer,
                 results, reveals, games, drawn, gone>>

\* "start-game" from any player of the room.
StartGame ==
  /\ phase # "playing"
  /\ Cardinality(players) >= MinPlayersToStart
  /\ games < GameBound
  /\ games' = games + 1
  /\ score' = [p \in Player |-> 0]
  /\ totalRounds' = IF Cardinality(players) < MaxRounds
                    THEN Cardinality(players) ELSE MaxRounds
  /\ reveals' = <<>>
  /\ UNCHANGED <<players, gone>>
  /\ \E q \in DrawOrders(players, totalRounds') : StartRound(games', q, 0, {})

\* The solver is paid for speed, the drawer for each solver.
Award(p, ms) ==
  score' = [q \in Player |->
              IF q = p THEN score[q] + AnswerScore(ms)
              ELSE IF q = drawerId /\ q \in players
                   THEN score[q] + DrawerScorePerSolver
                   ELSE score[q]]

\* A chat line that normalizes to the answer, sent by somebody who may guess.
\* Every other chat line is broadcast or swallowed and changes nothing.
CorrectGuess(p) ==
  /\ phase = "playing" /\ word # Null
  /\ p \in UnsolvedGuessers(players, drawerId, solved)
  /\ solved' = solved \cup {p}
  /\ \E ms \in 0 .. RoundDuration : Award(p, ms)
  /\ UNCHANGED <<players, drawerQueue, drawn, gone>>
  /\ \/ /\ UnsolvedGuessers(players, drawerId, solved') = {}
        /\ EndRound
     \/ /\ UnsolvedGuessers(players, drawerId, solved') # {}
        /\ UNCHANGED <<phase, gameId, round, totalRounds, drawerId, word,
                       roundEndsAt, strokes, usedWords, roundTimer, results,
                       reveals, games>>

Draw(p, m) ==
  /\ phase = "playing" /\ p \in players /\ drawerId = p
  /\ Len(strokes) < MaxBufferedStrokes
  /\ strokes' = Append(strokes,
                 [game |-> gameId, round |-> round, by |-> p, mark |-> m])
  /\ UNCHANGED <<players, score, phase, gameId, round, totalRounds, drawerId,
                 word, roundEndsAt, solved, drawerQueue, usedWords,
                 roundTimer, results, reveals, games, drawn, gone>>

DrawClear(p) ==
  /\ phase = "playing" /\ p \in players /\ drawerId = p
  /\ ClearStrokes
  /\ UNCHANGED <<players, score, phase, gameId, round, totalRounds, drawerId,
                 word, roundEndsAt, solved, drawerQueue, usedWords,
                 roundTimer, results, reveals, games, drawn, gone>>

RoundTimeout_Faulty ==                       \* goes straight to the next round
  /\ roundTimer = "round" /\ phase = "playing"
  /\ UNCHANGED <<players, score, totalRounds, reveals, games, gone>>
  /\ StartRound(gameId, drawerQueue, round, usedWords)

\* The timer of startRound: the round ran out of time.
RoundTimeout ==
  /\ roundTimer = "round" /\ phase = "playing"
  /\ UNCHANGED <<players, score, solved, drawerQueue, drawn, gone>>
  /\ EndRound

NobodyLeftToDraw_Faulty == round >= totalRounds
NobodyLeftToDraw == drawerQueue = <<>>

\* The timer of endRound.
IntermissionTimeout ==
  /\ roundTimer = "intermission" /\ phase = "playing"
  /\ UNCHANGED <<players, score, totalRounds, reveals, games, gone>>
  /\ \/ /\ Cardinality(players) < MinPlayersToStart \/ NobodyLeftToDraw
        /\ EndGame(gameId, round)
        /\ UNCHANGED <<round, usedWords, solved, strokes, drawn>>
     \/ /\ Cardinality(players) >= MinPlayersToStart /\ ~NobodyLeftToDraw
        /\ StartRound(gameId, drawerQueue, round, usedWords)

-----------------------------------------------------------------------------
\* The parts of handleClose: removePlayer, handlePlayerLeftDuringGame by case,
\* and removeIfEmpty, after which the code of the room names a new Room.
RemovePlayer(p) ==
  /\ p \in players
  /\ players' = players \ {p}
  /\ score' = [score EXCEPT ![p] = 0]
  /\ drawn' = drawn \ {p}
  /\ gone' = gone \cup {p}

LeaveIdleRoom(p) ==
  /\ RemovePlayer(p)
  /\ phase # "playing" /\ players' # {}
  /\ solved' = solved \ {p}
  /\ drawerQueue' = Without(drawerQueue, p)
  /\ UNCHANGED <<phase, gameId, round, totalRounds, drawerId, word,
                 roundEndsAt, strokes, usedWords, roundTimer, results,
                 reveals, games>>

LeaveTooFew(p) ==
  /\ RemovePlayer(p)
  /\ phase = "playing" /\ Cardinality(players') < MinPlayersToStart
  /\ players' # {}
  /\ EndGame(gameId, round)
  /\ solved' = solved \ {p}
  /\ UNCHANGED <<round, totalRounds, strokes, usedWords, reveals, games>>

RoundIsOver_Faulty(p) == UnsolvedGuessers(players', drawerId, solved') = {}
RoundIsOver_Faulty2(p) == drawerId = p

\* The drawer left, or the last one who could still guess.
RoundIsOver(p) ==
  drawerId = p \/ UnsolvedGuessers(players', drawerId, solved') = {}

LeaveRound(p) ==
  /\ RemovePlayer(p)
  /\ phase = "playing" /\ Cardinality(players') >= MinPlayersToStart
  /\ solved' = solved \ {p}
  /\ drawerQueue' = Without(drawerQueue, p)
  /\ \/ /\ RoundIsOver(p)
        /\ EndRound
     \/ /\ ~RoundIsOver(p)
        /\ UNCHANGED <<phase, gameId, round, totalRounds, drawerId, word,
                       roundEndsAt, strokes, usedWords, roundTimer, results,
                       reveals, games>>

LeaveLast(p) ==
  /\ RemovePlayer(p)
  /\ players' = {}
  /\ IF phase = "playing" THEN Publish(gameId, round) ELSE UNCHANGED results
  /\ phase' = "waiting" /\ gameId' = Null
  /\ round' = 0 /\ totalRounds' = 0
  /\ drawerId' = Null /\ word' = Null /\ roundEndsAt' = Null
  /\ strokes' = <<>> /\ solved' = {} /\ drawerQueue' = <<>> /\ usedWords' = {}
  /\ roundTimer' = "none"
  /\ reveals' = <<>>
  /\ UNCHANGED games

Leave(p) == LeaveIdleRoom(p) \/ LeaveTooFew(p) \/ LeaveRound(p) \/ LeaveLast(p)

-----------------------------------------------------------------------------
Next ==
  \/ \E p \in Player :
       \/ Join(p) \/ CorrectGuess(p) \/ DrawClear(p) \/ Leave(p)
       \/ \E m \in Mark : Draw(p, m)
  \/ StartGame \/ RoundTimeout \/ IntermissionTimeout

Spec == Init /\ [][Next]_vars

-----------------------------------------------------------------------------
(* What the room promises.                                                 *)

Segment == [game : Nat, round : Nat, by : Player, mark : Mark]

TypeOK ==
  /\ players \in SUBSET Player /\ IsFiniteSet(players)
  /\ score \in [Player -> Nat]
  /\ phase \in {"waiting", "playing", "ended"}
  /\ gameId \in Nat \cup {Null}
  /\ round \in Nat /\ totalRounds \in Nat
  /\ drawerId \in Player \cup {Null}
  /\ word \in Word \cup {Null}
  /\ roundEndsAt \in {"set", Null}
  /\ strokes \in Seq(Segment)
  /\ solved \in SUBSET Player
  /\ drawerQueue \in Seq(Player)
  /\ usedWords \in SUBSET Word
  /\ roundTimer \in {"none", "round", "intermission"}
  /\ results \in Seq([gameId : Nat, roundsPlayed : Nat,
                      players : SUBSET Player, score : [Player -> Nat]])
  /\ reveals \in Seq([round : Nat, word : Word \cup {Null}])
  /\ games \in Nat
  /\ drawn \in SUBSET Player /\ gone \in SUBSET Player

\* A game never gets stuck: a room is playing exactly while one of its two
\* timers is armed, and only with enough players left. This is what makes the
\* size checks in endRound (game.ts:103) and in its callback (107) redundant.
GameNeverStuck ==
  /\ phase = "playing" <=> roundTimer # "none"
  /\ phase = "playing" => Cardinality(players) >= MinPlayersToStart

\* The fields startRound sets and endRound clears agree with each other and
\* with the armed timer, and the drawer they name is still in the room and
\* has not solved its own word, however players came and went meanwhile.
RoundFieldsAgree ==
  /\ word # Null <=> roundTimer = "round"
  /\ drawerId # Null <=> roundTimer = "round"
  /\ roundEndsAt # Null <=> roundTimer = "round"
  /\ drawerId # Null => drawerId \in players \ solved
  /\ gameId # Null <=> phase = "playing"

\* A round that nobody can solve any more is over: while a word is out,
\* somebody in the room may still guess it. Joins, answers and departures all
\* move this count, and three handlers have to test it.
OpenRoundHasGuesser ==
  word # Null => UnsolvedGuessers(players, drawerId, solved) # {}

\* Nobody draws twice in a game: those still to draw are in the room, queued
\* once, and have not drawn yet.
TurnsAreUnique ==
  /\ IsInjective(drawerQueue)
  /\ Range(drawerQueue) \subseteq players \ drawn
  /\ drawerId # Null => drawerId \in drawn

\* Everyone gets a turn: unless the game started with a queue cut at
\* MAX_ROUNDS, or the rounds it has had and has queued reach that number, each
\* player of a running game has drawn or is queued, newcomers included.
TurnsAreComplete ==
  /\ phase = "playing"
  /\ totalRounds < MaxRounds /\ round + Len(drawerQueue) < MaxRounds
  => players \subseteq drawn \cup Range(drawerQueue)

\* Every game that has ended has exactly one "game-finished" event, in order
\* and under its own id; the running game has none. The early return of
\* endGame (game.ts:140) and gameId = null keep it so.
EveryGamePublishedOnce ==
  /\ Len(results) = games - (IF phase = "playing" THEN 1 ELSE 0)
  /\ \A i \in DOMAIN results : results[i].gameId = i
  /\ phase = "playing" => gameId = games

\* A published result is worth keeping: at least one round was started and at
\* least one player is named. Departures end the game before the room is empty.
ResultsAreMeaningful ==
  \A i \in DOMAIN results :
    /\ results[i].roundsPlayed >= 1
    /\ results[i].players # {}

\* The word of each finished round of the running game was revealed once.
\* (Broadcasts with an empty word come on top: see EachRoundEndsOnce.)
FinishedRoundsRevealed ==
  phase = "playing" =>
    \A r \in 1 .. round :
      Cardinality({i \in DOMAIN reveals :
                     reveals[i].round = r /\ reveals[i].word # Null})
        = IF r = round /\ word # Null THEN 0 ELSE 1

\* What a newcomer is replayed was drawn in the latest round, by its drawer.
StrokesOfThisRound ==
  \A i \in DOMAIN strokes :
    /\ strokes[i].round = round /\ strokes[i].game = games
    /\ drawerId # Null => strokes[i].by = drawerId

\* Rounds are always separated by an intermission that shows the word: no
\* single handler replaces a word or a drawer by another one.
NoRoundSkipsIntermission ==
  [][word # Null /\ word' # Null => UNCHANGED <<word, drawerId, round>>]_vars

\* When a game ends with enough players left to go on and before MAX_ROUNDS
\* rounds, it is because each of them has drawn. (A queue that was not cut at
\* the start; whether a game may go past MAX_ROUNDS is not asked here.)
GameEndsAfterEveryTurn ==
  [][/\ phase = "playing" /\ phase' = "ended"
     /\ Cardinality(players') >= MinPlayersToStart
     /\ totalRounds < MaxRounds /\ round < MaxRounds
     => players' \subseteq drawn]_vars

\* The room takes turns as Turns says, which is where liveness is stated: no
\* other field of the room decides who draws next or which timer is armed.
\* The size checks of game.ts:103 and 107 never make a difference.
Turn == INSTANCE Turns
          WITH drawer <- drawerId, queue <- drawerQueue, timer <- roundTimer,
               arming <- IF roundTimer = "none" THEN 0 ELSE Len(reveals) % 2
ImplementsTurns == Turn!Spec

\* game.ts:15 and useRoomSocket.ts:39: the time between rounds shows the
\* answer of the round that ended. The code can end a round twice.
EachRoundEndsOnce ==
  \A i, j \in DOMAIN reveals : reveals[i].round = reveals[j].round => i = j

\* packages/shared/src/index.ts:84: MAX_ROUNDS is the greatest number of
\* rounds of a game, at which the number of players is cut. The code cuts the
\* queue when the game starts and then queues newcomers behind it.
RoundsWithinMaximum == round <= MaxRounds
=============================================================================
