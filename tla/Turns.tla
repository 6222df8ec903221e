------------------------------- MODULE Turns --------------------------------
(***************************************************************************)
(* What a room promises about turns: who is queued to draw, which timer    *)
(* moves the game on, and nothing else. Room implements this module (its   *)
(* property ImplementsTurns); liveness is checked here and not there.      *)
(*                                                                         *)
(* Liveness of a game is about players who come and go for ever, and each  *)
(* join makes a new randomUUID(). In this module an id that has left may   *)
(* join again and stands for such a newcomer, so a finite set of ids       *)
(* admits any number of joins and no bound cuts a behaviour off.           *)
(***************************************************************************)
EXTENDS Integers, Sequences, FiniteSets, Functions

CONSTANTS
  Player,             \* ids; one that has left may stand for a new player
  Null,
  Capacity,           \* DEFAULT_ROOM_CAPACITY
  MinPlayersToStart,  \* MIN_PLAYERS_TO_START
  MaxRounds           \* MAX_ROUNDS

VARIABLES
  players,  \* keys of Room.players
  drawer,   \* drawerId
  queue,    \* drawerQueue
  timer,    \* the callback the armed roundTimer will run; "none" between games
  arming    \* 0 or 1: tells an intermission timer from the one before it

vars == <<players, drawer, queue, timer, arming>>

\* shuffle(ids).slice(0, n)
DrawOrders(ps, n) == {q \in [1 .. n -> ps] : IsInjective(q)}

\* drawerQueue.filter((id) => id !== p); an id is queued at most once.
Without(q, p) ==
  IF p \notin Range(q) THEN q
  ELSE LET k == CHOOSE i \in DOMAIN q : q[i] = p
       IN  [i \in 1 .. Len(q) - 1 |-> IF i < k THEN q[i] ELSE q[i + 1]]

Init ==
  /\ players = {} /\ drawer = Null /\ queue = <<>>
  /\ timer = "none" /\ arming = 0

-----------------------------------------------------------------------------
PushDrawer_Faulty(p) == <<p>> \o queue       \* newcomers draw first
PushDrawer(p) == Append(queue, p)

Join(p) ==
  /\ p \notin players /\ Cardinality(players) < Capacity
  /\ players' = players \cup {p}
  /\ queue' = IF timer = "none" THEN queue ELSE PushDrawer(p)
  /\ UNCHANGED <<drawer, timer, arming>>

QueueAfterHead_Faulty(q) == Append(Tail(q), Head(q))    \* peeks, never shifts
QueueAfterHead(q) == Tail(q)

\* startRound: the head of the queue draws, on a new round clock.
TakeTurn(q) ==
  /\ drawer' = Head(q) /\ queue' = QueueAfterHead(q)
  /\ timer' = "round"
  /\ UNCHANGED players

EndGame ==
  /\ drawer' = Null /\ queue' = <<>>
  /\ timer' = "none" /\ arming' = 0

\* endRound clears whichever timer is armed and arms another intermission.
EndRound ==
  /\ drawer' = Null
  /\ timer' = "intermission" /\ arming' = 1 - arming

StartGame ==
  /\ timer = "none" /\ Cardinality(players) >= MinPlayersToStart
  /\ LET n == IF Cardinality(players) < MaxRounds
              THEN Cardinality(players) ELSE MaxRounds
     IN  \E q \in DrawOrders(players, n) : TakeTurn(q)
  /\ UNCHANGED arming

\* The round clock fires or the last guesser solves the word.
RoundOver ==
  /\ timer = "round"
  /\ EndRound
  /\ UNCHANGED <<players, queue>>

SomebodyDraws ==
  /\ Cardinality(players) >= MinPlayersToStart
  /\ queue # <<>> /\ Head(queue) \in players

\* The intermission timer fires.
IntermissionOver ==
  /\ timer = "intermission"
  /\ \/ SomebodyDraws /\ TakeTurn(queue) /\ UNCHANGED arming
     \/ ~SomebodyDraws /\ EndGame /\ UNCHANGED players

LeaveIdleRoom(p) ==
  /\ p \in players /\ players' = players \ {p}
  /\ timer = "none" /\ queue' = Without(queue, p)
  /\ UNCHANGED <<drawer, timer, arming>>

LeaveTooFew(p) ==
  /\ p \in players /\ players' = players \ {p}
  /\ timer # "none" /\ Cardinality(players') < MinPlayersToStart
  /\ EndGame

\* Who has solved the word is not kept, so that any departure may leave
\* nobody to guess: in a round this ends it, in an intermission it ends the
\* finished round once more and the intermission starts over.
LeaveGame(p) ==
  /\ p \in players /\ players' = players \ {p}
  /\ timer # "none" /\ Cardinality(players') >= MinPlayersToStart
  /\ queue' = Without(queue, p)
  /\ \/ EndRound
     \/ drawer # p /\ UNCHANGED <<drawer, timer, arming>>

Restarts(p) == timer = "intermission" /\ LeaveGame(p) /\ arming' # arming

-----------------------------------------------------------------------------
Next ==
  \/ \E p \in Player :
       Join(p) \/ LeaveIdleRoom(p) \/ LeaveTooFew(p) \/ LeaveGame(p)
  \/ StartGame \/ RoundOver \/ IntermissionOver

Spec == Init /\ [][Next]_vars

\* An armed Node timer fires unless it is cleared. A round clock stays the
\* same until the round is over. An intermission timer that is cleared and
\* armed anew is another timer, with a new `arming': no timer is obliged to
\* fire when departures restart the intermission for ever.
Fairness ==
  /\ WF_vars(RoundOver)
  /\ \A b \in {0, 1} : WF_vars(arming = b /\ IntermissionOver)

FairSpec == Spec /\ Fairness

-----------------------------------------------------------------------------
\* A game ends once nobody joins any more: each of the timers of game.ts:88
\* and 105 takes the queue further and departures only shorten it. (While
\* newcomers keep coming it need not: index.ts:122 queues every one of them.)
GameEnds ==
  <>[][\A p \in Player : ~Join(p)]_vars => (timer # "none" ~> timer = "none")

\* Who is queued to draw does draw, unless they leave or too few stay, however
\* many join and leave meanwhile: newcomers go to the end of the queue
\* (index.ts:122) and departures move nobody back (room.ts:65). The premise is
\* that departures do not restart intermissions (game.ts:223) for ever.
QueuedPlayerDraws ==
  <>[][\A p \in Player : ~Restarts(p)]_vars =>
    \A p \in Player :
      p \in Range(queue) ~>
        \/ drawer = p \/ p \notin players
        \/ Cardinality(players) < MinPlayersToStart
=============================================================================
