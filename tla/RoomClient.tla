----------------------------- MODULE RoomClient -----------------------------
(***************************************************************************)
(* A browser in a room: module Room, the messages its handlers send to one *)
(* player, and the view that useRoomSocket.ts builds from them.            *)
(*                                                                         *)
(* The WebSocket is two FIFO channels, `inbox' and `outbox', of any delay. *)
(* Each handler of the server is the action of Room that changes the room, *)
(* together with what it sends to the player Me; the other players act on  *)
(* the room directly.  Chat lines and notices only feed the list of lines  *)
(* and are left out, and so is the word's length.  The view keeps the      *)
(* players by id, and "" like null: both hide the banner.                  *)
(*                                                                         *)
(* Operators named ..._Faulty hold a plausible mistake; see module Room.   *)
(***************************************************************************)
EXTENDS Room, SequencesExt

CONSTANTS
  Me,            \* the player id this browser will be given
  InboxBound,    \* bound of the model: the server acts with less unread mail
  OutboxBound,   \* bound of the model: commands of this browser under way
  CanvasBound    \* bound of the model: strokes on the browser's canvas

ASSUME MeAssumption == Me \in Player
ASSUME BoundsAssumption ==
  InboxBound \in Nat /\ OutboxBound \in Nat /\ CanvasBound \in Nat

VARIABLES
  status,   \* RoomConnectionStatus
  inbox,    \* sent by the server, in order; "close" stands for the close event
  outbox,   \* sent by the browser, in order
  view      \* players, game (GameState) and strokesRef of the hook

PlayerSummary == [id : Player, score : Nat]

\* Points, colour and width: what the canvas shows of a stroke. handleDraw does
\* not change what DrawCanvas sends (its limits are beyond a frame's points, the
\* palette and the pens), so a segment is a mark on either side.
StrokeSegment == Mark

RoomConnectionStatus ==
  {"connecting", "connected", "disconnected", "not-found", "room-full"}

ClientToServerMessage ==
  [type : {"join", "draw-clear"}] \cup [type : {"draw"}, stroke : StrokeSegment]

\* The server's messages, with the fields that the view is built from.
ServerToClientMessage ==
  LET Drawer == Player \cup {Null}  Shown == Word \cup {Null}
  IN  [type : {"room-state"}, players : SUBSET PlayerSummary,
       phase : {"waiting", "playing", "ended"}, round : Nat, totalRounds : Nat,
       drawerId : Drawer, clock : {"set", Null}, strokes : Seq(StrokeSegment)]
      \cup [type : {"player-joined"}, player : PlayerSummary]
      \cup [type : {"player-left"}, id : Player]
      \cup [type : {"room-full", "room-not-found", "draw-clear"}]
      \cup [type : {"draw"}, stroke : StrokeSegment]
      \cup [type : {"game-started"}, totalRounds : Nat]
      \cup [type : {"round-started"}, round : Nat, totalRounds : Nat,
            drawerId : Player, word : Shown]
      \cup [type : {"round-ended"}, word : Shown, players : SUBSET PlayerSummary]
      \cup [type : {"correct-answer"}, id : Player, players : SUBSET PlayerSummary]
      \cup [type : {"game-ended"}, players : SUBSET PlayerSummary]

\* GameState, with the players and strokes that the hook keeps beside it.
GameState ==
  [players : SUBSET PlayerSummary, phase : {"waiting", "playing", "ended"},
   round : Nat, totalRounds : Nat, drawerId : Player \cup {Null}, clock : {"set", Null},
   word : Word \cup {Null}, solved : SUBSET Player,
   revealed : Word \cup {Null}, strokes : Seq(StrokeSegment)]

clientVars == <<status, inbox, outbox, view>>
allVars == <<vars, clientVars>>

\* INITIAL_GAME and the empty states of the hook.
InitialView ==
  [players |-> {}, phase |-> "waiting", round |-> 0, totalRounds |-> 0,
   drawerId |-> Null, clock |-> Null, word |-> Null, solved |-> {},
   revealed |-> Null, strokes |-> <<>>]

ClientInit ==
  /\ Init
  /\ status = "connecting" /\ inbox = <<>> /\ outbox = <<>>
  /\ view = InitialView

-----------------------------------------------------------------------------
(* What the server sends.  The operators read the room after the handler.  *)

Summary(p) == [id |-> p, score |-> score'[p]]

\* Room.summaries
Summaries == {Summary(p) : p \in players'}

\* What is painted of the strokes the room keeps.
Picture(s) == [i \in DOMAIN s |-> s[i].mark]

RoomState_Faulty ==                                \* not what was drawn first
  [type |-> "room-state", players |-> Summaries, phase |-> phase',
   round |-> round', totalRounds |-> totalRounds', drawerId |-> drawerId',
   clock |-> roundEndsAt', strokes |-> IF strokes' = <<>> THEN <<>> ELSE
                                       Picture(Tail(strokes'))]
RoomState ==
  [type |-> "room-state", players |-> Summaries, phase |-> phase',
   round |-> round', totalRounds |-> totalRounds', drawerId |-> drawerId',
   clock |-> roundEndsAt', strokes |-> Picture(strokes')]

RoundStarted_Faulty2 ==                            \* before the drawer is set
  << [type |-> "draw-clear"],
     [type |-> "round-started", round |-> round', totalRounds |-> totalRounds',
      drawerId |-> drawerId, word |-> IF drawerId = Me THEN word' ELSE Null] >>
RoundStarted_Faulty ==                             \* the word goes to everybody
  << [type |-> "draw-clear"],
     [type |-> "round-started", round |-> round', totalRounds |-> totalRounds',
      drawerId |-> drawerId', word |-> word'] >>
RoundStarted ==
  << [type |-> "draw-clear"],
     [type |-> "round-started", round |-> round', totalRounds |-> totalRounds',
      drawerId |-> drawerId', word |-> IF drawerId' = Me THEN word' ELSE Null] >>

RoundEnded ==
  << [type |-> "round-ended", word |-> word, players |-> Summaries] >>

GameEnded == << [type |-> "game-ended", players |-> Summaries] >>

Outcome_Faulty ==                                  \* endGame tells nobody
  IF Len(reveals') > Len(reveals) THEN RoundEnded
  ELSE IF phase' = "playing" /\ roundTimer # "round" /\ roundTimer' = "round"
       THEN RoundStarted ELSE <<>>

\* What endRound, endGame or startRound broadcast, if the handler ran one.
Outcome ==
  IF Len(reveals') > Len(reveals) THEN RoundEnded
  ELSE IF Len(results') > Len(results) THEN GameEnded
  ELSE IF phase' = "playing" /\ roundTimer # "round" /\ roundTimer' = "round"
       THEN RoundStarted ELSE <<>>

\* room.broadcast
Broadcast(messages) ==
  inbox' = IF Me \in players' THEN inbox \o messages ELSE inbox

-----------------------------------------------------------------------------
(* The server: one action per handler.                                     *)

MailRead == Len(inbox) <= InboxBound

\* handleJoin, for somebody else.
OtherJoins(p) ==
  /\ p # Me /\ MailRead /\ Join(p)
  /\ Broadcast(<< [type |-> "player-joined", player |-> Summary(p)] >>)
  /\ UNCHANGED <<status, outbox, view>>

GameStarts ==
  /\ MailRead /\ StartGame
  /\ Broadcast(<< [type |-> "game-started", totalRounds |-> totalRounds'] >>
               \o Outcome)
  /\ UNCHANGED <<status, outbox, view>>

Answer(p) ==
  /\ MailRead /\ CorrectGuess(p)
  /\ Broadcast(<< [type |-> "correct-answer", id |-> p, players |-> Summaries] >>
               \o Outcome)
  /\ UNCHANGED <<status, outbox, view>>

TimerFires ==
  /\ MailRead /\ (RoundTimeout \/ IntermissionTimeout)
  /\ Broadcast(Outcome)
  /\ UNCHANGED <<status, outbox, view>>

\* handleClose, for somebody else.
OtherLeaves(p) ==
  /\ p # Me /\ MailRead /\ Leave(p)
  /\ Broadcast(<< [type |-> "player-left", id |-> p] >> \o Outcome)
  /\ UNCHANGED <<status, outbox, view>>

AddStroke_Faulty(p, m) ==                          \* keeps the latest strokes
  \/ Draw(p, m)
  \/ /\ phase = "playing" /\ p \in players /\ drawerId = p
     /\ Len(strokes) >= MaxBufferedStrokes
     /\ strokes' = Append(Tail(strokes), [game |-> gameId, round |-> round,
                                          by |-> p, mark |-> m])
     /\ UNCHANGED <<players, score, phase, gameId, round, totalRounds, drawerId,
                    word, roundEndsAt, solved, drawerQueue, usedWords,
                    roundTimer, results, reveals, games, drawn, gone>>

\* addStroke keeps nothing when the buffer is full; the stroke is sent anyway.
AddStroke(p, m) ==
  \/ Draw(p, m)
  \/ /\ phase = "playing" /\ p \in players /\ drawerId = p
     /\ Len(strokes) >= MaxBufferedStrokes
     /\ UNCHANGED vars

\* handleDraw and handleDrawClear, for somebody else.
OtherDraws(p, m) ==
  /\ p # Me /\ MailRead /\ Len(view.strokes) + Len(inbox) < CanvasBound
  /\ AddStroke(p, m)
  /\ Broadcast(<< [type |-> "draw", stroke |-> m] >>)
  /\ UNCHANGED <<status, outbox, view>>

OtherClears(p) ==
  /\ p # Me /\ MailRead /\ DrawClear(p)
  /\ Broadcast(<< [type |-> "draw-clear"] >>)
  /\ UNCHANGED <<status, outbox, view>>

\* The next message of this browser.
Request(type) ==
  /\ outbox # <<>> /\ Head(outbox).type = type
  /\ outbox' = Tail(outbox)
  /\ UNCHANGED <<status, view>>

Close(messages) == inbox' = inbox \o messages \o << [type |-> "close"] >>

\* handleJoin: let in, refused because the room is full, or not found, when
\* the shard neither has the room nor is assigned it.
JoinRequest ==
  /\ Request("join")
  /\ \/ Join(Me) /\ inbox' = Append(inbox, RoomState)
     \/ /\ Cardinality(players) >= Capacity
        /\ Close(<< [type |-> "room-full"] >>) /\ UNCHANGED vars
     \/ /\ players = {}
        /\ Close(<< [type |-> "room-not-found"] >>) /\ UNCHANGED vars

\* Only the drawer of the running round is listened to.
DrawRequest ==
  /\ Request("draw") /\ UNCHANGED inbox
  /\ \/ \E m \in Mark : m = Head(outbox).stroke /\ AddStroke(Me, m)
     \/ (phase # "playing" \/ drawerId # Me) /\ UNCHANGED vars

ClearRequest ==
  /\ Request("draw-clear") /\ UNCHANGED inbox
  /\ \/ DrawClear(Me)
     \/ (phase # "playing" \/ drawerId # Me) /\ UNCHANGED vars

\* The connection ends: the server sees its close event (handleClose), and the
\* browser its own after what still reaches it.
ConnectionEnds ==
  /\ status = "connected"
  /\ \A i \in DOMAIN inbox : inbox[i].type # "close"
  /\ \/ Leave(Me)
     \/ Me \notin players /\ UNCHANGED vars
  /\ outbox' = <<>>
  /\ \E n \in 0 .. Len(inbox) :
       inbox' = Append(SubSeq(inbox, 1, n), [type |-> "close"])
  /\ UNCHANGED <<status, view>>

-----------------------------------------------------------------------------
(* The browser: connect(), and one action per message and command.         *)

\* The room's shard is looked up first; 404 ends it there.
LookupFails ==
  /\ status = "connecting" /\ status' = "not-found"
  /\ UNCHANGED <<vars, inbox, outbox, view>>

\* The shard cannot be reached: a close event without an open one.
NeverOpens ==
  /\ status = "connecting" /\ status' = "disconnected"
  /\ UNCHANGED <<vars, inbox, outbox, view>>

OnOpen ==
  /\ status = "connecting" /\ status' = "connected"
  /\ outbox' = << [type |-> "join"] >>
  /\ UNCHANGED <<vars, inbox, view>>

Receive(type) ==
  /\ inbox # <<>> /\ Head(inbox).type = type
  /\ inbox' = Tail(inbox)
  /\ UNCHANGED <<vars, outbox>>

Message == Head(inbox)

Ids(summaries) == {s.id : s \in summaries}

OnRoomState ==
  /\ Receive("room-state")
  /\ view' = [InitialView EXCEPT
       !.players = Message.players, !.phase = Message.phase,
       !.round = Message.round, !.totalRounds = Message.totalRounds,
       !.drawerId = Message.drawerId, !.clock = Message.clock,
       !.strokes = Message.strokes]
  /\ UNCHANGED status

OnPlayerJoined ==
  /\ Receive("player-joined")
  /\ view' = [view EXCEPT !.players = IF Message.player.id \in Ids(@) THEN @
                                      ELSE @ \cup {Message.player}]
  /\ UNCHANGED status

OnPlayerLeft ==
  /\ Receive("player-left")
  /\ view' = [view EXCEPT !.players = {s \in @ : s.id # Message.id}]
  /\ UNCHANGED status

OnDraw ==
  /\ Receive("draw")
  /\ view' = [view EXCEPT !.strokes = Append(@, Message.stroke)]
  /\ UNCHANGED status

OnDrawClear ==
  /\ Receive("draw-clear")
  /\ view' = [view EXCEPT !.strokes = <<>>]
  /\ UNCHANGED status

OnGameStarted ==
  /\ Receive("game-started")
  /\ view' = [view EXCEPT !.phase = "playing", !.revealed = Null,
                          !.totalRounds = Message.totalRounds]
  /\ UNCHANGED status

OnRoundStarted ==
  /\ Receive("round-started")
  /\ view' = [view EXCEPT
       !.phase = "playing", !.round = Message.round,
       !.totalRounds = Message.totalRounds, !.drawerId = Message.drawerId,
       !.clock = "set", !.word = Message.word, !.solved = {}, !.revealed = Null]
  /\ UNCHANGED status

OnCorrectAnswer ==
  /\ Receive("correct-answer")
  /\ view' = [view EXCEPT !.players = Message.players,
                          !.solved = @ \cup {Message.id}]
  /\ UNCHANGED status

OnRoundEnded ==
  /\ Receive("round-ended")
  /\ view' = [view EXCEPT !.players = Message.players, !.drawerId = Null,
                          !.clock = Null, !.word = Null,
                          !.revealed = Message.word]
  /\ UNCHANGED status

OnGameEnded ==
  /\ Receive("game-ended")
  /\ view' = [view EXCEPT !.players = Message.players, !.phase = "ended",
                          !.drawerId = Null, !.clock = Null]
  /\ UNCHANGED status

OnRoomFull ==
  Receive("room-full") /\ status' = "room-full" /\ UNCHANGED view

OnRoomNotFound ==
  Receive("room-not-found") /\ status' = "not-found" /\ UNCHANGED view

\* onclose replaces whatever status there was.
OnClose == Receive("close") /\ status' = "disconnected" /\ UNCHANGED view

Send_Faulty(message) ==        \* only when nothing else is under way
  outbox' = IF status = "connected" /\ outbox = <<>> THEN << message >> ELSE outbox

\* send() drops what a socket that is not open cannot carry.
Send(message) ==
  outbox' = IF status = "connected" THEN Append(outbox, message) ELSE outbox

\* canDraw of the page, which also enables the button that clears the canvas.
CanDraw == view.phase = "playing" /\ view.drawerId = Me

\* sendStroke, whether or not the server has got the strokes before.
SendStroke(m) ==
  /\ CanDraw /\ Len(view.strokes) < CanvasBound /\ Len(outbox) < OutboxBound
  /\ view' = [view EXCEPT !.strokes = Append(@, m)]
  /\ Send([type |-> "draw", stroke |-> m])
  /\ UNCHANGED <<vars, status, inbox>>

SendClear ==
  /\ CanDraw /\ Len(outbox) < OutboxBound
  /\ view' = [view EXCEPT !.strokes = <<>>]
  /\ Send([type |-> "draw-clear"])
  /\ UNCHANGED <<vars, status, inbox>>

-----------------------------------------------------------------------------
ServerNext ==
  \/ \E p \in Player : \/ OtherJoins(p) \/ OtherLeaves(p) \/ Answer(p)
                       \/ OtherClears(p)
  \/ \E p \in Player, m \in Mark : OtherDraws(p, m)
  \/ GameStarts \/ TimerFires
  \/ JoinRequest \/ DrawRequest \/ ClearRequest \/ ConnectionEnds

BrowserNext ==
  \/ LookupFails \/ NeverOpens \/ OnOpen \/ OnClose \/ OnRoomFull \/ OnRoomNotFound
  \/ OnRoomState \/ OnPlayerJoined \/ OnPlayerLeft
  \/ OnGameStarted \/ OnRoundStarted \/ OnCorrectAnswer
  \/ OnRoundEnded \/ OnGameEnded
  \/ OnDraw \/ OnDrawClear \/ SendClear
  \/ \E m \in Mark : SendStroke(m)

ClientSpec == ClientInit /\ [][ServerNext \/ BrowserNext]_allVars

-----------------------------------------------------------------------------
(* Properties.                                                             *)

ClientTypeOK ==
  /\ status \in RoomConnectionStatus
  /\ inbox \in Seq(ServerToClientMessage \cup [type : {"close"}])
  /\ outbox \in Seq(ClientToServerMessage)
  /\ view \in GameState

\* The player has read what the server has sent, and the other way round.
CaughtUp == Me \in players /\ inbox = <<>> /\ outbox = <<>>

\* The messages carry changes, not states, and a newcomer starts in the middle:
\* still, whoever has read everything sees the room and its scores as they are,
\* except that a new game shows the scores of the last one until the first
\* answer: "game-started" carries no players.
ViewAgrees ==
  CaughtUp =>
    /\ view.phase = phase /\ view.round = round
    /\ view.totalRounds = totalRounds
    /\ view.drawerId = drawerId /\ view.clock = roundEndsAt
    /\ Ids(view.players) = players
    /\ \/ view.players = {[id |-> p, score |-> score[p]] : p \in players}
       \/ games > 1 /\ phase = "playing" /\ round = 1 /\ \A p \in players : score[p] = 0

\* In an open round the word is on the drawer's screen and on no other, and
\* each player knows about having solved it. (Of the others a newcomer only
\* learns who solves it from now on.)
RoundSecretsAgree ==
  CaughtUp /\ word # Null =>
    /\ view.word = IF drawerId = Me THEN word ELSE Null
    /\ view.revealed = Null
    /\ Me \in solved <=> Me \in view.solved
    /\ view.solved \cap players \subseteq solved

\* Who has read everything has on the canvas what a newcomer would be replayed,
\* stroke for stroke and in order, and nothing else unless the buffer is full:
\* what a full buffer dropped comes after it. (For the drawer this is so in the
\* first game only: a stroke on its way when that game ends counts as one of the
\* next, if the same player opens it, while "draw-clear" removes it from the
\* canvas it was drawn on.)
CanvasAgrees ==
  CaughtUp /\ word # Null /\ (drawerId # Me \/ games = 1) =>
    /\ IsPrefix(Picture(strokes), view.strokes)
    /\ Len(strokes) < MaxBufferedStrokes => view.strokes = Picture(strokes)
=============================================================================
