-------------------------- MODULE RoomClient_proofs --------------------------
(***************************************************************************)
(* What a browser shows of its room, for every set of players and words,   *)
(* every delay of the messages and every value of the rules: the browser   *)
(* and its connection let the room do what module Room allows and no more, *)
(* and whoever has read everything sees the room as it is.                 *)
(***************************************************************************)
EXTENDS RoomClient, Room_proofs

-----------------------------------------------------------------------------
(* Reading ahead.  A message carries a change, so what the browser will    *)
(* show once it has read everything depends on every unread message.  The  *)
(* invariant names the views between them: `views' of a view and a box of  *)
(* messages has one view for each message read, the first for none.        *)

Mail == ServerToClientMessage \cup [type : {"close"}]

\* A view without its canvas, which the browser's own commands change too.
Glance(v) == [v EXCEPT !.strokes = <<>>]

\* What the handlers of the browser make of a view...
Read(v, m) ==
  CASE m.type = "room-state" ->
         [InitialView EXCEPT
            !.players = m.players, !.phase = m.phase, !.round = m.round,
            !.totalRounds = m.totalRounds, !.drawerId = m.drawerId, !.clock = m.clock]
    [] m.type = "player-joined" ->
         [v EXCEPT !.players = IF m.player.id \in Ids(v.players) THEN v.players
                               ELSE v.players \cup {m.player}]
    [] m.type = "player-left" -> [v EXCEPT !.players = {s \in v.players : s.id # m.id}]
    [] m.type = "game-started" ->
         [v EXCEPT !.phase = "playing", !.revealed = Null, !.totalRounds = m.totalRounds]
    [] m.type = "round-started" ->
         [v EXCEPT !.phase = "playing", !.round = m.round,
                   !.totalRounds = m.totalRounds, !.drawerId = m.drawerId,
                   !.clock = "set", !.word = m.word, !.solved = {}, !.revealed = Null]
    [] m.type = "correct-answer" ->
         [v EXCEPT !.players = m.players, !.solved = v.solved \cup {m.id}]
    [] m.type = "round-ended" ->
         [v EXCEPT !.players = m.players, !.drawerId = Null, !.clock = Null,
                   !.word = Null, !.revealed = m.word]
    [] m.type = "game-ended" ->
         [v EXCEPT !.players = m.players, !.phase = "ended", !.drawerId = Null,
                   !.clock = Null]
    [] OTHER -> v

\* ... and of a canvas.
Painting == {"draw", "draw-clear", "room-state"}

Paint(c, m) ==
  CASE m.type = "draw" -> Append(c, m.stroke)
    [] m.type = "draw-clear" -> <<>>
    [] m.type = "room-state" -> m.strokes
    [] OTHER -> c

ReadsOn(v, box, views) ==
  /\ views \in [0 .. Len(box) -> GameState]
  /\ views[0] = v
  /\ \A i \in 1 .. Len(box) : views[i] = Read(views[i - 1], box[i])

-----------------------------------------------------------------------------
(* The invariant.                                                          *)

\* The view v is the room's present state.  A board of an older game stands
\* only while the first round is open: what ends it brings the scores.
Board == {[id |-> p, score |-> score[p]] : p \in players}

Agrees(v) ==
  /\ v.phase = phase /\ v.round = round /\ v.totalRounds = totalRounds
  /\ v.drawerId = drawerId /\ v.clock = roundEndsAt
  /\ Ids(v.players) = players
  /\ \/ v.players = Board
     \/ /\ games > 1 /\ phase = "playing" /\ round = 1 /\ word # Null
        /\ \A p \in players : score[p] = 0
  /\ word # Null =>
       /\ v.word = IF drawerId = Me THEN word ELSE Null
       /\ v.revealed = Null
       /\ Me \in solved <=> Me \in v.solved
       /\ v.solved \cap players \subseteq solved
       /\ v.solved \subseteq players \cup gone

\* A canvas with what a newcomer would be replayed.
Shown(c) ==
  /\ IsPrefix(Picture(strokes), c)
  /\ Len(strokes) < MaxBufferedStrokes => c = Picture(strokes)

\* The canvas of a viewer: from the k-th message on, the strokes that come are
\* the room's, and the browser does not take itself for the drawer any more.
Watches(views, k, cs) ==
  /\ k = 0 => cs[0] = view.strokes
  /\ k > 0 => inbox[k].type \in {"draw-clear", "room-state"} /\ cs[k] = Paint(<<>>, inbox[k])
  /\ \A i \in k + 1 .. Len(inbox) : cs[i] = Paint(cs[i - 1], inbox[i])
  /\ \A i \in k .. Len(inbox) : views[i].drawerId # Me
  /\ Shown(cs[Len(inbox)])

Viewer(views) ==
  \E k \in 0 .. Len(inbox) :
    \E cs \in [k .. Len(inbox) -> Seq(StrokeSegment)] : Watches(views, k, cs)

\* The canvas of the drawer, which nobody else paints.  Before it reads of its
\* turn there is a "draw-clear" ahead; after, it is what the commands on their
\* way make of a canvas that shows what a newcomer would be replayed.
Waits(views, k) ==
  /\ inbox[k].type = "draw-clear" /\ strokes = <<>> /\ outbox = <<>>
  /\ \A i \in k + 1 .. Len(inbox) : inbox[i].type \notin Painting
  /\ \A i \in 0 .. k : views[i].drawerId # Me

Commanded(cs) ==
  /\ Shown(cs[0])
  /\ \A i \in 1 .. Len(outbox) : cs[i] = Paint(cs[i - 1], outbox[i])
  /\ cs[Len(outbox)] = view.strokes

Paints ==
  /\ \A i \in 1 .. Len(inbox) : inbox[i].type \notin Painting
  /\ \E cs \in [0 .. Len(outbox) -> Seq(StrokeSegment)] : Commanded(cs)

Drawer(views) ==
  /\ \A i \in 0 .. Len(inbox) : views[i].drawerId = Me => views[i].round = round
  /\ Paints \/ \E k \in 1 .. Len(inbox) : Waits(views, k)

\* A player who has not drawn in the first game has sent nothing to draw.
Fresh(views) ==
  games <= 1 /\ Me \notin drawn =>
    /\ outbox = <<>>
    /\ \A i \in 0 .. Len(inbox) : views[i].drawerId # Me

Sees(views) ==
  /\ ReadsOn(Glance(view), inbox, views)
  /\ Agrees(views[Len(inbox)])
  /\ Fresh(views)
  /\ word # Null /\ drawerId # Me => Viewer(views)
  /\ word # Null /\ drawerId = Me /\ games = 1 => Drawer(views)

\* The connection: nothing is sent or shown before the player is let in, and
\* whoever is in the room is connected.
JoinSent == outbox = << [type |-> "join"] >>

Connection ==
  /\ status = "connecting" => outbox = <<>>
  /\ JoinSent => status = "connected"
  /\ \A i \in 1 .. Len(outbox) : outbox[i].type = "join" => JoinSent
  /\ status = "connecting" \/ JoinSent =>
       inbox = <<>> /\ view = InitialView /\ Me \notin players
  /\ Me \in players =>
       /\ status = "connected"
       /\ \A i \in 1 .. Len(inbox) :
            inbox[i].type \notin {"close", "room-full", "room-not-found"}

InSight == Me \in players => \E views : Sees(views)

CInv == ClientTypeOK /\ Connection /\ InSight

-----------------------------------------------------------------------------
(* The browser and its connection only do to the room what Room lets them. *)

LEMMA StepImplements == [ServerNext \/ BrowserNext]_allVars => [Next]_vars
<1>1. ASSUME NEW p \in Player,
             \/ OtherJoins(p) \/ OtherLeaves(p) \/ Answer(p) \/ OtherClears(p)
             \/ \E m \in Mark : OtherDraws(p, m)
      PROVE  [Next]_vars
  BY <1>1 DEF OtherJoins, OtherLeaves, Answer, OtherDraws, OtherClears, AddStroke, Next
<1>2. CASE GameStarts \/ TimerFires
  BY <1>2 DEF GameStarts, TimerFires, Next
<1>3. CASE JoinRequest \/ DrawRequest \/ ClearRequest \/ ConnectionEnds
  BY <1>3, MeAssumption DEF JoinRequest, DrawRequest, ClearRequest, ConnectionEnds,
     AddStroke, Next
<1>4. CASE BrowserNext
  BY <1>4 DEF BrowserNext, LookupFails, NeverOpens, OnOpen, OnClose, OnRoomFull,
     OnRoomNotFound, OnRoomState, OnPlayerJoined, OnPlayerLeft, OnGameStarted,
     OnRoundStarted, OnCorrectAnswer, OnRoundEnded, OnGameEnded, OnDraw, OnDrawClear,
     SendStroke, SendClear, Receive
<1>5. CASE UNCHANGED allVars
  BY <1>5 DEF allVars
<1> QED
  BY <1>1, <1>4, <1>5, <1>2, <1>3 DEF ServerNext

\* Whatever reaches the server of this browser and in whatever order, the room
\* goes on as module Room says (index.ts; every theorem about it holds here).
THEOREM ImplementsRoom == ClientSpec => Spec
<1>1. ClientInit => Init
  BY DEF ClientInit
<1> QED
  BY <1>1, StepImplements, PTL DEF ClientSpec, Spec

-----------------------------------------------------------------------------
(* Messages and what is made of them keep their types.                     *)

LEMMA MailFields ==
  ASSUME NEW m \in Mail
  PROVE  /\ m.type = "room-state" =>
              /\ m.players \in SUBSET PlayerSummary
              /\ m.phase \in {"waiting", "playing", "ended"}
              /\ m.round \in Nat /\ m.totalRounds \in Nat
              /\ m.drawerId \in Player \cup {Null} /\ m.clock \in {"set", Null}
              /\ m.strokes \in Seq(StrokeSegment)
         /\ m.type = "player-joined" => m.player \in PlayerSummary
         /\ m.type = "draw" => m.stroke \in StrokeSegment
         /\ m.type = "game-started" => m.totalRounds \in Nat
         /\ m.type = "round-started" =>
              /\ m.round \in Nat /\ m.totalRounds \in Nat
              /\ m.drawerId \in Player /\ m.word \in Word \cup {Null}
         /\ m.type = "correct-answer" =>
              m.id \in Player /\ m.players \in SUBSET PlayerSummary
         /\ m.type = "round-ended" =>
              m.word \in Word \cup {Null} /\ m.players \in SUBSET PlayerSummary
         /\ m.type = "game-ended" => m.players \in SUBSET PlayerSummary
BY DEF Mail, ServerToClientMessage

LEMMA ReadType ==
  ASSUME NEW v \in GameState, NEW m \in Mail PROVE Read(v, m) \in GameState
<1> USE MailFields DEF GameState
<1>1. InitialView \in GameState
  BY DEF InitialView
<1>2. CASE m.type = "room-state"
  BY <1>1, <1>2, ZenonT(30) DEF Read, InitialView
<1>3. CASE m.type = "player-joined"
  BY <1>3 DEF Read
<1>4. CASE m.type = "player-left"
  BY <1>4 DEF Read
<1>5. CASE m.type = "game-started"
  BY <1>5 DEF Read
<1>6. CASE m.type = "round-started"
  BY <1>6 DEF Read
<1>7. CASE m.type = "correct-answer"
  BY <1>7 DEF Read
<1>8. CASE m.type = "round-ended"
  BY <1>8 DEF Read
<1>9. CASE m.type = "game-ended"
  BY <1>9 DEF Read
<1> QED
  BY <1>2, <1>3, <1>4, <1>5, <1>6, <1>7, <1>8, <1>9 DEF Read

LEMMA PaintType ==
  ASSUME NEW c \in Seq(StrokeSegment), NEW m \in Mail
  PROVE  Paint(c, m) \in Seq(StrokeSegment)
BY MailFields DEF Paint

LEMMA GlanceFields ==
  ASSUME NEW v \in GameState
  PROVE  /\ Glance(v) \in GameState
         /\ Glance(v).drawerId = v.drawerId /\ Glance(v).round = v.round
<1>1. <<>> \in Seq(StrokeSegment)
  OBVIOUS
<1> QED
  BY <1>1 DEF Glance, GameState

LEMMA GlanceRecord ==
  ASSUME NEW v \in GameState
  PROVE  Glance(v) =
           [players |-> v.players, phase |-> v.phase, round |-> v.round,
            totalRounds |-> v.totalRounds, drawerId |-> v.drawerId, clock |-> v.clock,
            word |-> v.word, solved |-> v.solved, revealed |-> v.revealed, strokes |-> <<>>]
BY DEF Glance, GameState

\* One handler of the browser: it takes a message and reads it.
Reads ==
  /\ inbox # <<>> /\ inbox' = Tail(inbox)
  /\ UNCHANGED <<vars, outbox>>
  /\ view' \in GameState
  /\ Glance(view') = Read(Glance(view), Head(inbox))
  /\ view'.strokes = Paint(view.strokes, Head(inbox))

OnMessage ==
  \/ OnClose \/ OnRoomFull \/ OnRoomNotFound
  \/ OnRoomState \/ OnPlayerJoined \/ OnPlayerLeft
  \/ OnGameStarted \/ OnRoundStarted \/ OnCorrectAnswer
  \/ OnRoundEnded \/ OnGameEnded \/ OnDraw \/ OnDrawClear

LEMMA HandlersRead == ASSUME ClientTypeOK, OnMessage PROVE Reads
<1> DEFINE m == Head(inbox)
<1>1. inbox # <<>> /\ inbox' = Tail(inbox) /\ UNCHANGED <<vars, outbox>>
  BY DEF OnMessage, OnClose, OnRoomFull, OnRoomNotFound, OnRoomState, OnPlayerJoined,
     OnPlayerLeft, OnGameStarted, OnRoundStarted, OnCorrectAnswer, OnRoundEnded,
     OnGameEnded, OnDraw, OnDrawClear, Receive
<1>2. view \in GameState /\ inbox \in Seq(Mail) /\ m \in Mail
  BY <1>1 DEF ClientTypeOK, Mail
<1> HIDE DEF m
<1> SUFFICES /\ view' \in GameState
             /\ Glance(view') = Read(Glance(view), m)
             /\ view'.strokes = Paint(view.strokes, m)
  BY <1>1 DEF Reads, m
<1>3. <<>> \in Seq(StrokeSegment)
  OBVIOUS
<1> USE <1>2, <1>3, MailFields DEF Receive, Message, GameState, Glance, m
<1>4. CASE OnClose \/ OnRoomFull \/ OnRoomNotFound
  BY <1>4 DEF OnClose, OnRoomFull, OnRoomNotFound, Read, Paint
<1>5. CASE OnRoomState
  <2>1. /\ m.type = "room-state"
        /\ view' = [InitialView EXCEPT
             !.players = m.players, !.phase = m.phase,
             !.round = m.round, !.totalRounds = m.totalRounds,
             !.drawerId = m.drawerId, !.clock = m.clock, !.strokes = m.strokes]
    BY <1>5 DEF OnRoomState
  <2>2. view' \in GameState /\ view'.strokes = m.strokes
    BY <2>1 DEF InitialView
  <2> DEFINE r(s) ==
        [players |-> m.players, phase |-> m.phase, round |-> m.round,
         totalRounds |-> m.totalRounds, drawerId |-> m.drawerId, clock |-> m.clock,
         word |-> Null, solved |-> {}, revealed |-> Null, strokes |-> s]
  <2>3. view' = r(m.strokes)
    BY <2>1 DEF InitialView
  <2>4. Glance(view') = r(<<>>)
    BY <2>2, <2>3, GlanceRecord
  <2>5. Read(Glance(view), m) = r(<<>>)
    BY <2>1 DEF InitialView, Read
  <2> QED
    BY <2>1, <2>2, <2>4, <2>5 DEF Paint
<1>6. CASE OnPlayerJoined
  BY <1>6, ZenonT(30) DEF OnPlayerJoined, Read, Paint
<1>7. CASE OnPlayerLeft
  BY <1>7 DEF OnPlayerLeft, Read, Paint
<1>8. CASE OnGameStarted
  BY <1>8 DEF OnGameStarted, Read, Paint
<1>9. CASE OnRoundStarted
  BY <1>9, ZenonT(60) DEF OnRoundStarted, Read, Paint
<1>10. CASE OnCorrectAnswer
  BY <1>10 DEF OnCorrectAnswer, Read, Paint
<1>11. CASE OnRoundEnded
  BY <1>11, ZenonT(30) DEF OnRoundEnded, Read, Paint
<1>12. CASE OnGameEnded
  BY <1>12, ZenonT(30) DEF OnGameEnded, Read, Paint
<1>13. CASE OnDrawClear
  BY <1>13 DEF OnDrawClear, Read, Paint
<1>14. CASE OnDraw
  <2>1. Append(view.strokes, m.stroke) \in Seq(StrokeSegment) /\ m.type = "draw"
    BY <1>14 DEF OnDraw
  <2> QED
    BY <1>14, <2>1 DEF OnDraw, Read, Paint
<1> QED
  BY <1>4, <1>5, <1>6, <1>7, <1>8, <1>9, <1>10, <1>11, <1>12, <1>13, <1>14 DEF OnMessage

-----------------------------------------------------------------------------
(* Reading ahead when messages come and go.                                *)

\* The views w go on from `views' by one more message.
ReadsOneMore(v, box, m, views, w) ==
  /\ ReadsOn(v, Append(box, m), w)
  /\ \A i \in 0 .. Len(box) : w[i] = views[i]
  /\ w[Len(box) + 1] = Read(views[Len(box)], m)

LEMMA ReadsOnAppend ==
  ASSUME NEW v, NEW box \in Seq(Mail), NEW m \in Mail, NEW views, ReadsOn(v, box, views)
  PROVE  \E w : ReadsOneMore(v, box, m, views, w)
<1> DEFINE n == Len(box)
           w == [i \in 0 .. n + 1 |-> IF i <= n THEN views[i] ELSE Read(views[n], m)]
<1>1. /\ n \in Nat /\ Len(Append(box, m)) = n + 1
      /\ \A i \in 1 .. n : Append(box, m)[i] = box[i]
      /\ Append(box, m)[n + 1] = m
  BY AppendProperties
<1>2. /\ views \in [0 .. n -> GameState] /\ views[0] = v
      /\ \A i \in 1 .. n : views[i] = Read(views[i - 1], box[i])
  BY DEF ReadsOn
<1> HIDE DEF n
<1>3. Read(views[n], m) \in GameState
  BY <1>1, <1>2, ReadType
<1>4. w \in [0 .. n + 1 -> GameState]
  BY <1>1, <1>2, <1>3
<1>5. w[0] = v /\ w[n + 1] = Read(w[n], m) /\ \A i \in 0 .. n : w[i] = views[i]
  BY <1>1, <1>2
<1> HIDE DEF w
<1>6. ASSUME NEW i \in 1 .. n + 1
      PROVE  w[i] = Read(w[i - 1], Append(box, m)[i])
  <2>1. CASE i = n + 1
    BY <1>1, <1>5, <2>1
  <2>2. CASE i # n + 1
    <3>1. i \in 1 .. n /\ i \in 0 .. n /\ i - 1 \in 0 .. n
      BY <1>1, <2>2
    <3> QED
      BY <1>1, <1>2, <1>5, <3>1
  <2> QED
    BY <2>1, <2>2
<1>7. ReadsOn(v, Append(box, m), w)
  BY <1>1, <1>4, <1>5, <1>6 DEF ReadsOn
<1>8. w[n + 1] = Read(views[n], m)
  BY <1>1, <1>5
<1> QED
  BY <1>1, <1>5, <1>7, <1>8 DEF ReadsOneMore, n

LEMMA ReadsOnTail ==
  ASSUME NEW v, NEW box \in Seq(Mail), box # <<>>, NEW views, ReadsOn(v, box, views)
  PROVE  ReadsOn(Read(v, Head(box)), Tail(box), [i \in 0 .. Len(box) - 1 |-> views[i + 1]])
<1> DEFINE n == Len(box)
           w == [i \in 0 .. n - 1 |-> views[i + 1]]
<1>1. /\ n \in Nat /\ n >= 1 /\ Len(Tail(box)) = n - 1 /\ Head(box) = box[1]
      /\ \A i \in 1 .. n - 1 : Tail(box)[i] = box[i + 1]
  OBVIOUS
<1>2. /\ views \in [0 .. n -> GameState] /\ views[0] = v
      /\ \A i \in 1 .. n : views[i] = Read(views[i - 1], box[i])
  BY DEF ReadsOn
<1> HIDE DEF n
<1>3. w \in [0 .. n - 1 -> GameState] /\ \A i \in 0 .. n - 1 : w[i] = views[i + 1]
  BY <1>1, <1>2
<1> HIDE DEF w
<1>4. w[0] = Read(v, Head(box))
  BY <1>1, <1>2, <1>3
<1>5. ASSUME NEW i \in 1 .. n - 1
      PROVE  w[i] = Read(w[i - 1], Tail(box)[i])
  <2>1. i + 1 \in 1 .. n /\ i \in 0 .. n - 1 /\ i - 1 \in 0 .. n - 1 /\ (i + 1) - 1 = i
    BY <1>1
  <2>2. views[i + 1] = Read(views[i], box[i + 1])
    BY <1>2, <2>1
  <2>3. w[i] = views[i + 1] /\ w[i - 1] = views[i]
    BY <1>3, <2>1
  <2> QED
    BY <1>1, <2>2, <2>3
<1>6. ReadsOn(Read(v, Head(box)), Tail(box), w)
  BY <1>1, <1>3, <1>4, <1>5 DEF ReadsOn
<1> QED
  BY <1>6 DEF w, n

\* Where a view that is read ahead stands.
LEMMA ReadsOnType ==
  ASSUME NEW v, NEW box \in Seq(Mail), NEW views, ReadsOn(v, box, views)
  PROVE  /\ Len(box) \in Nat
         /\ \A i \in 0 .. Len(box) : views[i] \in GameState
         /\ views[Len(box)] \in GameState
<1>1. Len(box) \in Nat
  BY LenProperties
<1> QED
  BY <1>1 DEF ReadsOn

-----------------------------------------------------------------------------
(* What the server sends keeps the types...                                *)

LEMMA BoardIds == Ids(Board) = players
<1> DEFINE e(p) == [id |-> p, score |-> score[p]]
<1>1. \A p \in players : e(p) \in Board /\ e(p).id = p
  BY DEF Board
<1>2. \A s \in Board : s.id \in players
  BY DEF Board
<1> QED
  BY <1>1, <1>2 DEF Ids

LEMMA BoardPrimeIds == Ids(Board') = players'
<1> DEFINE e(p) == [id |-> p, score |-> score'[p]]
<1>1. \A p \in players' : e(p) \in Board' /\ e(p).id = p
  BY DEF Board
<1>2. \A s \in Board' : s.id \in players'
  BY DEF Board
<1> QED
  BY <1>1, <1>2 DEF Ids

LEMMA SummariesAre == Summaries = Board'
BY DEF Summaries, Summary, Board

LEMMA PictureProperties ==
  ASSUME NEW s \in Seq(Segment)
  PROVE  /\ Picture(s) \in Seq(StrokeSegment) /\ Len(Picture(s)) = Len(s)
         /\ \A i \in 1 .. Len(s) : Picture(s)[i] = s[i].mark
<1>1. Len(s) \in Nat /\ DOMAIN s = 1 .. Len(s)
  BY LenProperties
<1>2. \A i \in 1 .. Len(s) : s[i] \in Segment
  BY ElementOfSeq
<1> DEFINE f(i) == s[i].mark
<1>3. Picture(s) = [i \in 1 .. Len(s) |-> f(i)]
  BY <1>1 DEF Picture
<1>4. \A i \in 1 .. Len(s) : f(i) \in StrokeSegment
  BY <1>2 DEF StrokeSegment, Segment
<1> HIDE DEF f
<1>5. /\ [i \in 1 .. Len(s) |-> f(i)] \in Seq(StrokeSegment)
      /\ Len([i \in 1 .. Len(s) |-> f(i)]) = Len(s)
  BY <1>1, <1>4, IsASeq, LenProperties
<1> QED
  BY <1>3, <1>5 DEF f

LEMMA SentMail ==
  ASSUME IInv, IInv'
  PROVE  /\ RoomState \in Mail
         /\ [type |-> "draw-clear"] \in Mail
         /\ [type |-> "game-started", totalRounds |-> totalRounds'] \in Mail
         /\ [type |-> "game-ended", players |-> Summaries] \in Mail
         /\ [type |-> "round-ended", word |-> word, players |-> Summaries] \in Mail
         /\ drawerId' # Null =>
              [type |-> "round-started", round |-> round', totalRounds |-> totalRounds',
               drawerId |-> drawerId', word |-> IF drawerId' = Me THEN word' ELSE Null] \in Mail
         /\ \A p \in Player :
              /\ [type |-> "player-joined", player |-> Summary(p)] \in Mail
              /\ [type |-> "player-left", id |-> p] \in Mail
              /\ [type |-> "correct-answer", id |-> p, players |-> Summaries] \in Mail
         /\ \A m \in Mark : [type |-> "draw", stroke |-> m] \in Mail
<1> USE DEF Mail, ServerToClientMessage
<1>1. Summaries \in SUBSET PlayerSummary
  BY SummariesAre DEF IInv, TypeOK, Board, PlayerSummary
<1>2. /\ phase' \in {"waiting", "playing", "ended"} /\ round' \in Nat /\ totalRounds' \in Nat
      /\ drawerId' \in Player \cup {Null} /\ roundEndsAt' \in {"set", Null}
      /\ word \in Word \cup {Null} /\ word' \in Word \cup {Null} /\ round \in Nat
      /\ score' \in [Player -> Nat] /\ Picture(strokes') \in Seq(StrokeSegment)
  BY PictureProperties DEF IInv, TypeOK
<1>3. RoomState \in Mail
  BY <1>1, <1>2 DEF RoomState
<1>4. ASSUME NEW p \in Player
      PROVE  /\ [type |-> "player-joined", player |-> Summary(p)] \in Mail
             /\ [type |-> "player-left", id |-> p] \in Mail
             /\ [type |-> "correct-answer", id |-> p, players |-> Summaries] \in Mail
  BY <1>1, <1>2 DEF Summary, PlayerSummary
<1>6. \A m \in Mark : [type |-> "draw", stroke |-> m] \in Mail
  BY DEF StrokeSegment
<1>5. /\ [type |-> "draw-clear"] \in Mail
      /\ [type |-> "game-started", totalRounds |-> totalRounds'] \in Mail
      /\ [type |-> "game-ended", players |-> Summaries] \in Mail
      /\ [type |-> "round-ended", word |-> word, players |-> Summaries] \in Mail
      /\ drawerId' # Null =>
           [type |-> "round-started", round |-> round', totalRounds |-> totalRounds',
            drawerId |-> drawerId', word |-> IF drawerId' = Me THEN word' ELSE Null] \in Mail
  BY <1>1, <1>2
<1> QED
  BY <1>3, <1>4, <1>5, <1>6

\* ... and is what the handler did.
LEMMA OutcomeIs ==
  ASSUME IInv, IInv'
  PROVE  /\ EndRound => Outcome = RoundEnded
         /\ phase = "playing" /\ EndGame(gameId, round) /\ UNCHANGED reveals =>
              Outcome = GameEnded
         /\ /\ reveals' = reveals \/ reveals' = <<>>
            /\ UNCHANGED results
            /\ phase' = "playing" /\ roundTimer # "round" /\ roundTimer' = "round"
            => Outcome = RoundStarted
         /\ UNCHANGED <<reveals, results, roundTimer>> => Outcome = <<>>
<1>1. Len(reveals) \in Nat /\ Len(results) \in Nat
  BY LenProperties DEF IInv, TypeOK
<1>2. ASSUME EndRound PROVE Outcome = RoundEnded
  <2>1. Len(reveals') = Len(reveals) + 1
    BY <1>2 DEF EndRound, Reveal, IInv, TypeOK
  <2> QED
    BY <1>1, <2>1 DEF Outcome
<1>3. ASSUME phase = "playing", EndGame(gameId, round), UNCHANGED reveals
      PROVE  Outcome = GameEnded
  <2> DEFINE R == [gameId : Nat, roundsPlayed : Nat,
                   players : SUBSET Player, score : [Player -> Nat]]
             e == GameFinished(gameId, round)
  <2>1. results \in Seq(R) /\ e \in R /\ results' = Append(results, e)
    BY <1>3 DEF EndGame, Publish, GameFinished, IInv, TypeOK, RoundFieldsAgree
  <2> HIDE DEF R, e
  <2>2. Len(results') = Len(results) + 1
    BY <2>1, AppendProperties
  <2> QED
    BY <1>1, <1>3, <2>2 DEF Outcome
<1>4. ASSUME reveals' = reveals \/ reveals' = <<>>, UNCHANGED results
      PROVE  ~(Len(reveals') > Len(reveals)) /\ ~(Len(results') > Len(results))
  BY <1>1, <1>4
<1> QED
  BY <1>2, <1>3, <1>4 DEF Outcome

LEMMA Delivered ==
  ASSUME NEW box \in Seq(Mail), NEW a \in Mail, NEW b \in Mail, NEW c \in Mail
  PROVE  /\ box \o <<>> = box
         /\ box \o <<a>> = Append(box, a)
         /\ box \o (<<a>> \o <<>>) = Append(box, a)
         /\ box \o <<a, b>> = Append(Append(box, a), b)
         /\ box \o (<<a>> \o <<b>>) = Append(Append(box, a), b)
         /\ box \o (<<a>> \o <<b, c>>) = Append(Append(Append(box, a), b), c)
<1>1. <<a>> \in Seq(Mail) /\ <<b>> \in Seq(Mail) /\ <<b, c>> \in Seq(Mail) /\ <<>> \in Seq(Mail)
  OBVIOUS
<1>2. \A q \in Seq(Mail) : q \o <<>> = q
  OBVIOUS
<1>3. \A q \in Seq(Mail), x \in Mail : q \o <<x>> = Append(q, x) /\ Append(q, x) \in Seq(Mail)
  OBVIOUS
<1>4. \A q \in Seq(Mail), x, y \in Mail : q \o <<x, y>> = Append(Append(q, x), y)
  OBVIOUS
<1>5. ASSUME NEW s \in Seq(Mail)
      PROVE  box \o (<<a>> \o s) = Append(box, a) \o s
  <2>1. (box \o <<a>>) \o s = box \o (<<a>> \o s)
    BY <1>1, ConcatAssociative
  <2> QED
    BY <1>3, <2>1
<1>6. Append(box, a) \in Seq(Mail) /\ box \o <<>> = box /\ box \o <<a>> = Append(box, a)
  BY <1>2, <1>3
<1>7. box \o <<a, b>> = Append(Append(box, a), b)
  BY <1>4
<1>8. box \o (<<a>> \o <<>>) = Append(box, a)
  BY <1>1, <1>2, <1>5, <1>6, Zenon
<1>9. box \o (<<a>> \o <<b>>) = Append(Append(box, a), b)
  BY <1>1, <1>3, <1>5, <1>6, Zenon
<1>10. box \o (<<a>> \o <<b, c>>) = Append(Append(Append(box, a), b), c)
  BY <1>1, <1>4, <1>5, <1>6, Zenon
<1> QED
  BY <1>6, <1>7, <1>8, <1>9, <1>10

-----------------------------------------------------------------------------
(* What agreed with the room before a handler agrees after it, once the    *)
(* messages of the handler are read.                                       *)

\* The course of the round, as far as a view shows it.
SameCourse ==
  UNCHANGED <<phase, round, totalRounds, drawerId, word, roundEndsAt, games>>

LEMMA ReadFields ==
  ASSUME NEW v \in GameState, NEW m \in Mail
  PROVE  /\ m.type \in {"draw", "draw-clear"} => Read(v, m) = v
         /\ m.type \in {"player-joined", "player-left", "correct-answer", "draw",
                        "draw-clear", "game-started"} =>
              Read(v, m).drawerId = v.drawerId /\ Read(v, m).round = v.round
         /\ m.type \in {"round-ended", "game-ended"} => Read(v, m).drawerId = Null
         /\ m.type \in {"round-started", "room-state"} => Read(v, m).drawerId = m.drawerId
BY DEF Read, GameState, InitialView

LEMMA SameAgrees ==
  ASSUME NEW v, Agrees(v), SameCourse, UNCHANGED <<players, score, solved, gone>>
  PROVE  Agrees(v)'
<1>1. Board' = Board
  BY DEF Board
<1> QED
  BY <1>1 DEF Agrees, SameCourse

LEMMA JoinAgrees ==
  ASSUME IInv, NEW v \in GameState, Agrees(v), NEW p \in Player, p # Me, Join(p),
         NEW m \in Mail, m.type = "player-joined", m.player = [id |-> p, score |-> score'[p]]
  PROVE  Agrees(Read(v, m))'
<1>1. /\ SameCourse /\ p \notin players /\ players' = players \cup {p} /\ solved' = solved
      /\ score'[p] = 0 /\ \A q \in players : score'[q] = score[q]
  BY DEF Join, SameCourse, IInv, TypeOK
<1>2. Ids(v.players) = players
  BY DEF Agrees
<1>3. m.player.id \notin Ids(v.players)
  BY <1>1, <1>2
<1> DEFINE w == Read(v, m)
<1>4. /\ w.players = v.players \cup {m.player}
      /\ w.phase = v.phase /\ w.round = v.round /\ w.totalRounds = v.totalRounds
      /\ w.drawerId = v.drawerId /\ w.clock = v.clock /\ w.word = v.word
      /\ w.solved = v.solved /\ w.revealed = v.revealed
  BY <1>3 DEF Read, GameState
<1> HIDE DEF w
<1>5. Ids(w.players) = players'
  BY <1>1, <1>2, <1>4 DEF Ids
<1>6. v.players = Board => w.players = Board'
  BY <1>1, <1>4 DEF Board
<1>7. word # Null => /\ w.word = IF drawerId = Me THEN word ELSE Null
                     /\ w.revealed = Null
                     /\ Me \in solved <=> Me \in w.solved
                     /\ w.solved \cap players' \subseteq solved
                     /\ w.solved \subseteq players' \cup gone'
  BY <1>1, <1>4 DEF Agrees, Join
<1> QED
  BY <1>1, <1>4, <1>5, <1>6, <1>7 DEF Agrees, SameCourse, w

LEMMA LeaveAgrees ==
  ASSUME IInv, NEW v \in GameState, Agrees(v), NEW p \in Player, p # Me, RemovePlayer(p),
         SameCourse, solved' = solved \ {p},
         NEW m \in Mail, m.type = "player-left", m.id = p
  PROVE  Agrees(Read(v, m))'
<1>1. /\ p \in players /\ players' = players \ {p} /\ gone' = gone \cup {p}
      /\ \A q \in players' : score'[q] = score[q]
  BY DEF RemovePlayer, IInv, TypeOK
<1> DEFINE w == Read(v, m)
<1>2. /\ w.players = {s \in v.players : s.id # p}
      /\ w.phase = v.phase /\ w.round = v.round /\ w.totalRounds = v.totalRounds
      /\ w.drawerId = v.drawerId /\ w.clock = v.clock /\ w.word = v.word
      /\ w.solved = v.solved /\ w.revealed = v.revealed
  BY DEF Read, GameState
<1> HIDE DEF w
<1>3. Ids(w.players) = players'
  <2>1. Ids(v.players) = players
    BY DEF Agrees
  <2> QED
    BY <1>1, <1>2, <2>1 DEF Ids
<1>4. v.players = Board => w.players = Board'
  BY <1>1, <1>2 DEF Board
<1>5. word # Null => /\ w.word = IF drawerId = Me THEN word ELSE Null
                     /\ w.revealed = Null
                     /\ Me \in solved' <=> Me \in w.solved
                     /\ w.solved \cap players' \subseteq solved'
                     /\ w.solved \subseteq players' \cup gone'
  BY <1>1, <1>2 DEF Agrees
<1> QED
  BY <1>1, <1>2, <1>3, <1>4, <1>5 DEF Agrees, SameCourse, w

LEMMA AnswerAgrees ==
  ASSUME IInv, NEW v \in GameState, Agrees(v), NEW p \in players,
         SameCourse, UNCHANGED <<players, gone>>, solved' = solved \cup {p},
         NEW m \in Mail, m.type = "correct-answer", m.id = p, m.players = Board'
  PROVE  Agrees(Read(v, m))'
<1> DEFINE w == Read(v, m)
<1>1. /\ w.players = Board' /\ w.solved = v.solved \cup {p}
      /\ w.phase = v.phase /\ w.round = v.round /\ w.totalRounds = v.totalRounds
      /\ w.drawerId = v.drawerId /\ w.clock = v.clock /\ w.word = v.word
      /\ w.revealed = v.revealed
  BY DEF Read, GameState
<1> HIDE DEF w
<1>2. Ids(w.players) = players'
  BY <1>1, BoardPrimeIds
<1>3. word # Null => /\ w.word = IF drawerId = Me THEN word ELSE Null
                     /\ w.revealed = Null
                     /\ Me \in solved' <=> Me \in w.solved
                     /\ w.solved \cap players' \subseteq solved'
                     /\ w.solved \subseteq players' \cup gone'
  BY <1>1 DEF Agrees
<1> QED
  BY <1>1, <1>2, <1>3 DEF Agrees, SameCourse, w

LEMMA RoundEndAgrees ==
  ASSUME NEW v \in GameState, EndRound,
         v.phase = phase, v.round = round, v.totalRounds = totalRounds,
         NEW m \in Mail, m.type = "round-ended", m.players = Board'
  PROVE  Agrees(Read(v, m))'
<1> DEFINE w == Read(v, m)
<1>1. /\ w.players = Board' /\ w.drawerId = Null /\ w.clock = Null
      /\ w.phase = v.phase /\ w.round = v.round /\ w.totalRounds = v.totalRounds
  BY DEF Read, GameState
<1> HIDE DEF w
<1>2. Ids(w.players) = players'
  BY <1>1, BoardPrimeIds
<1>3. /\ drawerId' = Null /\ roundEndsAt' = Null /\ word' = Null
      /\ UNCHANGED <<phase, round, totalRounds>>
  BY DEF EndRound
<1> QED
  BY <1>1, <1>2, <1>3 DEF Agrees, w

LEMMA GameEndAgrees ==
  ASSUME NEW v \in GameState, NEW id, NEW n, EndGame(id, n),
         v.round = round, v.totalRounds = totalRounds, UNCHANGED <<round, totalRounds>>,
         NEW m \in Mail, m.type = "game-ended", m.players = Board'
  PROVE  Agrees(Read(v, m))'
<1> DEFINE w == Read(v, m)
<1>1. /\ w.players = Board' /\ w.drawerId = Null /\ w.clock = Null
      /\ w.phase = "ended" /\ w.round = v.round /\ w.totalRounds = v.totalRounds
  BY DEF Read, GameState
<1> HIDE DEF w
<1>2. Ids(w.players) = players'
  BY <1>1, BoardPrimeIds
<1>3. drawerId' = Null /\ roundEndsAt' = Null /\ word' = Null /\ phase' = "ended"
  BY DEF EndGame
<1> QED
  BY <1>1, <1>2, <1>3 DEF Agrees, w

\* The view before knows the members; the scores are the old ones in a game
\* that is not the room's first.
LEMMA RoundStartAgrees ==
  ASSUME NEW v \in GameState, NEW m \in Mail, m.type = "round-started",
         m.round = round', m.totalRounds = totalRounds', m.drawerId = drawerId',
         m.word = IF drawerId' = Me THEN word' ELSE Null,
         phase' = "playing", roundEndsAt' = "set", solved' = {},
         Ids(v.players) = players',
         \/ v.players = Board'
         \/ games' > 1 /\ round' = 1 /\ word' # Null /\ \A p \in players' : score'[p] = 0
  PROVE  Agrees(Read(v, m))'
<1> DEFINE w == Read(v, m)
<1>1. /\ w.players = v.players /\ w.phase = "playing" /\ w.round = m.round
      /\ w.totalRounds = m.totalRounds /\ w.drawerId = m.drawerId /\ w.clock = "set"
      /\ w.word = m.word /\ w.solved = {} /\ w.revealed = Null
  BY DEF Read, GameState
<1> HIDE DEF w
<1> QED
  BY <1>1 DEF Agrees, w

\* A newcomer starts from the room's state, with nobody known to have solved.
LEMMA RoomStateAgrees ==
  ASSUME NEW v, NEW m \in Mail, m.type = "room-state",
         m.players = Board', m.phase = phase', m.round = round',
         m.totalRounds = totalRounds', m.drawerId = drawerId', m.clock = roundEndsAt',
         Me \notin solved', drawerId' # Me
  PROVE  Agrees(Read(v, m))'
<1> DEFINE w == Read(v, m)
<1>1. /\ w.players = m.players /\ w.phase = m.phase /\ w.round = m.round
      /\ w.totalRounds = m.totalRounds /\ w.drawerId = m.drawerId /\ w.clock = m.clock
      /\ w.word = Null /\ w.solved = {} /\ w.revealed = Null
  BY DEF Read, InitialView
<1> HIDE DEF w
<1>2. Ids(w.players) = players'
  BY <1>1, BoardPrimeIds
<1> QED
  BY <1>1, <1>2 DEF Agrees, w

-----------------------------------------------------------------------------
(* The canvas.                                                             *)

LEMMA ShownEmpty == strokes' = <<>> => Shown(<<>>)'
<1> SUFFICES ASSUME strokes' = <<>> PROVE Shown(<<>>)'
  OBVIOUS
<1>1. Picture(strokes') = <<>>
  BY DEF Picture
<1>2. IsPrefix(<<>>, <<>>)
  BY DEF IsPrefix
<1> QED
  BY <1>1, <1>2 DEF Shown

LEMMA PrefixAppend ==
  ASSUME NEW S, NEW s \in Seq(S), NEW t \in Seq(S), NEW e \in S
  PROVE  /\ IsPrefix(s, s)
         /\ IsPrefix(s, t) => IsPrefix(s, Append(t, e))
<1>1. /\ Len(s) \in Nat /\ Len(t) \in Nat /\ Append(t, e) \in Seq(S)
      /\ Len(Append(t, e)) = Len(t) + 1
      /\ \A i \in 1 .. Len(t) : Append(t, e)[i] = t[i]
  BY AppendProperties
<1>2. ASSUME Len(s) <= Len(t)
      PROVE  SubSeq(Append(t, e), 1, Len(s)) = SubSeq(t, 1, Len(s))
  BY <1>1, <1>2, SubSeqProperties
<1> QED
  BY <1>1, <1>2 DEF IsPrefix

\* A stroke is on the canvases when it is in the buffer, and also when the full
\* buffer drops it.
LEMMA ShownDraw ==
  ASSUME IInv, NEW p \in Player, NEW e \in Mark, AddStroke(p, e),
         NEW c \in Seq(StrokeSegment), Shown(c)
  PROVE  Shown(Append(c, e))'
<1>1. /\ e \in StrokeSegment /\ strokes \in Seq(Segment)
      /\ Len(strokes) \in Nat /\ MaxBufferedStrokes \in Nat
  BY LenProperties, RulesAssumption DEF IInv, TypeOK, StrokeSegment
<1>2. Picture(strokes) \in Seq(StrokeSegment)
  BY <1>1, PictureProperties
<1>3. CASE Draw(p, e)
  <2> DEFINE g == [game |-> gameId, round |-> round, by |-> p, mark |-> e]
  <2>1. /\ strokes' = Append(strokes, g) /\ g \in Segment /\ Len(strokes) < MaxBufferedStrokes
        /\ g.mark = e
    BY <1>3 DEF Draw, IInv, TypeOK, RoundFieldsAgree, Segment
  <2>2. c = Picture(strokes)
    BY <2>1 DEF Shown
  <2> HIDE DEF g
  <2>3. /\ strokes' \in Seq(Segment) /\ Len(strokes') = Len(strokes) + 1
        /\ \A i \in 1 .. Len(strokes) : strokes'[i] = strokes[i]
        /\ strokes'[Len(strokes) + 1] = g
    BY <1>1, <2>1, AppendProperties
  <2>4. /\ Picture(strokes') \in Seq(StrokeSegment) /\ Len(Picture(strokes')) = Len(strokes')
        /\ \A i \in 1 .. Len(strokes') :
             Picture(strokes')[i] = strokes'[i].mark
    BY <2>3, PictureProperties
  <2>5. /\ c \in Seq(StrokeSegment) /\ Len(c) = Len(strokes)
        /\ \A i \in 1 .. Len(strokes) : c[i] = strokes[i].mark
    BY <1>1, <2>2, PictureProperties
  <2>6. /\ Append(c, e) \in Seq(StrokeSegment) /\ Len(Append(c, e)) = Len(strokes) + 1
        /\ \A i \in 1 .. Len(strokes) : Append(c, e)[i] = c[i]
        /\ Append(c, e)[Len(strokes) + 1] = e
    BY <1>1, <2>5, AppendProperties
  <2>7. ASSUME NEW i \in 1 .. Len(strokes) + 1
        PROVE  Picture(strokes')[i] = Append(c, e)[i]
    <3>1. CASE i = Len(strokes) + 1
      BY <2>1, <2>3, <2>4, <2>6, <3>1
    <3>2. CASE i # Len(strokes) + 1
      <4>1. i \in 1 .. Len(strokes)
        BY <1>1, <3>2
      <4> QED
        BY <2>3, <2>4, <2>5, <2>6, <4>1
    <3> QED
      BY <3>1, <3>2
  <2>8. Picture(strokes') = Append(c, e)
    BY <2>3, <2>4, <2>6, <2>7, SeqEqual
  <2>9. Shown(Append(c, e))'
    BY <1>1, <2>4, <2>8, PrefixAppend DEF Shown
  <2> QED
    BY <2>1, <2>9
<1>4. CASE UNCHANGED vars /\ Len(strokes) >= MaxBufferedStrokes
  <2>1. UNCHANGED <<strokes, round>>
    BY <1>4 DEF vars, roomVars
  <2>2. IsPrefix(Picture(strokes), Append(c, e))
    BY <1>1, <1>2, PrefixAppend DEF Shown
  <2>3. ~(Len(strokes') < MaxBufferedStrokes)
    BY <1>1, <1>4, <2>1
  <2> QED
    BY <2>1, <2>2, <2>3 DEF Shown
<1> QED
  BY <1>3, <1>4 DEF AddStroke

\* The commands of the drawer that are on their way.
LEMMA CommandFields ==
  ASSUME NEW m \in ClientToServerMessage
  PROVE  /\ m.type = "draw" => m.stroke \in Mark
         /\ m.type \in {"join", "draw", "draw-clear"}
         /\ m.type = "join" => m = [type |-> "join"]
         /\ \A c \in Seq(StrokeSegment) : Paint(c, m) \in Seq(StrokeSegment)
BY DEF ClientToServerMessage, Paint, StrokeSegment

LEMMA NoCommands ==
  ASSUME outbox = <<>>
  PROVE  \A cs : Commanded(cs) <=> cs[0] = view.strokes /\ Shown(view.strokes)
BY DEF Commanded

\* One more is on its way, and the canvas of the browser shows it already.
LEMMA CommandsGrow ==
  ASSUME ClientTypeOK, NEW m \in ClientToServerMessage, outbox' = Append(outbox, m),
         view'.strokes = Paint(view.strokes, m), \A c : Shown(c) => Shown(c)',
         NEW cs \in [0 .. Len(outbox) -> Seq(StrokeSegment)], Commanded(cs)
  PROVE  \E ds \in [0 .. Len(outbox') -> Seq(StrokeSegment)] : Commanded(ds)'
<1> PICK n : n = Len(outbox)
  OBVIOUS
<1>1. /\ outbox \in Seq(ClientToServerMessage) /\ n \in Nat /\ Len(outbox') = n + 1
      /\ \A i \in 1 .. n : outbox'[i] = outbox[i]
      /\ outbox'[n + 1] = m
  BY AppendProperties DEF ClientTypeOK
<1>2. /\ Shown(cs[0]) /\ cs[n] = view.strokes /\ cs[n] \in Seq(StrokeSegment)
      /\ \A i \in 1 .. n : cs[i] = Paint(cs[i - 1], outbox[i])
  BY <1>1 DEF Commanded
<1> DEFINE ds == [i \in 0 .. n + 1 |-> IF i <= n THEN cs[i] ELSE Paint(cs[n], m)]
<1>3. Paint(cs[n], m) \in Seq(StrokeSegment)
  BY <1>2, CommandFields
<1>4. /\ ds \in [0 .. n + 1 -> Seq(StrokeSegment)]
      /\ \A i \in 0 .. n : ds[i] = cs[i]
      /\ ds[n + 1] = Paint(cs[n], m)
  BY <1>1, <1>3
<1> HIDE DEF ds
<1>5. ASSUME NEW i \in 1 .. n + 1 PROVE ds[i] = Paint(ds[i - 1], outbox'[i])
  <2>1. CASE i = n + 1
    <3>1. i - 1 = n /\ ds[n] = cs[n]
      BY <1>1, <1>4, <2>1
    <3> QED
      BY <1>1, <1>4, <2>1, <3>1
  <2>2. CASE i # n + 1
    <3>1. i \in 1 .. n /\ i \in 0 .. n /\ i - 1 \in 0 .. n
      BY <1>1, <2>2
    <3> QED
      BY <1>1, <1>2, <1>4, <3>1
  <2> QED
    BY <2>1, <2>2
<1>6. Shown(ds[0])' /\ ds[n + 1] = view'.strokes
  BY <1>1, <1>2, <1>4
<1>7. Commanded(ds)'
  BY <1>1, <1>5, <1>6 DEF Commanded
<1> QED
  BY <1>1, <1>4, <1>7

\* The first arrives, and what a newcomer would be replayed shows it too.
LEMMA CommandsShrink ==
  ASSUME ClientTypeOK, outbox # <<>>, outbox' = Tail(outbox), UNCHANGED view,
         NEW cs \in [0 .. Len(outbox) -> Seq(StrokeSegment)], Commanded(cs),
         NEW c, c = Paint(cs[0], Head(outbox)), Shown(c)'
  PROVE  \E ds \in [0 .. Len(outbox') -> Seq(StrokeSegment)] : Commanded(ds)'
<1> PICK n : n = Len(outbox)
  OBVIOUS
<1>1. /\ outbox \in Seq(ClientToServerMessage) /\ n \in Nat /\ n >= 1
      /\ Len(outbox') = n - 1 /\ Head(outbox) = outbox[1]
      /\ \A i \in 1 .. n - 1 : outbox'[i] = outbox[i + 1]
  BY DEF ClientTypeOK
<1>2. /\ cs[n] = view.strokes
      /\ \A i \in 1 .. n : cs[i] = Paint(cs[i - 1], outbox[i])
  BY DEF Commanded
<1> DEFINE ds == [i \in 0 .. n - 1 |-> cs[i + 1]]
<1>3. ds \in [0 .. n - 1 -> Seq(StrokeSegment)] /\ \A i \in 0 .. n - 1 : ds[i] = cs[i + 1]
  BY <1>1
<1> HIDE DEF ds
<1>4. ASSUME NEW i \in 1 .. n - 1 PROVE ds[i] = Paint(ds[i - 1], outbox'[i])
  <2>1. i + 1 \in 1 .. n /\ i \in 0 .. n - 1 /\ i - 1 \in 0 .. n - 1 /\ (i + 1) - 1 = i
    BY <1>1
  <2>2. cs[i + 1] = Paint(cs[i], outbox[i + 1])
    BY <1>2, <2>1
  <2>3. ds[i] = cs[i + 1] /\ ds[i - 1] = cs[i]
    BY <1>3, <2>1
  <2> QED
    BY <1>1, <2>2, <2>3
<1>5. ds[0] = c /\ ds[n - 1] = view'.strokes
  <2>1. 1 \in 1 .. n /\ 0 \in 0 .. n - 1 /\ n - 1 \in 0 .. n - 1 /\ (n - 1) + 1 = n
    BY <1>1
  <2>2. cs[1] = Paint(cs[0], outbox[1])
    BY <1>2, <2>1
  <2> QED
    BY <1>1, <1>2, <1>3, <2>1, <2>2
<1>6. Commanded(ds)'
  BY <1>1, <1>4, <1>5 DEF Commanded
<1> QED
  BY <1>1, <1>3, <1>6

\* Another message for a viewer.
LEMMA ViewerHears ==
  ASSUME ClientTypeOK, NEW m \in Mail, inbox' = Append(inbox, m), view' = view,
         NEW views, Viewer(views),
         NEW w, \A i \in 0 .. Len(inbox) : w[i] = views[i],
         w[Len(inbox) + 1].drawerId # Me,
         \A c \in Seq(StrokeSegment) : Shown(c) => Shown(Paint(c, m))'
  PROVE  Viewer(w)'
<1> PICK n : n = Len(inbox)
  OBVIOUS
<1>1. PICK k \in 0 .. n : \E cs \in [k .. n -> Seq(StrokeSegment)] : Watches(views, k, cs)
  BY DEF Viewer
<1>2. PICK cs \in [k .. n -> Seq(StrokeSegment)] : Watches(views, k, cs)
  BY <1>1
<1> DEFINE ds == [i \in k .. n + 1 |-> IF i <= n THEN cs[i] ELSE Paint(cs[n], m)]
<1>3. /\ inbox \in Seq(Mail) /\ n \in Nat /\ Len(inbox') = n + 1
      /\ \A i \in 1 .. n : inbox'[i] = inbox[i]
      /\ inbox'[n + 1] = m
  BY AppendProperties DEF ClientTypeOK, Mail
<1>4. /\ k = 0 => cs[0] = view.strokes
      /\ k > 0 => inbox[k].type \in {"draw-clear", "room-state"} /\ cs[k] = Paint(<<>>, inbox[k])
      /\ \A i \in k + 1 .. n : cs[i] = Paint(cs[i - 1], inbox[i])
      /\ \A i \in k .. n : views[i].drawerId # Me
      /\ Shown(cs[n])
  BY <1>2 DEF Watches
<1>5. cs[n] \in Seq(StrokeSegment) /\ Paint(cs[n], m) \in Seq(StrokeSegment)
  BY <1>2, <1>3, PaintType
<1>6. /\ ds \in [k .. n + 1 -> Seq(StrokeSegment)]
      /\ \A i \in k .. n : ds[i] = cs[i]
      /\ ds[n + 1] = Paint(cs[n], m)
  BY <1>2, <1>3, <1>5
<1> HIDE DEF ds
<1>7. k = 0 => ds[0] = view.strokes
  BY <1>3, <1>4, <1>6
<1>8. k > 0 => inbox'[k].type \in {"draw-clear", "room-state"} /\ ds[k] = Paint(<<>>, inbox'[k])
  BY <1>3, <1>4, <1>6
<1>9. ASSUME NEW i \in k + 1 .. n + 1 PROVE ds[i] = Paint(ds[i - 1], inbox'[i])
  <2>1. CASE i = n + 1
    <3>1. ds[n] = cs[n] /\ i - 1 = n
      BY <1>3, <1>6, <2>1
    <3> QED
      BY <1>3, <1>6, <2>1, <3>1
  <2>2. CASE i # n + 1
    <3>1. i \in k + 1 .. n /\ i \in 1 .. n /\ i \in k .. n /\ i - 1 \in k .. n
      BY <1>3, <2>2
    <3> QED
      BY <1>3, <1>4, <1>6, <3>1
  <2> QED
    BY <2>1, <2>2
<1>10. \A i \in k .. n + 1 : w[i].drawerId # Me
  <2>1. \A i \in k .. n + 1 : i = n + 1 \/ (i \in k .. n /\ i \in 0 .. n)
    BY <1>3
  <2> QED
    BY <1>4, <2>1
<1>11. Shown(ds[n + 1])'
  BY <1>4, <1>5, <1>6
<1>12. Watches(w, k, ds)'
  BY <1>3, <1>7, <1>8, <1>9, <1>10, <1>11 DEF Watches
<1>13. k \in 0 .. n + 1
  BY <1>3
<1> QED
  BY <1>3, <1>6, <1>12, <1>13 DEF Viewer

\* Another message for the drawer, who is sent nothing that paints.
LEMMA DrawerHears ==
  ASSUME ClientTypeOK, NEW m \in Mail, m.type \notin Painting,
         inbox' = Append(inbox, m), UNCHANGED <<view, outbox, strokes, round>>,
         NEW views, Drawer(views),
         NEW w, \A i \in 0 .. Len(inbox) : w[i] = views[i],
         w[Len(inbox) + 1].round = round
  PROVE  Drawer(w)'
<1> PICK n : n = Len(inbox)
  OBVIOUS
<1>1. /\ inbox \in Seq(Mail) /\ n \in Nat /\ Len(inbox') = n + 1
      /\ \A i \in 1 .. n : inbox'[i] = inbox[i]
      /\ inbox'[n + 1] = m
  BY AppendProperties DEF ClientTypeOK, Mail
<1>2. \A i \in 0 .. n + 1 : i = n + 1 \/ i \in 0 .. n
  BY <1>1
<1>3. \A i \in 0 .. n + 1 : w[i].drawerId = Me => w[i].round = round'
  BY <1>2 DEF Drawer
<1>4. CASE Paints
  <2>1. \A i \in 1 .. n + 1 : i = n + 1 \/ i \in 1 .. n
    BY <1>1
  <2>2. \A i \in 1 .. n + 1 : inbox'[i].type \notin Painting
    BY <1>1, <1>4, <2>1 DEF Paints
  <2>3. \A cs : Commanded(cs) => Commanded(cs)'
    BY DEF Commanded, Shown
  <2> QED
    BY <1>1, <1>3, <1>4, <2>2, <2>3 DEF Drawer, Paints
<1>5. ASSUME NEW k \in 1 .. n, Waits(views, k)
      PROVE  Drawer(w)'
  <2>1. \A i \in k + 1 .. n + 1 : i = n + 1 \/ (i \in k + 1 .. n /\ i \in 1 .. n)
    BY <1>1
  <2>2. \A i \in k + 1 .. n + 1 : inbox'[i].type \notin Painting
    BY <1>1, <1>5, <2>1 DEF Waits
  <2>3. \A i \in 0 .. k : i \in 0 .. n
    BY <1>1
  <2>4. Waits(w, k)'
    BY <1>1, <1>5, <2>2, <2>3 DEF Waits
  <2>5. k \in 1 .. n + 1
    BY <1>1
  <2> QED
    BY <1>1, <1>3, <2>4, <2>5 DEF Drawer
<1> QED
  BY <1>4, <1>5 DEF Drawer

-----------------------------------------------------------------------------
(* What the browser is told, once it is in the room.                       *)

\* A message within the round.
LEMMA HearRound ==
  ASSUME ClientTypeOK, NEW views, Sees(views), NEW m \in Mail,
         m.type \in {"player-joined", "player-left", "correct-answer"},
         inbox' = Append(inbox, m), UNCHANGED <<view, outbox, strokes>>,
         SameCourse, Me \notin drawn' => Me \notin drawn,
         NEW v, v = views[Len(inbox)], Agrees(Read(v, m))'
  PROVE  InSight'
<1> PICK n : n = Len(inbox)
  OBVIOUS
<1>1. inbox \in Seq(Mail) /\ n \in Nat /\ Len(inbox') = n + 1
  BY AppendProperties DEF ClientTypeOK, Mail
<1>2. ReadsOn(Glance(view), inbox, views) /\ Agrees(views[n]) /\ Fresh(views)
  BY DEF Sees
<1>3. PICK w : ReadsOneMore(Glance(view), inbox, m, views, w)
  BY <1>1, <1>2, ReadsOnAppend
<1>4. /\ ReadsOn(Glance(view), Append(inbox, m), w)
      /\ \A i \in 0 .. n : w[i] = views[i]
      /\ w[n + 1] = Read(views[n], m)
  BY <1>3 DEF ReadsOneMore
<1>5. views[n] \in GameState
  BY <1>1, <1>2, ReadsOnType
<1>6. w[n + 1].drawerId = views[n].drawerId /\ w[n + 1].round = views[n].round
  BY <1>4, <1>5, ReadFields
<1>7. views[n].drawerId = drawerId /\ views[n].round = round
  BY <1>2 DEF Agrees
<1>8. Fresh(w)'
  <2>1. \A i \in 0 .. n + 1 : i = n + 1 \/ i \in 0 .. n
    BY <1>1
  <2> QED
    BY <1>1, <1>2, <1>4, <1>6, <2>1 DEF Fresh, SameCourse
<1>9. word' # Null /\ drawerId' # Me => Viewer(w)'
  <2> SUFFICES ASSUME word # Null, drawerId # Me PROVE Viewer(w)'
    BY DEF SameCourse
  <2>1. Viewer(views)
    BY DEF Sees
  <2>2. \A c \in Seq(StrokeSegment) : Shown(c) => Shown(Paint(c, m))'
    BY DEF Shown, Paint
  <2> QED
    BY <1>4, <1>6, <1>7, <2>1, <2>2, ViewerHears
<1>10. word' # Null /\ drawerId' = Me /\ games' = 1 => Drawer(w)'
  <2> SUFFICES ASSUME word # Null, drawerId = Me, games = 1 PROVE Drawer(w)'
    BY DEF SameCourse
  <2>1. Drawer(views) /\ m.type \notin Painting
    BY DEF Sees, Painting
  <2> QED
    BY <1>4, <1>6, <1>7, <2>1, DrawerHears DEF SameCourse
<1>11. Sees(w)'
  BY <1>1, <1>4, <1>8, <1>9, <1>10 DEF Sees
<1> QED
  BY <1>11 DEF InSight

\* The message that ends the round, alone...
LEMMA HearEnd ==
  ASSUME ClientTypeOK, NEW views, Sees(views),
         NEW m \in Mail, m.type \in {"round-ended", "game-ended"},
         inbox' = Append(inbox, m), UNCHANGED <<view, outbox, games>>,
         word' = Null, Me \notin drawn' => Me \notin drawn,
         NEW v, v = views[Len(inbox)], Agrees(Read(v, m))'
  PROVE  InSight'
<1> PICK n : n = Len(inbox)
  OBVIOUS
<1>1. inbox \in Seq(Mail) /\ n \in Nat /\ Len(inbox') = n + 1
  BY AppendProperties DEF ClientTypeOK, Mail
<1>2. ReadsOn(Glance(view), inbox, views) /\ Fresh(views)
  BY DEF Sees
<1>3. PICK w : ReadsOneMore(Glance(view), inbox, m, views, w)
  BY <1>1, <1>2, ReadsOnAppend
<1>4. /\ ReadsOn(Glance(view), Append(inbox, m), w)
      /\ \A i \in 0 .. n : w[i] = views[i]
      /\ w[n + 1] = Read(views[n], m)
  BY <1>3 DEF ReadsOneMore
<1>5. views[n] \in GameState
  BY <1>1, <1>2, ReadsOnType
<1>6. w[n + 1].drawerId # Me
  BY <1>4, <1>5, ReadFields, MeAssumption, NullAssumption
<1>7. Fresh(w)'
  <2>1. \A i \in 0 .. n + 1 : i = n + 1 \/ i \in 0 .. n
    BY <1>1
  <2> QED
    BY <1>1, <1>2, <1>4, <1>6, <2>1 DEF Fresh
<1>8. Sees(w)'
  BY <1>1, <1>4, <1>7 DEF Sees
<1> QED
  BY <1>8 DEF InSight

\* ... or after the one about the player who leaves or solves.
LEMMA HearChangeAndEnd ==
  ASSUME ClientTypeOK, NEW views, Sees(views),
         NEW a \in Mail, a.type \in {"player-left", "correct-answer"},
         NEW m \in Mail, m.type \in {"round-ended", "game-ended"},
         inbox' = Append(Append(inbox, a), m), UNCHANGED <<view, outbox, games>>,
         word' = Null, Me \notin drawn' => Me \notin drawn,
         NEW v, v = views[Len(inbox)], Agrees(Read(Read(v, a), m))'
  PROVE  InSight'
<1> PICK n : n = Len(inbox)
  OBVIOUS
<1> PICK box : box = Append(inbox, a)
  OBVIOUS
<1>1. /\ inbox \in Seq(Mail) /\ n \in Nat /\ inbox' = Append(box, m)
      /\ box \in Seq(Mail) /\ Len(box) = n + 1 /\ Len(inbox') = n + 2
  BY AppendProperties DEF ClientTypeOK, Mail
<1>2. ReadsOn(Glance(view), inbox, views) /\ Fresh(views)
  BY DEF Sees
<1>3. PICK u : ReadsOneMore(Glance(view), inbox, a, views, u)
  BY <1>1, <1>2, ReadsOnAppend
<1>4. /\ ReadsOn(Glance(view), box, u)
      /\ \A i \in 0 .. n : u[i] = views[i]
      /\ u[n + 1] = Read(views[n], a)
  BY <1>3 DEF ReadsOneMore
<1>5. PICK w : ReadsOneMore(Glance(view), box, m, u, w)
  BY <1>1, <1>4, ReadsOnAppend
<1>6. /\ ReadsOn(Glance(view), Append(box, m), w)
      /\ \A i \in 0 .. n + 1 : w[i] = u[i]
      /\ w[n + 2] = Read(u[n + 1], m)
  BY <1>1, <1>5 DEF ReadsOneMore
<1>7. views[n] \in GameState /\ u[n + 1] \in GameState /\ w[n + 2] = Read(u[n + 1], m)
  BY <1>1, <1>2, <1>4, <1>6, ReadsOnType
<1>8. u[n + 1].drawerId = views[n].drawerId /\ w[n + 2].drawerId # Me
  BY <1>4, <1>7, ReadFields, MeAssumption, NullAssumption
<1>9. Fresh(w)'
  <2>1. \A i \in 0 .. n + 2 : i = n + 2 \/ i = n + 1 \/ (i \in 0 .. n /\ i \in 0 .. n + 1)
    BY <1>1
  <2>2. n \in 0 .. n /\ n + 1 \in 0 .. n + 1
    BY <1>1
  <2> QED
    BY <1>1, <1>2, <1>4, <1>6, <1>8, <2>1, <2>2 DEF Fresh
<1>10. Sees(w)'
  BY <1>1, <1>4, <1>6, <1>7, <1>9 DEF Sees
<1> QED
  BY <1>10 DEF InSight

\* A stroke of somebody else, or the canvas cleared by somebody else.
LEMMA HearPaint ==
  ASSUME ClientTypeOK, NEW views, Sees(views), NEW m \in Mail,
         m.type \in {"draw", "draw-clear"},
         inbox' = Append(inbox, m), UNCHANGED <<view, outbox>>,
         SameCourse, UNCHANGED <<players, score, solved, gone, drawn>>, drawerId # Me,
         \A c \in Seq(StrokeSegment) : Shown(c) => Shown(Paint(c, m))'
  PROVE  InSight'
<1> PICK n : n = Len(inbox)
  OBVIOUS
<1>1. inbox \in Seq(Mail) /\ n \in Nat /\ Len(inbox') = n + 1
  BY AppendProperties DEF ClientTypeOK, Mail
<1>2. ReadsOn(Glance(view), inbox, views) /\ Agrees(views[n]) /\ Fresh(views)
  BY DEF Sees
<1>3. PICK w : ReadsOneMore(Glance(view), inbox, m, views, w)
  BY <1>1, <1>2, ReadsOnAppend
<1>4. /\ ReadsOn(Glance(view), Append(inbox, m), w)
      /\ \A i \in 0 .. n : w[i] = views[i]
      /\ w[n + 1] = Read(views[n], m)
  BY <1>3 DEF ReadsOneMore
<1>5. views[n] \in GameState
  BY <1>1, <1>2, ReadsOnType
<1>6. w[n + 1] = views[n] /\ w[n + 1].drawerId = drawerId
  BY <1>2, <1>4, <1>5, ReadFields DEF Agrees
<1>7. Agrees(w[n + 1])'
  BY <1>2, <1>6, SameAgrees
<1>8. Fresh(w)'
  <2>1. \A i \in 0 .. n + 1 : i = n + 1 \/ i \in 0 .. n
    BY <1>1
  <2> QED
    BY <1>1, <1>2, <1>4, <1>6, <2>1 DEF Fresh, SameCourse
<1>9. word # Null => Viewer(w)'
  <2> SUFFICES ASSUME word # Null PROVE Viewer(w)'
    OBVIOUS
  <2>1. Viewer(views)
    BY DEF Sees
  <2> QED
    BY <1>4, <1>6, <2>1, ViewerHears
<1>10. Sees(w)'
  BY <1>1, <1>4, <1>7, <1>8, <1>9 DEF Sees, SameCourse
<1> QED
  BY <1>10 DEF InSight

\* A round begins: whoever has read up to `box' is told to clear the canvas and
\* then whose turn it is.  From the "draw-clear" on a viewer's canvas is the
\* room's, and up to it the drawer of a first game knows of no turn of theirs.
LEMMA HearStart ==
  ASSUME ClientTypeOK,
         NEW box \in Seq(Mail), NEW u, ReadsOn(Glance(view), box, u),
         NEW a \in Mail, a.type = "draw-clear",
         NEW b \in Mail, b.type = "round-started", b.round = round', b.drawerId = drawerId',
         inbox' = Append(Append(box, a), b), UNCHANGED <<view, outbox>>,
         NEW n, n = Len(box), u[n].drawerId = Null,
         games' <= 1 /\ Me \notin drawn =>
           outbox = <<>> /\ \A i \in 0 .. n : u[i].drawerId # Me,
         games' <= 1 /\ Me \notin drawn' => Me \notin drawn,
         games' = 1 /\ drawerId' = Me => Me \notin drawn,
         drawerId' \in drawn', strokes' = <<>>, games' \in Nat,
         NEW v, v = u[n], Agrees(Read(v, b))'
  PROVE  InSight'
<1>1. n \in Nat
  BY LenProperties
<1> PICK box1 : box1 = Append(box, a)
  OBVIOUS
<1>2. /\ box1 \in Seq(Mail) /\ Len(box1) = n + 1 /\ box1[n + 1] = a
      /\ inbox' = Append(box1, b) /\ Len(inbox') = n + 2
      /\ inbox'[n + 1] = a /\ inbox'[n + 2] = b
  BY <1>1, AppendProperties
<1>3. PICK u1 : ReadsOneMore(Glance(view), box, a, u, u1)
  BY ReadsOnAppend
<1>4. u[n] \in GameState
  BY ReadsOnType
<1>5. /\ ReadsOn(Glance(view), box1, u1)
      /\ \A i \in 0 .. n : u1[i] = u[i]
      /\ u1[n + 1] = u[n]
  BY <1>3, <1>4, ReadFields DEF ReadsOneMore
<1>6. PICK w : ReadsOneMore(Glance(view), box1, b, u1, w)
  BY <1>2, <1>5, ReadsOnAppend
<1>7. /\ ReadsOn(Glance(view), inbox', w)
      /\ \A i \in 0 .. n + 1 : w[i] = u1[i]
      /\ w[n + 2] = Read(u[n], b)
  BY <1>1, <1>2, <1>5, <1>6 DEF ReadsOneMore
<1>8. w[n + 2].drawerId = drawerId' /\ w[n + 2].round = round'
  BY <1>4, <1>7, ZenonT(30) DEF Read, GameState
<1>9. /\ w[n + 1].drawerId # Me
      /\ \A i \in 0 .. n + 2 : i = n + 2 \/ i \in 0 .. n + 1
      /\ \A i \in 0 .. n + 1 : i = n + 1 \/ i \in 0 .. n
      /\ n + 1 \in 0 .. n + 1
  BY <1>1, <1>5, <1>7, MeAssumption, NullAssumption
<1>10. \A i \in 0 .. n : w[i] = u[i]
  BY <1>1, <1>5, <1>7
<1>11. games' <= 1 /\ Me \notin drawn =>
         outbox' = <<>> /\ \A i \in 0 .. n + 1 : w[i].drawerId # Me
  BY <1>9, <1>10
<1>12. Fresh(w)'
  BY <1>2, <1>8, <1>9, <1>11 DEF Fresh
<1>13. drawerId' # Me => Viewer(w)'
  <2> SUFFICES ASSUME drawerId' # Me PROVE Viewer(w)'
    OBVIOUS
  <2> DEFINE cs == [i \in n + 1 .. n + 2 |-> <<>>]
  <2>1. /\ cs \in [n + 1 .. n + 2 -> Seq(StrokeSegment)]
        /\ cs[n + 1] = <<>> /\ cs[n + 2] = <<>>
    BY <1>1
  <2> HIDE DEF cs
  <2>2. cs[n + 1] = Paint(<<>>, a) /\ cs[n + 2] = Paint(cs[n + 1], b)
    BY <2>1 DEF Paint
  <2>3. \A i \in n + 2 .. n + 2 : cs[i] = Paint(cs[i - 1], inbox'[i])
    BY <1>1, <1>2, <2>2
  <2>4. \A i \in n + 1 .. n + 2 : w[i].drawerId # Me
    BY <1>1, <1>8, <1>9
  <2>5. Shown(cs[n + 2])'
    BY <2>1, ShownEmpty
  <2>6. Watches(w, n + 1, cs)'
    BY <1>1, <1>2, <2>2, <2>3, <2>4, <2>5 DEF Watches
  <2>7. n + 1 \in 0 .. n + 2
    BY <1>1
  <2> QED
    BY <1>2, <2>1, <2>6, <2>7 DEF Viewer
<1>14. drawerId' = Me /\ games' = 1 => Drawer(w)'
  <2> SUFFICES ASSUME drawerId' = Me, games' = 1 PROVE Drawer(w)'
    OBVIOUS
  <2>1. outbox' = <<>> /\ \A i \in 0 .. n + 1 : w[i].drawerId # Me
    BY <1>11
  <2>2. \A i \in 0 .. n + 2 : w[i].drawerId = Me => w[i].round = round'
    BY <1>8, <1>9, <2>1
  <2>3. \A i \in n + 2 .. n + 2 : inbox'[i].type \notin Painting
    BY <1>1, <1>2 DEF Painting
  <2>4. Waits(w, n + 1)'
    BY <1>1, <1>2, <2>1, <2>3 DEF Waits
  <2>5. n + 1 \in 1 .. n + 2
    BY <1>1
  <2> QED
    BY <1>2, <2>2, <2>4, <2>5 DEF Drawer
<1>15. Sees(w)'
  BY <1>2, <1>7, <1>12, <1>13, <1>14 DEF Sees
<1> QED
  BY <1>15 DEF InSight

\* The newcomer's first message.
LEMMA HearRoomState ==
  ASSUME ClientTypeOK, inbox = <<>>, view = InitialView, view' = view, outbox' = <<>>,
         NEW m \in Mail, inbox' = Append(inbox, m), m.type = "room-state",
         m.strokes = Picture(strokes'), drawerId' # Me, m.drawerId = drawerId',
         Agrees(Read(Glance(InitialView), m))'
  PROVE  InSight'
<1> PICK v : v = Glance(InitialView)
  OBVIOUS
<1>1. view \in GameState /\ v \in GameState /\ v.drawerId # Me /\ v = Glance(view)
  BY GlanceFields, MeAssumption, NullAssumption DEF ClientTypeOK, InitialView
<1> DEFINE w == [i \in 0 .. 1 |-> IF i = 0 THEN v ELSE Read(v, m)]
<1>2. w \in [0 .. 1 -> GameState] /\ w[0] = v /\ w[1] = Read(v, m)
  BY <1>1, ReadType
<1> HIDE DEF w
<1>3. Len(inbox') = 1 /\ inbox'[1] = m
  OBVIOUS
<1>4. w[1].drawerId # Me
  BY <1>1, <1>2, ReadFields
<1>5. ReadsOn(v, inbox', w)
  BY <1>2, <1>3 DEF ReadsOn
<1>6. Fresh(w)'
  BY <1>1, <1>2, <1>3, <1>4 DEF Fresh
<1>7. Viewer(w)'
  <2> DEFINE cs == [i \in 1 .. 1 |-> m.strokes]
  <2>1. cs \in [1 .. 1 -> Seq(StrokeSegment)] /\ cs[1] = m.strokes
    BY MailFields
  <2> HIDE DEF cs
  <2>2. cs[1] = Paint(<<>>, inbox'[1])
    BY <1>3, <2>1 DEF Paint
  <2>3. Shown(cs[1])'
    <3>1. m.strokes \in Seq(StrokeSegment) /\ Len(m.strokes) \in Nat
      BY MailFields, LenProperties
    <3>2. IsPrefix(m.strokes, m.strokes)
      BY <3>1 DEF IsPrefix
    <3> QED
      BY <2>1, <3>2 DEF Shown
  <2>4. Watches(w, 1, cs)'
    BY <1>3, <1>4, <2>2, <2>3 DEF Watches
  <2>5. 1 \in 0 .. 1
    OBVIOUS
  <2> QED
    BY <1>3, <2>1, <2>4, <2>5 DEF Viewer
<1>8. Sees(w)'
  BY <1>1, <1>2, <1>3, <1>5, <1>6, <1>7 DEF Sees
<1> QED
  BY <1>8 DEF InSight

-----------------------------------------------------------------------------
(* What the browser does, and what the server makes of its commands.       *)

LEMMA SameRoom ==
  UNCHANGED vars => /\ UNCHANGED <<players, phase, games, drawn, word, drawerId, round, strokes>>
                    /\ \A v : Agrees(v) => Agrees(v)'
                    /\ \A c : Shown(c) => Shown(c)'
BY DEF vars, roomVars, Agrees, Board, Shown

\* The browser handles a message: the views read ahead lose the first.
LEMMA ReadInSight ==
  ASSUME ClientTypeOK, NEW views, Sees(views), Reads
  PROVE  InSight'
<1> PICK n : n = Len(inbox)
  OBVIOUS
<1> DEFINE w == [i \in 0 .. n - 1 |-> views[i + 1]]
<1>1. /\ inbox \in Seq(Mail) /\ inbox # <<>> /\ n \in Nat /\ n >= 1
      /\ inbox' = Tail(inbox) /\ Len(inbox') = n - 1 /\ Head(inbox) = inbox[1]
      /\ \A i \in 1 .. n - 1 : inbox'[i] = inbox[i + 1]
  BY DEF Reads, ClientTypeOK, Mail
<1>2. /\ ReadsOn(Glance(view), inbox, views) /\ Agrees(views[n]) /\ Fresh(views)
      /\ word # Null /\ drawerId # Me => Viewer(views)
      /\ word # Null /\ drawerId = Me /\ games = 1 => Drawer(views)
  BY DEF Sees
<1>3. /\ UNCHANGED <<vars, outbox>>
      /\ Glance(view') = Read(Glance(view), inbox[1])
      /\ view'.strokes = Paint(view.strokes, inbox[1])
  BY <1>1 DEF Reads
<1>4. ReadsOn(Read(Glance(view), Head(inbox)), Tail(inbox), w)
  BY <1>1, <1>2, ReadsOnTail
<1>5. \A i \in 0 .. n - 1 : w[i] = views[i + 1]
  OBVIOUS
<1> HIDE DEF w
<1>6. ReadsOn(Glance(view), inbox, w)'
  BY <1>1, <1>3, <1>4
<1>7. Agrees(w[n - 1])'
  <2>1. w[n - 1] = views[n]
    BY <1>1, <1>5
  <2> QED
    BY <1>2, <1>3, <2>1, SameRoom
<1>8. \A i \in 0 .. n - 1 : i + 1 \in 0 .. n
  BY <1>1
<1>9. Fresh(w)'
  BY <1>1, <1>2, <1>3, <1>5, <1>8, SameRoom DEF Fresh
<1>10. ASSUME Viewer(views)
       PROVE  Viewer(w)'
  <2>1. PICK k \in 0 .. n : \E cs \in [k .. n -> Seq(StrokeSegment)] : Watches(views, k, cs)
    BY <1>10 DEF Viewer
  <2>2. PICK cs \in [k .. n -> Seq(StrokeSegment)] : Watches(views, k, cs)
    BY <2>1
  <2>3. /\ k = 0 => cs[0] = view.strokes
        /\ k > 0 => inbox[k].type \in {"draw-clear", "room-state"}
                    /\ cs[k] = Paint(<<>>, inbox[k])
        /\ \A i \in k + 1 .. n : cs[i] = Paint(cs[i - 1], inbox[i])
        /\ \A i \in k .. n : views[i].drawerId # Me
        /\ Shown(cs[n])
    BY <2>2 DEF Watches
  <2> DEFINE j == IF k = 0 THEN 0 ELSE k - 1
             ds == [i \in j .. n - 1 |-> cs[i + 1]]
  <2>4. /\ j \in 0 .. n - 1 /\ n - 1 \in j .. n - 1 /\ (n - 1) + 1 = n
        /\ k > 0 => j + 1 = k
        /\ \A i \in j .. n - 1 : i + 1 \in k .. n /\ i \in 0 .. n - 1
        /\ \A i \in j + 1 .. n - 1 :
             i \in j .. n - 1 /\ i - 1 \in j .. n - 1 /\ i + 1 \in k + 1 .. n
             /\ i \in 1 .. n - 1 /\ (i - 1) + 1 = (i + 1) - 1
    BY <1>1
  <2>5. /\ ds \in [j .. n - 1 -> Seq(StrokeSegment)]
        /\ \A i \in j .. n - 1 : ds[i] = cs[i + 1]
    BY <2>4
  <2> HIDE DEF j, ds
  <2>6. j = 0 => ds[0] = view'.strokes
    <3>1. ASSUME j = 0 PROVE ds[0] = cs[1] /\ (k = 0 \/ k = 1)
      BY <1>1, <2>4, <2>5, <3>1
    <3>2. CASE k = 0
      <4>1. cs[1] = Paint(cs[0], inbox[1])
        <5>1. 1 \in k + 1 .. n
          BY <1>1, <3>2
        <5> QED
          BY <2>3, <5>1
      <4> QED
        BY <1>3, <2>3, <3>1, <3>2, <4>1
    <3>3. CASE k = 1
      BY <1>3, <2>3, <3>1, <3>3 DEF Paint
    <3> QED
      BY <3>1, <3>2, <3>3
  <2>7. j > 0 => inbox'[j].type \in {"draw-clear", "room-state"}
                 /\ ds[j] = Paint(<<>>, inbox'[j])
    <3> SUFFICES ASSUME j > 0 PROVE inbox'[j].type \in {"draw-clear", "room-state"}
                                    /\ ds[j] = Paint(<<>>, inbox'[j])
      OBVIOUS
    <3>1. k > 0 /\ j + 1 = k /\ j \in 1 .. n - 1 /\ j \in j .. n - 1
      BY <1>1, <2>4 DEF j
    <3> QED
      BY <1>1, <2>3, <2>5, <3>1
  <2>8. ASSUME NEW i \in j + 1 .. n - 1 PROVE ds[i] = Paint(ds[i - 1], inbox'[i])
    <3>1. i + 1 \in k + 1 .. n /\ i \in 1 .. n - 1 /\ (i - 1) + 1 = (i + 1) - 1
      BY <2>4
    <3>2. ds[i] = cs[i + 1] /\ ds[i - 1] = cs[(i + 1) - 1]
      BY <2>4, <2>5
    <3>3. cs[i + 1] = Paint(cs[(i + 1) - 1], inbox[i + 1])
      BY <2>3, <3>1
    <3> QED
      BY <1>1, <3>1, <3>2, <3>3
  <2>9. \A i \in j .. n - 1 : w[i].drawerId # Me
    BY <1>5, <2>3, <2>4
  <2>10. Shown(cs[n])'
    BY <1>3, <2>3, SameRoom
  <2>11. ds[n - 1] = cs[n]
    BY <1>1, <2>4, <2>5
  <2>12. Watches(w, j, ds)'
    BY <1>1, <2>6, <2>7, <2>8, <2>9, <2>10, <2>11 DEF Watches
  <2> QED
    BY <1>1, <2>4, <2>5, <2>12 DEF Viewer
<1>11. ASSUME Drawer(views)
       PROVE  Drawer(w)'
  <2>1. UNCHANGED <<round, strokes, outbox>> /\ \A c : Shown(c) => Shown(c)'
    BY <1>3, SameRoom
  <2>2. \A i \in 0 .. n - 1 : w[i].drawerId = Me => w[i].round = round'
    BY <1>5, <1>8, <1>11, <2>1 DEF Drawer
  <2>3. \A i \in 1 .. n - 1 : i + 1 \in 1 .. n
    BY <1>1
  <2>4. CASE Paints
    <3>1. view'.strokes = view.strokes
      BY <1>1, <1>3, <2>4 DEF Paints, Painting, Paint
    <3>2. \A cs : Commanded(cs) => Commanded(cs)'
      BY <2>1, <3>1 DEF Commanded
    <3>3. Paints'
      BY <1>1, <2>1, <2>3, <2>4, <3>2 DEF Paints
    <3> QED
      BY <1>1, <2>2, <3>3 DEF Drawer
  <2>5. ASSUME NEW k \in 1 .. n, Waits(views, k)
        PROVE  Drawer(w)'
    <3>1. CASE k = 1
      <4>1. view'.strokes = <<>> /\ outbox' = <<>> /\ strokes' = <<>>
        BY <1>3, <2>1, <2>5, <3>1 DEF Waits, Paint
      <4>2. \A i \in 1 .. n - 1 : inbox'[i].type \notin Painting
        <5>1. \A i \in 1 .. n - 1 : i + 1 \in k + 1 .. n
          BY <1>1, <3>1
        <5> QED
          BY <1>1, <2>5, <5>1 DEF Waits
      <4>3. Paints'
        <5> DEFINE cs == [i \in 0 .. 0 |-> <<>>]
        <5>1. cs \in [0 .. 0 -> Seq(StrokeSegment)] /\ cs[0] = <<>>
          OBVIOUS
        <5> HIDE DEF cs
        <5>2. Commanded(cs)' /\ Len(outbox') = 0
          BY <4>1, <5>1, ShownEmpty DEF Commanded
        <5> QED
          BY <1>1, <4>2, <5>1, <5>2 DEF Paints
      <4> QED
        BY <1>1, <2>2, <4>3 DEF Drawer
    <3>2. CASE k # 1
      <4> PICK j : j = k - 1
        OBVIOUS
      <4>1. /\ j \in 1 .. n - 1 /\ j + 1 = k
            /\ \A i \in j + 1 .. n - 1 : i + 1 \in k + 1 .. n /\ i \in 1 .. n - 1
            /\ \A i \in 0 .. j : i + 1 \in 0 .. k /\ i \in 0 .. n - 1
        BY <1>1, <3>2
      <4>2. inbox'[j].type = "draw-clear" /\ strokes' = <<>> /\ outbox' = <<>>
        BY <1>1, <2>1, <2>5, <4>1 DEF Waits
      <4>3. \A i \in j + 1 .. n - 1 : inbox'[i].type \notin Painting
        BY <1>1, <2>5, <4>1 DEF Waits
      <4>4. \A i \in 0 .. j : w[i].drawerId # Me
        BY <1>5, <2>5, <4>1 DEF Waits
      <4>5. Waits(w, j)'
        BY <1>1, <4>2, <4>3, <4>4 DEF Waits
      <4> QED
        BY <1>1, <2>2, <4>1, <4>5 DEF Drawer
    <3> QED
      BY <3>1, <3>2
  <2> QED
    BY <1>11, <2>4, <2>5 DEF Drawer
<1>12. Sees(w)'
  BY <1>1, <1>2, <1>3, <1>6, <1>7, <1>9, <1>10, <1>11, SameRoom DEF Sees
<1> QED
  BY <1>12 DEF InSight

\* Whoever may draw has read of the present turn, and nothing that clears the
\* canvas is ahead.
LEMMA DrawersSight ==
  ASSUME ClientTypeOK, NEW views, Sees(views), CanDraw, games \in Nat
  PROVE  /\ views[0].drawerId = Me
         /\ games > 1 \/ Me \in drawn
         /\ word # Null /\ drawerId # Me =>
              \E k \in 1 .. Len(inbox) :
                \E cs \in [k .. Len(inbox) -> Seq(StrokeSegment)] : Watches(views, k, cs)
         /\ word # Null /\ drawerId = Me /\ games = 1 => view.round = round /\ Paints
<1> PICK n : n = Len(inbox)
  OBVIOUS
<1>1. n \in Nat /\ view \in GameState /\ 0 \in 0 .. n
  BY LenProperties DEF ClientTypeOK
<1>2. views[0] = Glance(view)
  BY DEF Sees, ReadsOn
<1>3. views[0].drawerId = Me /\ views[0].round = view.round
  BY <1>1, <1>2, GlanceFields DEF CanDraw
<1>4. games > 1 \/ Me \in drawn
  <2>1. ~(games <= 1 /\ Me \notin drawn)
    BY <1>1, <1>3 DEF Sees, Fresh
  <2> QED
    BY <2>1
<1>5. ASSUME word # Null, drawerId # Me
      PROVE  \E k \in 1 .. n :
               \E cs \in [k .. n -> Seq(StrokeSegment)] : Watches(views, k, cs)
  <2>1. PICK k \in 0 .. n : \E cs \in [k .. n -> Seq(StrokeSegment)] : Watches(views, k, cs)
    BY <1>5 DEF Sees, Viewer
  <2>2. PICK cs \in [k .. n -> Seq(StrokeSegment)] : Watches(views, k, cs)
    BY <2>1
  <2>3. k # 0
    BY <1>1, <1>3, <2>2 DEF Watches
  <2>4. k \in 1 .. n
    BY <1>1, <2>3
  <2> QED
    BY <2>2, <2>4
<1>6. ASSUME word # Null, drawerId = Me, games = 1
      PROVE  view.round = round /\ Paints
  <2>1. Drawer(views)
    BY <1>6 DEF Sees
  <2>2. \A k \in 1 .. n : 0 \in 0 .. k
    BY <1>1
  <2>3. \A k \in 1 .. n : ~Waits(views, k)
    BY <1>3, <2>2 DEF Waits
  <2> QED
    BY <1>1, <1>3, <2>1, <2>3 DEF Drawer
<1> QED
  BY <1>3, <1>4, <1>5, <1>6

\* sendStroke and sendClear
LEMMA CommandInSight ==
  ASSUME ClientTypeOK, NEW views, Sees(views), status = "connected", games \in Nat,
         SendClear \/ \E m \in Mark : SendStroke(m)
  PROVE  InSight'
<1> PICK n : n = Len(inbox)
  OBVIOUS
<1>1. /\ CanDraw /\ UNCHANGED <<vars, inbox>>
      /\ view \in GameState /\ Glance(view') = Glance(view)
  BY DEF SendStroke, SendClear, ClientTypeOK, Glance, GameState
<1>2. UNCHANGED <<games, drawn, word, drawerId, round, strokes>>
  BY <1>1, SameRoom
<1>3. ReadsOn(Glance(view), inbox, views)' /\ Agrees(views[n])' /\ Fresh(views)'
  BY <1>1, <1>2, SameRoom, DrawersSight DEF Sees, Fresh
<1>4. ASSUME word # Null, drawerId # Me PROVE Viewer(views)'
  <2>1. PICK k \in 1 .. n : \E cs \in [k .. n -> Seq(StrokeSegment)] : Watches(views, k, cs)
    BY <1>1, <1>4, DrawersSight
  <2>2. PICK cs \in [k .. n -> Seq(StrokeSegment)] : Watches(views, k, cs)
    BY <2>1
  <2>3. n \in Nat /\ k \in 0 .. n /\ k # 0
    BY LenProperties DEF ClientTypeOK
  <2>4. Watches(views, k, cs)'
    BY <1>1, <2>2, <2>3, SameRoom DEF Watches
  <2> QED
    BY <1>1, <2>2, <2>3, <2>4 DEF Viewer
<1>5. ASSUME word # Null, drawerId = Me, games = 1 PROVE Drawer(views)'
  <2>1. view.round = round /\ Paints
    BY <1>1, <1>5, DrawersSight
  <2>2. /\ \A i \in 0 .. n : views[i].drawerId = Me => views[i].round = round'
        /\ \A i \in 1 .. n : inbox'[i].type \notin Painting
    BY <1>1, <1>2, <1>5, <2>1 DEF Sees, Drawer, Paints
  <2>3. PICK cs \in [0 .. Len(outbox) -> Seq(StrokeSegment)] : Commanded(cs)
    BY <2>1 DEF Paints
  <2>4. PICK m \in ClientToServerMessage :
          outbox' = Append(outbox, m) /\ view'.strokes = Paint(view.strokes, m)
    <3>1. CASE SendClear
      BY <1>1, <3>1 DEF SendClear, Send, GameState, ClientToServerMessage, Paint
    <3>2. ASSUME NEW e \in Mark, SendStroke(e)
          PROVE  \E m \in ClientToServerMessage :
                   outbox' = Append(outbox, m) /\ view'.strokes = Paint(view.strokes, m)
      <4>1. PICK m \in ClientToServerMessage : m = [type |-> "draw", stroke |-> e]
        BY DEF ClientToServerMessage, StrokeSegment
      <4>2. outbox' = Append(outbox, m)
        BY <3>2, <4>1 DEF SendStroke, Send
      <4>3. view'.strokes = Append(view.strokes, e)
        BY <1>1, <3>2 DEF SendStroke, GameState
      <4>4. Paint(view.strokes, m) = Append(view.strokes, e)
        BY <4>1 DEF Paint
      <4> QED
        BY <4>2, <4>3, <4>4
    <3> QED
      BY <3>1, <3>2
  <2>5. Paints'
    BY <1>1, <2>2, <2>3, <2>4, CommandsGrow, SameRoom DEF Paints
  <2> QED
    BY <1>1, <2>2, <2>5 DEF Drawer
<1>6. Sees(views)'
  BY <1>1, <1>2, <1>3, <1>4, <1>5 DEF Sees
<1> QED
  BY <1>6 DEF InSight

\* handleDraw and handleDrawClear, for this browser's commands
LEMMA RequestInSight ==
  ASSUME ClientTypeOK, IInv, NEW views, Sees(views), DrawRequest \/ ClearRequest
  PROVE  InSight'
<1>1. /\ outbox # <<>> /\ outbox' = Tail(outbox) /\ UNCHANGED <<view, inbox>>
      /\ DrawRequest => Head(outbox).type = "draw"
      /\ ClearRequest => Head(outbox).type = "draw-clear"
  BY DEF DrawRequest, ClearRequest, Request
<1>2. Fresh(views) /\ ~(games <= 1 /\ Me \notin drawn)
  BY <1>1 DEF Sees, Fresh
<1>3. phase # "playing" => word = Null
  BY DEF IInv, GameNeverStuck, RoundFieldsAgree
<1>4. CASE UNCHANGED vars /\ (phase # "playing" \/ drawerId # Me)
  <2>1. word # Null => drawerId # Me
    BY <1>3, <1>4
  <2>2. Viewer(views) => Viewer(views)'
    BY <1>1, <1>4, SameRoom DEF Viewer, Watches
  <2>3. Fresh(views)'
    BY <1>2, <1>4, SameRoom DEF Fresh
  <2>4. Sees(views)'
    BY <1>1, <1>4, <2>1, <2>2, <2>3, SameRoom DEF Sees
  <2> QED
    BY <2>4 DEF InSight
<1>5. ASSUME NEW e \in Mark, e = Head(outbox).stroke, AddStroke(Me, e), DrawRequest
      PROVE  InSight'
  <2>1. /\ phase = "playing" /\ drawerId = Me /\ SameCourse
        /\ UNCHANGED <<players, score, solved, gone, drawn>>
    BY <1>5 DEF AddStroke, Draw, SameCourse, vars, roomVars
  <2>2. Agrees(views[Len(inbox)])'
    <3> PICK v : v = views[Len(inbox)]
      OBVIOUS
    <3> QED
      BY <1>1, <2>1, SameAgrees DEF Sees
  <2>3. Me \in drawn
    BY <2>1, MeAssumption, NullAssumption DEF IInv, TurnsAreUnique
  <2>4. ASSUME word # Null, games = 1 PROVE Drawer(views)'
    <3>1. Drawer(views)
      BY <2>1, <2>4 DEF Sees
    <3>2. ~\E k \in 1 .. Len(inbox) : Waits(views, k)
      BY <1>1 DEF Waits
    <3>3. PICK cs \in [0 .. Len(outbox) -> Seq(StrokeSegment)] : Commanded(cs)
      BY <3>1, <3>2 DEF Drawer, Paints
    <3> PICK c : c = Paint(cs[0], Head(outbox))
      OBVIOUS
    <3>4. Shown(c)'
      <4>1. cs[0] \in Seq(StrokeSegment) /\ Shown(cs[0])
        BY <3>3, LenProperties DEF Commanded, ClientTypeOK
      <4>2. Shown(Append(cs[0], e))'
        BY <1>5, <4>1, ShownDraw, MeAssumption
      <4>3. Paint(cs[0], Head(outbox)) = Append(cs[0], e)
        BY <1>1, <1>5 DEF Paint
      <4> QED
        BY <4>2, <4>3
    <3>6. Paints'
      BY <1>1, <3>1, <3>2, <3>3, <3>4, CommandsShrink DEF Drawer, Paints
    <3> QED
      BY <1>1, <2>1, <3>1, <3>6 DEF Drawer, SameCourse
  <2>5. Sees(views)'
    BY <1>1, <2>1, <2>2, <2>3, <2>4 DEF Sees, Fresh, SameCourse
  <2> QED
    BY <2>5 DEF InSight
<1>6. CASE DrawClear(Me) /\ ClearRequest
  <2>1. /\ phase = "playing" /\ drawerId = Me /\ SameCourse /\ strokes' = <<>>
        /\ UNCHANGED <<players, score, solved, gone, drawn>>
    BY <1>6 DEF DrawClear, ClearStrokes, SameCourse
  <2>2. Agrees(views[Len(inbox)])'
    <3> PICK v : v = views[Len(inbox)]
      OBVIOUS
    <3> QED
      BY <1>1, <2>1, SameAgrees DEF Sees
  <2>3. Me \in drawn
    BY <2>1, MeAssumption, NullAssumption DEF IInv, TurnsAreUnique
  <2>4. ASSUME word # Null, games = 1 PROVE Drawer(views)'
    <3>1. Drawer(views)
      BY <2>1, <2>4 DEF Sees
    <3>2. ~\E k \in 1 .. Len(inbox) : Waits(views, k)
      BY <1>1 DEF Waits
    <3>3. PICK cs \in [0 .. Len(outbox) -> Seq(StrokeSegment)] : Commanded(cs)
      BY <3>1, <3>2 DEF Drawer, Paints
    <3> PICK c : c = Paint(cs[0], Head(outbox))
      OBVIOUS
    <3>4. Shown(c)'
      <4>1. Paint(cs[0], Head(outbox)) = <<>>
        BY <1>1, <1>6 DEF Paint
      <4> QED
        BY <2>1, <4>1, ShownEmpty
    <3>6. Paints'
      BY <1>1, <3>1, <3>2, <3>3, <3>4, CommandsShrink DEF Drawer, Paints
    <3> QED
      BY <1>1, <2>1, <3>1, <3>6 DEF Drawer, SameCourse
  <2>5. Sees(views)'
    BY <1>1, <2>1, <2>2, <2>3, <2>4 DEF Sees, Fresh, SameCourse
  <2> QED
    BY <2>5 DEF InSight
<1> QED
  BY <1>4, <1>5, <1>6 DEF DrawRequest, ClearRequest

-----------------------------------------------------------------------------
(* The handlers of the server, one by one.                                 *)

LEMMA Present ==
  ASSUME ClientTypeOK, InSight, Me \in players
  PROVE  \E views, v : /\ Sees(views) /\ v = views[Len(inbox)]
                       /\ v \in GameState /\ Agrees(v)
<1>1. PICK views : Sees(views)
  BY DEF InSight
<1>2. inbox \in Seq(Mail) /\ ReadsOn(Glance(view), inbox, views)
  BY <1>1 DEF ClientTypeOK, Mail, Sees
<1>3. views[Len(inbox)] \in GameState
  BY <1>2, ReadsOnType
<1> QED
  BY <1>1, <1>3 DEF Sees

LEMMA OtherJoinsInSight ==
  ASSUME IInv, IInv', ClientTypeOK, InSight, NEW p \in Player, OtherJoins(p)
  PROVE  InSight'
<1> SUFFICES ASSUME Me \in players' PROVE InSight'
  BY DEF InSight
<1>1. p # Me /\ Join(p) /\ UNCHANGED <<outbox, view>>
  BY DEF OtherJoins
<1>2. /\ Me \in players /\ SameCourse /\ UNCHANGED <<strokes, drawn>>
  BY <1>1 DEF Join, SameCourse
<1>3. PICK views, v : Sees(views) /\ v = views[Len(inbox)] /\ v \in GameState /\ Agrees(v)
  BY <1>2, Present
<1>4. PICK m \in Mail : m = [type |-> "player-joined", player |-> Summary(p)]
  BY SentMail
<1>5. inbox' = Append(inbox, m)
  BY <1>4, Delivered DEF OtherJoins, Broadcast, ClientTypeOK, Mail
<1>6. m.type = "player-joined" /\ m.player = [id |-> p, score |-> score'[p]]
  BY <1>4 DEF Summary
<1>7. Agrees(Read(v, m))'
  BY <1>1, <1>3, <1>6, JoinAgrees
<1> QED
  BY <1>1, <1>2, <1>3, <1>5, <1>6, <1>7, HearRound

\* A change that goes on with the round, and one that ends it.
LEMMA ChangeInSight ==
  ASSUME ClientTypeOK, NEW views, Sees(views),
         NEW v \in GameState, v = views[Len(inbox)], Agrees(v),
         NEW a \in Mail, a.type \in {"player-left", "correct-answer"},
         NEW m \in Mail, m.type \in {"round-ended", "game-ended"}, m.players = Board',
         inbox' = Append(Append(inbox, a), m), UNCHANGED <<view, outbox, games>>,
         Me \notin drawn' => Me \notin drawn,
         \/ m.type = "round-ended" /\ EndRound
         \/ m.type = "game-ended" /\ EndGame(gameId, round) /\ UNCHANGED <<round, totalRounds>>
  PROVE  InSight'
<1> PICK u : u = Read(v, a)
  OBVIOUS
<1>1. /\ u \in GameState
      /\ u.phase = v.phase /\ u.round = v.round /\ u.totalRounds = v.totalRounds
  BY ReadType DEF Read, GameState
<1>2. v.phase = phase /\ v.round = round /\ v.totalRounds = totalRounds
  BY DEF Agrees
<1>3. word' = Null
  BY DEF EndRound, EndGame
<1>4. CASE m.type = "round-ended" /\ EndRound
  <2>1. Agrees(Read(u, m))'
    BY <1>1, <1>2, <1>4, RoundEndAgrees
  <2> QED
    BY <1>3, <2>1, HearChangeAndEnd
<1>5. CASE m.type = "game-ended" /\ EndGame(gameId, round) /\ UNCHANGED <<round, totalRounds>>
  <2>1. Agrees(Read(u, m))'
    BY <1>1, <1>2, <1>5, GameEndAgrees
  <2> QED
    BY <1>3, <2>1, HearChangeAndEnd
<1> QED
  BY <1>4, <1>5

LEMMA OtherLeavesInSight ==
  ASSUME IInv, IInv', ClientTypeOK, InSight, NEW p \in Player, OtherLeaves(p)
  PROVE  InSight'
<1> SUFFICES ASSUME Me \in players' PROVE InSight'
  BY DEF InSight
<1>1. p # Me /\ Leave(p) /\ UNCHANGED <<outbox, view>>
  BY DEF OtherLeaves
<1>2. /\ RemovePlayer(p) /\ Me \in players
      /\ Me \notin drawn' => Me \notin drawn
  BY <1>1 DEF Leave, LeaveIdleRoom, LeaveTooFew, LeaveRound, LeaveLast, RemovePlayer
<1>3. PICK views, v : Sees(views) /\ v = views[Len(inbox)] /\ v \in GameState /\ Agrees(v)
  BY <1>2, Present
<1>4. PICK a \in Mail : a = [type |-> "player-left", id |-> p]
  BY SentMail
<1>5. inbox' = inbox \o (<<a>> \o Outcome) /\ inbox \in Seq(Mail)
  BY <1>4 DEF OtherLeaves, Broadcast, ClientTypeOK, Mail
<1>6. PICK b \in Mail : b = [type |-> "round-ended", word |-> word, players |-> Summaries]
  BY SentMail
<1>7. PICK c \in Mail : c = [type |-> "game-ended", players |-> Summaries]
  BY SentMail
<1>8. b.players = Board' /\ c.players = Board'
  BY <1>6, <1>7, SummariesAre
<1>9. CASE EndRound /\ games' = games
  <2>1. Outcome = <<b>>
    BY <1>6, <1>9, OutcomeIs DEF RoundEnded
  <2>2. inbox' = Append(Append(inbox, a), b)
    BY <1>5, <2>1, Delivered
  <2> QED
    BY <1>1, <1>2, <1>3, <1>4, <1>6, <1>8, <1>9, <2>2, ChangeInSight
<1>10. CASE LeaveTooFew(p)
  <2>1. /\ EndGame(gameId, round) /\ phase = "playing"
        /\ UNCHANGED <<round, totalRounds, reveals, games>>
    BY <1>10 DEF LeaveTooFew
  <2>2. Outcome = <<c>>
    BY <1>7, <2>1, OutcomeIs DEF GameEnded
  <2>3. inbox' = Append(Append(inbox, a), c)
    BY <1>5, <2>2, Delivered
  <2> QED
    BY <1>1, <1>2, <1>3, <1>4, <1>7, <1>8, <2>1, <2>3, ChangeInSight
<1>11. CASE /\ SameCourse /\ solved' = solved \ {p}
            /\ UNCHANGED <<reveals, results, roundTimer, strokes>>
  <2>1. Outcome = <<>>
    BY <1>11, OutcomeIs
  <2>2. inbox' = Append(inbox, a)
    BY <1>5, <2>1, Delivered
  <2>3. Agrees(Read(v, a))'
    BY <1>1, <1>2, <1>3, <1>4, <1>11, LeaveAgrees
  <2> QED
    BY <1>1, <1>2, <1>3, <1>4, <1>11, <2>2, <2>3, HearRound
<1>12. CASE LeaveIdleRoom(p)
  BY <1>11, <1>12 DEF LeaveIdleRoom, SameCourse
<1>13. CASE LeaveRound(p)
  BY <1>9, <1>11, <1>13 DEF LeaveRound, SameCourse, EndRound
<1>14. ~LeaveLast(p)
  BY DEF LeaveLast
<1> QED
  BY <1>1, <1>10, <1>12, <1>13, <1>14 DEF Leave

LEMMA AnswerInSight ==
  ASSUME IInv, IInv', ClientTypeOK, InSight, NEW p \in Player, Answer(p)
  PROVE  InSight'
<1> SUFFICES ASSUME Me \in players' PROVE InSight'
  BY DEF InSight
<1>1. /\ CorrectGuess(p) /\ p \in players /\ UNCHANGED <<outbox, view, players, drawn, gone>>
      /\ solved' = solved \cup {p}
  BY DEF Answer, CorrectGuess, UnsolvedGuessers
<1>2. PICK views, v : Sees(views) /\ v = views[Len(inbox)] /\ v \in GameState /\ Agrees(v)
  BY <1>1, Present
<1>3. PICK a \in Mail : a = [type |-> "correct-answer", id |-> p, players |-> Summaries]
  BY SentMail
<1>4. inbox' = inbox \o (<<a>> \o Outcome) /\ inbox \in Seq(Mail)
  BY <1>1, <1>3 DEF Answer, Broadcast, ClientTypeOK, Mail
<1>5. PICK b \in Mail : b = [type |-> "round-ended", word |-> word, players |-> Summaries]
  BY SentMail
<1>6. a.players = Board' /\ b.players = Board'
  BY <1>3, <1>5, SummariesAre
<1>7. CASE EndRound
  <2>1. Outcome = <<b>> /\ games' = games
    BY <1>5, <1>7, OutcomeIs DEF RoundEnded, EndRound
  <2>2. inbox' = Append(Append(inbox, a), b)
    BY <1>4, <2>1, Delivered
  <2> QED
    BY <1>1, <1>2, <1>3, <1>5, <1>6, <1>7, <2>1, <2>2, ChangeInSight
<1>8. CASE SameCourse /\ UNCHANGED <<reveals, results, roundTimer, strokes>>
  <2>1. Outcome = <<>>
    BY <1>8, OutcomeIs
  <2>2. inbox' = Append(inbox, a)
    BY <1>4, <2>1, Delivered
  <2>3. Agrees(Read(v, a))'
    BY <1>1, <1>2, <1>3, <1>6, <1>8, AnswerAgrees
  <2> QED
    BY <1>1, <1>2, <1>3, <1>8, <2>2, <2>3, HearRound
<1> QED
  BY <1>1, <1>7, <1>8 DEF CorrectGuess, SameCourse

\* The "round-started" of a handler, after `box'.
LEMMA StartSent ==
  ASSUME IInv, IInv', drawerId' \in Player, NEW box \in Seq(Mail)
  PROVE  \E a, b \in Mail :
           /\ a.type = "draw-clear"
           /\ b.type = "round-started" /\ b.round = round'
           /\ b.totalRounds = totalRounds' /\ b.drawerId = drawerId'
           /\ b.word = IF drawerId' = Me THEN word' ELSE Null
           /\ RoundStarted = <<a, b>>
           /\ box \o RoundStarted = Append(Append(box, a), b)
<1>1. drawerId' # Null
  BY NullAssumption
<1>2. PICK a \in Mail : a = [type |-> "draw-clear"]
  BY SentMail
<1>3. PICK b \in Mail :
        b = [type |-> "round-started", round |-> round', totalRounds |-> totalRounds',
             drawerId |-> drawerId', word |-> IF drawerId' = Me THEN word' ELSE Null]
  BY <1>1, SentMail
<1>4. RoundStarted = <<a, b>>
  BY <1>2, <1>3 DEF RoundStarted
<1>5. box \o RoundStarted = Append(Append(box, a), b)
  BY <1>4, Delivered
<1> QED
  BY <1>2, <1>3, <1>4, <1>5

LEMMA GameStartsInSight ==
  ASSUME IInv, IInv', Course, ClientTypeOK, InSight, GameStarts
  PROVE  InSight'
<1> SUFFICES ASSUME Me \in players' PROVE InSight'
  BY DEF InSight
<1>1. StartGame /\ UNCHANGED <<outbox, view>>
  BY DEF GameStarts
<1>2. /\ phase # "playing" /\ phase' = "playing" /\ round' = 1 /\ strokes' = <<>>
      /\ solved' = {} /\ reveals' = <<>> /\ word' \in Word /\ roundTimer' = "round"
      /\ roundEndsAt' = "set" /\ drawerId' \in players
      /\ UNCHANGED <<players, results, gone>>
      /\ games' = games + 1 /\ score' = [q \in Player |-> 0]
  BY <1>1, StartGameDoes
<1>3. /\ players \subseteq Player /\ drawerId' \in Player /\ word' # Null
      /\ roundTimer = "none" /\ drawerId = Null /\ games \in Nat
  BY <1>2, NullAssumption DEF IInv, TypeOK, GameNeverStuck, RoundFieldsAgree
<1>4. drawerId' \in drawn'
  BY <1>3, NullAssumption DEF IInv, TurnsAreUnique
<1>5. games = 0 => drawn = {} /\ \A q \in Player : score[q] = 0
  BY DEF Course, FirstGameIsFresh
<1>6. PICK views, v : Sees(views) /\ v = views[Len(inbox)] /\ v \in GameState /\ Agrees(v)
  BY <1>2, Present
<1>7. PICK g \in Mail : g = [type |-> "game-started", totalRounds |-> totalRounds']
  BY SentMail
<1> PICK box : box = Append(inbox, g)
  OBVIOUS
<1> PICK n : n = Len(box)
  OBVIOUS
<1>8. /\ inbox \in Seq(Mail) /\ box \in Seq(Mail) /\ Len(inbox) \in Nat
      /\ n = Len(inbox) + 1
  BY AppendProperties DEF ClientTypeOK, Mail
<1>9. PICK a, b \in Mail :
        /\ a.type = "draw-clear"
        /\ b.type = "round-started" /\ b.round = round'
        /\ b.totalRounds = totalRounds' /\ b.drawerId = drawerId'
        /\ b.word = IF drawerId' = Me THEN word' ELSE Null
        /\ RoundStarted = <<a, b>>
  BY <1>3, <1>8, StartSent
<1>10. Outcome = <<a, b>>
  BY <1>2, <1>3, <1>9, OutcomeIs
<1>11. inbox' = Append(Append(box, a), b)
  <2>1. inbox' = inbox \o (<<g>> \o <<a, b>>)
    BY <1>2, <1>7, <1>10 DEF GameStarts, Broadcast
  <2> QED
    BY <1>8, <2>1, Delivered
<1>12. ReadsOn(Glance(view), inbox, views) /\ Fresh(views)
  BY <1>6 DEF Sees
<1>13. PICK u : ReadsOneMore(Glance(view), inbox, g, views, u)
  BY <1>8, <1>12, ReadsOnAppend
<1>14. /\ ReadsOn(Glance(view), box, u)
       /\ \A i \in 0 .. Len(inbox) : u[i] = views[i]
       /\ u[n] = Read(v, g)
  BY <1>6, <1>8, <1>13 DEF ReadsOneMore
<1> PICK x : x = u[n]
  OBVIOUS
<1>15. /\ x \in GameState /\ x.players = v.players /\ x.drawerId = v.drawerId
       /\ x.drawerId = Null
  <2>1. x = Read(v, g) /\ x \in GameState
    BY <1>6, <1>14, ReadType
  <2>2. v.drawerId = Null
    BY <1>3, <1>6 DEF Agrees
  <2>3. x.players = v.players /\ x.drawerId = v.drawerId
    BY <1>6, <1>7, <2>1 DEF Read, GameState
  <2> QED
    BY <2>1, <2>2, <2>3
<1>16. games = 0 => v.players = Board'
  <2> SUFFICES ASSUME games = 0 PROVE v.players = Board'
    OBVIOUS
  <2>1. v.players = Board
    BY <1>2, <1>6 DEF Agrees
  <2>2. \A q \in players : score'[q] = score[q]
    BY <1>2, <1>3, <1>5
  <2> QED
    BY <1>2, <2>1, <2>2 DEF Board
<1>17. \/ x.players = Board'
       \/ games' > 1 /\ round' = 1 /\ word' # Null /\ \A q \in players' : score'[q] = 0
  BY <1>2, <1>3, <1>15, <1>16
<1>18. Ids(x.players) = players'
  BY <1>2, <1>6, <1>15 DEF Agrees
<1>19. Agrees(Read(x, b))'
  BY <1>2, <1>9, <1>15, <1>17, <1>18, RoundStartAgrees
<1>20. games' <= 1 /\ Me \notin drawn =>
         outbox = <<>> /\ \A i \in 0 .. n : u[i].drawerId # Me
  <2> SUFFICES ASSUME games' <= 1, Me \notin drawn
               PROVE  outbox = <<>> /\ \A i \in 0 .. n : u[i].drawerId # Me
    OBVIOUS
  <2>1. outbox = <<>> /\ \A i \in 0 .. Len(inbox) : views[i].drawerId # Me
    BY <1>2, <1>3, <1>12 DEF Fresh
  <2>2. \A i \in 0 .. n : i = n \/ i \in 0 .. Len(inbox)
    BY <1>8
  <2> QED
    BY <1>14, <1>15, <2>1, <2>2, MeAssumption, NullAssumption
<1>21. /\ games' <= 1 /\ Me \notin drawn' => Me \notin drawn
       /\ games' = 1 /\ drawerId' = Me => Me \notin drawn
  BY <1>2, <1>3, <1>5
<1>22. games' \in Nat
  BY <1>2, <1>3
<1> QED
  BY <1>1, <1>2, <1>4, <1>8, <1>9, <1>11, <1>14, <1>15, <1>19, <1>20, <1>21, <1>22, HearStart

LEMMA TimerFiresInSight ==
  ASSUME IInv, IInv', ClientTypeOK, InSight, TimerFires
  PROVE  InSight'
<1> SUFFICES ASSUME Me \in players' PROVE InSight'
  BY DEF InSight
<1>1. UNCHANGED <<players, score, gone, games, outbox, view>>
  BY DEF TimerFires, RoundTimeout, IntermissionTimeout, EndRound
<1>2. PICK views, v : Sees(views) /\ v = views[Len(inbox)] /\ v \in GameState /\ Agrees(v)
  BY <1>1, Present
<1>3. inbox' = inbox \o Outcome /\ inbox \in Seq(Mail) /\ Len(inbox) \in Nat
  BY DEF TimerFires, Broadcast, ClientTypeOK, Mail
<1>4. CASE RoundTimeout
  <2>1. PICK b \in Mail : b = [type |-> "round-ended", word |-> word, players |-> Summaries]
    BY SentMail
  <2>2. EndRound /\ UNCHANGED drawn
    BY <1>4 DEF RoundTimeout
  <2>3. Outcome = <<b>> /\ b.players = Board' /\ word' = Null
    BY <2>1, <2>2, OutcomeIs, SummariesAre DEF RoundEnded, EndRound
  <2>4. inbox' = Append(inbox, b)
    BY <1>3, <2>3, Delivered
  <2>5. v.phase = phase /\ v.round = round /\ v.totalRounds = totalRounds
    BY <1>2 DEF Agrees
  <2>6. Agrees(Read(v, b))'
    BY <1>2, <2>1, <2>2, <2>3, <2>5, RoundEndAgrees
  <2> QED
    BY <1>1, <1>2, <2>1, <2>2, <2>3, <2>4, <2>6, HearEnd
<1>5. CASE IntermissionTimeout /\ drawerQueue = <<>>
  <2>1. PICK c \in Mail : c = [type |-> "game-ended", players |-> Summaries]
    BY SentMail
  <2>2. /\ phase = "playing" /\ EndGame(gameId, round)
        /\ UNCHANGED <<reveals, round, totalRounds, drawn>>
    BY <1>5, NextRoundDoes
  <2>3. Outcome = <<c>> /\ c.players = Board' /\ word' = Null
    BY <2>1, <2>2, OutcomeIs, SummariesAre DEF GameEnded, EndGame
  <2>4. inbox' = Append(inbox, c)
    BY <1>3, <2>3, Delivered
  <2>5. v.round = round /\ v.totalRounds = totalRounds
    BY <1>2 DEF Agrees
  <2>6. Agrees(Read(v, c))'
    BY <1>2, <2>1, <2>2, <2>3, <2>5, GameEndAgrees
  <2> QED
    BY <1>1, <1>2, <2>1, <2>2, <2>3, <2>4, <2>6, HearEnd
<1>6. CASE IntermissionTimeout /\ drawerQueue # <<>>
  <2>1. /\ phase = "playing" /\ word = Null /\ roundTimer = "intermission"
        /\ UNCHANGED <<totalRounds, reveals>>
        /\ phase' = "playing" /\ strokes' = <<>> /\ solved' = {}
        /\ roundTimer' = "round" /\ roundEndsAt' = "set" /\ results' = results
        /\ drawerId' \in players /\ drawn' = drawn \cup {drawerId'}
        /\ Range(drawerQueue) = {drawerId'} \cup Range(drawerQueue')
    BY <1>6, NextRoundDoes
  <2>2. /\ drawerId' \in Player /\ drawerId = Null /\ games \in Nat
        /\ drawerId' \notin drawn
    BY <2>1 DEF IInv, TypeOK, RoundFieldsAgree, TurnsAreUnique
  <2>3. PICK a, b \in Mail :
          /\ a.type = "draw-clear"
          /\ b.type = "round-started" /\ b.round = round'
          /\ b.totalRounds = totalRounds' /\ b.drawerId = drawerId'
          /\ b.word = IF drawerId' = Me THEN word' ELSE Null
          /\ RoundStarted = <<a, b>>
          /\ inbox \o RoundStarted = Append(Append(inbox, a), b)
    BY <1>3, <2>2, StartSent
  <2>4. Outcome = RoundStarted
    BY <2>1, OutcomeIs
  <2>5. inbox' = Append(Append(inbox, a), b)
    BY <1>3, <2>3, <2>4
  <2>6. ReadsOn(Glance(view), inbox, views) /\ Fresh(views)
    BY <1>2 DEF Sees
  <2>7. v.players = Board' /\ Ids(v.players) = players' /\ v.drawerId = Null
    BY <1>1, <1>2, <2>1, <2>2 DEF Agrees, Board
  <2>8. Agrees(Read(v, b))'
    BY <1>2, <2>1, <2>3, <2>7, RoundStartAgrees
  <2>9. games' <= 1 /\ Me \notin drawn =>
          outbox = <<>> /\ \A i \in 0 .. Len(inbox) : views[i].drawerId # Me
    BY <1>1, <2>6 DEF Fresh
  <2>10. /\ games' <= 1 /\ Me \notin drawn' => Me \notin drawn
         /\ games' = 1 /\ drawerId' = Me => Me \notin drawn
         /\ drawerId' \in drawn' /\ games' \in Nat
    BY <1>1, <2>1, <2>2
  <2> PICK n : n = Len(inbox)
    OBVIOUS
  <2> QED
    BY <1>1, <1>2, <1>3, <2>1, <2>3, <2>5, <2>6, <2>7, <2>8, <2>9, <2>10, HearStart
<1> QED
  BY <1>4, <1>5, <1>6 DEF TimerFires

LEMMA OtherPaintsInSight ==
  ASSUME IInv, IInv', ClientTypeOK, InSight, NEW p \in Player,
         OtherClears(p) \/ \E m \in Mark : OtherDraws(p, m)
  PROVE  InSight'
<1> SUFFICES ASSUME Me \in players' PROVE InSight'
  BY DEF InSight
<1>1. /\ p # Me
      /\ DrawClear(p) \/ \E m \in Mark : AddStroke(p, m)
      /\ UNCHANGED <<outbox, view>>
  BY DEF OtherDraws, OtherClears
<1>2. /\ SameCourse /\ UNCHANGED <<players, score, solved, gone, drawn>> /\ drawerId # Me
  BY <1>1 DEF AddStroke, Draw, DrawClear, SameCourse, vars, roomVars
<1>3. PICK views : Sees(views)
  BY <1>2 DEF InSight
<1>4. inbox \in Seq(Mail)
  BY DEF ClientTypeOK, Mail
<1>5. ASSUME NEW e \in Mark, OtherDraws(p, e)
      PROVE  InSight'
  <2>1. PICK m \in Mail : m = [type |-> "draw", stroke |-> e]
    BY SentMail
  <2>2. inbox' = Append(inbox, m)
    BY <1>4, <1>5, <2>1, Delivered DEF OtherDraws, Broadcast
  <2>3. ASSUME NEW c \in Seq(StrokeSegment), Shown(c) PROVE Shown(Paint(c, m))'
    <3>1. AddStroke(p, e)
      BY <1>5 DEF OtherDraws
    <3>2. Shown(Append(c, e))'
      BY <2>3, <3>1, ShownDraw
    <3>3. Paint(c, m) = Append(c, e)
      BY <2>1 DEF Paint
    <3> QED
      BY <3>2, <3>3
  <2> QED
    BY <1>1, <1>2, <1>3, <2>1, <2>2, <2>3, HearPaint
<1>6. CASE OtherClears(p)
  <2>1. PICK m \in Mail : m = [type |-> "draw-clear"]
    BY SentMail
  <2>2. inbox' = Append(inbox, m)
    BY <1>4, <1>6, <2>1, Delivered DEF OtherClears, Broadcast
  <2>3. strokes' = <<>>
    BY <1>6 DEF OtherClears, DrawClear, ClearStrokes
  <2>4. ASSUME NEW c \in Seq(StrokeSegment) PROVE Shown(Paint(c, m))'
    <3>1. Paint(c, m) = <<>>
      BY <2>1 DEF Paint
    <3> QED
      BY <2>3, <3>1, ShownEmpty
  <2> QED
    BY <1>1, <1>2, <1>3, <2>1, <2>2, <2>4, HearPaint
<1> QED
  BY <1>5, <1>6

\* Who has sent "join" has been shown nothing yet.
LEMMA JoinRequestInSight ==
  ASSUME IInv, IInv', Course, ClientTypeOK, Connection, JoinRequest
  PROVE  InSight'
<1> SUFFICES ASSUME Me \in players' PROVE InSight'
  BY DEF InSight
<1>1. JoinSent /\ outbox' = <<>> /\ view' = view
  <2>1. outbox # <<>> /\ Head(outbox).type = "join" /\ outbox' = Tail(outbox) /\ view' = view
    BY DEF JoinRequest, Request
  <2>2. JoinSent
    <3>1. 1 \in 1 .. Len(outbox) /\ Head(outbox) = outbox[1]
      BY <2>1 DEF ClientTypeOK
    <3> QED
      BY <2>1, <3>1 DEF Connection
  <2> QED
    BY <2>1, <2>2 DEF JoinSent
<1>2. inbox = <<>> /\ view = InitialView /\ Me \notin players
  BY <1>1 DEF Connection
<1>3. Join(Me) /\ inbox' = Append(inbox, RoomState)
  BY <1>2 DEF JoinRequest, vars, roomVars
<1>4. drawerId' = drawerId /\ solved' = solved
  BY <1>3 DEF Join
<1>5. drawerId' # Me /\ Me \notin solved'
  BY <1>2, <1>4, MeAssumption, NullAssumption
  DEF IInv, RoundFieldsAgree, Course, SolversArePresent
<1>6. PICK m \in Mail : m = RoomState
  BY SentMail
<1>7. /\ m.type = "room-state" /\ m.players = Board' /\ m.phase = phase' /\ m.round = round'
      /\ m.totalRounds = totalRounds' /\ m.drawerId = drawerId' /\ m.clock = roundEndsAt'
      /\ m.strokes = Picture(strokes')
  BY <1>6, SummariesAre DEF RoomState
<1> PICK v : v = Glance(InitialView)
  OBVIOUS
<1>8. Agrees(Read(v, m))'
  BY <1>5, <1>7, RoomStateAgrees
<1> QED
  BY <1>1, <1>2, <1>3, <1>5, <1>6, <1>7, <1>8, HearRoomState

\* A step of the browser, its connection or the server.
LEMMA StepInSight ==
  ASSUME IInv, IInv', Course, CInv, [ServerNext \/ BrowserNext]_allVars
  PROVE  InSight'
<1> SUFFICES ASSUME Me \in players' PROVE InSight'
  BY DEF InSight
<1>1. ClientTypeOK /\ Connection /\ InSight /\ games \in Nat
  BY DEF CInv, IInv, TypeOK
<1>2. ASSUME Me \in players
      PROVE  status = "connected" /\ \E views : Sees(views)
  BY <1>1, <1>2 DEF Connection, InSight
<1>3. ASSUME NEW p \in Player,
             \/ OtherJoins(p) \/ OtherLeaves(p) \/ Answer(p) \/ OtherClears(p)
             \/ \E m \in Mark : OtherDraws(p, m)
      PROVE  InSight'
  BY <1>1, <1>3, OtherJoinsInSight, OtherLeavesInSight, AnswerInSight, OtherPaintsInSight
<1>4. CASE GameStarts \/ TimerFires
  BY <1>1, <1>4, GameStartsInSight, TimerFiresInSight
<1>5. CASE JoinRequest
  BY <1>1, <1>5, JoinRequestInSight
<1>6. CASE DrawRequest \/ ClearRequest
  <2>1. players' = players
    BY <1>6 DEF DrawRequest, ClearRequest, AddStroke, Draw, DrawClear, vars, roomVars
  <2> QED
    BY <1>1, <1>2, <1>6, <2>1, RequestInSight
<1>7. ~ConnectionEnds
  BY DEF ConnectionEnds, Leave, LeaveIdleRoom, LeaveTooFew, LeaveRound, LeaveLast,
     RemovePlayer, vars, roomVars
<1>8. CASE LookupFails \/ NeverOpens \/ OnOpen
  <2>1. status = "connecting" /\ players' = players
    BY <1>8 DEF LookupFails, NeverOpens, OnOpen, vars, roomVars
  <2> QED
    BY <1>2, <2>1
<1>9. CASE OnMessage
  <2>1. Reads
    BY <1>1, <1>9, HandlersRead
  <2>2. players' = players
    BY <2>1 DEF Reads, vars, roomVars
  <2> QED
    BY <1>1, <1>2, <2>1, <2>2, ReadInSight
<1>10. CASE SendClear \/ \E m \in Mark : SendStroke(m)
  <2>1. players' = players
    BY <1>10 DEF SendStroke, SendClear, vars, roomVars
  <2> QED
    BY <1>1, <1>2, <1>10, <2>1, CommandInSight
<1>11. CASE UNCHANGED allVars
  <2>1. UNCHANGED <<inbox, outbox, view>> /\ UNCHANGED vars
    BY <1>11 DEF allVars, clientVars
  <2>2. PICK views : Sees(views)
    BY <1>2, <2>1 DEF vars, roomVars
  <2>3. Sees(views)'
    BY <2>1, <2>2 DEF vars, roomVars, Sees, Agrees, Board, Fresh, Viewer, Watches, Shown,
       Drawer, Paints, Commanded, Waits
  <2> QED
    BY <2>3 DEF InSight
<1> QED
  BY <1>3, <1>4, <1>5, <1>6, <1>7, <1>8, <1>9, <1>10, <1>11
  DEF ServerNext, BrowserNext, OnMessage

-----------------------------------------------------------------------------
(* The connection and the types.                                           *)

\* Nothing in `box' ends the visit.
Refusals == {"close", "room-full", "room-not-found"}

Welcomes(box) == \A i \in 1 .. Len(box) : box[i].type \notin Refusals

LEMMA WelcomesProperties ==
  /\ <<>> \in Seq(Mail) /\ Welcomes(<<>>)
  /\ \A m \in Mail : /\ <<m>> \in Seq(Mail)
                     /\ m.type \notin Refusals => Welcomes(<<m>>)
  /\ \A s, t \in Seq(Mail) : /\ s \o t \in Seq(Mail)
                             /\ Welcomes(s) /\ Welcomes(t) => Welcomes(s \o t)
<1>1. <<>> \in Seq(Mail) /\ Welcomes(<<>>)
  BY DEF Welcomes
<1>2. ASSUME NEW m \in Mail
      PROVE  /\ <<m>> \in Seq(Mail)
             /\ m.type \notin Refusals => Welcomes(<<m>>)
  <2>1. <<m>> \in Seq(Mail) /\ Len(<<m>>) = 1 /\ <<m>>[1] = m
    OBVIOUS
  <2> QED
    BY <2>1 DEF Welcomes
<1>3. ASSUME NEW s \in Seq(Mail), NEW t \in Seq(Mail)
      PROVE  /\ s \o t \in Seq(Mail)
             /\ Welcomes(s) /\ Welcomes(t) => Welcomes(s \o t)
  <2>1. /\ s \o t \in Seq(Mail) /\ Len(s \o t) = Len(s) + Len(t)
        /\ Len(s) \in Nat /\ Len(t) \in Nat
        /\ \A i \in 1 .. Len(s) + Len(t) :
             (s \o t)[i] = IF i <= Len(s) THEN s[i] ELSE t[i - Len(s)]
    BY ConcatProperties, LenProperties
  <2>2. ASSUME Welcomes(s), Welcomes(t), NEW i \in 1 .. Len(s) + Len(t)
        PROVE  (s \o t)[i].type \notin Refusals
    <3>1. CASE i <= Len(s)
      BY <2>1, <2>2, <3>1 DEF Welcomes
    <3>2. CASE i > Len(s)
      <4>1. i - Len(s) \in 1 .. Len(t) /\ (s \o t)[i] = t[i - Len(s)]
        BY <2>1, <3>2
      <4> QED
        BY <2>2, <4>1 DEF Welcomes
    <3> QED
      BY <2>1, <3>1, <3>2
  <2> QED
    BY <2>1, <2>2 DEF Welcomes
<1> QED
  BY <1>1, <1>2, <1>3

LEMMA OutcomeSent ==
  ASSUME IInv, IInv' PROVE Outcome \in Seq(Mail) /\ Welcomes(Outcome)
<1> DEFINE Good(s) == s \in Seq(Mail) /\ Welcomes(s)
<1>1. ASSUME NEW m \in Mail, m.type \notin Refusals PROVE Good(<<m>>)
  BY <1>1, WelcomesProperties
<1>2. Good(RoundEnded)
  <2>1. PICK m \in Mail : m = [type |-> "round-ended", word |-> word, players |-> Summaries]
    BY SentMail
  <2> QED
    BY <1>1, <2>1 DEF RoundEnded, Refusals
<1>3. Good(GameEnded)
  <2>1. PICK m \in Mail : m = [type |-> "game-ended", players |-> Summaries]
    BY SentMail
  <2> QED
    BY <1>1, <2>1 DEF GameEnded, Refusals
<1>4. ASSUME roundTimer' = "round" PROVE Good(RoundStarted)
  <2>1. drawerId' \in Player
    BY <1>4 DEF IInv, TypeOK, RoundFieldsAgree
  <2>2. PICK a, b \in Mail : /\ a.type = "draw-clear" /\ b.type = "round-started"
                             /\ RoundStarted = <<a, b>>
    BY <2>1, StartSent, WelcomesProperties
  <2>3. /\ <<a, b>> \in Seq(Mail) /\ Len(<<a, b>>) = 2
        /\ <<a, b>>[1] = a /\ <<a, b>>[2] = b
    OBVIOUS
  <2>4. \A i \in 1 .. 2 : i = 1 \/ i = 2
    OBVIOUS
  <2>5. Welcomes(<<a, b>>)
    BY <2>2, <2>3, <2>4 DEF Welcomes, Refusals
  <2> QED
    BY <2>2, <2>3, <2>5
<1>5. Good(<<>>)
  BY WelcomesProperties
<1> QED
  BY <1>2, <1>3, <1>4, <1>5 DEF Outcome

\* A handler that tells everybody in the room.
LEMMA BroadcastConnection ==
  ASSUME ClientTypeOK, Connection, NEW s \in Seq(Mail), Welcomes(s), Broadcast(s),
         Me \in players' => Me \in players, UNCHANGED <<status, outbox, view>>
  PROVE  ClientTypeOK' /\ Connection'
<1>1. inbox \in Seq(Mail) /\ inbox' = (IF Me \in players' THEN inbox \o s ELSE inbox)
  BY DEF ClientTypeOK, Mail, Broadcast
<1>2. inbox' \in Seq(Mail)
  BY <1>1, WelcomesProperties
<1>3. Me \in players' => status = "connected" /\ Welcomes(inbox)
  BY DEF Connection, Welcomes, Refusals
<1>4. Me \in players' => Welcomes(inbox')
  BY <1>1, <1>3, WelcomesProperties
<1>5. ClientTypeOK'
  BY <1>2 DEF ClientTypeOK, Mail
<1>6. Connection'
  BY <1>1, <1>3, <1>4 DEF Connection, JoinSent, Welcomes, Refusals
<1> QED
  BY <1>5, <1>6

LEMMA OthersConnection ==
  ASSUME IInv, IInv', ClientTypeOK, Connection, NEW p \in Player,
         \/ OtherJoins(p) \/ OtherLeaves(p) \/ Answer(p) \/ OtherClears(p)
         \/ \E e \in Mark : OtherDraws(p, e)
  PROVE  ClientTypeOK' /\ Connection'
<1>1. Me \in players' => Me \in players
  BY DEF OtherJoins, OtherLeaves, Answer, OtherDraws, OtherClears, Join, CorrectGuess,
     AddStroke, Draw, DrawClear, Leave, LeaveIdleRoom, LeaveTooFew, LeaveRound, LeaveLast,
     RemovePlayer, vars, roomVars
<1>2. UNCHANGED <<status, outbox, view>>
  BY DEF OtherJoins, OtherLeaves, Answer, OtherDraws, OtherClears
<1>3. ASSUME NEW m \in Mail, m.type \notin Refusals
      PROVE  <<m>> \in Seq(Mail) /\ Welcomes(<<m>>)
  BY <1>3, WelcomesProperties
<1>4. ASSUME NEW m \in Mail, m.type \notin Refusals
      PROVE  <<m>> \o Outcome \in Seq(Mail) /\ Welcomes(<<m>> \o Outcome)
  BY <1>3, <1>4, OutcomeSent, WelcomesProperties
<1>5. CASE OtherJoins(p)
  <2>1. PICK m \in Mail : m = [type |-> "player-joined", player |-> Summary(p)]
    BY SentMail
  <2> QED
    BY <1>1, <1>2, <1>3, <1>5, <2>1, BroadcastConnection DEF OtherJoins, Refusals
<1>6. CASE OtherLeaves(p)
  <2>1. PICK m \in Mail : m = [type |-> "player-left", id |-> p]
    BY SentMail
  <2> QED
    BY <1>1, <1>2, <1>4, <1>6, <2>1, BroadcastConnection DEF OtherLeaves, Refusals
<1>7. CASE Answer(p)
  <2>1. PICK m \in Mail : m = [type |-> "correct-answer", id |-> p, players |-> Summaries]
    BY SentMail
  <2> QED
    BY <1>1, <1>2, <1>4, <1>7, <2>1, BroadcastConnection DEF Answer, Refusals
<1>8. ASSUME NEW e \in Mark, OtherDraws(p, e)
      PROVE  ClientTypeOK' /\ Connection'
  <2>1. PICK m \in Mail : m = [type |-> "draw", stroke |-> e]
    BY SentMail
  <2> QED
    BY <1>1, <1>2, <1>3, <1>8, <2>1, BroadcastConnection DEF OtherDraws, Refusals
<1>9. CASE OtherClears(p)
  <2>1. PICK m \in Mail : m = [type |-> "draw-clear"]
    BY SentMail
  <2> QED
    BY <1>1, <1>2, <1>3, <1>9, <2>1, BroadcastConnection DEF OtherClears, Refusals
<1> QED
  BY <1>5, <1>6, <1>7, <1>8, <1>9

LEMMA GameConnection ==
  ASSUME IInv, IInv', ClientTypeOK, Connection, GameStarts \/ TimerFires
  PROVE  ClientTypeOK' /\ Connection'
<1>1. players' = players /\ UNCHANGED <<status, outbox, view>>
  BY DEF GameStarts, TimerFires, StartGame, RoundTimeout, IntermissionTimeout
<1>2. CASE GameStarts
  <2>1. PICK m \in Mail : m = [type |-> "game-started", totalRounds |-> totalRounds']
    BY SentMail
  <2>2. <<m>> \in Seq(Mail) /\ Welcomes(<<m>>)
    BY <2>1, WelcomesProperties DEF Refusals
  <2>3. <<m>> \o Outcome \in Seq(Mail) /\ Welcomes(<<m>> \o Outcome)
    BY <2>2, OutcomeSent, WelcomesProperties
  <2> QED
    BY <1>1, <1>2, <2>1, <2>3, BroadcastConnection DEF GameStarts
<1>3. CASE TimerFires
  BY <1>1, <1>3, OutcomeSent, BroadcastConnection DEF TimerFires
<1> QED
  BY <1>2, <1>3

LEMMA RequestConnection ==
  ASSUME IInv, IInv', ClientTypeOK, Connection, JoinRequest \/ DrawRequest \/ ClearRequest
  PROVE  ClientTypeOK' /\ Connection'
<1>1. /\ outbox # <<>> /\ outbox' = Tail(outbox) /\ UNCHANGED <<status, view>>
      /\ status # "connecting"
      /\ JoinRequest <=> Head(outbox).type = "join"
  BY DEF JoinRequest, DrawRequest, ClearRequest, Request, Connection
<1>2. /\ outbox' \in Seq(ClientToServerMessage) /\ JoinRequest => JoinSent
      /\ \A i \in 1 .. Len(outbox') : outbox'[i].type # "join"
  <2>1. /\ outbox \in Seq(ClientToServerMessage) /\ Len(outbox) \in Nat
        /\ 1 \in 1 .. Len(outbox) /\ Head(outbox) = outbox[1]
        /\ Tail(outbox) \in Seq(ClientToServerMessage)
        /\ Len(Tail(outbox)) = Len(outbox) - 1
        /\ \A i \in 1 .. Len(outbox) - 1 : Tail(outbox)[i] = outbox[i + 1]
    BY <1>1 DEF ClientTypeOK
  <2>2. Head(outbox).type = "join" => JoinSent
    BY <2>1 DEF Connection
  <2>3. ASSUME NEW i \in 1 .. Len(outbox'), outbox'[i].type = "join" PROVE FALSE
    <3>1. i + 1 \in 1 .. Len(outbox) /\ outbox[i + 1].type = "join" /\ Len(outbox) >= 2
      BY <1>1, <2>1, <2>3
    <3>2. JoinSent
      BY <3>1 DEF Connection
    <3> QED
      BY <3>1, <3>2 DEF JoinSent
  <2> QED
    BY <1>1, <2>1, <2>2, <2>3
<1>6. ~JoinSent'
  BY <1>2 DEF JoinSent
<1>3. inbox \in Seq(Mail)
  BY DEF ClientTypeOK, Mail
<1>4. CASE JoinRequest
  <2>1. inbox = <<>> /\ Me \notin players /\ status = "connected"
    BY <1>1, <1>2, <1>4 DEF Connection, JoinSent
  <2>2. CASE Join(Me) /\ inbox' = Append(inbox, RoomState)
    <3>1. PICK m \in Mail : m = RoomState
      BY SentMail
    <3>2. m.type \notin Refusals
      BY <3>1 DEF RoomState, Refusals
    <3>3. inbox' = <<m>>
      BY <2>1, <2>2, <3>1
    <3>4. inbox' \in Seq(Mail) /\ Welcomes(inbox')
      BY <3>2, <3>3, WelcomesProperties
    <3> QED
      BY <1>1, <1>2, <1>6, <2>1, <3>4 DEF ClientTypeOK, Mail, Connection, Welcomes, Refusals
  <2>3. CASE /\ UNCHANGED vars
             /\ \/ Close(<< [type |-> "room-full"] >>)
                \/ Close(<< [type |-> "room-not-found"] >>)
    <3>1. \A type \in Refusals : [type |-> type] \in Mail
      BY DEF Refusals, Mail, ServerToClientMessage
    <3>2. \E type \in Refusals : inbox' = inbox \o << [type |-> type] >> \o << [type |-> "close"] >>
      BY <2>3 DEF Close, Refusals
    <3>3. PICK type \in Refusals, a, b \in Mail : inbox' = inbox \o <<a>> \o <<b>>
      BY <3>1, <3>2 DEF Refusals
    <3>4. inbox' \in Seq(Mail) /\ Me \notin players'
      BY <1>3, <2>1, <2>3, <3>3, WelcomesProperties DEF vars, roomVars
    <3> QED
      BY <1>1, <1>2, <1>6, <3>4 DEF ClientTypeOK, Mail, Connection
  <2> QED
    BY <1>4, <2>2, <2>3 DEF JoinRequest
<1>5. CASE DrawRequest \/ ClearRequest
  <2>1. inbox' = inbox /\ players' = players
    BY <1>5 DEF DrawRequest, ClearRequest, AddStroke, Draw, DrawClear, vars, roomVars
  <2> QED
    BY <1>1, <1>2, <1>6, <2>1 DEF ClientTypeOK, Connection
<1> QED
  BY <1>4, <1>5

LEMMA EndConnection ==
  ASSUME ClientTypeOK, Connection, ConnectionEnds
  PROVE  ClientTypeOK' /\ Connection'
<1>1. /\ status = "connected" /\ outbox' = <<>> /\ UNCHANGED <<status, view>>
      /\ Me \notin players'
  BY DEF ConnectionEnds, Leave, LeaveIdleRoom, LeaveTooFew, LeaveRound, LeaveLast,
     RemovePlayer, vars, roomVars
<1>2. PICK n \in 0 .. Len(inbox) : inbox' = Append(SubSeq(inbox, 1, n), [type |-> "close"])
  BY DEF ConnectionEnds
<1>3. inbox \in Seq(Mail) /\ [type |-> "close"] \in Mail /\ Len(inbox) \in Nat
  BY DEF ClientTypeOK, Mail
<1>4. SubSeq(inbox, 1, n) \in Seq(Mail)
  BY <1>3, SubSeqProperties
<1>5. inbox' \in Seq(Mail)
  BY <1>2, <1>3, <1>4
<1> QED
  BY <1>1, <1>5 DEF ClientTypeOK, Mail, Connection, JoinSent

LEMMA BrowserConnection ==
  ASSUME ClientTypeOK, Connection, BrowserNext
  PROVE  ClientTypeOK' /\ Connection'
<1>1. CASE LookupFails \/ NeverOpens
  BY <1>1 DEF LookupFails, NeverOpens, ClientTypeOK, RoomConnectionStatus, Connection,
     JoinSent, vars, roomVars
<1>2. CASE OnOpen
  <2>1. << [type |-> "join"] >> \in Seq(ClientToServerMessage)
    BY DEF ClientToServerMessage
  <2> QED
    BY <1>2, <2>1 DEF OnOpen, ClientTypeOK, RoomConnectionStatus, Connection, JoinSent,
       vars, roomVars
<1>3. CASE OnMessage
  <2>1. /\ inbox # <<>> /\ inbox' = Tail(inbox) /\ UNCHANGED <<vars, outbox>>
        /\ view' \in GameState
    BY <1>3, HandlersRead DEF Reads
  <2>2. /\ status' \in RoomConnectionStatus
        /\ \/ status' = status
           \/ Head(inbox).type \in Refusals /\ status' # "connecting"
    BY <1>3 DEF OnMessage, OnClose, OnRoomFull, OnRoomNotFound, OnRoomState, OnPlayerJoined,
       OnPlayerLeft, OnGameStarted, OnRoundStarted, OnCorrectAnswer, OnRoundEnded,
       OnGameEnded, OnDraw, OnDrawClear, Receive, ClientTypeOK, RoomConnectionStatus, Refusals
  <2>3. /\ inbox \in Seq(Mail) /\ inbox' \in Seq(Mail) /\ Len(inbox) \in Nat
        /\ Len(inbox') = Len(inbox) - 1 /\ Len(inbox) >= 1 /\ Head(inbox) = inbox[1]
        /\ \A i \in 1 .. Len(inbox) - 1 : inbox'[i] = inbox[i + 1]
    BY <2>1 DEF ClientTypeOK, Mail
  <2>4. players' = players /\ status # "connecting" /\ ~JoinSent
    BY <2>1 DEF Connection, vars, roomVars
  <2>5. ASSUME Me \in players
        PROVE  status' = "connected" /\ Welcomes(inbox')
    <3>1. Welcomes(inbox) /\ status = "connected"
      BY <2>5 DEF Connection, Welcomes, Refusals
    <3>2. Head(inbox).type \notin Refusals
      BY <2>3, <3>1 DEF Welcomes
    <3>3. \A i \in 1 .. Len(inbox) - 1 : i + 1 \in 1 .. Len(inbox)
      BY <2>3
    <3> QED
      BY <2>2, <2>3, <3>1, <3>2, <3>3 DEF Welcomes
  <2>6. ClientTypeOK'
    BY <2>1, <2>2, <2>3 DEF ClientTypeOK, Mail
  <2>7. Connection'
    BY <2>1, <2>2, <2>4, <2>5 DEF Connection, JoinSent, Welcomes, Refusals
  <2> QED
    BY <2>6, <2>7
<1>4. CASE SendClear \/ \E m \in Mark : SendStroke(m)
  <2>1. CanDraw /\ UNCHANGED <<vars, status, inbox>>
    BY <1>4 DEF SendStroke, SendClear
  <2>2. view # InitialView
    BY <2>1, MeAssumption, NullAssumption DEF CanDraw, InitialView
  <2>3. players' = players /\ status # "connecting" /\ ~JoinSent
    BY <2>1, <2>2 DEF Connection, vars, roomVars
  <2>4. PICK m \in ClientToServerMessage :
          m.type # "join" /\ (outbox' = outbox \/ (outbox' = Append(outbox, m)))
    <3>1. CASE SendClear
      BY <3>1 DEF SendClear, Send, ClientToServerMessage
    <3>2. ASSUME NEW e \in Mark, SendStroke(e)
          PROVE  \E m \in ClientToServerMessage :
                   m.type # "join" /\ (outbox' = outbox \/ (outbox' = Append(outbox, m)))
      BY <3>2 DEF SendStroke, Send, ClientToServerMessage, StrokeSegment
    <3> QED
      BY <1>4, <3>1, <3>2
  <2>5. /\ outbox' \in Seq(ClientToServerMessage)
        /\ \A i \in 1 .. Len(outbox') : outbox'[i].type # "join"
    <3>1. outbox \in Seq(ClientToServerMessage) /\ Len(outbox) \in Nat
      BY DEF ClientTypeOK
    <3>2. \A i \in 1 .. Len(outbox) : outbox[i].type # "join"
      BY <2>3 DEF Connection
    <3>3. /\ Append(outbox, m) \in Seq(ClientToServerMessage)
          /\ Len(Append(outbox, m)) = Len(outbox) + 1
          /\ \A i \in 1 .. Len(outbox) : Append(outbox, m)[i] = outbox[i]
          /\ Append(outbox, m)[Len(outbox) + 1] = m
      BY <3>1, AppendProperties
    <3>4. \A i \in 1 .. Len(outbox) + 1 : i = Len(outbox) + 1 \/ i \in 1 .. Len(outbox)
      BY <3>1
    <3> QED
      BY <2>4, <3>1, <3>2, <3>3, <3>4
  <2>6. view' \in GameState
    <3>1. view \in GameState /\ view.strokes \in Seq(StrokeSegment)
      BY DEF ClientTypeOK, GameState
    <3>2. /\ <<>> \in Seq(StrokeSegment)
          /\ \A e \in Mark : Append(view.strokes, e) \in Seq(StrokeSegment)
      BY <3>1 DEF StrokeSegment
    <3>3. \/ \E e \in Mark : view' = [view EXCEPT !.strokes = Append(view.strokes, e)]
          \/ view' = [view EXCEPT !.strokes = <<>>]
      BY <1>4 DEF SendStroke, SendClear
    <3>4. \A q \in Seq(StrokeSegment) : [view EXCEPT !.strokes = q] \in GameState
      BY <3>1 DEF GameState
    <3> QED
      BY <3>2, <3>3, <3>4
  <2>7. ~JoinSent'
    BY <2>5 DEF JoinSent
  <2> QED
    BY <2>1, <2>3, <2>5, <2>6, <2>7 DEF ClientTypeOK, Connection
<1> QED
  BY <1>1, <1>2, <1>3, <1>4 DEF BrowserNext, OnMessage

LEMMA StepConnection ==
  ASSUME IInv, IInv', ClientTypeOK, Connection, [ServerNext \/ BrowserNext]_allVars
  PROVE  ClientTypeOK' /\ Connection'
<1>1. CASE UNCHANGED allVars
  BY <1>1 DEF allVars, clientVars, vars, roomVars, ClientTypeOK, Connection, JoinSent
<1> QED
  BY <1>1, OthersConnection, GameConnection, RequestConnection, EndConnection,
     BrowserConnection DEF ServerNext

-----------------------------------------------------------------------------
(* The theorems.                                                           *)

LEMMA InitCInv == ClientInit => CInv
<1> SUFFICES ASSUME ClientInit PROVE CInv
  OBVIOUS
<1>1. /\ players = {} /\ status = "connecting" /\ inbox = <<>> /\ outbox = <<>>
      /\ view = InitialView
  BY DEF ClientInit, Init, FreshRoom
<1>2. <<>> \in Seq(Mail) /\ <<>> \in Seq(ClientToServerMessage) /\ <<>> \in Seq(StrokeSegment)
  OBVIOUS
<1>3. InitialView \in GameState
  BY <1>2 DEF InitialView, GameState
<1> QED
  BY <1>1, <1>2, <1>3 DEF CInv, ClientTypeOK, RoomConnectionStatus, Mail, Connection,
     JoinSent, InSight

\* The browser, its connection and the room keep the invariant: however the
\* messages of useRoomSocket.ts and of the handlers of index.ts are delayed,
\* reading what is under way leads to the room as it is.
THEOREM ClientInductive == ClientSpec => []CInv
<1>1. ClientInit => CInv
  BY InitCInv
<1>2. ASSUME IInv, IInv', Course, CInv, [ServerNext \/ BrowserNext]_allVars
      PROVE  CInv'
  BY <1>2, StepInSight, StepConnection DEF CInv
<1>3. ClientSpec => []IInv /\ []Course
  BY ImplementsRoom, Inductive, CourseOfGames, PTL
<1> QED
  BY <1>1, <1>2, <1>3, PTL DEF ClientSpec

\* What is sent, read and shown has the types of packages/shared and of the
\* states of useRoomSocket.ts.
THEOREM ClientTypes == ClientSpec => []ClientTypeOK
<1>1. CInv => ClientTypeOK
  BY DEF CInv
<1> QED
  BY <1>1, ClientInductive, PTL

\* With nothing unread the views read ahead are the one that is shown.
LEMMA NothingAhead ==
  ASSUME CInv, CaughtUp
  PROVE  /\ Agrees(view)
         /\ word # Null /\ (drawerId # Me \/ games = 1) => Shown(view.strokes)
<1>1. PICK views : Sees(views)
  BY DEF CInv, InSight, CaughtUp
<1>2. view \in GameState /\ Len(inbox) = 0 /\ inbox = <<>> /\ outbox = <<>>
  BY DEF CInv, ClientTypeOK, CaughtUp
<1>3. views[0] = Glance(view) /\ Agrees(views[0])
  BY <1>1, <1>2 DEF Sees, ReadsOn
<1>4. Agrees(view)
  BY <1>2, <1>3, GlanceRecord DEF Agrees
<1>5. ASSUME word # Null, drawerId # Me PROVE Shown(view.strokes)
  <2>1. PICK k \in 0 .. 0 : \E cs \in [k .. 0 -> Seq(StrokeSegment)] : Watches(views, k, cs)
    BY <1>1, <1>2, <1>5 DEF Sees, Viewer
  <2>2. PICK cs : Watches(views, 0, cs)
    BY <2>1
  <2> QED
    BY <1>2, <2>2 DEF Watches
<1>6. ASSUME word # Null, drawerId = Me, games = 1 PROVE Shown(view.strokes)
  <2>1. Drawer(views)
    BY <1>1, <1>6 DEF Sees
  <2>2. Paints
    BY <1>2, <2>1 DEF Drawer
  <2> QED
    BY <1>2, <2>2, NoCommands DEF Paints
<1> QED
  BY <1>4, <1>5, <1>6

\* Whoever has read everything sees the room and its scores as they are, but
\* for the old scores in the first round of a later game (the handlers of
\* useRoomSocket.ts against what index.ts sends).
THEOREM ViewIsTheRoom == ClientSpec => []ViewAgrees
<1>1. ASSUME CInv PROVE ViewAgrees
  <2> SUFFICES ASSUME CaughtUp, Agrees(view) PROVE ViewAgrees
    BY <1>1, NothingAhead DEF ViewAgrees
  <2> QED
    BY DEF Agrees, Board, ViewAgrees
<1> QED
  BY <1>1, ClientInductive, PTL

\* In an open round the word is on the drawer's screen and on no other, and
\* each player knows about having solved it (startRound of game.ts sends the
\* word to the drawer only; "round-started" and "correct-answer" of the hook).
THEOREM SecretsAgree == ClientSpec => []RoundSecretsAgree
<1>1. ASSUME CInv PROVE RoundSecretsAgree
  <2> SUFFICES ASSUME CaughtUp, word # Null, Agrees(view) PROVE RoundSecretsAgree
    BY <1>1, NothingAhead DEF RoundSecretsAgree
  <2> QED
    BY DEF Agrees, RoundSecretsAgree
<1> QED
  BY <1>1, ClientInductive, PTL

\* Whoever has read everything has on the canvas, stroke for stroke and in
\* order, what a newcomer would be replayed, and nothing else unless the buffer
\* is full ("draw", "draw-clear" and "room-state" of the hook, handleDraw and
\* handleDrawClear of index.ts); also the drawer of a first game, who paints
\* ahead of the server by any number of strokes and clears.
THEOREM CanvasIsTheRoom == ClientSpec => []CanvasAgrees
<1>1. ASSUME CInv PROVE CanvasAgrees
  <2> SUFFICES ASSUME CaughtUp, word # Null, drawerId # Me \/ games = 1
               PROVE  /\ IsPrefix(Picture(strokes), view.strokes)
                      /\ Len(strokes) < MaxBufferedStrokes => view.strokes = Picture(strokes)
    BY DEF CanvasAgrees
  <2> QED
    BY <1>1, NothingAhead DEF Shown
<1> QED
  BY <1>1, ClientInductive, PTL
=============================================================================
