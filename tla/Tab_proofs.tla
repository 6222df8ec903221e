------------------------------ MODULE Tab_proofs ------------------------------
(***************************************************************************)
(* Theorems about modules Drawing and Tab, for any numbers of games,       *)
(* members, rooms, runs of the effect and requests, and strokes of any     *)
(* length: a stroke is sent once and whole, a tab holds one seat, what     *)
(* goes on around the canvas does what module Drawing allows and no more,  *)
(* the running totals agree with the rows of the games, and the two pages  *)
(* of the history show what they say they show.                            *)
(***************************************************************************)
EXTENDS Tab, SequenceTheorems, FiniteSetTheorems, WellFoundedInduction, TLAPS

-----------------------------------------------------------------------------
(* The canvas by itself, as module Drawing specifies it: no point of a     *)
(* stroke is lost or sent twice, for strokes of any length.                *)

\* A stroke is being drawn exactly while its points are buffered, flushedRef
\* says whether some of them have been sent, and a dot is only sent at its end.
StrokeState ==
  /\ drawing <=> stroke = "begun"
  /\ drawing => (flushed <=> segments # <<>>) /\ points \in 1 .. MaxPoints
  /\ drawing => \A i \in DOMAIN segments : segments[i].from < segments[i].to
  /\ ~drawing => buffer = Empty
  /\ segments # <<>> => Sent <= points

CanvasIInv == CanvasTypeOK /\ StrokeState /\ EveryPointIsSent

LEMMA NoPoints == Empty \in [from : 1 .. MaxPoints, to : 0 .. MaxPoints]
BY MaxPointsAssumption DEF Empty, Batch

LEMMA LastIn ==
  ASSUME NEW S, NEW q \in Seq(S), q # <<>>
  PROVE  Len(q) \in DOMAIN q /\ q[Len(q)] \in S
<1>1. Len(q) \in Nat /\ DOMAIN q = 1 .. Len(q) /\ Len(q) # 0 BY q \in Seq(S), q # <<>>
<1>2. Len(q) \in 1 .. Len(q) BY <1>1
<1> QED BY <1>1, <1>2

LEMMA Initially == CanvasInit => CanvasIInv
<1> SUFFICES ASSUME CanvasInit PROVE CanvasIInv
  OBVIOUS
<1>1. CanvasTypeOK
  <2>1. 0 \in 0 .. MaxPoints /\ <<>> \in Seq([from : 1 .. MaxPoints, to : 1 .. MaxPoints])
    BY MaxPointsAssumption
  <2> QED BY <2>1, NoPoints DEF CanvasInit, CanvasTypeOK
<1>2. StrokeState BY DEF CanvasInit, StrokeState
<1>3. EveryPointIsSent BY DEF CanvasInit, EveryPointIsSent
<1> QED BY <1>1, <1>2, <1>3 DEF CanvasIInv

LEMMA ResetStep == CanvasReset => CanvasIInv'
<1> SUFFICES ASSUME CanvasReset PROVE CanvasIInv'
  OBVIOUS
<1>1. CanvasTypeOK'
  <2>1. 0 \in 0 .. MaxPoints /\ <<>> \in Seq([from : 1 .. MaxPoints, to : 1 .. MaxPoints])
    BY MaxPointsAssumption
  <2> QED BY <2>1, NoPoints DEF CanvasReset, CanvasTypeOK
<1>2. StrokeState' BY DEF CanvasReset, StrokeState
<1>3. EveryPointIsSent' BY DEF CanvasReset, EveryPointIsSent
<1> QED BY <1>1, <1>2, <1>3 DEF CanvasIInv

LEMMA TurnStep == CanvasIInv /\ TurnChanges => CanvasIInv'
BY DEF TurnChanges, CanvasIInv, CanvasTypeOK, StrokeState, EveryPointIsSent, Sent

LEMMA RenderStep == CanvasIInv /\ Render => CanvasIInv'
<1> SUFFICES ASSUME CanvasIInv, Render PROVE CanvasIInv'
  OBVIOUS
<1>1. CanvasTypeOK'
  BY NoPoints DEF Render, CanvasIInv, CanvasTypeOK
<1>2. Sent' = Sent BY DEF Render, Sent
<1>3. StrokeState'
  <2>1. CASE mayDraw BY <2>1, <1>2 DEF Render, CanvasIInv, StrokeState
  <2>2. CASE ~mayDraw
    BY <2>2, <1>2 DEF Render, CanvasIInv, StrokeState
  <2> QED BY <2>1, <2>2
<1>4. EveryPointIsSent'
  <2>1. CASE mayDraw BY <2>1, <1>2 DEF Render, CanvasIInv, EveryPointIsSent
  <2>2. CASE ~mayDraw
    BY <2>2, <1>2 DEF Render, CanvasIInv, StrokeState, EveryPointIsSent
  <2> QED BY <2>1, <2>2
<1> QED BY <1>1, <1>3, <1>4 DEF CanvasIInv

LEMMA DownStep == CanvasIInv /\ PointerDown => CanvasIInv'
<1> SUFFICES ASSUME CanvasIInv, PointerDown PROVE CanvasIInv'
  OBVIOUS
<1>1. CASE ~canDraw
  BY <1>1 DEF PointerDown, CanvasIInv, CanvasTypeOK, StrokeState, EveryPointIsSent, Sent
<1>2. CASE canDraw
  <2>1. /\ drawing' = TRUE /\ flushed' = FALSE /\ buffer' = Batch(1, 1) /\ points' = 1
        /\ segments' = <<>> /\ stroke' = "begun" /\ pointer' = "down"
        /\ mayDraw' = mayDraw /\ canDraw' = canDraw
    BY <1>2 DEF PointerDown, FlushedAtDown
  <2>2. /\ 1 \in 1 .. MaxPoints /\ 1 \in 0 .. MaxPoints
        /\ Batch(1, 1) \in [from : 1 .. MaxPoints, to : 0 .. MaxPoints]
        /\ <<>> \in Seq([from : 1 .. MaxPoints, to : 1 .. MaxPoints])
    BY MaxPointsAssumption DEF Batch
  <2>3. CanvasTypeOK' BY <2>1, <2>2 DEF CanvasIInv, CanvasTypeOK
  <2>4. StrokeState' BY <2>1, <2>2 DEF StrokeState
  <2>5. EveryPointIsSent' BY <2>1 DEF EveryPointIsSent, Sent
  <2> QED BY <2>3, <2>4, <2>5 DEF CanvasIInv
<1> QED BY <1>1, <1>2

LEMMA MoveStep == CanvasIInv /\ PointerMove => CanvasIInv'
<1> SUFFICES ASSUME CanvasIInv, PointerMove PROVE CanvasIInv'
  OBVIOUS
<1>1. /\ drawing /\ stroke = "begun" /\ points \in 1 .. MaxPoints /\ points < MaxPoints
      /\ buffer = Batch(Sent, points)
      /\ buffer \in [from : 1 .. MaxPoints, to : 0 .. MaxPoints]
  BY DEF PointerMove, CanvasIInv, CanvasTypeOK, StrokeState, EveryPointIsSent
<1>2. /\ points' = points + 1 /\ Sent' = Sent /\ segments' = segments
      /\ buffer' = Batch(Sent, points + 1)
  BY <1>1 DEF PointerMove, Batch, Sent
<1>3. Sent \in 1 .. MaxPoints BY <1>1 DEF Batch
<1>4. /\ points + 1 \in 1 .. MaxPoints /\ points + 1 \in 0 .. MaxPoints
      /\ buffer' \in [from : 1 .. MaxPoints, to : 0 .. MaxPoints]
  BY <1>1, <1>2, <1>3, MaxPointsAssumption DEF Batch
<1>5. CanvasTypeOK' BY <1>2, <1>4 DEF PointerMove, CanvasIInv, CanvasTypeOK
<1>6. StrokeState'
  <2>1. segments # <<>> => Sent <= points BY DEF CanvasIInv, StrokeState
  <2>2. Sent <= points => Sent <= points + 1 BY <1>1, <1>3
  <2> QED BY <2>1, <2>2, <1>1, <1>2, <1>4 DEF PointerMove, CanvasIInv, StrokeState
<1>7. EveryPointIsSent'
  <2>1. stroke' = stroke BY DEF PointerMove
  <2>2. \A i \in DOMAIN segments : segments[i].from < segments[i].to
    BY <1>1 DEF CanvasIInv, StrokeState
  <2> QED BY <2>1, <2>2, <1>1, <1>2 DEF CanvasIInv, EveryPointIsSent
<1> QED BY <1>5, <1>6, <1>7 DEF CanvasIInv

LEMMA CancelStep == CanvasIInv /\ PointerCancel => CanvasIInv'
<1> SUFFICES ASSUME CanvasIInv, PointerCancel PROVE CanvasIInv'
  OBVIOUS
<1>1. Sent' = Sent /\ segments' = segments /\ points' = points
  BY DEF PointerCancel, Sent
<1>2. CanvasTypeOK' BY NoPoints DEF PointerCancel, CanvasIInv, CanvasTypeOK
<1>3. StrokeState' BY <1>1 DEF PointerCancel, CanvasIInv, StrokeState
<1>4. EveryPointIsSent'
  BY <1>1 DEF PointerCancel, CanvasIInv, StrokeState, EveryPointIsSent
<1> QED BY <1>2, <1>3, <1>4 DEF CanvasIInv

\* The batch that is sent begins where the last one ended.
LEMMA EmitBatch ==
  ASSUME CanvasIInv, drawing, Length(buffer) >= 2 \/ segments = <<>>, Emit(buffer),
         UNCHANGED points
  PROVE  /\ segments' \in Seq([from : 1 .. MaxPoints, to : 1 .. MaxPoints])
         /\ segments' # <<>> /\ Sent' = points /\ flushed'
         /\ \A i \in DOMAIN segments' :
              /\ segments'[i].from = IF i = 1 THEN 1 ELSE segments'[i - 1].to
              /\ segments'[i].from < segments'[i].to \/ (segments'[i].to = 1 /\ points' = 1)
<1> DEFINE Segment == [from : 1 .. MaxPoints, to : 1 .. MaxPoints]
<1>1. /\ segments \in Seq(Segment) /\ points \in 1 .. MaxPoints
      /\ buffer = Batch(Sent, points) /\ segments' = Append(segments, buffer) /\ flushed'
  BY DEF CanvasIInv, CanvasTypeOK, StrokeState, EveryPointIsSent, Emit
<1>2. Sent \in 1 .. MaxPoints /\ (segments = <<>> => Sent = 1)
  <2>1. CASE segments = <<>> BY <2>1, MaxPointsAssumption DEF Sent
  <2>2. CASE segments # <<>>
    <3>1. segments[Len(segments)] \in Segment BY <2>2, <1>1, LastIn
    <3> QED BY <3>1, <2>2 DEF Sent
  <2> QED BY <2>1, <2>2
<1>3. buffer \in Segment /\ buffer.from = Sent /\ buffer.to = points
  BY <1>1, <1>2 DEF Batch
<1>4. Sent < points \/ (segments = <<>> /\ points >= 1)
  BY <1>1, <1>2, <1>3, MaxPointsAssumption DEF Length
<1>5. /\ segments' \in Seq(Segment) /\ segments' # <<>>
      /\ Len(segments') = Len(segments) + 1 /\ segments'[Len(segments')] = buffer
      /\ \A i \in 1 .. Len(segments) : segments'[i] = segments[i]
  BY <1>1, <1>3
<1>6. Sent' = points BY <1>3, <1>5 DEF Sent
<1>7. ASSUME NEW i \in DOMAIN segments'
      PROVE  /\ segments'[i].from = IF i = 1 THEN 1 ELSE segments'[i - 1].to
             /\ segments'[i].from < segments'[i].to \/ (segments'[i].to = 1 /\ points' = 1)
  <2>1. CASE i \in 1 .. Len(segments)
    <3>1. /\ segments[i].from = IF i = 1 THEN 1 ELSE segments[i - 1].to
          /\ segments[i].from < segments[i].to \/ (segments[i].to = 1 /\ points = 1)
      <4>1. i \in DOMAIN segments BY <2>1, <1>1
      <4> QED BY <4>1 DEF CanvasIInv, EveryPointIsSent
    <3>2. segments'[i] = segments[i] /\ (i # 1 => segments'[i - 1] = segments[i - 1])
      <4>1. i # 1 => i - 1 \in 1 .. Len(segments) BY <2>1, <1>1
      <4> QED BY <4>1, <2>1, <1>5
    <3> QED BY <3>1, <3>2
  <2>2. CASE i = Len(segments) + 1
    <3>1. segments'[i] = buffer BY <2>2, <1>5
    <3>2. CASE segments = <<>>
      <4>1. i = 1 /\ Sent = 1 BY <3>2, <2>2, <1>2
      <4> QED BY <4>1, <3>1, <1>3, <1>4, <1>2, <1>1
    <3>3. CASE segments # <<>>
      <4>1. i # 1 /\ i - 1 = Len(segments) /\ segments'[i - 1] = segments[Len(segments)]
        BY <3>3, <2>2, <1>5, <1>1
      <4>2. Sent = segments[Len(segments)].to BY <3>3 DEF Sent
      <4> QED BY <4>1, <4>2, <3>1, <3>3, <1>3, <1>4
    <3> QED BY <3>2, <3>3
  <2>3. i \in 1 .. Len(segments) \/ i = Len(segments) + 1
    <3> DEFINE n == Len(segments)
    <3>1. n \in Nat /\ i \in 1 .. (n + 1) BY <1>1, <1>5, <1>7
    <3> HIDE DEF n
    <3>2. i \in 1 .. n \/ i = n + 1 BY <3>1
    <3> QED BY <3>2 DEF n
  <2> QED BY <2>1, <2>2, <2>3
<1> QED BY <1>1, <1>5, <1>6, <1>7

LEMMA FlushStep == CanvasIInv /\ Flush => CanvasIInv'
<1> SUFFICES ASSUME CanvasIInv, Flush PROVE CanvasIInv'
  OBVIOUS
<1>1. drawing /\ Length(buffer) >= 2
  BY DEF CanvasIInv, StrokeState, Flush, Length, Empty, Batch
<1>2. /\ segments' \in Seq([from : 1 .. MaxPoints, to : 1 .. MaxPoints])
      /\ segments' # <<>> /\ Sent' = points /\ flushed'
      /\ \A i \in DOMAIN segments' :
           /\ segments'[i].from = IF i = 1 THEN 1 ELSE segments'[i - 1].to
           /\ segments'[i].from < segments'[i].to \/ (segments'[i].to = 1 /\ points' = 1)
  BY <1>1, EmitBatch DEF Flush
<1>3. buffer' = Batch(points, points) /\ points \in 1 .. MaxPoints /\ points' = points
  BY <1>1 DEF CanvasIInv, StrokeState, EveryPointIsSent, Flush, Batch
<1>4. CanvasTypeOK'
  BY <1>2, <1>3, MaxPointsAssumption DEF CanvasIInv, CanvasTypeOK, Flush, Emit, Batch
<1>5. StrokeState'
  <2>1. segments' = Append(segments, buffer) /\ segments \in Seq([from : 1 .. MaxPoints, to : 1 .. MaxPoints])
    BY DEF CanvasIInv, CanvasTypeOK, Flush, Emit
  <2>2. buffer.from < buffer.to
    BY <1>1 DEF CanvasIInv, CanvasTypeOK, Length
  <2>3. \A i \in DOMAIN segments' : segments'[i].from < segments'[i].to
    BY <1>1, <2>1, <2>2 DEF CanvasIInv, StrokeState
  <2> QED BY <1>1, <1>2, <1>3, <2>3 DEF CanvasIInv, StrokeState, Flush
<1>6. EveryPointIsSent'
  BY <1>1, <1>2, <1>3 DEF CanvasIInv, StrokeState, EveryPointIsSent, Flush
<1> QED BY <1>4, <1>5, <1>6 DEF CanvasIInv

LEMMA UpStep == CanvasIInv /\ PointerUp => CanvasIInv'
<1> SUFFICES ASSUME CanvasIInv, PointerUp PROVE CanvasIInv'
  OBVIOUS
<1>1. CASE ~drawing
  BY <1>1 DEF PointerUp, CanvasIInv, CanvasTypeOK, StrokeState, EveryPointIsSent, Sent
<1>2. CASE drawing /\ Unsent
  <2>1. Length(buffer) >= 2 \/ segments = <<>>
    BY <1>2 DEF Unsent, CanvasIInv, StrokeState
  <2>2. /\ segments' \in Seq([from : 1 .. MaxPoints, to : 1 .. MaxPoints])
        /\ segments' # <<>> /\ Sent' = points /\ flushed'
        /\ \A i \in DOMAIN segments' :
             /\ segments'[i].from = IF i = 1 THEN 1 ELSE segments'[i - 1].to
             /\ segments'[i].from < segments'[i].to \/ (segments'[i].to = 1 /\ points' = 1)
    BY <1>2, <2>1, EmitBatch DEF PointerUp
  <2>3. points \in 1 .. MaxPoints /\ points' = points /\ buffer' = Empty /\ ~drawing'
        /\ stroke' = "ended"
    BY <1>2 DEF CanvasIInv, StrokeState, PointerUp
  <2>4. CanvasTypeOK'
    BY <1>2, <2>2, <2>3, NoPoints DEF CanvasIInv, CanvasTypeOK, PointerUp
  <2>5. StrokeState'
    BY <2>2, <2>3 DEF StrokeState
  <2>6. EveryPointIsSent'
    BY <2>2, <2>3 DEF EveryPointIsSent
  <2> QED BY <2>4, <2>5, <2>6 DEF CanvasIInv
<1>3. CASE drawing /\ ~Unsent
  <2>1. /\ segments' = segments /\ points' = points /\ buffer' = Empty /\ ~drawing'
        /\ stroke' = "ended" /\ flushed' = flushed
    BY <1>3 DEF PointerUp
  <2>2. buffer = Batch(Sent, points) /\ points \in 1 .. MaxPoints
    BY <1>3 DEF CanvasIInv, StrokeState, EveryPointIsSent
  <2>3. Sent \in 1 .. MaxPoints /\ Sent <= points /\ segments # <<>>
    <3>1. CASE segments = <<>>
      BY <1>3, <3>1, <2>2, MaxPointsAssumption DEF Unsent, Length, Batch, Sent, CanvasIInv, StrokeState
    <3>2. CASE segments # <<>>
      <4>1. segments[Len(segments)] \in [from : 1 .. MaxPoints, to : 1 .. MaxPoints]
        BY <3>2, LastIn DEF CanvasIInv, CanvasTypeOK
      <4> QED BY <4>1, <3>2 DEF Sent, CanvasIInv, StrokeState
    <3> QED BY <3>1, <3>2
  <2>4. Sent = points
    BY <1>3, <2>2, <2>3, MaxPointsAssumption DEF Unsent, Length, Batch
  <2>5. Sent' = Sent BY <2>1 DEF Sent
  <2>6. CanvasTypeOK'
    BY <2>1, NoPoints DEF CanvasIInv, CanvasTypeOK, PointerUp
  <2>7. StrokeState'
    BY <2>1, <2>3, <2>5 DEF CanvasIInv, StrokeState
  <2>8. EveryPointIsSent'
    BY <2>1, <2>3, <2>4, <2>5 DEF CanvasIInv, EveryPointIsSent
  <2> QED BY <2>6, <2>7, <2>8 DEF CanvasIInv
<1> QED BY <1>1, <1>2, <1>3

LEMMA Stuttering == CanvasIInv /\ UNCHANGED canvasVars => CanvasIInv'
BY DEF canvasVars, CanvasIInv, CanvasTypeOK, StrokeState, EveryPointIsSent, Sent

THEOREM CanvasInductive == CanvasSpec => []CanvasIInv
<1>1. CanvasIInv /\ [CanvasNext]_canvasVars => CanvasIInv'
  BY TurnStep, RenderStep, DownStep, MoveStep, CancelStep, FlushStep, UpStep,
     ResetStep, Stuttering
     DEF CanvasNext, Pointing
<1> QED BY Initially, <1>1, PTL DEF CanvasSpec

\* Every variable of the canvas keeps its type (DrawCanvas.tsx).
THEOREM CanvasTypes == CanvasSpec => []CanvasTypeOK
<1>1. CanvasIInv => CanvasTypeOK BY DEF CanvasIInv
<1> QED BY CanvasInductive, <1>1, PTL

\* Strokes of any length are sent without a gap and without a repetition
\* (emitSegment, flush and handlePointerUp of DrawCanvas.tsx).
THEOREM AllSent == CanvasSpec => []EveryPointIsSent
<1>1. CanvasIInv => EveryPointIsSent BY DEF CanvasIInv
<1> QED BY CanvasInductive, <1>1, PTL

-----------------------------------------------------------------------------
(* One seat per tab: at most one run of the effect has not been cleaned up.*)

RunType ==
  [room : Code, cancelled : BOOLEAN, step : {"lookup", "connecting", "open", "closing"}]

RunsTyped == runs \in [Run -> RunType \cup {Null}]

Live(i) == runs[i] # Null /\ ~runs[i].cancelled
Seated(i) == Is(i, {"connecting", "open"})

\* What OneSeatPerTab says of a run: of its socket, and of its lookup.
OwnSeat(i) ==
  /\ Seated(i) => page = "room" /\ runs[i].room = room /\ socketRef = i
  /\ Is(i, {"lookup"}) /\ ~runs[i].cancelled => page = "room" /\ runs[i].room = room

OneLive ==
  /\ \A i \in Run : Seated(i) => Live(i)
  /\ \A i, j \in Run : Live(i) /\ Live(j) => i = j

Seats == RunsTyped /\ OneLive /\ OneSeatPerTab

LEMMA InitSeats == TabInit => Seats
BY DEF TabInit, VisitsInit, Seats, RunsTyped, OneLive, OneSeatPerTab, Live, Seated, Is

\* The clean-up leaves nothing that is connected or will be.
LEMMA CleanUp ==
  ASSUME Seats
  PROVE  /\ CleanedUp \in [Run -> RunType \cup {Null}]
         /\ \A i \in Run : CleanedUp[i] # Null =>
              CleanedUp[i].cancelled /\ CleanedUp[i].step \in {"lookup", "closing"}
<1> SUFFICES ASSUME NEW i \in Run
             PROVE  /\ CleanedUp[i] \in RunType \cup {Null}
                    /\ CleanedUp[i] # Null =>
                         CleanedUp[i].cancelled /\ CleanedUp[i].step \in {"lookup", "closing"}
  BY DEF CleanedUp
<1>1. CASE runs[i] = Null
  BY <1>1 DEF CleanedUp
<1>2. CASE runs[i] # Null
  <2>1. runs[i] \in RunType
    BY <1>2 DEF Seats, RunsTyped
  <2>2. Seated(i) => socketRef = i
    BY DEF Seats, OneSeatPerTab, Seated
  <2>3. Closing(i, runs[i].step) \in {"lookup", "closing"}
    BY <1>2, <2>1, <2>2 DEF Closing, Seated, Is, RunType
  <2>4. CleanedUp[i] = [runs[i] EXCEPT !.cancelled = TRUE, !.step = Closing(i, runs[i].step)]
    BY <1>2, <2>1 DEF CleanedUp, RunType
  <2> QED
    BY <2>1, <2>3, <2>4 DEF RunType
<1> QED
  BY <1>1, <1>2

\* No run is revived, and a run that is connected was that or was looking up.
LEMMA SeatsKept ==
  ASSUME Seats, RunsTyped', UNCHANGED <<page, room>>,
         \A i \in Run : Live(i)' => Live(i),
         \A i \in Run : Seated(i)' =>
           /\ Live(i)' /\ runs'[i].room = runs[i].room /\ socketRef' = i
           /\ Seated(i) \/ Is(i, {"lookup"}),
         \A i \in Run : Is(i, {"lookup"})' => runs'[i] = runs[i]
  PROVE  Seats'
<1>1. OneLive'
  BY DEF Seats, OneLive
<1>2. OneSeatPerTab'
  <2> SUFFICES ASSUME NEW i \in Run
               PROVE  /\ Seated(i)' => page = "room" /\ runs'[i].room = room /\ socketRef' = i
                      /\ Is(i, {"lookup"})' /\ ~runs'[i].cancelled =>
                           page = "room" /\ runs'[i].room = room
    BY DEF OneSeatPerTab, Seated, Is
  <2>1. /\ Seated(i) => page = "room" /\ runs[i].room = room
        /\ Is(i, {"lookup"}) /\ ~runs[i].cancelled => page = "room" /\ runs[i].room = room
    BY DEF Seats, OneSeatPerTab, Seated
  <2>2. ASSUME Seated(i)' PROVE page = "room" /\ runs'[i].room = room
    <3>1. Live(i) /\ (Seated(i) \/ Is(i, {"lookup"})) /\ runs'[i].room = runs[i].room
      BY <2>2
    <3> QED
      BY <2>1, <3>1 DEF Live
  <2>3. ASSUME Is(i, {"lookup"})', ~runs'[i].cancelled PROVE page = "room" /\ runs'[i].room = room
    <3>1. runs'[i] = runs[i]
      BY <2>3
    <3> QED
      BY <2>1, <2>3, <3>1 DEF Is
  <2> QED
    BY <2>2, <2>3
<1> QED
  BY <1>1, <1>2 DEF Seats

LEMMA EndsSeats ==
  ASSUME Seats, NEW i \in Run, Ends(i), UNCHANGED <<page, room>>,
         \A j \in Run \ {i} : Seated(j) => socketRef' = j
  PROVE  Seats'
<1>1. RunsTyped' /\ runs'[i] = Null /\ \A j \in Run \ {i} : runs'[j] = runs[j]
  BY DEF Ends, Seats, RunsTyped
<1>2. \A j \in Run : runs'[j] # Null => runs'[j] = runs[j] /\ j # i
  BY <1>1
<1>3. \A j \in Run : Live(j)' => Live(j)
  BY <1>2 DEF Live
<1>4. \A j \in Run : Seated(j)' => Seated(j) /\ j # i /\ Live(j)' /\ runs'[j] = runs[j]
  BY <1>2 DEF Seats, OneLive, Live, Seated, Is
<1>5. \A j \in Run : Is(j, {"lookup"})' => runs'[j] = runs[j]
  BY <1>2 DEF Is
<1> QED
  BY <1>1, <1>3, <1>4, <1>5, SeatsKept

\* A run goes on to a next step of its connection.
LEMMA AdvanceSeats ==
  ASSUME Seats, NEW i \in Run, NEW step \in {"connecting", "open"}, Live(i),
         Seated(i) \/ Is(i, {"lookup"}),
         runs' = [runs EXCEPT ![i].step = step], socketRef' = i, UNCHANGED <<page, room>>
  PROVE  Seats'
<1>1. runs[i] \in RunType
  BY DEF Seats, RunsTyped, Live
<1> DEFINE new == [runs[i] EXCEPT !.step = step]
<1>2. new \in RunType /\ new.room = runs[i].room /\ new.cancelled = runs[i].cancelled
      /\ new.step = step
  BY <1>1 DEF RunType
<1>3. runs' = [runs EXCEPT ![i] = new]
  OBVIOUS
<1> HIDE DEF new
<1>4. RunsTyped' /\ runs'[i] = new /\ \A j \in Run \ {i} : runs'[j] = runs[j]
  BY <1>2, <1>3 DEF Seats, RunsTyped
<1>5. \A j \in Run : Live(j)' => Live(j)
  BY <1>4 DEF Live
<1>6. \A j \in Run \ {i} : ~Seated(j)'
  BY <1>4 DEF Seats, OneLive, Seated, Is
<1>7. Seated(i)' => Live(i)' /\ runs'[i].room = runs[i].room
  BY <1>2, <1>4 DEF Live, Seated, Is
<1>8. \A j \in Run : Is(j, {"lookup"})' => runs'[j] = runs[j]
  BY <1>2, <1>4 DEF Is
<1> QED
  BY <1>4, <1>5, <1>6, <1>7, <1>8, SeatsKept

LEMMA RunSeats ==
  ASSUME Seats, NEW i \in Run,
         LookupFound(i) \/ LookupFails(i) \/ SocketOpens(i) \/ SocketCloses(i)
  PROVE  Seats'
<1>0. \A j \in Run : Seated(j) => socketRef = j /\ Live(j)
  BY DEF Seats, OneSeatPerTab, OneLive, Seated
<1>1. CASE LookupFound(i)
  <2>1. Is(i, {"lookup"}) /\ UNCHANGED <<page, room>>
    BY <1>1 DEF LookupFound, historyVars, pageVars
  <2>2. CASE Proceeds(i)
    <3>1. Live(i) /\ runs' = [runs EXCEPT ![i].step = "connecting"] /\ socketRef' = i
      BY <1>1, <2>2 DEF LookupFound, Proceeds, Live, Is
    <3> QED
      BY <2>1, <3>1, AdvanceSeats
  <2>3. CASE ~Proceeds(i)
    <3>1. Ends(i) /\ UNCHANGED socketRef
      BY <1>1, <2>3 DEF LookupFound
    <3> QED
      BY <1>0, <2>1, <3>1, EndsSeats
  <2> QED
    BY <2>2, <2>3
<1>2. CASE LookupFails(i)
  BY <1>0, <1>2, EndsSeats DEF LookupFails, historyVars, pageVars
<1>3. CASE SocketOpens(i)
  <2>1. Seated(i) /\ UNCHANGED <<page, room, socketRef>> /\ runs' = [runs EXCEPT ![i].step = "open"]
    BY <1>3 DEF SocketOpens, Seated, Is, historyVars, pageVars
  <2> QED
    BY <1>0, <2>1, AdvanceSeats
<1>4. CASE SocketCloses(i)
  <2>1. Ends(i) /\ UNCHANGED <<page, room>>
        /\ socketRef' = IF socketRef = i THEN Null ELSE socketRef
    BY <1>4 DEF SocketCloses, historyVars, pageVars
  <2> QED
    BY <1>0, <2>1, EndsSeats
<1> QED
  BY <1>1, <1>2, <1>3, <1>4

LEMMA ShowSeats == ASSUME Seats, NEW c \in Code, ShowRoom(c) PROVE Seats'
<1>1. CASE page = "room" /\ room = c
  BY <1>1 DEF ShowRoom, Seats, RunsTyped, OneLive, OneSeatPerTab, Live, Seated, Is
<1>2. CASE ~(page = "room" /\ room = c)
  <2> DEFINE new == [room |-> c, cancelled |-> FALSE, step |-> "lookup"]
  <2>1. PICK i \in Run : runs' = [CleanedUp EXCEPT ![i] = new]
    BY <1>2 DEF ShowRoom
  <2>2. new \in RunType /\ new.room = c /\ new.step = "lookup"
    BY DEF RunType
  <2> HIDE DEF new
  <2>3. /\ RunsTyped' /\ runs'[i] = new
        /\ \A j \in Run \ {i} : runs'[j] # Null =>
             runs'[j].cancelled /\ runs'[j].step \in {"lookup", "closing"}
    BY <2>1, <2>2, CleanUp DEF RunsTyped
  <2>4. \A j \in Run : ~Seated(j)' /\ (Live(j)' => j = i)
    BY <2>2, <2>3 DEF Seated, Is, Live
  <2>5. OneLive'
    BY <2>4 DEF OneLive
  <2>6. page' = "room" /\ room' = c
    BY DEF ShowRoom
  <2>7. OneSeatPerTab'
    BY <2>2, <2>3, <2>4, <2>6 DEF OneSeatPerTab, Seated, Live, Is
  <2> QED
    BY <2>3, <2>5, <2>7 DEF Seats
<1> QED
  BY <1>1, <1>2

LEMMA LeaveSeats == ASSUME Seats, LeaveRoom PROVE Seats'
<1>1. runs' = CleanedUp
  BY DEF LeaveRoom
<1>2. RunsTyped'
  BY <1>1, CleanUp DEF RunsTyped
<1>3. \A i \in Run : ~Seated(i)' /\ ~Live(i)'
  BY <1>1, CleanUp DEF Seated, Live, Is
<1>4. OneLive'
  BY <1>3 DEF OneLive
<1>5. OneSeatPerTab'
  BY <1>3 DEF OneSeatPerTab, Seated, Live, Is
<1> QED
  BY <1>2, <1>4, <1>5 DEF Seats

\* The pages of the history are not left for a room.
LEMMA PagesStay == PagesNext => (page = "room" => page' = "room")
BY DEF PagesNext, SaveGame, Serve, Arrive, GamesArrive, RankingArrives, OpenProfile, LoadMore,
   OpenRanking, SessionKnown, Reload, ChooseSort, Rerun, ToLobby, pageVars

LEMMA StepSeats == Seats /\ [TabNext]_tabVars => Seats'
<1> SUFFICES ASSUME Seats, [TabNext]_tabVars PROVE Seats'
  OBVIOUS
<1>1. ASSUME UNCHANGED roomVars, page = "room" => page' = "room" PROVE Seats'
  BY <1>1 DEF roomVars, Seats, RunsTyped, OneLive, OneSeatPerTab, Live, Seated, Is
<1>2. CASE PagesStep
  BY <1>1, <1>2, PagesStay DEF PagesStep
<1>3. CASE CanvasStep \/ UNCHANGED tabVars
  BY <1>1, <1>3 DEF CanvasStep, tabVars, visitVars, historyVars, pageVars
<1>4. CASE VisitsStep
  <2>1. CASE \E c \in Code : JoinByCode(c) \/ Assigned(c)
    BY <2>1, ShowSeats DEF JoinByCode, Assigned
  <2>2. CASE AssignAndEnter \/ AssignFails
    BY <1>1, <2>2 DEF AssignAndEnter, AssignFails, historyVars, pageVars
  <2>3. CASE LeaveRoom
    BY <2>3, LeaveSeats
  <2>4. CASE \E i \in Run : LookupFound(i) \/ LookupFails(i) \/ SocketOpens(i) \/ SocketCloses(i)
    BY <2>4, RunSeats
  <2> QED
    BY <1>4, <2>1, <2>2, <2>3, <2>4 DEF VisitsStep, VisitsNext
<1> QED
  BY <1>2, <1>3, <1>4 DEF TabNext

\* useRoomSocket and the lobby: whatever lookups and requests for a room are
\* under way when rooms are left and entered, the tab has a connection to the
\* room it shows and to no other.
THEOREM OneSeat == TabSpec => []OneSeatPerTab
<1>1. Seats => OneSeatPerTab
  BY DEF Seats
<1> QED
  BY <1>1, InitSeats, StepSeats, PTL DEF TabSpec

-----------------------------------------------------------------------------
(* The canvas in the tab.                                                  *)

\* DrawCanvas on its page: navigation and messages do to the canvas what
\* module Drawing lets them do.
THEOREM CanvasInTab == TabSpec => CanvasSpec
<1>1. TabInit => CanvasInit
  BY DEF TabInit
<1>2. [TabNext]_tabVars => [CanvasNext]_canvasVars
  BY DEF TabNext, PagesStep, VisitsStep, CanvasStep, CanvasNext, tabVars
<1> QED
  BY <1>1, <1>2, PTL DEF TabSpec, CanvasSpec

\* DrawCanvas in a tab that is navigated at any moment: a lifted stroke has
\* been sent to its last point.
THEOREM AllSentInTab == TabSpec => []EveryPointIsSent
BY CanvasInTab, AllSent, PTL

-----------------------------------------------------------------------------
(* Finite sets and numbers, sums and folds.                                *)

\* Of the sets of a collection one has no other of them as a subset.
LEMMA LeastSet ==
  ASSUME NEW S, IsFiniteSet(S), NEW B \in SUBSET (SUBSET S), B # {}
  PROVE  \E s \in B : \A t \in SUBSET s : t \in B => t = s
<1>1. B \subseteq FiniteSubsetsOf(S)
  BY FS_Subset DEF FiniteSubsetsOf
<1>2. \E s \in B : \A t \in B : ~ (<<t, s>> \in StrictSubsetOrdering(S))
  BY <1>1, FS_StrictSubsetOrderingWellFounded, WFMin
<1> QED
  BY <1>1, <1>2 DEF StrictSubsetOrdering

\* A set of numbers has a least one.
LEMMA LeastNumber ==
  ASSUME NEW T \in SUBSET Nat, NEW n \in T
  PROVE  \E k \in T : \A l \in T : k <= l
<1> DEFINE B == {1 .. k : k \in {l \in T : l <= n}}
<1>1. \A k, l \in Nat : 1 .. k \subseteq 1 .. l <=> k <= l
  OBVIOUS
<1>2. B \in SUBSET (SUBSET (1 .. n)) /\ 1 .. n \in B /\ IsFiniteSet(1 .. n)
  <2>1. n \in Nat /\ n \in {l \in T : l <= n}
    OBVIOUS
  <2>2. \A k \in {l \in T : l <= n} : 1 .. k \in SUBSET (1 .. n)
    BY <2>1, <1>1
  <2>3. IsFiniteSet(1 .. n)
    BY <2>1, FS_Interval
  <2> QED
    BY <2>1, <2>2, <2>3
<1>3. PICK s \in B : \A t \in SUBSET s : t \in B => t = s
  <2> DEFINE I == 1 .. n
  <2>1. B # {} /\ B \in SUBSET (SUBSET I) /\ IsFiniteSet(I)
    BY <1>2
  <2> HIDE DEF B, I
  <2> QED BY <2>1, LeastSet
<1>4. PICK k \in T : k <= n /\ s = 1 .. k
  BY <1>3
<1>5. ASSUME NEW l \in T PROVE k <= l
  <2>1. CASE l > n
    BY <1>4, <2>1
  <2>2. CASE l <= n /\ l < k
    <3>1. 1 .. l \in B /\ 1 .. l \in SUBSET s
      BY <1>4, <2>2
    <3>2. 1 .. l = 1 .. k
      BY <1>3, <1>4, <3>1
    <3> QED
      BY <2>2, <3>2, <1>1
  <2> QED
    BY <2>1, <2>2, <1>4
<1> QED
  BY <1>4, <1>5

\* The greatest value of a function on a finite set.
LEMMA Peak ==
  ASSUME NEW S, IsFiniteSet(S), S # {}, NEW f \in [S -> Nat]
  PROVE  \E x \in S : \A y \in S : f[x] >= f[y]
<1> DEFINE Below(x) == {y \in S : f[y] > f[x]}
           B == {Below(x) : x \in S}
<1>1. B \in SUBSET (SUBSET S) /\ B # {}
  <2>1. \A x \in S : Below(x) \in SUBSET S
    OBVIOUS
  <2> HIDE DEF Below
  <2> QED
    BY <2>1
<1>2. PICK s \in B : \A t \in SUBSET s : t \in B => t = s
  <2> HIDE DEF B
  <2> QED BY <1>1, LeastSet
<1>3. PICK x \in S : s = Below(x)
  BY <1>2
<1>4. ASSUME NEW y \in S, f[y] > f[x] PROVE FALSE
  <2>1. Below(y) \in B /\ y \in Below(x) /\ y \notin Below(y)
    BY <1>4
  <2>2. Below(y) \subseteq Below(x)
    BY <1>4
  <2> QED
    BY <1>2, <1>3, <2>1, <2>2
<1> QED
  BY <1>4

\* A sum is the number of the units it is made of.
Units(R, g) == UNION {{x} \X (1 .. g[x]) : x \in R}

\* One more element adds its units.
LEMMA UnitsAdd ==
  ASSUME NEW S, NEW g \in [S -> Nat], NEW R \in SUBSET S, IsFiniteSet(R), NEW x \in S, x \notin R
  PROVE  /\ IsFiniteSet(Units(R, g)) =>
              /\ IsFiniteSet(Units(R \cup {x}, g))
              /\ Cardinality(Units(R \cup {x}, g)) = Cardinality(Units(R, g)) + g[x]
<1> SUFFICES ASSUME IsFiniteSet(Units(R, g))
             PROVE  /\ IsFiniteSet(Units(R \cup {x}, g))
                    /\ Cardinality(Units(R \cup {x}, g)) = Cardinality(Units(R, g)) + g[x]
  OBVIOUS
<1> DEFINE N == {x} \X (1 .. g[x])
<1>1. Units(R \cup {x}, g) = Units(R, g) \cup N /\ Units(R, g) \cap N = {}
  BY DEF Units
<1>2. IsFiniteSet(N) /\ Cardinality(N) = g[x]
  <2>1. g[x] \in Nat /\ IsFiniteSet(1 .. g[x]) /\ Cardinality(1 .. g[x]) = g[x]
    BY FS_Interval
  <2>2. IsFiniteSet({x}) /\ Cardinality({x}) = 1
    BY FS_Singleton
  <2>3. IsFiniteSet(N) /\ Cardinality(N) = 1 * g[x]
    <3> DEFINE P == {x}
               I == 1 .. g[x]
    <3>1. /\ IsFiniteSet(P) /\ IsFiniteSet(I)
          /\ Cardinality(P) = 1 /\ Cardinality(I) = g[x] /\ N = P \X I
      BY <2>1, <2>2
    <3> HIDE DEF P, I, N
    <3>2. IsFiniteSet(P \X I) /\ Cardinality(P \X I) = Cardinality(P) * Cardinality(I)
      BY <3>1, FS_Product
    <3> QED
      BY <3>1, <3>2
  <2> QED
    BY <2>1, <2>3
<1>3. Cardinality(Units(R, g) \cap N) = 0 /\ Cardinality(Units(R, g)) \in Nat
  BY <1>1, FS_EmptySet, FS_CardinalityType
<1>4. /\ IsFiniteSet(Units(R, g) \cup N)
      /\ Cardinality(Units(R, g) \cup N)
           = Cardinality(Units(R, g)) + Cardinality(N) - Cardinality(Units(R, g) \cap N)
  <2> HIDE DEF N
  <2> QED BY <1>2, FS_Union
<1>5. g[x] \in Nat
  OBVIOUS
<1> HIDE DEF N
<1>6. /\ IsFiniteSet(Units(R, g) \cup N)
      /\ Cardinality(Units(R, g) \cup N) = Cardinality(Units(R, g)) + g[x]
  BY <1>2, <1>3, <1>4, <1>5
<1> QED
  BY <1>1, <1>6

\* There are finitely many units.
LEMMA UnitsFinite ==
  ASSUME NEW S, NEW g \in [S -> Nat], NEW R \in SUBSET S, IsFiniteSet(R)
  PROVE  IsFiniteSet(Units(R, g)) /\ Cardinality(Units(R, g)) \in Nat
<1>1. \A x \in R : IsFiniteSet({x} \X (1 .. g[x]))
  <2> SUFFICES ASSUME NEW x \in R PROVE IsFiniteSet({x} \X (1 .. g[x]))
    OBVIOUS
  <2>0. g[x] \in Nat
    OBVIOUS
  <2>1. IsFiniteSet(1 .. g[x])
    BY <2>0, FS_Interval
  <2>2. IsFiniteSet({x})
    BY FS_Singleton
  <2> QED
    BY <2>1, <2>2, FS_Product
<1> DEFINE T == {{x} \X (1 .. g[x]) : x \in R}
           f == [x \in R |-> {x} \X (1 .. g[x])]
<1>2. f \in Surjection(R, T)
  BY DEF Surjection
<1>3. IsFiniteSet(T)
  <2> HIDE DEF T, f
  <2> QED BY <1>2, FS_Surjection
<1>4. IsFiniteSet(UNION T)
  <2>1. \A t \in T : IsFiniteSet(t)
    BY <1>1
  <2> HIDE DEF T
  <2> QED BY <1>3, <2>1, FS_UNION
<1> QED
  BY <1>4, FS_CardinalityType DEF Units

\* The units of a set are those of an element and those of the others.
LEMMA Counted ==
  ASSUME NEW S, NEW g \in [S -> Nat], NEW s \in SUBSET S, IsFiniteSet(s), NEW x \in s
  PROVE  Cardinality(Units(s, g)) = g[x] + Cardinality(Units(s \ {x}, g))
<1> DEFINE t == s \ {x}
<1>1. s = t \cup {x} /\ x \notin t /\ t \in SUBSET S /\ x \in S
  OBVIOUS
<1>2. IsFiniteSet(t)
  BY FS_Subset
<1> HIDE DEF t
<1>3. IsFiniteSet(Units(t, g)) /\ Cardinality(Units(t, g)) \in Nat
  BY <1>1, <1>2, UnitsFinite
<1>4. Cardinality(Units(s, g)) = Cardinality(Units(t, g)) + g[x]
  BY <1>1, <1>2, <1>3, UnitsAdd
<1>5. g[x] \in Nat
  BY <1>1
<1> QED
  BY <1>3, <1>4, <1>5 DEF t

\* A fold that takes out one element after the other, whichever comes first,
\* counts the units.
LEMMA FoldedSum ==
  ASSUME NEW S, NEW g \in [S -> Nat], NEW R \in SUBSET S, IsFiniteSet(R),
         NEW pick \in [(SUBSET R) \ {{}} -> R], \A s \in (SUBSET R) \ {{}} : pick[s] \in s,
         NEW sum, \A s \in SUBSET R : sum[s] = IF s = {} THEN 0 ELSE g[pick[s]] + sum[s \ {pick[s]}]
  PROVE  sum[R] = Cardinality(Units(R, g))
<1> DEFINE B == {s \in SUBSET R : sum[s] # Cardinality(Units(s, g))}
<1>1. ASSUME NEW s \in B PROVE \E t \in SUBSET s : t \in B /\ t # s
  <2>1. CASE s = {}
    <3>1. Units(s, g) = {}
      BY <2>1 DEF Units
    <3>2. Cardinality(Units(s, g)) = 0
      BY <3>1, FS_EmptySet
    <3> QED
      BY <2>1, <3>2, <1>1
  <2>2. CASE s # {}
    <3>1. s \in (SUBSET R) \ {{}}
      BY <2>2
    <3>2. sum[s] = g[pick[s]] + sum[s \ {pick[s]}]
      BY <3>1
    <3>3. Cardinality(Units(s, g)) = g[pick[s]] + Cardinality(Units(s \ {pick[s]}, g))
      <4>1. IsFiniteSet(s) /\ s \in SUBSET S /\ pick[s] \in s
        BY <3>1, FS_Subset
      <4> QED
        BY <4>1, Counted
    <3>4. s \ {pick[s]} \in B
      BY <1>1, <3>1, <3>2, <3>3
    <3> QED
      BY <3>1, <3>4
  <2> QED
    BY <2>1, <2>2
<1>2. B = {}
  <2> HIDE DEF B
  <2>1. B \in SUBSET (SUBSET R)
    BY DEF B
  <2> QED
    BY <1>1, <2>1, LeastSet
<1> QED
  BY <1>2

\* The greatest index of a set.
LEMMA GreatestIndex ==
  ASSUME NEW n \in Nat, NEW s \in SUBSET (1 .. n), s # {}
  PROVE  Max(s) \in s /\ \A i \in s : i <= Max(s)
<1> DEFINE f == [i \in s |-> i]
<1>1. IsFiniteSet(s)
  <2> DEFINE I == 1 .. n
  <2>1. IsFiniteSet(I) /\ s \in SUBSET I
    BY FS_Interval
  <2> HIDE DEF I
  <2> QED
    BY <2>1, FS_Subset
<1>2. f \in [s -> Nat]
  OBVIOUS
<1>3. \E x \in s : \A y \in s : f[x] >= f[y]
  <2> HIDE DEF f
  <2> QED BY <1>1, <1>2, Peak
<1>4. \E x \in s : \A y \in s : x >= y
  BY <1>3
<1> QED
  BY <1>4 DEF Max

\* h does for each set of indices what op does for one after the other.
IsFold(h, n, V, base, op) ==
  /\ h \in [SUBSET (1 .. n) -> V]
  /\ \A s \in SUBSET (1 .. n) :
       h[s] = IF s = {} THEN base ELSE op[Max(s), h[s \ {Max(s)}]]

\* There is such a function.
LEMMA FoldExists ==
  ASSUME NEW n \in Nat, NEW V, NEW base \in V, NEW op \in [(1 .. n) \X V -> V]
  PROVE  \E h : IsFold(h, n, V, base, op)
<1> DEFINE Body(h, s) == IF s = {} THEN base ELSE op[Max(s), h[s \ {Max(s)}]]
           Good(h, k) == \A s \in SUBSET (1 .. n) : s \subseteq 1 .. k => h[s] = Body(h, s)
           B == {k \in 0 .. n : \A h \in [SUBSET (1 .. n) -> V] : ~Good(h, k)}
<1>0. B \in SUBSET Nat /\ B \subseteq 0 .. n
  <2> HIDE DEF Good
  <2> QED
    OBVIOUS
<1>1. ASSUME NEW s \in SUBSET (1 .. n), s # {}, NEW k \in 0 .. n, s \subseteq 1 .. k
      PROVE  /\ Max(s) \in 1 .. n /\ s \ {Max(s)} \in SUBSET (1 .. n)
             /\ k > 0 /\ s \ {Max(s)} \subseteq 1 .. (k - 1)
  <2>1. Max(s) \in s /\ \A i \in s : i <= Max(s)
    BY <1>1, GreatestIndex
  <2>2. \A i \in s : i \in 1 .. n /\ i \in 1 .. k
    BY <1>1
  <2> DEFINE m == Max(s)
  <2> HIDE DEF m
  <2>3. m \in s /\ \A i \in s : i <= m
    BY <2>1 DEF m
  <2>4. m \in 1 .. n /\ m \in 1 .. k
    BY <2>2, <2>3
  <2>5. ASSUME NEW i \in s, i # m PROVE i \in 1 .. (k - 1)
    <3>1. i \in 1 .. k /\ i <= m
      BY <2>2, <2>3
    <3> QED
      BY <2>4, <2>5, <3>1
  <2>6. k > 0 /\ s \ {m} \subseteq 1 .. (k - 1) /\ s \ {m} \in SUBSET (1 .. n)
    BY <2>4, <2>5
  <2> QED
    BY <2>4, <2>6 DEF m
<1>2. ASSUME NEW k \in 0 .. n, k \in B PROVE \E l \in B : l < k
  <2>1. CASE k = 0
    <3> DEFINE h == [s \in SUBSET (1 .. n) |-> base]
    <3>1. h \in [SUBSET (1 .. n) -> V]
      OBVIOUS
    <3>2. 1 .. 0 = {}
      OBVIOUS
    <3>3. Good(h, k)
      BY <2>1, <3>2
    <3> HIDE DEF Good, h
    <3> QED
      BY <1>2, <3>1, <3>3
  <2>2. CASE k > 0 /\ k - 1 \notin B
    <3>1. k - 1 \in 0 .. n
      <4>1. k > 0
        <5> HIDE DEF B
        <5> QED
          BY <2>2
      <4> QED
        BY <4>1
    <3>2. PICK h \in [SUBSET (1 .. n) -> V] : Good(h, k - 1)
      <4> HIDE DEF Good
      <4> QED
        BY <2>2, <3>1
    <3> DEFINE j == [s \in SUBSET (1 .. n) |-> Body(h, s)]
    <3>3. j \in [SUBSET (1 .. n) -> V]
      <4>1. ASSUME NEW s \in SUBSET (1 .. n) PROVE Body(h, s) \in V
        <5>1. s # {} => Max(s) \in 1 .. n /\ s \ {Max(s)} \in SUBSET (1 .. n)
          BY GreatestIndex
        <5> QED
          BY <5>1
      <4> QED
        BY <4>1
    <3>4. ASSUME NEW s \in SUBSET (1 .. n), s \subseteq 1 .. k PROVE j[s] = Body(j, s)
      <4>1. CASE s = {}
        BY <4>1
      <4>2. CASE s # {}
        <5>1. /\ Max(s) \in 1 .. n /\ s \ {Max(s)} \in SUBSET (1 .. n)
              /\ s \ {Max(s)} \subseteq 1 .. (k - 1)
          BY <1>1, <3>4, <4>2
        <5>2. h[s \ {Max(s)}] = Body(h, s \ {Max(s)})
          BY <3>2, <5>1
        <5>3. j[s \ {Max(s)}] = h[s \ {Max(s)}]
          BY <5>1, <5>2
        <5> QED
          BY <4>2, <5>3
      <4> QED
        BY <4>1, <4>2
    <3>5. Good(j, k)
      BY <3>4
    <3> HIDE DEF Good, j
    <3> QED
      BY <1>2, <3>3, <3>5
  <2>3. CASE k > 0 /\ k - 1 \in B
    <3>1. k - 1 < k
      OBVIOUS
    <3> HIDE DEF B
    <3> QED
      BY <2>3, <3>1
  <2> HIDE DEF B
  <2> QED
    BY <2>1, <2>2, <2>3
<1>3. n \notin B
  <2> HIDE DEF B
  <2>1. SUFFICES ASSUME n \in B PROVE FALSE
    OBVIOUS
  <2>2. PICK k \in B : \A l \in B : k <= l
    BY <1>0, <2>1, LeastNumber
  <2> QED
    BY <1>0, <1>2, <2>2
<1>4. PICK h \in [SUBSET (1 .. n) -> V] : Good(h, n)
  <2>1. n \in 0 .. n
    OBVIOUS
  <2> HIDE DEF Good
  <2> QED
    BY <1>3, <2>1
<1>5. IsFold(h, n, V, base, op)
  BY <1>4 DEF IsFold
<1> QED
  BY <1>5

\* MapThenSumSet counts units.
LEMMA SumIsCount ==
  ASSUME NEW S, NEW g \in [S -> Nat], NEW R \in SUBSET S, IsFiniteSet(R)
  PROVE  MapThenSumSet(LAMBDA x : g[x], R) = Cardinality(Units(R, g))
<1> DEFINE pick == [s \in (SUBSET R) \ {{}} |-> CHOOSE x \in s : TRUE]
           Sum(f) == [s \in SUBSET R |->
                        IF s = {} THEN 0
                        ELSE g[CHOOSE x \in s : TRUE] + f[s \ {CHOOSE x \in s : TRUE}]]
           count == [s \in SUBSET R |-> Cardinality(Units(s, g))]
<1>1. /\ pick \in [(SUBSET R) \ {{}} -> R]
      /\ \A s \in (SUBSET R) \ {{}} : pick[s] \in s /\ pick[s] = CHOOSE x \in s : TRUE
  OBVIOUS
<1>2. MapThenSumSet(LAMBDA x : g[x], R) = (CHOOSE f : f = Sum(f))[R]
  BY DEF MapThenSumSet, MapThenFoldSet
<1>3. count = Sum(count)
  <2>1. ASSUME NEW s \in SUBSET R PROVE count[s] = Sum(count)[s]
    <3>1. CASE s = {}
      <4>1. Units(s, g) = {}
        BY <3>1 DEF Units
      <4> QED
        BY <3>1, <4>1, FS_EmptySet
    <3>2. CASE s # {}
      <4> DEFINE x == CHOOSE y \in s : TRUE
      <4>1. x \in s
        BY <3>2
      <4>2. IsFiniteSet(s) /\ s \in SUBSET S
        BY FS_Subset
      <4> HIDE DEF x
      <4>3. Cardinality(Units(s, g)) = g[x] + Cardinality(Units(s \ {x}, g))
        BY <4>1, <4>2, Counted
      <4>4. count[s] = g[x] + count[s \ {x}]
        BY <4>3
      <4> QED
        BY <3>2, <4>4 DEF x
    <3> QED
      BY <3>1, <3>2
  <2> HIDE DEF Sum
  <2>2. Sum(count) = [s \in SUBSET R |-> Sum(count)[s]]
    BY DEF Sum
  <2> QED
    BY <2>1, <2>2
<1> DEFINE sum == CHOOSE f : f = Sum(f)
<1>4. sum = Sum(sum)
  <2> HIDE DEF Sum, count
  <2> QED
    BY <1>3
<1>5. \A s \in SUBSET R : sum[s] = IF s = {} THEN 0 ELSE g[pick[s]] + sum[s \ {pick[s]}]
  <2> HIDE DEF sum
  <2> QED
    BY <1>1, <1>4
<1>6. sum[R] = Cardinality(Units(R, g))
  <2> HIDE DEF sum, pick
  <2> QED
    BY <1>1, <1>5, FoldedSum
<1> QED
  BY <1>2, <1>6

-----------------------------------------------------------------------------
(* The rows of game_players and the totals that a row of user_stats holds. *)

\* The rows there can be of game_players.
Places == {x \in Game \X Nat : x[2] \in DOMAIN Players[x[1]]}

ScoreOf == [x \in Places |-> Row(x).score]
WinOf == [x \in Places |-> Win(Row(x))]

\* What is read in a row has its type.
LEMMA PlaceTypes ==
  /\ \A x \in Places : Row(x) \in PlayerType /\ At(x) \in Nat
  /\ ScoreOf \in [Places -> Nat] /\ WinOf \in [Places -> Nat]
<1>1. ASSUME NEW x \in Places PROVE Row(x) \in PlayerType /\ At(x) \in Nat
  <2>1. x[1] \in Game /\ x[2] \in DOMAIN Players[x[1]]
    BY DEF Places
  <2>2. Players[x[1]] \in Seq(PlayerType) /\ FinishedAt[x[1]] \in Nat
    BY <2>1, EventsAssumption
  <2> QED
    BY <2>1, <2>2 DEF Row, At
<1>2. ASSUME NEW x \in Places PROVE Row(x).score \in Nat /\ Win(Row(x)) \in Nat
  BY <1>1 DEF PlayerType, Win
<1> QED
  BY <1>1, <1>2 DEF ScoreOf, WinOf

\* The two sums of the aggregate are sums of a function.
LEMMA ScoreSum ==
  ASSUME NEW R \in SUBSET Places, IsFiniteSet(R)
  PROVE  MapThenSumSet(LAMBDA x : Row(x).score, R) = Cardinality(Units(R, ScoreOf))
<1> DEFINE c(s) == CHOOSE x \in s : TRUE
           Read(f) == [s \in SUBSET R |->
                         IF s = {} THEN 0 ELSE Row(c(s)).score + f[s \ {c(s)}]]
           Sum(f) == [s \in SUBSET R |-> IF s = {} THEN 0 ELSE ScoreOf[c(s)] + f[s \ {c(s)}]]
<1>1. ASSUME NEW f PROVE Read(f) = Sum(f)
  <2>1. ASSUME NEW s \in SUBSET R, s # {} PROVE Row(c(s)).score = ScoreOf[c(s)]
    <3>1. c(s) \in Places
      BY <2>1
    <3> QED
      BY <3>1 DEF ScoreOf
  <2> HIDE DEF c
  <2> QED
    BY <2>1
<1>2. (CHOOSE f : f = Read(f)) = (CHOOSE f : f = Sum(f))
  <2> HIDE DEF Read, Sum
  <2> QED
    BY <1>1
<1>3. MapThenSumSet(LAMBDA x : Row(x).score, R) = MapThenSumSet(LAMBDA x : ScoreOf[x], R)
  BY <1>2 DEF MapThenSumSet, MapThenFoldSet
<1> QED
  BY <1>3, PlaceTypes, SumIsCount

LEMMA WinSum ==
  ASSUME NEW R \in SUBSET Places, IsFiniteSet(R)
  PROVE  MapThenSumSet(LAMBDA x : Win(Row(x)), R) = Cardinality(Units(R, WinOf))
<1> DEFINE c(s) == CHOOSE x \in s : TRUE
           Read(f) == [s \in SUBSET R |->
                         IF s = {} THEN 0 ELSE Win(Row(c(s))) + f[s \ {c(s)}]]
           Sum(f) == [s \in SUBSET R |-> IF s = {} THEN 0 ELSE WinOf[c(s)] + f[s \ {c(s)}]]
<1>1. ASSUME NEW f PROVE Read(f) = Sum(f)
  <2>1. ASSUME NEW s \in SUBSET R, s # {} PROVE Win(Row(c(s))) = WinOf[c(s)]
    <3>1. c(s) \in Places
      BY <2>1
    <3> QED
      BY <3>1 DEF WinOf
  <2> HIDE DEF c
  <2> QED
    BY <2>1
<1>2. (CHOOSE f : f = Read(f)) = (CHOOSE f : f = Sum(f))
  <2> HIDE DEF Read, Sum
  <2> QED
    BY <1>1
<1>3. MapThenSumSet(LAMBDA x : Win(Row(x)), R) = MapThenSumSet(LAMBDA x : WinOf[x], R)
  BY <1>2 DEF MapThenSumSet, MapThenFoldSet
<1> QED
  BY <1>3, PlaceTypes, SumIsCount

\* What a row of user_stats says of the rows R of game_players.
Totals(row, R) ==
  /\ row \in StatsType
  /\ row.gamesPlayed = Cardinality(R)
  /\ row.wins = Cardinality(Units(R, WinOf))
  /\ row.totalScore = Cardinality(Units(R, ScoreOf))
  /\ \A x \in R : Row(x).score <= row.bestScore /\ At(x) <= row.lastPlayedAt
  /\ \E x \in R : Row(x).score = row.bestScore
  /\ \E x \in R : At(x) = row.lastPlayedAt /\ Row(x).nickname = row.nickname

Matches(row, R) == IF R = {} THEN row = Null ELSE Totals(row, R)

\* An upsert leaves a row of the table.
LEMMA UpsertType ==
  ASSUME NEW row \in StatsType \cup {Null}, NEW p \in PlayerType, NEW at \in Nat
  PROVE  Upsert(row, p, at) \in StatsType
BY NullAssumption DEF Upsert, Nickname, Greatest, Win, StatsType, PlayerType

\* The upsert of saveGameResult: what matched the rows so far matches them and
\* the new one.
LEMMA UpsertMatches ==
  ASSUME NEW R \in SUBSET Places, IsFiniteSet(R), NEW x \in Places, x \notin R,
         NEW row, Matches(row, R)
  PROVE  Matches(Upsert(row, Row(x), At(x)), R \cup {x})
<1> DEFINE next == Upsert(row, Row(x), At(x))
           S == R \cup {x}
<1>1. /\ Row(x) \in PlayerType /\ At(x) \in Nat /\ Row(x).score \in Nat
      /\ ScoreOf[x] = Row(x).score /\ WinOf[x] = Win(Row(x)) /\ Win(Row(x)) \in Nat
  BY PlaceTypes DEF PlayerType, ScoreOf, WinOf, Win
<1>2. /\ Cardinality(S) = Cardinality(R) + 1
      /\ Cardinality(Units(S, WinOf)) = Cardinality(Units(R, WinOf)) + Win(Row(x))
      /\ Cardinality(Units(S, ScoreOf)) = Cardinality(Units(R, ScoreOf)) + Row(x).score
  BY <1>1, FS_AddElement, UnitsFinite, UnitsAdd, PlaceTypes
<1>3. CASE R = {}
  <2>1. /\ Cardinality(R) = 0 /\ Cardinality(Units(R, WinOf)) = 0
        /\ Cardinality(Units(R, ScoreOf)) = 0
    <3>1. Units(R, WinOf) = {} /\ Units(R, ScoreOf) = {}
      BY <1>3 DEF Units
    <3> QED
      BY <1>3, <3>1, FS_EmptySet
  <2>2. next = [nickname |-> Row(x).nickname, gamesPlayed |-> 1, wins |-> Win(Row(x)),
                totalScore |-> Row(x).score, bestScore |-> Row(x).score,
                lastPlayedAt |-> At(x)]
    BY <1>3 DEF Matches, Upsert
  <2>3. next \in StatsType
    BY <1>1, <2>2 DEF StatsType, PlayerType
  <2>4. \A y \in S : y = x
    BY <1>3
  <2>5. Totals(next, S)
    <3> HIDE DEF next
    <3> QED
      BY <1>1, <1>2, <2>1, <2>2, <2>3, <2>4 DEF Totals
  <2> QED
    BY <2>5 DEF Matches
<1>4. CASE R # {}
  <2>1. Totals(row, R) /\ row # Null
    BY <1>4, NullAssumption DEF Matches, Totals
  <2>2. next = [nickname |-> Nickname(row, Row(x), At(x)),
                gamesPlayed |-> row.gamesPlayed + 1,
                wins |-> row.wins + Win(Row(x)),
                totalScore |-> row.totalScore + Row(x).score,
                bestScore |-> Greatest(row.bestScore, Row(x).score),
                lastPlayedAt |-> Greatest(row.lastPlayedAt, At(x))]
    BY <2>1 DEF Upsert
  <2>3. row \in StatsType /\ next \in StatsType
    BY <1>1, <2>1, UpsertType DEF Totals
  <2>4. /\ next.bestScore = Greatest(row.bestScore, Row(x).score)
        /\ next.lastPlayedAt = Greatest(row.lastPlayedAt, At(x))
        /\ next.nickname = Nickname(row, Row(x), At(x))
        /\ row.bestScore \in Nat /\ row.lastPlayedAt \in Nat
    BY <2>2, <2>3 DEF StatsType
  <2> HIDE DEF next
  <2>5. /\ next.gamesPlayed = Cardinality(S)
        /\ next.wins = Cardinality(Units(S, WinOf))
        /\ next.totalScore = Cardinality(Units(S, ScoreOf))
    BY <1>2, <2>1, <2>2 DEF Totals
  <2>6. \A y \in S : Row(y).score <= next.bestScore /\ At(y) <= next.lastPlayedAt
    <3> SUFFICES ASSUME NEW y \in S
                 PROVE  Row(y).score <= next.bestScore /\ At(y) <= next.lastPlayedAt
      OBVIOUS
    <3>1. y \in Places /\ Row(y).score \in Nat /\ At(y) \in Nat
      BY PlaceTypes DEF PlayerType
    <3>2. CASE y = x
      BY <1>1, <2>4, <3>2 DEF Greatest
    <3>3. CASE y \in R
      <4>1. Row(y).score <= row.bestScore /\ At(y) <= row.lastPlayedAt
        BY <2>1, <3>3 DEF Totals
      <4> QED
        BY <1>1, <2>4, <3>1, <4>1 DEF Greatest
    <3> QED
      BY <3>2, <3>3
  <2>7. \E y \in S : Row(y).score = next.bestScore
    BY <1>1, <2>1, <2>4 DEF Greatest, Totals
  <2>8. \E y \in S : At(y) = next.lastPlayedAt /\ Row(y).nickname = next.nickname
    <3>1. CASE At(x) >= row.lastPlayedAt
      <4>1. next.lastPlayedAt = At(x) /\ next.nickname = Row(x).nickname
        BY <1>1, <2>4, <3>1 DEF Greatest, Nickname
      <4> QED
        BY <4>1
    <3>2. CASE ~(At(x) >= row.lastPlayedAt)
      <4>1. next.lastPlayedAt = row.lastPlayedAt /\ next.nickname = row.nickname
        BY <1>1, <2>4, <3>2 DEF Greatest, Nickname
      <4> QED
        BY <2>1, <4>1 DEF Totals
    <3> QED
      BY <3>1, <3>2
  <2>9. S # {}
    OBVIOUS
  <2>10. Matches(next, S)
    <3> HIDE DEF S
    <3> QED
      BY <2>3, <2>5, <2>6, <2>7, <2>8, <2>9 DEF Matches, Totals
  <2> QED
    BY <2>10 DEF next
<1> QED
  BY <1>3, <1>4

\* Finitely many games have finitely many rows.
LEMMA PlacesAreFinite ==
  ASSUME NEW G \in SUBSET Game, IsFiniteSet(G)
  PROVE  IsFiniteSet({x \in Places : x[1] \in G})
<1> DEFINE Of(g) == {<<g, i>> : i \in DOMAIN Players[g]}
           T == {Of(g) : g \in G}
           f == [g \in G |-> Of(g)]
<1>1. ASSUME NEW g \in G PROVE Of(g) \in SUBSET Places /\ IsFiniteSet(Of(g))
  <2> DEFINE I == DOMAIN Players[g]
             at == [i \in I |-> <<g, i>>]
  <2>1. I = 1 .. Len(Players[g]) /\ Len(Players[g]) \in Nat
    BY EventsAssumption
  <2>2. IsFiniteSet(I)
    <3>1. IsFiniteSet(1 .. Len(Players[g]))
      BY <2>1, FS_Interval
    <3> QED
      BY <2>1, <3>1
  <2>3. at \in Surjection(I, Of(g))
    <3> HIDE DEF I
    <3> QED
      BY DEF Surjection, I
  <2>4. IsFiniteSet(Of(g))
    <3> HIDE DEF I, Of, at
    <3> QED
      BY <2>2, <2>3, FS_Surjection
  <2>5. Of(g) \in SUBSET Places
    BY <2>1 DEF Places
  <2> QED
    BY <2>4, <2>5
<1>2. f \in Surjection(G, T)
  <2> HIDE DEF Of
  <2> QED
    BY DEF Surjection
<1>3. IsFiniteSet(T)
  <2> HIDE DEF T, f
  <2> QED
    BY <1>2, FS_Surjection
<1>4. IsFiniteSet(UNION T)
  <2>1. \A t \in T : IsFiniteSet(t)
    BY <1>1
  <2> HIDE DEF T
  <2> QED
    BY <1>3, <2>1, FS_UNION
<1>5. {x \in Places : x[1] \in G} \subseteq UNION T
  BY DEF Places
<1> QED
  <2> HIDE DEF T
  <2> QED
    BY <1>4, <1>5, FS_Subset

\* So has a member.
LEMMA RowsAreFinite ==
  ASSUME NEW G \in SUBSET Game, IsFiniteSet(G), NEW u \in User
  PROVE  Rows(G, u) \in SUBSET Places /\ IsFiniteSet(Rows(G, u))
<1>1. Rows(G, u) \subseteq {x \in Places : x[1] \in G}
  BY EventsAssumption DEF Rows, Places
<1> QED
  BY <1>1, PlacesAreFinite, FS_Subset

\* The first i numbers are the i-th and those before it.
LEMMA IntervalPrefix ==
  ASSUME NEW n \in Nat, NEW i \in 1 .. n
  PROVE  /\ i \in 1 .. i /\ 1 .. i \in SUBSET (1 .. n)
         /\ (1 .. i) \ {i} = 1 .. (i - 1)
         /\ \A j \in 1 .. i : j <= i
OBVIOUS

\* The loop of saveGameResult for one member, seat by seat.
LEMMA LoopMatches ==
  ASSUME NEW G \in SUBSET Game, IsFiniteSet(G), NEW g \in Game, g \notin G, NEW u \in User,
         NEW row, Matches(row, Rows(G, u))
  PROVE  Matches(FoldLeft(LAMBDA r, p : IF p.user = u THEN Upsert(r, p, FinishedAt[g]) ELSE r,
                          row, Players[g]),
                 Rows(G \cup {g}, u))
<1> DEFINE q == Players[g]
           n == Len(q)
           V == StatsType \cup {Null}
           Turn(i, r) == IF q[i].user = u THEN Upsert(r, q[i], FinishedAt[g]) ELSE r
           op == [y \in (1 .. n) \X V |-> Turn(y[1], y[2])]
           Code1(f) == [s \in SUBSET (1 .. n) |->
                       IF s = {} THEN row ELSE Turn(Max(s), f[s \ {Max(s)}])]
           fold == CHOOSE f : f = Code1(f)
           R(i) == Rows(G, u) \cup {<<g, j>> : j \in {k \in 1 .. i : q[k].user = u}}
<1>1. q \in Seq(PlayerType) /\ n \in Nat /\ DOMAIN q = 1 .. n /\ FinishedAt[g] \in Nat
  BY EventsAssumption
<1>2. row \in V
  BY DEF Matches, Totals
<1>3. ASSUME NEW i \in 1 .. n, NEW r \in V PROVE Turn(i, r) \in V
  <2>1. q[i] \in PlayerType
    BY <1>1
  <2> QED
    BY <1>1, <2>1, UpsertType
<1>4. op \in [(1 .. n) \X V -> V]
  <2> HIDE DEF Turn, V
  <2> QED
    BY <1>3
<1>5. PICK h : IsFold(h, n, V, row, op)
  <2>1. n \in Nat
    BY <1>1
  <2> HIDE DEF op, V, n
  <2> QED
    BY <1>2, <1>4, <2>1, FoldExists
<1>6. h = Code1(h)
  <2>1. ASSUME NEW s \in SUBSET (1 .. n), s # {}
        PROVE  op[Max(s), h[s \ {Max(s)}]] = Turn(Max(s), h[s \ {Max(s)}])
    <3>1. Max(s) \in 1 .. n /\ s \ {Max(s)} \in SUBSET (1 .. n)
      BY <1>1, <2>1, GreatestIndex
    <3>2. h[s \ {Max(s)}] \in V
      BY <1>5, <3>1 DEF IsFold
    <3> HIDE DEF Turn, V
    <3> QED
      BY <3>1, <3>2
  <2> HIDE DEF op, Turn, V
  <2> QED
    BY <1>5, <2>1 DEF IsFold
<1>7. fold = Code1(fold)
  <2> HIDE DEF Code1
  <2> QED
    BY <1>6
<1>8. FoldLeft(LAMBDA r, p : IF p.user = u THEN Upsert(r, p, FinishedAt[g]) ELSE r, row, q)
        = fold[1 .. n]
  BY <1>1 DEF FoldLeft, MapThenFoldSet
<1> HIDE DEF fold
<1>9. /\ fold[1 .. 0] = row
      /\ \A i \in 1 .. n : fold[1 .. i] = Turn(i, fold[1 .. (i - 1)])
  <2>1. 1 .. 0 = {} /\ 1 .. 0 \in SUBSET (1 .. n)
    OBVIOUS
  <2>2. fold[1 .. 0] = row
    <3> HIDE DEF Turn
    <3> QED
      BY <1>7, <2>1
  <2>3. ASSUME NEW i \in 1 .. n PROVE fold[1 .. i] = Turn(i, fold[1 .. (i - 1)])
    <3> DEFINE s == 1 .. i
    <3>1. i \in s /\ s \in SUBSET (1 .. n) /\ s # {} /\ \A j \in s : j <= i
      <4> HIDE DEF n
      <4> QED
        BY <1>1, IntervalPrefix
    <3>2. Max(s) \in s /\ \A j \in s : j <= Max(s)
      <4> HIDE DEF s
      <4> QED
        BY <1>1, <3>1, GreatestIndex
    <3>3. Max(s) = i
      BY <3>1, <3>2
    <3>4. s \ {i} = 1 .. (i - 1)
      <4> HIDE DEF n
      <4> QED
        BY <1>1, IntervalPrefix
    <3> HIDE DEF s, Turn
    <3>5. fold[s] = Turn(Max(s), fold[s \ {Max(s)}])
      BY <1>7, <3>1
    <3> QED
      BY <3>3, <3>4, <3>5 DEF s
  <2> QED
    BY <2>2, <2>3
<1>10. R(0) = Rows(G, u)
  OBVIOUS
<1>11. ASSUME NEW i \in 1 .. n, Matches(fold[1 .. (i - 1)], R(i - 1))
       PROVE  Matches(fold[1 .. i], R(i))
  <2> DEFINE before == fold[1 .. (i - 1)]
             x == <<g, i>>
  <2>1. fold[1 .. i] = Turn(i, before)
    BY <1>9
  <2>2. x \in Places /\ Row(x) = q[i] /\ At(x) = FinishedAt[g] /\ i \in Nat
    BY <1>1 DEF Places, Row, At
  <2>3. CASE q[i].user = u
    <3>1. R(i) = R(i - 1) \cup {x} /\ x \notin R(i - 1)
      <4>1. x \notin Rows(G, u)
        BY DEF Rows
      <4>2. \A j \in 1 .. i : j \in 1 .. (i - 1) \/ j = i
        OBVIOUS
      <4>3. \A j \in 1 .. (i - 1) : j \in 1 .. i /\ j # i
        OBVIOUS
      <4>4. i \in 1 .. i
        OBVIOUS
      <4> QED
        BY <2>3, <4>1, <4>2, <4>3, <4>4
    <3>2. R(i - 1) \in SUBSET Places /\ IsFiniteSet(R(i - 1))
      <4> DEFINE D == 1 .. (i - 1)
                 K == {k \in D : q[k].user = u}
                 L == {<<g, j>> : j \in K}
                 at == [j \in K |-> <<g, j>>]
      <4>1. Rows(G, u) \in SUBSET Places /\ IsFiniteSet(Rows(G, u))
        BY RowsAreFinite
      <4>2. L \in SUBSET Places
        <5>1. \A j \in D : j \in DOMAIN q /\ j \in Nat
          BY <1>1
        <5> HIDE DEF D
        <5> QED
          BY <5>1 DEF Places
      <4>3. IsFiniteSet(D) /\ K \in SUBSET D
        BY FS_Interval
      <4>4. IsFiniteSet(K)
        <5> HIDE DEF D, K
        <5> QED
          BY <4>3, FS_Subset
      <4>5. at \in Surjection(K, L)
        <5> HIDE DEF K
        <5> QED
          BY DEF Surjection
      <4>6. IsFiniteSet(L)
        <5> HIDE DEF K, L, at
        <5> QED
          BY <4>4, <4>5, FS_Surjection
      <4>7. R(i - 1) = Rows(G, u) \cup L
        OBVIOUS
      <4>8. IsFiniteSet(Rows(G, u) \cup L)
        <5> HIDE DEF L
        <5> QED
          BY <4>1, <4>6, FS_Union
      <4> HIDE DEF R, L
      <4> QED
        BY <4>1, <4>2, <4>7, <4>8
    <3>3. fold[1 .. i] = Upsert(before, Row(x), At(x))
      BY <2>1, <2>2, <2>3
    <3> HIDE DEF R, before, x
    <3> QED
      BY <1>11, <2>2, <3>1, <3>2, <3>3, UpsertMatches DEF before
  <2>4. CASE q[i].user # u
    <3>1. R(i) = R(i - 1)
      <4>1. \A j \in 1 .. i : j \in 1 .. (i - 1) \/ j = i
        OBVIOUS
      <4>2. \A j \in 1 .. (i - 1) : j \in 1 .. i
        OBVIOUS
      <4> QED
        BY <2>4, <4>1, <4>2
    <3> HIDE DEF R
    <3> QED
      BY <1>11, <2>1, <2>4, <3>1
  <2> QED
    BY <2>3, <2>4
<1>12. Matches(fold[1 .. n], R(n))
  <2> DEFINE T == {i \in 0 .. n : ~Matches(fold[1 .. i], R(i))}
  <2>1. ASSUME NEW i \in T, \A j \in T : i <= j PROVE FALSE
    <3> HIDE DEF R
    <3>1. i \in 0 .. n /\ ~Matches(fold[1 .. i], R(i))
      BY <2>1
    <3>2. i # 0
      BY <1>9, <1>10, <3>1
    <3>3. i \in 1 .. n /\ i - 1 \in 0 .. n /\ ~(i <= i - 1)
      BY <3>1, <3>2
    <3>4. i - 1 \notin T
      BY <2>1, <3>3
    <3> QED
      BY <1>11, <3>1, <3>3, <3>4
  <2>2. T \in SUBSET Nat
    <3> HIDE DEF R
    <3> QED
      OBVIOUS
  <2>3. n \notin T
    <3> HIDE DEF T
    <3> QED
      BY <2>1, <2>2, LeastNumber
  <2>4. n \in 0 .. n
    BY <1>1
  <2> HIDE DEF R
  <2> QED
    BY <2>3, <2>4
<1>13. R(n) = Rows(G \cup {g}, u)
  BY <1>1 DEF Rows
<1> QED
  BY <1>8, <1>12, <1>13

\* The maximum of a set of numbers is the one that no other exceeds.
LEMMA GreatestValue ==
  ASSUME NEW T \in SUBSET Nat, NEW m \in T, \A y \in T : y <= m
  PROVE  Max(T) = m
<1>1. \A x \in T : (\A y \in T : x >= y) => x = m
  OBVIOUS
<1>2. \E x \in T : \A y \in T : x >= y
  OBVIOUS
<1> QED
  BY <1>1, <1>2 DEF Max

\* The latest row is one that no other comes before.
LEMMA NewestExists ==
  ASSUME NEW R \in SUBSET Places, IsFiniteSet(R), R # {}
  PROVE  Newest(R) \in R /\ \A y \in R : At(y) <= At(Newest(R))
<1>1. \A y \in R : At(y) \in Nat /\ y[1] \in Nat
  BY PlaceTypes, IdsAssumption DEF Places
<1> DEFINE f == [y \in R |-> At(y)]
           g == [y \in R |-> y[1]]
<1>2. PICK a \in R : \A y \in R : f[a] >= f[y]
  <2>1. f \in [R -> Nat]
    BY <1>1
  <2> HIDE DEF f
  <2> QED
    BY <2>1, Peak
<1> DEFINE S == {y \in R : At(y) = At(a)}
           h == [y \in S |-> y[1]]
<1>3. PICK x \in S : \A y \in S : h[x] >= h[y]
  <2>1. h \in [S -> Nat] /\ S # {}
    BY <1>1
  <2>2. IsFiniteSet(S)
    BY FS_Subset
  <2> HIDE DEF h, S
  <2> QED
    BY <2>1, <2>2, Peak
<1>4. ASSUME NEW y \in R, Before(y, x) PROVE FALSE
  <2>1. At(y) <= At(x)
    BY <1>1, <1>2
  <2>2. At(y) = At(x) /\ y[1] > x[1]
    BY <1>1, <1>4, <2>1 DEF Before
  <2>3. y \in S
    BY <2>2
  <2> QED
    BY <1>1, <1>3, <2>2, <2>3
<1> DEFINE z == Newest(R)
<1>5. z \in R /\ \A y \in R : ~Before(y, z)
  BY <1>4 DEF Newest
<1>6. \A y \in R : At(y) <= At(z)
  BY <1>1, <1>5 DEF Before
<1> QED
  BY <1>5, <1>6

\* The SELECT of the migration matches the rows it is about.
LEMMA AggregateMatches ==
  ASSUME NEW G \in SUBSET Game, IsFiniteSet(G), NEW u \in User
  PROVE  Matches(Aggregate(G, u), Rows(G, u))
<1> DEFINE R == Rows(G, u)
           row == Aggregate(G, u)
           Scores == {Row(x).score : x \in R}
           Times == {At(x) : x \in R}
<1>1. R \in SUBSET Places /\ IsFiniteSet(R)
  BY RowsAreFinite
<1>2. CASE R = {}
  BY <1>2 DEF Matches, Aggregate
<1>3. CASE R # {}
  <2>1. /\ \A x \in R : Row(x) \in PlayerType /\ At(x) \in Nat /\ Row(x).score \in Nat
    BY <1>1, PlaceTypes DEF PlayerType
  <2>2. PICK a \in R : \A y \in R : Row(a).score >= Row(y).score
    <3> DEFINE f == [y \in R |-> Row(y).score]
    <3>1. \E x \in R : \A y \in R : f[x] >= f[y]
      <4>1. f \in [R -> Nat]
        BY <2>1
      <4> HIDE DEF f, R
      <4> QED
        BY <1>1, <1>3, <4>1, Peak
    <3> QED
      BY <3>1
  <2>3. Max(Scores) = Row(a).score
    <3>1. Scores \in SUBSET Nat /\ Row(a).score \in Scores /\ \A y \in Scores : y <= Row(a).score
      BY <2>1, <2>2
    <3> HIDE DEF Scores
    <3> QED
      BY <3>1, GreatestValue
  <2> DEFINE z == Newest(R)
  <2>4. z \in R /\ \A y \in R : At(y) <= At(z)
    <3> HIDE DEF R
    <3> QED
      BY <1>1, <1>3, NewestExists
  <2> HIDE DEF z
  <2>5. Max(Times) = At(z)
    <3>1. Times \in SUBSET Nat /\ At(z) \in Times /\ \A y \in Times : y <= At(z)
      BY <2>1, <2>4
    <3> HIDE DEF Times
    <3> QED
      BY <3>1, GreatestValue
  <2>6. row = [nickname |-> Row(z).nickname, gamesPlayed |-> Cardinality(R),
               wins |-> Cardinality(Units(R, WinOf)),
               totalScore |-> Cardinality(Units(R, ScoreOf)),
               bestScore |-> Row(a).score, lastPlayedAt |-> At(z)]
    BY <1>1, <1>3, <2>3, <2>5, ScoreSum, WinSum DEF Aggregate, z
  <2>7. row \in StatsType
    <3>1. /\ Cardinality(R) \in Nat /\ Cardinality(Units(R, WinOf)) \in Nat
          /\ Cardinality(Units(R, ScoreOf)) \in Nat
      BY <1>1, FS_CardinalityType, UnitsFinite, PlaceTypes
    <3>2. Row(z).nickname \in Name /\ At(z) \in Nat /\ Row(a).score \in Nat
      BY <2>1, <2>4 DEF PlayerType
    <3> QED
      BY <2>6, <3>1, <3>2 DEF StatsType
  <2>8. Totals(row, R)
    <3> HIDE DEF row, R
    <3> QED
      BY <2>1, <2>2, <2>4, <2>6, <2>7 DEF Totals
  <2> QED
    BY <1>3, <2>8 DEF Matches
<1> QED
  BY <1>2, <1>3

\* What a row matches is the aggregate, up to the nickname.
LEMMA MatchesAggregate ==
  ASSUME NEW G \in SUBSET Game, IsFiniteSet(G), NEW u \in User,
         NEW row, Matches(row, Rows(G, u))
  PROVE  LET total == Aggregate(G, u)
         IN  IF total = Null THEN row = Null
             ELSE /\ row = [total EXCEPT !.nickname = row.nickname]
                  /\ \E x \in Rows(G, u) : /\ At(x) = total.lastPlayedAt
                                           /\ row.nickname = Row(x).nickname
<1> DEFINE R == Rows(G, u)
           total == Aggregate(G, u)
<1>1. Matches(total, R) /\ Matches(row, R)
  BY AggregateMatches
<1>2. CASE R = {}
  BY <1>1, <1>2 DEF Matches
<1>3. CASE R # {}
  <2>1. /\ Totals(total, R) /\ Totals(row, R) /\ total # Null
        /\ total \in StatsType /\ row \in StatsType
    BY <1>1, <1>3, NullAssumption DEF Matches, Totals
  <2> HIDE DEF total, R
  <2>2. R \in SUBSET Places
    BY RowsAreFinite DEF R
  <2>3. \A x \in R : Row(x).score \in Nat /\ At(x) \in Nat
    BY <2>2, PlaceTypes DEF PlayerType
  <2>4. row.bestScore = total.bestScore
    <3>1. PICK x \in R : Row(x).score = row.bestScore
      BY <2>1 DEF Totals
    <3>2. PICK y \in R : Row(y).score = total.bestScore
      BY <2>1 DEF Totals
    <3>3. Row(x).score <= total.bestScore /\ Row(y).score <= row.bestScore
      BY <2>1 DEF Totals
    <3> QED
      BY <2>3, <3>1, <3>2, <3>3
  <2>5. row.lastPlayedAt = total.lastPlayedAt
    <3>1. PICK x \in R : At(x) = row.lastPlayedAt
      BY <2>1 DEF Totals
    <3>2. PICK y \in R : At(y) = total.lastPlayedAt
      BY <2>1 DEF Totals
    <3>3. At(x) <= total.lastPlayedAt /\ At(y) <= row.lastPlayedAt
      BY <2>1 DEF Totals
    <3> QED
      BY <2>3, <3>1, <3>2, <3>3
  <2>6. /\ row.gamesPlayed = total.gamesPlayed /\ row.wins = total.wins
        /\ row.totalScore = total.totalScore
    BY <2>1 DEF Totals
  <2>7. row = [total EXCEPT !.nickname = row.nickname]
    BY <2>1, <2>4, <2>5, <2>6 DEF StatsType
  <2>8. \E x \in R : At(x) = total.lastPlayedAt /\ row.nickname = Row(x).nickname
    BY <2>1, <2>5 DEF Totals
  <2> QED
    BY <2>1, <2>7, <2>8 DEF R, total
<1> QED
  BY <1>2, <1>3

-----------------------------------------------------------------------------
(* The running totals of user_stats.                                       *)

\* Every row of user_stats matches the member's rows of game_players.
Ledger ==
  /\ games \subseteq Game /\ IsFiniteSet(games)
  /\ \A u \in User : Matches(stats[u], Rows(games, u))

LEMMA InitLedger == TabInit => Ledger
<1> SUFFICES ASSUME TabInit PROVE Ledger
  OBVIOUS
<1>1. games = Migrated /\ games \subseteq Game /\ IsFiniteSet(games)
  BY MigratedAssumption DEF TabInit, DbInit
<1>2. \A u \in User : stats[u] = Aggregate(games, u)
  BY DEF TabInit, DbInit
<1> QED
  BY <1>1, <1>2, AggregateMatches DEF Ledger

LEMMA SaveLedger ==
  ASSUME Ledger, NEW g \in Game, SaveGameResult(g)
  PROVE  Ledger'
<1>1. games' = games \cup {g} /\ g \notin games
  BY DEF SaveGameResult
<1>2. games' \subseteq Game /\ IsFiniteSet(games')
  BY <1>1, FS_AddElement DEF Ledger
<1>3. ASSUME NEW u \in User PROVE Matches(stats'[u], Rows(games', u))
  <2>1. stats'[u] =
          FoldLeft(LAMBDA r, p : IF p.user = u THEN Upsert(r, p, FinishedAt[g]) ELSE r,
                   stats[u], Players[g])
    BY DEF SaveGameResult
  <2>2. games \in SUBSET Game /\ IsFiniteSet(games) /\ Matches(stats[u], Rows(games, u))
    BY DEF Ledger
  <2> QED
    BY <1>1, <2>1, <2>2, LoopMatches
<1> QED
  BY <1>2, <1>3 DEF Ledger

\* Nothing but saveGameResult writes the tables.
LEMMA DatabaseStays ==
  ASSUME [TabNext]_tabVars
  PROVE  (\E g \in Game : SaveGameResult(g)) \/ UNCHANGED dbVars
<1>1. CASE PagesStep
  BY <1>1 DEF PagesStep, PagesNext, SaveGame, Serve, Arrive, GamesArrive, RankingArrives,
     OpenProfile, LoadMore, OpenRanking, SessionKnown, Reload, ChooseSort, Rerun, ToLobby
<1>2. CASE VisitsStep
  BY <1>2 DEF VisitsStep, VisitsNext, JoinByCode, Assigned, ShowRoom, AssignAndEnter,
     AssignFails, LeaveRoom, LookupFound, LookupFails, SocketOpens, SocketCloses, historyVars
<1>3. CASE CanvasStep \/ UNCHANGED tabVars
  BY <1>3 DEF CanvasStep, tabVars, historyVars
<1> QED
  BY <1>1, <1>2, <1>3 DEF TabNext

LEMMA StepLedger == Ledger /\ [TabNext]_tabVars => Ledger'
<1> SUFFICES ASSUME Ledger, [TabNext]_tabVars PROVE Ledger'
  OBVIOUS
<1>1. CASE \E g \in Game : SaveGameResult(g)
  BY <1>1, SaveLedger
<1>2. CASE UNCHANGED dbVars
  BY <1>2 DEF dbVars, Ledger
<1> QED
  BY <1>1, <1>2, DatabaseStays

\* saveGameResult (user-stats.entity.ts:4): for any games, members and guests,
\* in whatever order results arrive, the running totals are those that a query
\* over all rows of game_players would give.
THEOREM TotalsAgree == TabSpec => []StatsMatchGames
<1>1. Ledger => StatsMatchGames
  <2> SUFFICES ASSUME Ledger, NEW u \in User
               PROVE  LET total == Aggregate(games, u)
                      IN  IF total = Null THEN stats[u] = Null
                          ELSE /\ stats[u] = [total EXCEPT !.nickname = stats[u].nickname]
                               /\ \E x \in Rows(games, u) :
                                    /\ At(x) = total.lastPlayedAt
                                    /\ stats[u].nickname = Row(x).nickname
    BY DEF StatsMatchGames
  <2>1. games \in SUBSET Game /\ IsFiniteSet(games) /\ Matches(stats[u], Rows(games, u))
    BY DEF Ledger
  <2> QED
    BY <2>1, MatchesAggregate
<1> QED
  BY <1>1, InitLedger, StepLedger, PTL DEF TabSpec

-----------------------------------------------------------------------------
(* Lists in order.                                                         *)

\* Of a finite set with an order, one element comes before no other...
LEMMA FirstExists ==
  ASSUME NEW S, IsFiniteSet(S), S # {}, NEW P,
         \A x \in S : <<x, x>> \notin P,
         \A x, y, z \in S : <<x, y>> \in P /\ <<y, z>> \in P => <<x, z>> \in P
  PROVE  \E x \in S : \A y \in S : <<y, x>> \notin P
<1> DEFINE Below(x) == {y \in S : <<y, x>> \in P}
           B == {Below(x) : x \in S}
<1>1. B \in SUBSET (SUBSET S) /\ B # {}
  <2>1. \A x \in S : Below(x) \in SUBSET S
    OBVIOUS
  <2> HIDE DEF Below
  <2> QED
    BY <2>1
<1>2. PICK s \in B : \A t \in SUBSET s : t \in B => t = s
  <2> HIDE DEF B
  <2> QED
    BY <1>1, LeastSet
<1>3. PICK x \in S : s = Below(x)
  BY <1>2
<1>4. ASSUME NEW y \in S, <<y, x>> \in P PROVE FALSE
  <2>1. Below(y) \in B /\ y \in Below(x) /\ y \notin Below(y)
    BY <1>4
  <2>2. Below(y) \subseteq Below(x)
    BY <1>4
  <2> QED
    BY <1>2, <1>3, <2>1, <2>2
<1> QED
  BY <1>4

\* ... so its elements can be put in order.
LEMMA SortExists ==
  ASSUME NEW S, IsFiniteSet(S), NEW P,
         \A x \in S : <<x, x>> \notin P,
         \A x, y, z \in S : <<x, y>> \in P /\ <<y, z>> \in P => <<x, z>> \in P
  PROVE  \E q \in SetToSeqs(S) : \A i, j \in 1 .. Cardinality(S) : i < j => <<q[j], q[i]>> \notin P
<1> DEFINE Sorted(q, T) == \A i, j \in 1 .. Cardinality(T) : i < j => <<q[j], q[i]>> \notin P
           B == {T \in SUBSET S : \A q \in SetToSeqs(T) : ~Sorted(q, T)}
<1>1. ASSUME NEW T \in SUBSET S, T \in B PROVE \E U \in SUBSET T : U \in B /\ U # T
  <2>1. CASE T = {}
    <3>1. Cardinality(T) = 0
      BY <2>1, FS_EmptySet
    <3> DEFINE q == [i \in 1 .. 0 |-> i]
    <3>2. 1 .. 0 = {}
      OBVIOUS
    <3>3. q \in SetToSeqs(T) /\ Sorted(q, T)
      BY <2>1, <3>1, <3>2 DEF SetToSeqs
    <3> QED
      BY <1>1, <3>3
  <2>2. CASE T # {}
    <3> DEFINE n == Cardinality(T)
    <3>1. IsFiniteSet(T) /\ n \in Nat
      BY FS_Subset, FS_CardinalityType
    <3>2. PICK x \in T : \A y \in T : <<y, x>> \notin P
      BY <2>2, <3>1, FirstExists
    <3> DEFINE U == T \ {x}
    <3>3. IsFiniteSet(U) /\ Cardinality(U) = n - 1 /\ n - 1 \in Nat
      <4>1. IsFiniteSet(U) /\ Cardinality(U) = n - 1 /\ Cardinality(U) \in Nat
        BY <3>1, FS_RemoveElement, FS_CardinalityType
      <4> QED
        BY <4>1
    <3>4. ASSUME NEW q \in SetToSeqs(U), Sorted(q, U) PROVE FALSE
      <4> DEFINE f == [i \in 1 .. n |-> IF i = 1 THEN x ELSE q[i - 1]]
      <4>1. /\ \A i \in 1 .. (n - 1) : q[i] \in U
            /\ \A i, j \in 1 .. (n - 1) : i # j => q[i] # q[j]
            /\ \A i, j \in 1 .. (n - 1) : i < j => <<q[j], q[i]>> \notin P
        <5> HIDE DEF U, n
        <5> QED
          BY <3>3, <3>4 DEF SetToSeqs
      <4>2. \A i \in 1 .. n : i # 1 => i - 1 \in 1 .. (n - 1)
        <5> HIDE DEF n
        <5> QED
          BY <3>1
      <4> HIDE DEF n
      <4>3. \A i \in 1 .. n : f[i] \in T
        BY <4>1, <4>2
      <4>4. ASSUME NEW i \in 1 .. n, NEW j \in 1 .. n, i < j
            PROVE  f[i] # f[j] /\ <<f[j], f[i]>> \notin P
        <5>1. j # 1 /\ f[j] = q[j - 1] /\ f[j] \in U /\ j - 1 \in 1 .. (n - 1)
          BY <3>1, <4>1, <4>2, <4>4
        <5>2. CASE i = 1
          BY <3>2, <5>1, <5>2
        <5>3. CASE i # 1
          <6>1. f[i] = q[i - 1] /\ i - 1 \in 1 .. (n - 1) /\ i - 1 < j - 1
            BY <3>1, <4>2, <4>4, <5>3
          <6> QED
            BY <4>1, <5>1, <6>1
        <5> QED
          BY <5>2, <5>3
      <4>5. ASSUME NEW i \in 1 .. n, NEW j \in 1 .. n, i # j PROVE f[i] # f[j]
        <5>1. i < j \/ j < i
          BY <3>1, <4>5
        <5> HIDE DEF f
        <5> QED
          BY <4>4, <5>1
      <4>6. f \in SetToSeqs(T)
        <5> HIDE DEF f
        <5>1. f \in [1 .. n -> T]
          BY <4>3 DEF f
        <5> QED
          BY <4>5, <5>1 DEF SetToSeqs, n
      <4>7. Sorted(f, T)
        <5> HIDE DEF f
        <5> QED
          BY <4>4 DEF n
      <4> HIDE DEF f, Sorted
      <4> QED
        BY <1>1, <4>6, <4>7
    <3>5. U \in B
      <4> HIDE DEF Sorted
      <4> QED
        BY <3>4
    <3> HIDE DEF B
    <3> QED
      BY <3>5
  <2> QED
    BY <2>1, <2>2
<1>2. B = {}
  <2>1. B \in SUBSET (SUBSET S)
    <3> HIDE DEF Sorted
    <3> QED
      OBVIOUS
  <2> HIDE DEF B
  <2> QED
    BY <1>1, <2>1, LeastSet
<1> QED
  BY <1>2

\* A listing of a finite set has each element once.
LEMMA Listings ==
  ASSUME NEW S, IsFiniteSet(S), NEW q \in SetToSeqs(S)
  PROVE  /\ q \in Seq(S) /\ Len(q) = Cardinality(S) /\ Len(q) \in Nat /\ DOMAIN q = 1 .. Len(q)
         /\ \A i \in 1 .. Len(q) : q[i] \in S
         /\ \A i, j \in 1 .. Len(q) : i # j => q[i] # q[j]
         /\ \A x \in S : \E i \in 1 .. Len(q) : q[i] = x
<1> DEFINE n == Cardinality(S)
<1>1. n \in Nat /\ IsFiniteSet(1 .. n) /\ Cardinality(1 .. n) = n
  BY FS_CardinalityType, FS_Interval
<1>2. q \in [1 .. n -> S] /\ \A i, j \in 1 .. n : i # j => q[i] # q[j]
  BY DEF SetToSeqs
<1>3. q \in Injection(1 .. n, S)
  BY <1>2 DEF Injection, IsInjective
<1>4. q \in Surjection(1 .. n, S)
  BY <1>1, <1>3, FS_Injection
<1>5. q \in Seq(S) /\ Len(q) = n
  <2> HIDE DEF n
  <2> QED
    BY <1>1, <1>2, IsASeq, LenProperties
<1> QED
  BY <1>1, <1>2, <1>4, <1>5 DEF Surjection

-----------------------------------------------------------------------------
(* The ranking.                                                            *)

\* Min is the least of a set.
LEMMA LeastIndex ==
  ASSUME NEW T \in SUBSET Nat, T # {}
  PROVE  Min(T) \in T /\ \A i \in T : Min(T) <= i
<1>1. \E k \in T : \A l \in T : k <= l
  BY LeastNumber
<1> QED
  BY <1>1 DEF Min

\* Finitely many members have played.
LEMMA RankedAreFinite ==
  ASSUME NEW G \in SUBSET Game, IsFiniteSet(G)
  PROVE  IsFiniteSet(RankedIn(G))
<1> DEFINE A == {x \in Places : x[1] \in G}
           W == {Row(x).user : x \in A}
           f == [x \in A |-> Row(x).user]
<1>1. IsFiniteSet(A)
  BY PlacesAreFinite
<1>2. f \in Surjection(A, W)
  <2> HIDE DEF A
  <2> QED
    BY DEF Surjection
<1>3. IsFiniteSet(W)
  <2> HIDE DEF A, W, f
  <2> QED
    BY <1>1, <1>2, FS_Surjection
<1>4. RankedIn(G) \subseteq W
  <2> SUFFICES ASSUME NEW u \in User, Rows(G, u) # {} PROVE u \in W
    BY DEF RankedIn
  <2>1. PICK x \in Rows(G, u) : TRUE
    OBVIOUS
  <2>2. x \in A /\ Row(x).user = u
    BY <2>1, EventsAssumption DEF Rows, Row, Places
  <2> QED
    BY <2>2
<1> QED
  <2> HIDE DEF W
  <2> QED
    BY <1>3, <1>4, FS_Subset

\* The table user_stats holds what the ranking is about.
LEMMA RankedValues ==
  ASSUME Ledger, NEW sort \in LeaderboardSort
  PROVE  /\ IsFiniteSet(Ranked) /\ Ranked = RankedIn(games) /\ Ranked \subseteq User
         /\ \A u \in Ranked : stats[u][sort] \in Nat /\ stats[u][sort] = Value(games, u, sort)
<1>1. games \in SUBSET Game /\ IsFiniteSet(games)
  BY DEF Ledger
<1>2. ASSUME NEW u \in User
      PROVE  /\ u \in Ranked <=> u \in RankedIn(games)
             /\ u \in Ranked => /\ stats[u][sort] \in Nat
                                /\ stats[u][sort] = Value(games, u, sort)
  <2> DEFINE total == Aggregate(games, u)
  <2>1. Matches(stats[u], Rows(games, u)) /\ Matches(total, Rows(games, u))
    BY <1>1, AggregateMatches DEF Ledger
  <2>2. IF total = Null THEN stats[u] = Null
        ELSE stats[u] = [total EXCEPT !.nickname = stats[u].nickname]
    BY <1>1, <2>1, MatchesAggregate
  <2>3. u \in Ranked <=> u \in RankedIn(games)
    BY <2>1, NullAssumption DEF Ranked, RankedIn, Matches, Totals
  <2> HIDE DEF total
  <2>4. ASSUME u \in Ranked
        PROVE  stats[u][sort] \in Nat /\ stats[u][sort] = total[sort]
    <3>1. stats[u] \in StatsType /\ total \in StatsType
      BY <2>1, <2>3, <2>4 DEF Matches, Totals, RankedIn
    <3>2. stats[u] = [total EXCEPT !.nickname = stats[u].nickname]
      BY <2>2, <3>1, NullAssumption
    <3>3. sort \in {"totalScore", "wins", "bestScore"}
      BY DEF LeaderboardSort
    <3>4. /\ stats[u].totalScore = total.totalScore /\ stats[u].wins = total.wins
          /\ stats[u].bestScore = total.bestScore
      BY <3>1, <3>2 DEF StatsType
    <3>5. /\ stats[u].totalScore \in Nat /\ stats[u].wins \in Nat /\ stats[u].bestScore \in Nat
      BY <3>1 DEF StatsType
    <3> QED
      BY <3>3, <3>4, <3>5
  <2> QED
    BY <2>3, <2>4 DEF Value, total
<1>3. Ranked \subseteq User /\ RankedIn(games) \subseteq User
  BY DEF Ranked, RankedIn
<1>4. Ranked = RankedIn(games)
  BY <1>2, <1>3
<1> QED
  BY <1>1, <1>2, <1>3, <1>4, RankedAreFinite

\* A descending list: the place of the first of the same value counts the greater ones.
LEMMA FirstPlace ==
  ASSUME NEW S, IsFiniteSet(S), NEW q \in SetToSeqs(S), NEW f \in [S -> Nat],
         \A i, j \in 1 .. Len(q) : i < j => f[q[i]] >= f[q[j]],
         NEW i \in 1 .. Len(q), NEW k \in 1 .. Len(q), f[q[k]] = f[q[i]],
         \A j \in 1 .. Len(q) : f[q[j]] = f[q[i]] => k <= j
  PROVE  Cardinality({v \in S : f[v] > f[q[i]]}) + 1 = k
<1> DEFINE n == Len(q)
           U == {v \in S : f[v] > f[q[i]]}
           m == k - 1
           h == [j \in 1 .. m |-> q[j]]
<1>1. /\ n \in Nat /\ \A j \in 1 .. n : q[j] \in S /\ f[q[j]] \in Nat
      /\ \A a, b \in 1 .. n : a # b => q[a] # q[b]
      /\ \A x \in S : \E j \in 1 .. n : q[j] = x
  BY Listings
<1> HIDE DEF n
<1>2. i \in 1 .. n /\ k \in 1 .. n /\ m \in Nat
  BY <1>1 DEF n
<1>3. ASSUME NEW j \in 1 .. m PROVE j \in 1 .. n /\ q[j] \in U
  <2>1. j \in 1 .. n /\ j < k
    BY <1>1, <1>2
  <2>2. f[q[j]] >= f[q[k]] /\ f[q[j]] # f[q[i]]
    BY <1>2, <2>1 DEF n
  <2> QED
    BY <1>1, <1>2, <2>1, <2>2
<1>4. ASSUME NEW v \in U PROVE \E j \in 1 .. m : q[j] = v
  <2>1. PICK j \in 1 .. n : q[j] = v
    BY <1>1
  <2>2. f[q[j]] > f[q[k]]
    BY <2>1
  <2>3. ~(k < j) /\ k # j
    BY <1>1, <1>2, <2>1, <2>2 DEF n
  <2>4. j \in 1 .. m
    BY <1>1, <1>2, <2>3
  <2> QED
    BY <2>1, <2>4
<1>5. h \in Bijection(1 .. m, U)
  <2>1. h \in [1 .. m -> U]
    BY <1>3
  <2>2. IsInjective(h)
    BY <1>1, <1>3 DEF IsInjective
  <2>3. \A v \in U : \E j \in 1 .. m : h[j] = v
    BY <1>4
  <2> HIDE DEF h, U, m
  <2> QED
    BY <2>1, <2>2, <2>3 DEF Bijection, Injection, Surjection
<1>6. Cardinality(U) = m
  <2> HIDE DEF h, U, m
  <2> QED
    BY <1>2, <1>5, FS_CountingElements DEF ExistsBijection
<1> QED
  BY <1>2, <1>6

\* LeaderboardService.top returns the ranking of the games that have been saved.
LEMMA TopIsRanking ==
  ASSUME Ledger, NEW sort \in LeaderboardSort
  PROVE  ShowsRanking(Top(sort), games, sort)
<1> DEFINE f == [u \in Ranked |-> stats[u][sort]]
           P == {z \in Ranked \X Ranked : Precedes(z[1], z[2], sort)}
           Sorted(q) == \A i, j \in DOMAIN q : i < j => Precedes(q[i], q[j], sort)
           users == CHOOSE q \in SetToSeqs(Ranked) : Sorted(q)
           n == Len(users)
<1>1. /\ IsFiniteSet(Ranked) /\ Ranked = RankedIn(games) /\ Ranked \subseteq Nat
      /\ f \in [Ranked -> Nat]
      /\ \A u \in Ranked : f[u] = stats[u][sort] /\ f[u] = Value(games, u, sort)
  BY RankedValues, IdsAssumption
<1> HIDE DEF f
<1>2. \A u, v \in Ranked :
        Precedes(u, v, sort) <=> f[u] > f[v] \/ (f[u] = f[v] /\ u < v)
  BY <1>1 DEF Precedes
<1>3. users \in SetToSeqs(Ranked) /\ Sorted(users)
  <2>1. \A x, y \in Ranked : <<x, y>> \in P <=> Precedes(x, y, sort)
    OBVIOUS
  <2> HIDE DEF P
  <2>2. \A x \in Ranked : <<x, x>> \notin P
    BY <1>1, <1>2, <2>1
  <2>3. \A x, y, z \in Ranked : <<x, y>> \in P /\ <<y, z>> \in P => <<x, z>> \in P
    BY <1>1, <1>2, <2>1
  <2>4. PICK q \in SetToSeqs(Ranked) :
          \A i, j \in 1 .. Cardinality(Ranked) : i < j => <<q[j], q[i]>> \notin P
    BY <1>1, <2>2, <2>3, SortExists
  <2>5. /\ DOMAIN q = 1 .. Cardinality(Ranked) /\ \A i \in DOMAIN q : q[i] \in Ranked
        /\ \A i, j \in DOMAIN q : i # j => q[i] # q[j]
        /\ DOMAIN q \subseteq Nat
    <3> DEFINE k == Len(q)
    <3>1. IsFiniteSet(Ranked)
      BY <1>1
    <3>2. /\ k = Cardinality(Ranked) /\ k \in Nat /\ DOMAIN q = 1 .. k
          /\ \A i \in 1 .. k : q[i] \in Ranked
          /\ \A i, j \in 1 .. k : i # j => q[i] # q[j]
      BY <3>1, Listings
    <3> HIDE DEF k
    <3> QED
      BY <3>2
  <2>6. ASSUME NEW i \in DOMAIN q, NEW j \in DOMAIN q, i < j PROVE Precedes(q[i], q[j], sort)
    <3>1. q[i] \in Ranked /\ q[j] \in Ranked /\ q[i] # q[j] /\ <<q[j], q[i]>> \notin P
      <4>1. i \in 1 .. Cardinality(Ranked) /\ j \in 1 .. Cardinality(Ranked) /\ i # j
        BY <2>5, <2>6
      <4> HIDE DEF Sorted
      <4> QED
        BY <2>4, <2>5, <2>6, <4>1
    <3>3. ~Precedes(q[j], q[i], sort)
      BY <2>1, <3>1
    <3>2. q[i] \in Nat /\ q[j] \in Nat /\ f[q[i]] \in Nat /\ f[q[j]] \in Nat
      BY <1>1, <3>1
    <3> QED
      BY <1>2, <3>1, <3>2, <3>3
  <2>7. Sorted(q)
    BY <2>6
  <2> HIDE DEF Sorted
  <2> QED
    BY <2>7
<1>4. /\ n \in Nat /\ n = Cardinality(Ranked) /\ DOMAIN users = 1 .. n
      /\ \A i \in 1 .. n : users[i] \in Ranked
      /\ \A i, j \in 1 .. n : i # j => users[i] # users[j]
  <2> HIDE DEF users
  <2> QED
    BY <1>1, <1>3, Listings
<1>5. \A i, j \in 1 .. n : i < j => f[users[i]] >= f[users[j]]
  <2> SUFFICES ASSUME NEW i \in 1 .. n, NEW j \in 1 .. n, i < j
               PROVE  f[users[i]] >= f[users[j]]
    OBVIOUS
  <2>1. Precedes(users[i], users[j], sort) /\ users[i] \in Ranked /\ users[j] \in Ranked
    BY <1>3, <1>4
  <2>2. f[users[i]] \in Nat /\ f[users[j]] \in Nat
    BY <1>1, <2>1
  <2> HIDE DEF users
  <2> QED
    BY <1>2, <2>1, <2>2
<1> DEFINE m == IF n > Limit THEN Limit ELSE n
           Place(i) == SelectInSeq(users, LAMBDA v : stats[v][sort] = stats[users[i]][sort])
<1>6. Top(sort) = [i \in 1 .. m |-> Entry(Place(i), users[i], sort)]
  BY DEF Top
<1>7. m \in Nat /\ \A i \in 1 .. m : i \in 1 .. n
  BY <1>4, LimitsAssumption
<1>8. ASSUME NEW i \in 1 .. n
      PROVE  Place(i) <= i /\ Place(i) = Cardinality({v \in Ranked : f[v] > f[users[i]]}) + 1
  <2> DEFINE I == {k \in 1 .. n : stats[users[k]][sort] = stats[users[i]][sort]}
             k == Min(I)
  <2>1. i \in I /\ I \subseteq Nat
    OBVIOUS
  <2>2. k \in I /\ \A j \in I : k <= j
    <3> HIDE DEF I
    <3> QED
      BY <2>1, LeastIndex
  <2>3. Place(i) = k
    BY <2>1 DEF SelectInSeq
  <2>4. k \in 1 .. n /\ f[users[k]] = f[users[i]]
    BY <1>1, <1>4, <2>2
  <2>5. ASSUME NEW j \in 1 .. n, f[users[j]] = f[users[i]] PROVE k <= j
    <3>1. j \in I
      BY <1>1, <1>4, <2>5
    <3> QED
      BY <2>2, <3>1
  <2> HIDE DEF users, I, k, Place, n
  <2>6. Cardinality({v \in Ranked : f[v] > f[users[i]]}) + 1 = k
    <3>1. users \in SetToSeqs(Ranked)
      BY <1>3
    <3>2. /\ i \in 1 .. Len(users) /\ k \in 1 .. Len(users) /\ f[users[k]] = f[users[i]]
          /\ \A a, b \in 1 .. Len(users) : a < b => f[users[a]] >= f[users[b]]
          /\ \A j \in 1 .. Len(users) : f[users[j]] = f[users[i]] => k <= j
      BY <1>5, <2>4, <2>5 DEF n
    <3>3. IsFiniteSet(Ranked) /\ f \in [Ranked -> Nat]
      BY <1>1
    <3> QED
      BY <3>1, <3>2, <3>3, FirstPlace, SMTT(60)
  <2> QED
    BY <2>1, <2>2, <2>3, <2>6
<1> HIDE DEF users, Place, m
<1> DEFINE top == Top(sort)
<1>9. Len(top) = m /\ DOMAIN top = 1 .. m
  BY <1>6, <1>7
<1>10. ASSUME NEW i \in 1 .. m
       PROVE  /\ top[i].user = users[i] /\ top[i].value = f[users[i]]
              /\ top[i].rank <= i
              /\ top[i] = EntryIn(games, users[i], sort)
  <2>1. i \in 1 .. n /\ users[i] \in Ranked
    BY <1>4, <1>7
  <2>2. top[i] = [rank |-> Place(i), user |-> users[i], value |-> f[users[i]]]
    BY <1>1, <1>6, <2>1 DEF Entry
  <2>3. {v \in Ranked : f[v] > f[users[i]]}
          = {v \in RankedIn(games) : Value(games, v, sort) > Value(games, users[i], sort)}
    BY <1>1, <2>1
  <2>4. Place(i) = Cardinality({v \in RankedIn(games) :
                                  Value(games, v, sort) > Value(games, users[i], sort)}) + 1
    BY <1>8, <2>1, <2>3
  <2>5. f[users[i]] = Value(games, users[i], sort)
    BY <1>1, <2>1
  <2>6. top[i] = EntryIn(games, users[i], sort)
    BY <2>2, <2>4, <2>5 DEF EntryIn
  <2>7. top[i].rank = Place(i) /\ top[i].user = users[i] /\ top[i].value = f[users[i]]
    BY <2>2
  <2>8. Place(i) <= i
    BY <1>8, <2>1
  <2> HIDE DEF top
  <2> QED
    BY <2>6, <2>7, <2>8
<1>11. ASSUME NEW i \in 1 .. m, i > 1 PROVE top[i - 1].value >= top[i].value
  <2>1. i - 1 \in 1 .. m /\ i - 1 < i
    BY <1>7, <1>11
  <2> QED
    BY <1>5, <1>7, <1>10, <2>1
<1>12. ASSUME NEW i \in 1 .. m, NEW j \in 1 .. m, i # j PROVE top[i].user # top[j].user
  BY <1>4, <1>7, <1>10, <1>12
<1>13. ASSUME NEW i \in 1 .. m PROVE top[i].user \in RankedIn(games)
  BY <1>1, <1>4, <1>7, <1>10
<1> HIDE DEF top, f
<1>14. Len(top) = IF Cardinality(RankedIn(games)) > Limit THEN Limit
                  ELSE Cardinality(RankedIn(games))
  BY <1>1, <1>4, <1>9 DEF m
<1>15. ShowsRanking(top, games, sort)
  BY <1>9, <1>10, <1>11, <1>12, <1>13, <1>14 DEF ShowsRanking
<1> QED
  BY <1>15 DEF top

-----------------------------------------------------------------------------
(* The pages of the history.                                               *)

\* The state and the requests of a page are there while the page is.
Mounted ==
  /\ page \in {"profile", "ranking", "lobby", "room"}
  /\ page \in {"lobby", "room"} => requests = {}
  /\ page # "profile" => profile = NoProfile
  /\ page # "ranking" => ranking = NoRanking
  /\ page = "profile" => \A r \in requests : r.what = "games"
  /\ page = "ranking" => \A r \in requests : r.what \in {"leaderboard", "rank"}

LEMMA InitMounted == TabInit => Mounted
BY DEF TabInit, PagesInit, Mounted

LEMMA ServeMounted ==
  ASSUME Mounted, NEW r \in requests, Serve(r)
  PROVE  Mounted'
<1>1. PICK data \in Results(r) :
        requests' = (requests \ {r}) \cup {[r EXCEPT !.answered = TRUE, !.data = data]}
  BY DEF Serve
<1> DEFINE new == [r EXCEPT !.answered = TRUE, !.data = data]
<1>2. page \in {"profile", "ranking"} /\ page' = page /\ ranking' = ranking
  BY DEF Serve, Mounted
<1>3. CASE page = "profile"
  <2>1. r.what = "games" /\ new.what = r.what
    BY <1>3 DEF Mounted
  <2> QED
    BY <1>1, <1>2, <1>3, <2>1 DEF Mounted
<1>4. CASE page = "ranking"
  <2>1. r.what \in {"leaderboard", "rank"} /\ new.what = r.what
    BY <1>4 DEF Mounted
  <2>2. profile' = profile
    BY <2>1 DEF Serve
  <2> QED
    BY <1>1, <1>2, <1>4, <2>1, <2>2 DEF Mounted
<1> QED
  BY <1>2, <1>3, <1>4

LEMMA ArriveMounted ==
  ASSUME Mounted, NEW r \in requests, NEW outcome, Arrive(r, outcome),
         \/ page = "profile" /\ UNCHANGED ranking
         \/ page = "ranking" /\ UNCHANGED profile
  PROVE  Mounted'
BY DEF Mounted, Arrive

LEMMA StepMounted == Mounted /\ [TabNext]_tabVars => Mounted'
<1> SUFFICES ASSUME Mounted, [TabNext]_tabVars PROVE Mounted'
  OBVIOUS
<1>1. ASSUME UNCHANGED pageVars PROVE Mounted'
  BY <1>1 DEF pageVars, Mounted
<1>2. CASE PagesNext
  <2>1. CASE \E g \in Game : SaveGame(g)
    BY <1>1, <2>1 DEF SaveGame
  <2>2. ASSUME NEW r \in requests, Serve(r) PROVE Mounted'
    BY <2>2, ServeMounted
  <2>3. ASSUME NEW r \in requests, NEW outcome, GamesArrive(r, outcome) PROVE Mounted'
    <3>1. page = "profile"
      BY <2>3 DEF GamesArrive, Mounted
    <3> QED
      BY <2>3, <3>1, ArriveMounted DEF GamesArrive
  <2>4. ASSUME NEW r \in requests, NEW outcome, RankingArrives(r, outcome) PROVE Mounted'
    <3>1. page = "ranking"
      BY <2>4 DEF RankingArrives, Mounted
    <3> QED
      BY <2>4, <3>1, ArriveMounted DEF RankingArrives
  <2>5. CASE OpenProfile
    BY <2>5 DEF OpenProfile, FetchGames, Mounted
  <2>6. CASE LoadMore
    BY <2>6 DEF LoadMore, FetchGames, Mounted
  <2>7. CASE OpenRanking
    BY <2>7 DEF OpenRanking, RunEffects, FetchLeaderboard, FetchRank, Mounted
  <2>8. CASE SessionKnown
    BY <2>8 DEF SessionKnown, FetchRank, Mounted
  <2>9. ASSUME NEW s, Rerun(s) PROVE Mounted'
    BY <2>9 DEF Rerun, RunEffects, FetchLeaderboard, FetchRank, Mounted
  <2>10. CASE ToLobby
    BY <2>10 DEF ToLobby, Mounted
  <2> QED
    BY <1>2, <2>1, <2>2, <2>3, <2>4, <2>5, <2>6, <2>7, <2>8, <2>9, <2>10
    DEF PagesNext, Reload, ChooseSort
<1>3. CASE VisitsNext
  <2>1. ASSUME NEW c, ShowRoom(c) PROVE Mounted'
    BY <2>1 DEF ShowRoom, Mounted
  <2>2. CASE LeaveRoom
    BY <2>2 DEF LeaveRoom, Mounted
  <2> QED
    BY <1>1, <1>3, <2>1, <2>2 DEF VisitsNext, JoinByCode, Assigned, AssignAndEnter, AssignFails,
       LookupFound, LookupFails, SocketOpens, SocketCloses, historyVars
<1> QED
  BY <1>1, <1>2, <1>3 DEF TabNext, PagesStep, VisitsStep, CanvasStep, tabVars, historyVars

-----------------------------------------------------------------------------
(* The ranking page.                                                       *)

\* Entries of the ranking, and an entry of one's own, no older than the latest
\* run of the effects.
FreshList(entries, sort, since, saved) ==
  \E G \in SUBSET saved : since \subseteq G /\ ShowsRanking(entries, G, sort)
FreshPlace(entry, sort, since, saved) ==
  entry # Null =>
    \E G \in SUBSET saved :
      since \subseteq G /\ Me \in RankedIn(G) /\ entry = EntryIn(G, Me, sort)

RankingFields == {"sort", "run", "entries", "loading", "error", "me", "session", "since"}
RequestFields == {"what", "sort", "run", "answered", "data"}

\* What a request brings that is not cancelled.
FreshAnswer(r, shown, saved) ==
  r.run = shown.run =>
    /\ r.sort = shown.sort
    /\ r.answered /\ r.what = "leaderboard" => FreshList(r.data, r.sort, shown.since, saved)
    /\ r.answered /\ r.what = "rank" => FreshPlace(r.data, r.sort, shown.since, saved)

\* What the page shows.
RankingShown(shown, saved) ==
  /\ shown = [x \in RankingFields |-> shown[x]]
  /\ shown.sort \in LeaderboardSort /\ shown.run \in Nat
  /\ shown.since \subseteq saved
  /\ ~shown.loading /\ ~shown.error => FreshList(shown.entries, shown.sort, shown.since, saved)
  /\ FreshPlace(shown.me, shown.sort, shown.since, saved)

\* A request of the page.
RankingAsked(r, shown, saved) ==
  /\ r = [x \in RequestFields |-> r[x]]
  /\ r.run \in 0 .. shown.run
  /\ FreshAnswer(r, shown, saved)

\* What the ranking page shows, and what is on its way to it, is no older than
\* the latest run of its effects, unless it will be thrown away.
Standings ==
  page = "ranking" =>
    /\ RankingShown(ranking, games)
    /\ \A r \in requests : RankingAsked(r, ranking, games)

\* Games that are saved make nothing stale.
LEMMA StillFresh ==
  ASSUME NEW saved, NEW later, saved \subseteq later, NEW shown
  PROVE  /\ RankingShown(shown, saved) => RankingShown(shown, later)
         /\ \A r : RankingAsked(r, shown, saved) => RankingAsked(r, shown, later)
<1>1. \A entries, sort : FreshList(entries, sort, shown.since, saved)
                           => FreshList(entries, sort, shown.since, later)
  BY DEF FreshList
<1>2. \A entry, sort : FreshPlace(entry, sort, shown.since, saved)
                         => FreshPlace(entry, sort, shown.since, later)
  BY DEF FreshPlace
<1> QED
  BY <1>1, <1>2 DEF RankingShown, RankingAsked, FreshAnswer

\* LeaderboardService.rankOf is the place in the ranking of the games that have been saved.
LEMMA RankOfIsPlace ==
  ASSUME Ledger, NEW sort \in LeaderboardSort
  PROVE  RankOf(Me, sort) # Null
           => Me \in RankedIn(games) /\ RankOf(Me, sort) = EntryIn(games, Me, sort)
<1> SUFFICES ASSUME Me \in Ranked
             PROVE  Me \in RankedIn(games) /\ RankOf(Me, sort) = EntryIn(games, Me, sort)
  BY DEF RankOf
<1>1. /\ Ranked = RankedIn(games)
      /\ \A u \in Ranked : stats[u][sort] = Value(games, u, sort)
  BY RankedValues
<1>2. {v \in Ranked : stats[v][sort] > stats[Me][sort]}
        = {v \in RankedIn(games) : Value(games, v, sort) > Value(games, Me, sort)}
  BY <1>1
<1>3. RankOf(Me, sort) =
        [rank |-> Cardinality({v \in Ranked : stats[v][sort] > stats[Me][sort]}) + 1,
         user |-> Me, value |-> stats[Me][sort]]
  BY DEF RankOf, Entry
<1> QED
  BY <1>1, <1>2, <1>3 DEF EntryIn

\* An answer is the ranking of the moment.
LEMMA ServeStandings ==
  ASSUME Ledger, Mounted, Standings, page = "ranking", NEW r \in requests, Serve(r)
  PROVE  Standings'
<1>1. PICK data \in Results(r) :
        requests' = (requests \ {r}) \cup {[r EXCEPT !.answered = TRUE, !.data = data]}
  BY DEF Serve
<1> DEFINE new == [r EXCEPT !.answered = TRUE, !.data = data]
<1>2. page' = page /\ ranking' = ranking /\ games' = games
  BY DEF Serve, dbVars
<1>3. r.what \in {"leaderboard", "rank"} /\ RankingAsked(r, ranking, games)
      /\ RankingShown(ranking, games)
  BY DEF Mounted, Standings
<1>4. /\ new = [x \in RequestFields |-> new[x]]
      /\ new.what = r.what /\ new.run = r.run /\ new.sort = r.sort /\ new.data = data
  BY <1>3 DEF RankingAsked, RequestFields
<1>5. ASSUME r.run = ranking.run, r.what = "leaderboard"
      PROVE  FreshList(data, r.sort, ranking.since, games)
  <2>1. r.sort \in LeaderboardSort /\ ranking.since \subseteq games
    BY <1>3, <1>5 DEF RankingAsked, FreshAnswer, RankingShown
  <2>2. data = Top(r.sort)
    BY <1>1, <1>5 DEF Results
  <2> QED
    BY <2>1, <2>2, TopIsRanking DEF FreshList
<1>6. ASSUME r.run = ranking.run, r.what = "rank"
      PROVE  FreshPlace(data, r.sort, ranking.since, games)
  <2>1. r.sort \in LeaderboardSort /\ ranking.since \subseteq games
    BY <1>3, <1>6 DEF RankingAsked, FreshAnswer, RankingShown
  <2>2. data = RankOf(Me, r.sort)
    BY <1>1, <1>6 DEF Results
  <2> QED
    BY <2>1, <2>2, RankOfIsPlace DEF FreshPlace
<1> HIDE DEF new
<1>7. RankingAsked(new, ranking, games)
  BY <1>3, <1>4, <1>5, <1>6 DEF RankingAsked, FreshAnswer
<1> QED
  BY <1>1, <1>2, <1>7 DEF Standings, new

\* What arrives is thrown away, or it is of the latest run.
LEMMA ArriveStandings ==
  ASSUME Standings, page = "ranking", NEW r \in requests, NEW outcome, RankingArrives(r, outcome)
  PROVE  Standings'
<1>1. /\ page' = page /\ games' = games /\ requests' \subseteq requests
      /\ outcome = "ok" => r.answered
      /\ outcome \in {"ok", "failed"}
  BY DEF RankingArrives, Arrive, Outcomes, dbVars
<1>2. RankingShown(ranking, games) /\ \A s \in requests : RankingAsked(s, ranking, games)
  BY DEF Standings
<1>3. CASE Cancelled(r) /\ UNCHANGED ranking
  BY <1>1, <1>2, <1>3 DEF Standings
<1>4. ASSUME ~Cancelled(r),
             /\ ranking'.run = ranking.run /\ ranking'.sort = ranking.sort
             /\ ranking'.since = ranking.since,
             RankingShown(ranking', games)
      PROVE  Standings'
  <2>1. \A s \in requests : RankingAsked(s, ranking', games)
    BY <1>2, <1>4 DEF RankingAsked, FreshAnswer
  <2> QED
    BY <1>1, <1>4, <2>1 DEF Standings
<1>5. CASE /\ ~Cancelled(r) /\ r.what = "leaderboard"
           /\ ranking' = [ranking EXCEPT !.loading = FALSE, !.error = (outcome = "failed"),
                            !.entries = IF outcome = "failed" THEN <<>> ELSE r.data]
  <2>1. /\ ranking' = [x \in RankingFields |-> ranking'[x]]
        /\ ranking'.run = ranking.run /\ ranking'.sort = ranking.sort
        /\ ranking'.since = ranking.since /\ ranking'.me = ranking.me
        /\ ranking'.error = (outcome = "failed")
        /\ outcome # "failed" => ranking'.entries = r.data
    BY <1>2, <1>5 DEF RankingShown, RankingFields
  <2>2. outcome # "failed" => FreshList(r.data, ranking.sort, ranking.since, games)
    BY <1>1, <1>2, <1>5 DEF Cancelled, RankingAsked, FreshAnswer
  <2>3. RankingShown(ranking', games)
    BY <1>2, <2>1, <2>2 DEF RankingShown
  <2> QED
    BY <1>4, <1>5, <2>1, <2>3
<1>6. CASE /\ ~Cancelled(r) /\ r.what = "rank"
           /\ ranking' = [ranking EXCEPT !.me = IF outcome = "failed" THEN @ ELSE r.data]
  <2>1. /\ ranking' = [x \in RankingFields |-> ranking'[x]]
        /\ ranking'.run = ranking.run /\ ranking'.sort = ranking.sort
        /\ ranking'.since = ranking.since /\ ranking'.error = ranking.error
        /\ ranking'.loading = ranking.loading /\ ranking'.entries = ranking.entries
        /\ ranking'.me = IF outcome = "failed" THEN ranking.me ELSE r.data
    BY <1>2, <1>6 DEF RankingShown, RankingFields
  <2>2. outcome # "failed" => FreshPlace(r.data, ranking.sort, ranking.since, games)
    BY <1>1, <1>2, <1>6 DEF Cancelled, RankingAsked, FreshAnswer
  <2>3. RankingShown(ranking', games)
    BY <1>2, <2>1, <2>2 DEF RankingShown
  <2> QED
    BY <1>4, <1>6, <2>1, <2>3
<1> QED
  BY <1>3, <1>5, <1>6 DEF RankingArrives

\* A run of the effects: what is asked is new, and what was asked before is cancelled.
LEMMA EffectsStandings ==
  ASSUME ranking = [x \in RankingFields |-> ranking[x]],
         NEW sort \in LeaderboardSort, NEW run \in Nat, NEW session,
         games' = games, RunEffects(sort, run, session),
         \A r \in requests : r = [x \in RequestFields |-> r[x]] /\ r.run \in 0 .. (run - 1)
  PROVE  Standings'
<1>1. /\ ranking' = [x \in RankingFields |-> ranking'[x]]
      /\ ranking'.run = run /\ ranking'.sort = sort /\ ranking'.since = games
      /\ ranking'.loading = TRUE /\ ranking'.me = Null
  BY DEF RunEffects, RankingFields
<1>2. RankingShown(ranking', games)
  BY <1>1 DEF RankingShown, FreshPlace
<1>3. ASSUME NEW r \in requests PROVE RankingAsked(r, ranking', games)
  <2>1. r = [x \in RequestFields |-> r[x]] /\ r.run \in 0 .. run /\ r.run # run
    OBVIOUS
  <2> QED
    BY <1>1, <2>1 DEF RankingAsked, FreshAnswer
<1>4. RankingAsked(FetchLeaderboard(sort, run), ranking', games)
  BY <1>1 DEF RankingAsked, FreshAnswer, FetchLeaderboard, RequestFields
<1>5. RankingAsked(FetchRank(sort, run), ranking', games)
  BY <1>1 DEF RankingAsked, FreshAnswer, FetchRank, RequestFields
<1>6. requests' \subseteq requests \cup {FetchLeaderboard(sort, run), FetchRank(sort, run)}
  BY DEF RunEffects
<1> QED
  BY <1>2, <1>3, <1>4, <1>5, <1>6 DEF Standings

LEMMA StepStandings ==
  ASSUME Ledger, Mounted, Standings, [TabNext]_tabVars
  PROVE  Standings'
<1>1. ASSUME UNCHANGED pageVars, games \subseteq games' PROVE Standings'
  BY <1>1, StillFresh DEF pageVars, Standings
<1>2. CASE PagesNext
  <2>1. CASE \E g \in Game : SaveGame(g)
    BY <1>1, <2>1 DEF SaveGame, SaveGameResult
  <2>2. ASSUME NEW r \in requests, Serve(r) PROVE Standings'
    <3>1. CASE page = "ranking"
      BY <2>2, <3>1, ServeStandings
    <3>2. CASE page # "ranking"
      BY <2>2, <3>2 DEF Serve, Standings
    <3> QED
      BY <3>1, <3>2
  <2>3. ASSUME NEW r \in requests, NEW outcome, GamesArrive(r, outcome) PROVE Standings'
    BY <2>3 DEF GamesArrive, Arrive, Mounted, Standings
  <2>4. ASSUME NEW r \in requests, NEW outcome, RankingArrives(r, outcome) PROVE Standings'
    <3>1. page = "ranking"
      BY <2>4 DEF RankingArrives, Mounted
    <3> QED
      BY <2>4, <3>1, ArriveStandings
  <2>5. CASE OpenProfile \/ LoadMore \/ ToLobby
    BY <2>5 DEF OpenProfile, LoadMore, ToLobby, Standings
  <2>6. CASE OpenRanking
    <3>1. requests = {} /\ ranking = NoRanking /\ games' = games
      BY <2>6 DEF OpenRanking, Mounted, dbVars
    <3>2. ranking = [x \in RankingFields |-> ranking[x]] /\ ranking.sort \in LeaderboardSort
      BY <3>1 DEF NoRanking, RankingFields, LeaderboardSort
    <3>3. RunEffects(ranking.sort, 0, Null)
      BY <2>6 DEF OpenRanking
    <3> QED
      BY <3>1, <3>2, <3>3, EffectsStandings
  <2>7. CASE SessionKnown
    <3>1. RankingShown(ranking, games) /\ \A r \in requests : RankingAsked(r, ranking, games)
      BY <2>7 DEF SessionKnown, Standings
    <3>2. games' = games /\ requests' = requests \cup {FetchRank(ranking.sort, ranking.run)}
      BY <2>7 DEF SessionKnown, dbVars
    <3>3. /\ ranking' = [x \in RankingFields |-> ranking'[x]]
          /\ ranking'.run = ranking.run /\ ranking'.sort = ranking.sort
          /\ ranking'.since = ranking.since /\ ranking'.error = ranking.error
          /\ ranking'.loading = ranking.loading /\ ranking'.entries = ranking.entries
          /\ ranking'.me = Null
      BY <2>7, <3>1 DEF SessionKnown, RankingShown, RankingFields
    <3>4. RankingShown(ranking', games)
      BY <3>1, <3>3 DEF RankingShown, FreshPlace
    <3>5. \A r \in requests : RankingAsked(r, ranking', games)
      BY <3>1, <3>3 DEF RankingAsked, FreshAnswer
    <3>6. RankingAsked(FetchRank(ranking.sort, ranking.run), ranking', games)
      BY <3>1, <3>3 DEF RankingAsked, FreshAnswer, FetchRank, RequestFields, RankingShown
    <3> QED
      BY <3>2, <3>4, <3>5, <3>6 DEF Standings
  <2>8. ASSUME NEW s \in LeaderboardSort, Rerun(s) PROVE Standings'
    <3> DEFINE run == ranking.run + 1
    <3>1. RankingShown(ranking, games) /\ \A r \in requests : RankingAsked(r, ranking, games)
      BY <2>8 DEF Rerun, Standings
    <3>2. games' = games /\ RunEffects(s, run, ranking.session)
      BY <2>8 DEF Rerun, dbVars
    <3>3. ranking = [x \in RankingFields |-> ranking[x]] /\ ranking.run \in Nat
      BY <3>1 DEF RankingShown
    <3>4. \A r \in requests : r = [x \in RequestFields |-> r[x]] /\ r.run \in 0 .. (run - 1)
      <4>1. run - 1 = ranking.run
        BY <3>3
      <4> QED
        BY <3>1, <4>1 DEF RankingAsked
    <3>5. run \in Nat
      BY <3>3
    <3> HIDE DEF run
    <3> QED
      BY <3>2, <3>3, <3>4, <3>5, EffectsStandings
  <2>9. CASE Reload
    <3>1. ranking.sort \in LeaderboardSort
      BY <2>9 DEF Reload, Rerun, Standings, RankingShown
    <3> QED
      BY <2>8, <2>9, <3>1 DEF Reload
  <2> QED
    BY <1>2, <2>1, <2>2, <2>3, <2>4, <2>5, <2>6, <2>7, <2>8, <2>9 DEF PagesNext, ChooseSort
<1>3. CASE UNCHANGED historyVars
  BY <1>1, <1>3 DEF historyVars, dbVars
<1>4. CASE VisitsNext
  <2>1. ASSUME NEW c, ShowRoom(c) PROVE Standings'
    BY <2>1 DEF ShowRoom, Standings
  <2>2. CASE LeaveRoom
    BY <2>2 DEF LeaveRoom, Standings
  <2>3. CASE AssignAndEnter \/ AssignFails
    BY <1>3, <2>3 DEF AssignAndEnter, AssignFails
  <2>4. ASSUME NEW i, LookupFound(i) \/ LookupFails(i) \/ SocketOpens(i) \/ SocketCloses(i)
        PROVE  Standings'
    BY <1>3, <2>4 DEF LookupFound, LookupFails, SocketOpens, SocketCloses
  <2> QED
    BY <1>4, <2>1, <2>2, <2>3, <2>4 DEF VisitsNext, JoinByCode, Assigned
<1> QED
  BY <1>2, <1>3, <1>4 DEF TabNext, PagesStep, VisitsStep, CanvasStep, tabVars

LEMMA StandingsAreCurrent == Standings => RankingIsCurrent
<1> SUFFICES ASSUME Standings, page = "ranking" PROVE RankingIsCurrent
  BY DEF RankingIsCurrent
<1>1. RankingShown(ranking, games)
  BY DEF Standings
<1> DEFINE Since == {ranking.since \cup G : G \in SUBSET (games \ ranking.since)}
<1>2. ASSUME NEW G \in SUBSET games, ranking.since \subseteq G PROVE G \in Since
  <2>1. G = ranking.since \cup (G \ ranking.since)
    BY <1>2
  <2> QED
    BY <2>1
<1>3. ~ranking.loading /\ ~ranking.error =>
        \E G \in Since : ShowsRanking(ranking.entries, G, ranking.sort)
  <2> HIDE DEF Since
  <2> QED
    BY <1>1, <1>2 DEF RankingShown, FreshList
<1>4. ranking.me # Null =>
        \E G \in Since : Me \in RankedIn(G) /\ ranking.me = EntryIn(G, Me, ranking.sort)
  <2> HIDE DEF Since
  <2> QED
    BY <1>1, <1>2 DEF RankingShown, FreshPlace
<1> QED
  BY <1>3, <1>4 DEF RankingIsCurrent

\* LeaderboardPage: whichever requests are answered first, late or not at all,
\* and however many games are saved in between, what is shown as loaded is the
\* ranking by the sort that is selected, no older than the click.
THEOREM RankingStaysCurrent == TabSpec => []RankingIsCurrent
<1>1. TabInit => Ledger /\ Mounted /\ Standings
  <2>1. TabInit => Standings
    BY DEF TabInit, PagesInit, Standings
  <2> QED
    BY <2>1, InitLedger, InitMounted
<1>2. Ledger /\ Mounted /\ Standings /\ [TabNext]_tabVars => (Ledger /\ Mounted /\ Standings)'
  BY StepLedger, StepMounted, StepStandings
<1> QED
  BY <1>1, <1>2, StandingsAreCurrent, PTL DEF TabSpec

-----------------------------------------------------------------------------
(* The list of games.                                                      *)

\* A list in the order of listGames, without a line twice.
Ordered(q) ==
  /\ q \in Seq(Places)
  /\ \A i, j \in DOMAIN q : i < j => ~Before(q[j], q[i])
  /\ \A i, j \in DOMAIN q : i # j => q[i] # q[j]

\* The list has the game of x.
Shows(q, x) == \E i \in DOMAIN q : q[i][1] = x[1]

\* A page of the list from the line after cursor, read when the games G were
\* there or later.
PageAfter(data, cursor, G) ==
  /\ data = [rows |-> data.rows, nextCursor |-> data.nextCursor]
  /\ Ordered(data.rows)
  /\ data.nextCursor # Null => data.rows # <<>> /\ data.nextCursor = Last(data.rows)
  /\ cursor # Null => \A i \in DOMAIN data.rows : Before(cursor, data.rows[i])
  /\ \A x \in Rows(G, Viewed) :
       cursor = Null \/ Before(cursor, x) =>
         Shows(data.rows, x) \/ (data.nextCursor # Null /\ Before(data.nextCursor, x))

ProfileFields == {"games", "nextCursor", "loading", "error", "first"}
GamesFields == {"what", "cursor", "answered", "data"}

\* What is not listed comes after the last line, and more is on its way, or can
\* be asked for, or the page says that something failed.
GamesShown(shown, saved) ==
  /\ shown = [x \in ProfileFields |-> shown[x]]
  /\ shown.first \subseteq saved
  /\ Ordered(shown.games)
  /\ shown.nextCursor # Null => shown.games # <<>> /\ shown.nextCursor = Last(shown.games)
  /\ \A x \in Rows(shown.first, Viewed) :
       \/ Shows(shown.games, x)
       \/ /\ shown.games # <<>> => Before(Last(shown.games), x)
          /\ shown.loading \/ shown.error \/ shown.nextCursor # Null

\* The request of the page is for what comes after its last line.
GamesAsked(r, shown) ==
  /\ r = [x \in GamesFields |-> r[x]]
  /\ shown.loading
  /\ IF r.cursor = Null THEN shown.games = <<>>
     ELSE shown.games # <<>> /\ r.cursor = Last(shown.games)
  /\ r.answered => PageAfter(r.data, r.cursor, shown.first)

\* What the profile page shows and what is on its way to it.
Reading ==
  page = "profile" =>
    /\ GamesShown(profile, games)
    /\ \A r \in requests : requests = {r} /\ GamesAsked(r, profile)

\* Places are in the order of their games; two in one game are in none.
LEMMA PlaceOrder ==
  /\ \A x \in Places : ~Before(x, x)
  /\ \A x, y, z \in Places : Before(x, y) /\ Before(y, z) => Before(x, z)
  /\ \A x, y, z \in Places : Before(x, y) /\ ~Before(z, y) => Before(x, z)
  /\ \A x, y \in Places : ~Before(x, y) => Before(y, x) \/ x[1] = y[1]
<1>1. \A x \in Places : At(x) \in Nat /\ x[1] \in Nat
  BY PlaceTypes, IdsAssumption DEF Places
<1>2. \A x, y \in Places : x[1] = y[1] => At(x) = At(y)
  BY DEF At
<1> QED
  BY <1>1, <1>2 DEF Before

\* A line is no missing cursor.
LEMMA PlaceIsNotNull == \A x \in Places : x # Null
BY NullAssumption DEF Places

\* listGames returns a page of the list.
LEMMA ListGamesIsPage ==
  ASSUME Ledger, NEW cursor \in Places \cup {Null}, NEW data \in ListGames(Viewed, cursor)
  PROVE  PageAfter(data, cursor, games)
<1> DEFINE R == Rows(games, Viewed)
           S == {x \in R : cursor = Null \/ Before(cursor, x)}
<1>1. R \in SUBSET Places /\ IsFiniteSet(R)
  BY RowsAreFinite, ViewedAssumption DEF Ledger
<1>2. S \in SUBSET Places /\ IsFiniteSet(S) /\ \A x \in S : cursor = Null \/ Before(cursor, x)
  BY <1>1, FS_Subset
<1>3. PICK q \in InOrder(S) :
        data = [rows |-> SubSeq(q, 1, IF Len(q) > PageSize THEN PageSize ELSE Len(q)),
                nextCursor |-> IF Len(q) > PageSize THEN CursorOf(q) ELSE Null]
  BY DEF ListGames
<1> DEFINE n == Len(q)
           m == IF n > PageSize THEN PageSize ELSE n
           rows == SubSeq(q, 1, m)
<1>4. \A x \in R : cursor = Null \/ Before(cursor, x) => x \in S
  OBVIOUS
<1> HIDE DEF S
<1>5. q \in SetToSeqs(S) /\ \A i, j \in DOMAIN q : i < j => ~Before(q[j], q[i])
  BY DEF InOrder
<1>6. /\ q \in Seq(S) /\ n \in Nat /\ DOMAIN q = 1 .. n
      /\ \A i \in 1 .. n : q[i] \in S
      /\ \A i, j \in 1 .. n : i # j => q[i] # q[j]
      /\ \A x \in S : \E i \in 1 .. n : q[i] = x
  BY <1>2, <1>5, Listings
<1>7. m \in Nat /\ m <= n /\ \A i \in 1 .. m : i \in 1 .. n
  BY <1>6, LimitsAssumption
<1>8. /\ rows \in Seq(S) /\ Len(rows) = m /\ DOMAIN rows = 1 .. m
      /\ \A i \in 1 .. m : rows[i] = q[i]
  <2> HIDE DEF n, m
  <2>1. rows = [i \in 1 .. m |-> q[i]]
    BY <1>6, <1>7 DEF n
  <2>2. \A i \in 1 .. m : q[i] \in S
    BY <1>6, <1>7
  <2> HIDE DEF rows
  <2>3. rows \in [1 .. m -> S]
    BY <2>1, <2>2
  <2>4. rows \in Seq(S) /\ Len(rows) = m
    BY <1>7, <2>3, IsASeq, LenProperties
  <2> QED
    BY <2>1, <2>4
<1>9. data.rows = rows /\ data = [rows |-> data.rows, nextCursor |-> data.nextCursor]
  BY <1>3
<1>10. Ordered(rows)
  <2> HIDE DEF rows, m
  <2>1. rows \in Seq(Places)
    BY <1>2, <1>8
  <2>2. \A i, j \in 1 .. m : i < j => ~Before(rows[j], rows[i])
    BY <1>5, <1>6, <1>7, <1>8
  <2>3. \A i, j \in 1 .. m : i # j => rows[i] # rows[j]
    BY <1>6, <1>7, <1>8
  <2> QED
    BY <1>8, <2>1, <2>2, <2>3 DEF Ordered
<1>11. \A i \in DOMAIN rows : cursor # Null => Before(cursor, rows[i])
  <2> HIDE DEF rows, m
  <2> QED
    BY <1>2, <1>6, <1>7, <1>8
<1>12. ASSUME n > PageSize
       PROVE  /\ m = PageSize /\ m \in 1 .. m /\ rows # <<>> /\ Last(rows) = q[m]
              /\ data.nextCursor = q[m]
  <2>1. m = PageSize /\ PageSize > 0 /\ m \in 1 .. m
    BY <1>7, <1>12, LimitsAssumption
  <2>2. data.nextCursor = q[PageSize]
    BY <1>3, <1>12 DEF CursorOf
  <2> HIDE DEF rows, m
  <2> QED
    BY <1>8, <2>1, <2>2 DEF Last
<1>13. n <= PageSize => data.nextCursor = Null /\ m = n
  <2>1. n <= PageSize => ~(n > PageSize)
    <3> HIDE DEF n
    <3> QED
      BY <1>6, LimitsAssumption
  <2>2. ~(n > PageSize) => data.nextCursor = Null /\ m = n
    <3> HIDE DEF n, rows
    <3> QED
      BY <1>3 DEF n
  <2> HIDE DEF n, m
  <2> QED
    BY <2>1, <2>2
<1>14. ASSUME NEW x \in S
       PROVE  Shows(rows, x) \/ (data.nextCursor # Null /\ Before(data.nextCursor, x))
  <2>1. PICK k \in 1 .. n : q[k] = x
    BY <1>6
  <2>2. CASE k <= m
    <3>1. k \in 1 .. m
      BY <1>6, <1>7, <2>2
    <3> HIDE DEF rows, m
    <3> QED
      BY <1>8, <2>1, <3>1 DEF Shows
  <2>3. CASE m < k
    <3>1. n > PageSize
      <4> HIDE DEF n, m, rows
      <4> QED
        BY <1>6, <1>7, <1>13, <2>3, LimitsAssumption
    <3>2. m \in 1 .. n /\ m \in 1 .. m /\ data.nextCursor = q[m] /\ q[m] \in Places /\ x \in Places
      BY <1>2, <1>6, <1>7, <1>12, <3>1
    <3> HIDE DEF m, rows, n
    <3>3. ~Before(x, q[m])
      BY <1>5, <1>6, <2>1, <2>3, <3>2
    <3>4. Before(q[m], x) \/ q[m][1] = x[1]
      BY <3>2, <3>3, PlaceOrder
    <3>5. q[m][1] = x[1] => Shows(rows, x)
      BY <1>8, <3>2 DEF Shows
    <3> QED
      BY <3>2, <3>4, <3>5, PlaceIsNotNull
  <2> QED
    BY <1>6, <1>7, <2>2, <2>3
<1> HIDE DEF rows, n, m
<1>15. data.nextCursor # Null => data.rows # <<>> /\ data.nextCursor = Last(data.rows)
  <2>1. n > PageSize \/ n <= PageSize
    BY <1>6, LimitsAssumption
  <2> QED
    BY <1>9, <1>12, <1>13, <2>1
<1> QED
  BY <1>4, <1>9, <1>10, <1>11, <1>14, <1>15 DEF PageAfter

\* The last line of a list is a place.
LEMMA LastPlace ==
  ASSUME NEW q, Ordered(q), q # <<>>
  PROVE  /\ Len(q) \in DOMAIN q /\ Last(q) = q[Len(q)] /\ Last(q) \in Places
         /\ \A i \in DOMAIN q : q[i] \in Places /\ ~Before(Last(q), q[i])
<1>1. q \in Seq(Places) /\ Len(q) \in Nat /\ DOMAIN q = 1 .. Len(q)
  BY DEF Ordered
<1>2. Len(q) \in 1 .. Len(q)
  BY <1>1
<1>3. \A i \in 1 .. Len(q) : q[i] \in Places
  BY <1>1
<1>4. ASSUME NEW i \in 1 .. Len(q) PROVE ~Before(Last(q), q[i])
  <2>1. CASE i = Len(q)
    BY <1>3, <2>1, PlaceOrder DEF Last
  <2>2. CASE i # Len(q)
    <3> DEFINE n == Len(q)
    <3>1. n \in Nat /\ i \in 1 .. n /\ i # n /\ n \in DOMAIN q /\ i \in DOMAIN q /\ Last(q) = q[n]
      BY <1>1, <1>2, <2>2 DEF Last
    <3> HIDE DEF n
    <3>2. i < n
      BY <3>1
    <3> QED
      BY <3>1, <3>2 DEF Ordered
  <2> QED
    BY <2>1, <2>2
<1> QED
  BY <1>1, <1>2, <1>3, <1>4 DEF Last

\* A page that follows a list continues it.
LEMMA AppendOrdered ==
  ASSUME NEW p, NEW q, Ordered(p), Ordered(q),
         p # <<>> => \A i \in DOMAIN q : Before(Last(p), q[i])
  PROVE  /\ Ordered(p \o q)
         /\ q # <<>> => p \o q # <<>> /\ Last(p \o q) = Last(q)
         /\ q = <<>> => p \o q = p
         /\ \A x : Shows(p \o q, x) <=> Shows(p, x) \/ Shows(q, x)
<1> DEFINE s == p \o q
           n == Len(p)
           m == Len(q)
<1>1. p \in Seq(Places) /\ q \in Seq(Places)
  BY DEF Ordered
<1>2. /\ n \in Nat /\ m \in Nat /\ s \in Seq(Places) /\ Len(s) = n + m
      /\ DOMAIN p = 1 .. n /\ DOMAIN q = 1 .. m /\ DOMAIN s = 1 .. (n + m)
  BY <1>1
<1>3. \A i \in 1 .. n : s[i] = p[i]
  BY <1>1
<1>4. \A i \in 1 .. m : s[n + i] = q[i]
  BY <1>1
<1>5. \A i \in 1 .. (n + m) : i \in 1 .. n \/ (i - n \in 1 .. m /\ n + (i - n) = i)
  <2> HIDE DEF n, m
  <2> QED
    BY <1>2
<1>6. ASSUME NEW i \in 1 .. n, NEW j \in 1 .. m
      PROVE  ~Before(q[j], p[i]) /\ q[j] # p[i]
  <2>1. p # <<>>
    BY <1>2
  <2>2. /\ Before(Last(p), q[j]) /\ Last(p) \in Places /\ p[i] \in Places /\ q[j] \in Places
        /\ ~Before(Last(p), p[i])
    BY <1>1, <1>2, <2>1, LastPlace
  <2> QED
    BY <2>2, PlaceOrder
<1> HIDE DEF s, n, m
<1>7. ASSUME NEW i \in 1 .. (n + m), NEW j \in 1 .. (n + m), i < j
      PROVE  ~Before(s[j], s[i]) /\ s[i] # s[j]
  <2>1. CASE j \in 1 .. n
    <3>1. i \in 1 .. n
      BY <1>2, <1>7, <2>1
    <3> QED
      <4>1. s[i] = p[i] /\ s[j] = p[j] /\ i \in DOMAIN p /\ j \in DOMAIN p /\ i # j
        BY <1>2, <1>3, <1>7, <2>1, <3>1
      <4> QED
        BY <1>7, <4>1 DEF Ordered
  <2>2. CASE j \notin 1 .. n
    <3>1. j - n \in 1 .. m /\ s[j] = q[j - n]
      BY <1>4, <1>5, <2>2
    <3>2. CASE i \in 1 .. n
      BY <1>3, <1>6, <3>1, <3>2
    <3>3. CASE i \notin 1 .. n
      <4> DEFINE a == i - n
                 b == j - n
      <4>1. a \in 1 .. m /\ b \in 1 .. m /\ s[i] = q[a] /\ s[j] = q[b] /\ a < b /\ a # b
        <5>1. a \in 1 .. m /\ n + a = i
          BY <1>5, <3>3
        <5>2. s[i] = q[a]
          BY <1>4, <5>1
        <5>3. b \in 1 .. m /\ s[j] = q[b]
          BY <3>1
        <5>4. a < b /\ a # b
          BY <1>2, <1>7
        <5> QED
          BY <5>1, <5>2, <5>3, <5>4
      <4> HIDE DEF a, b
      <4>2. a \in DOMAIN q /\ b \in DOMAIN q
        BY <1>2, <4>1
      <4> QED
        BY <4>1, <4>2 DEF Ordered
    <3> QED
      BY <3>2, <3>3
  <2> QED
    BY <2>1, <2>2
<1>8. Ordered(s)
  <2>1. \A i, j \in 1 .. (n + m) : i # j => i < j \/ j < i
    BY <1>2
  <2> QED
    BY <1>2, <1>7, <2>1 DEF Ordered
<1>9. ASSUME q # <<>> PROVE s # <<>> /\ Last(s) = Last(q)
  <2>1. m \in 1 .. m
    BY <1>1, <1>2, <1>9 DEF m
  <2>2. s[n + m] = q[m] /\ n + m \in 1 .. (n + m)
    BY <1>2, <1>4, <2>1
  <2>3. Last(s) = s[n + m] /\ Last(q) = q[m]
    BY <1>2 DEF Last, m
  <2> QED
    BY <1>2, <2>2, <2>3
<1>10. q = <<>> => s = p
  BY <1>1 DEF s
<1>11. ASSUME NEW x PROVE Shows(s, x) <=> Shows(p, x) \/ Shows(q, x)
  <2>1. ASSUME NEW i \in 1 .. (n + m), s[i][1] = x[1] PROVE Shows(p, x) \/ Shows(q, x)
    <3>1. CASE i \in 1 .. n
      BY <1>2, <1>3, <2>1, <3>1 DEF Shows
    <3>2. CASE i \notin 1 .. n
      <4>1. i - n \in 1 .. m /\ s[i] = q[i - n]
        BY <1>4, <1>5, <3>2
      <4> QED
        BY <1>2, <2>1, <4>1 DEF Shows
    <3> QED
      BY <3>1, <3>2
  <2>2. ASSUME NEW i \in 1 .. n, p[i][1] = x[1] PROVE Shows(s, x)
    <3>1. i \in 1 .. (n + m) /\ s[i] = p[i]
      BY <1>2, <1>3
    <3> QED
      BY <1>2, <2>2, <3>1 DEF Shows
  <2>3. ASSUME NEW i \in 1 .. m, q[i][1] = x[1] PROVE Shows(s, x)
    <3>1. n + i \in 1 .. (n + m) /\ s[n + i] = q[i]
      BY <1>2, <1>4
    <3> QED
      BY <1>2, <2>3, <3>1 DEF Shows
  <2> QED
    BY <1>2, <2>1, <2>2, <2>3 DEF Shows
<1> QED
  BY <1>8, <1>9, <1>10, <1>11 DEF s

\* The page as it is mounted.
LEMMA NothingYet == \A saved : GamesShown(NoProfile, saved)
<1>1. Ordered(<<>>)
  BY DEF Ordered
<1>2. Rows({}, Viewed) = {}
  BY DEF Rows
<1>3. /\ NoProfile = [x \in ProfileFields |-> NoProfile[x]]
      /\ NoProfile.games = <<>> /\ NoProfile.first = {} /\ NoProfile.nextCursor = Null
  BY DEF NoProfile, ProfileFields
<1> HIDE DEF NoProfile
<1> QED
  BY <1>1, <1>2, <1>3 DEF GamesShown

LEMMA ServeReading ==
  ASSUME Ledger, Mounted, Reading, page = "profile", NEW r \in requests, Serve(r)
  PROVE  Reading'
<1>1. PICK data \in Results(r) :
        requests' = (requests \ {r}) \cup {[r EXCEPT !.answered = TRUE, !.data = data]}
  BY DEF Serve
<1> DEFINE new == [r EXCEPT !.answered = TRUE, !.data = data]
<1>2. page' = page /\ games' = games
  BY DEF Serve, dbVars
<1>3. requests = {r} /\ GamesAsked(r, profile) /\ GamesShown(profile, games) /\ r.what = "games"
  BY DEF Reading, Mounted
<1>4. requests' = {new}
  BY <1>1, <1>3
<1>5. /\ new = [x \in GamesFields |-> new[x]]
      /\ new.cursor = r.cursor /\ new.data = data
  BY <1>3 DEF GamesAsked, GamesFields
<1>6. data \in ListGames(Viewed, r.cursor)
  BY <1>1, <1>3 DEF Results
<1> HIDE DEF new
<1>7. CASE r.cursor = Null
  <2>1. /\ profile' = [x \in ProfileFields |-> profile'[x]]
        /\ profile'.first = games /\ profile'.games = profile.games
        /\ profile'.nextCursor = profile.nextCursor /\ profile'.loading = profile.loading
        /\ profile'.error = profile.error
    BY <1>3, <1>7 DEF Serve, GamesShown, ProfileFields
  <2>2. profile.games = <<>> /\ profile.loading
    BY <1>3, <1>7 DEF GamesAsked
  <2>3. GamesShown(profile', games)
    BY <1>3, <2>1, <2>2 DEF GamesShown
  <2>4. PageAfter(data, r.cursor, games)
    BY <1>6, <1>7, ListGamesIsPage
  <2>5. GamesAsked(new, profile')
    BY <1>5, <1>7, <2>1, <2>2, <2>4 DEF GamesAsked
  <2> QED
    BY <1>2, <1>4, <2>3, <2>5 DEF Reading
<1>8. CASE r.cursor # Null
  <2>1. profile' = profile
    BY <1>8 DEF Serve
  <2>2. /\ profile.games # <<>> /\ r.cursor = Last(profile.games) /\ Ordered(profile.games)
        /\ profile.first \subseteq games /\ profile.loading
    BY <1>3, <1>8 DEF GamesAsked, GamesShown
  <2>3. r.cursor \in Places
    BY <2>2, LastPlace
  <2>4. PageAfter(data, r.cursor, games)
    BY <1>6, <2>3, ListGamesIsPage
  <2>5. Rows(profile.first, Viewed) \subseteq Rows(games, Viewed)
    BY <2>2 DEF Rows
  <2>6. PageAfter(data, r.cursor, profile.first)
    BY <2>4, <2>5 DEF PageAfter
  <2>7. GamesAsked(new, profile)
    BY <1>5, <1>8, <2>2, <2>6 DEF GamesAsked
  <2> QED
    BY <1>2, <1>3, <1>4, <2>1, <2>7 DEF Reading
<1> QED
  BY <1>7, <1>8

LEMMA ArriveReading ==
  ASSUME Ledger, Mounted, Reading, page = "profile", NEW r \in requests, NEW outcome,
         GamesArrive(r, outcome)
  PROVE  Reading'
<1>1. page' = page /\ games' = games /\ outcome \in Outcomes(r) /\ requests' = requests \ {r}
  BY DEF GamesArrive, Arrive, dbVars
<1>2. requests = {r} /\ GamesAsked(r, profile) /\ GamesShown(profile, games)
  BY DEF Reading
<1>3. requests' = {}
  BY <1>1, <1>2
<1>4. CASE outcome = "failed"
  <2>1. /\ profile' = [x \in ProfileFields |-> profile'[x]]
        /\ profile'.first = profile.first /\ profile'.games = profile.games
        /\ profile'.nextCursor = profile.nextCursor /\ profile'.error
    BY <1>2, <1>4 DEF GamesArrive, GamesShown, ProfileFields
  <2>2. GamesShown(profile', games)
    BY <1>2, <2>1 DEF GamesShown
  <2> QED
    BY <1>1, <1>3, <2>2 DEF Reading
<1>5. CASE outcome # "failed"
  <2> DEFINE p == profile.games
             q == r.data.rows
  <2>1. PageAfter(r.data, r.cursor, profile.first)
    BY <1>1, <1>2, <1>5 DEF Outcomes, GamesAsked
  <2>2. p \o q = IF r.cursor = Null THEN q ELSE p \o q
    <3>1. CASE r.cursor = Null
      <4>1. p = <<>> /\ q \in Seq(Places)
        BY <1>2, <2>1, <3>1 DEF GamesAsked, PageAfter, Ordered
      <4> QED
        BY <3>1, <4>1
    <3> QED
      BY <3>1
  <2>3. /\ profile' = [x \in ProfileFields |-> profile'[x]]
        /\ profile'.games = p \o q /\ profile'.nextCursor = r.data.nextCursor
        /\ profile'.first = profile.first
    BY <1>2, <1>5, <2>2 DEF GamesArrive, GamesShown, ProfileFields
  <2>4. /\ Ordered(p) /\ Ordered(q)
        /\ IF r.cursor = Null THEN p = <<>> ELSE p # <<>> /\ r.cursor = Last(p)
        /\ r.cursor # Null => \A i \in DOMAIN q : Before(r.cursor, q[i])
        /\ r.data.nextCursor # Null => q # <<>> /\ r.data.nextCursor = Last(q)
    BY <1>2, <2>1 DEF GamesAsked, GamesShown, PageAfter
  <2> HIDE DEF p, q
  <2>5. /\ Ordered(p \o q)
        /\ q # <<>> => p \o q # <<>> /\ Last(p \o q) = Last(q)
        /\ q = <<>> => p \o q = p
        /\ \A x : Shows(p \o q, x) <=> Shows(p, x) \/ Shows(q, x)
    BY <2>4, AppendOrdered
  <2>6. ASSUME NEW x \in Rows(profile.first, Viewed), ~Shows(p \o q, x)
        PROVE  /\ p \o q # <<>> => Before(Last(p \o q), x)
               /\ r.data.nextCursor # Null
    <3>1. ~Shows(p, x) /\ ~Shows(q, x)
      BY <2>5, <2>6
    <3>2. p # <<>> => Before(Last(p), x)
      BY <1>2, <3>1 DEF GamesShown, p
    <3>3. r.cursor = Null \/ Before(r.cursor, x)
      BY <2>4, <3>2
    <3>4. r.data.nextCursor # Null /\ Before(r.data.nextCursor, x)
      BY <2>1, <3>1, <3>3 DEF PageAfter, q
    <3> QED
      BY <2>4, <2>5, <3>4
  <2>7. profile.first \subseteq games
    BY <1>2 DEF GamesShown
  <2>8. GamesShown(profile', games)
    BY <2>3, <2>4, <2>5, <2>6, <2>7 DEF GamesShown
  <2> QED
    BY <1>1, <1>3, <2>8 DEF Reading
<1> QED
  BY <1>4, <1>5

LEMMA StepReading ==
  ASSUME Ledger, Mounted, Reading, [TabNext]_tabVars
  PROVE  Reading'
<1>1. ASSUME UNCHANGED pageVars, games \subseteq games' PROVE Reading'
  BY <1>1 DEF pageVars, Reading, GamesShown
<1>2. CASE PagesNext
  <2>1. CASE \E g \in Game : SaveGame(g)
    BY <1>1, <2>1 DEF SaveGame, SaveGameResult
  <2>2. ASSUME NEW r \in requests, Serve(r) PROVE Reading'
    <3>1. CASE page = "profile"
      BY <2>2, <3>1, ServeReading
    <3>2. CASE page # "profile"
      BY <2>2, <3>2 DEF Serve, Reading
    <3> QED
      BY <3>1, <3>2
  <2>3. ASSUME NEW r \in requests, NEW outcome, GamesArrive(r, outcome) PROVE Reading'
    <3>1. page = "profile"
      BY <2>3 DEF GamesArrive, Mounted
    <3> QED
      BY <2>3, <3>1, ArriveReading
  <2>4. ASSUME NEW r \in requests, NEW outcome, RankingArrives(r, outcome) PROVE Reading'
    BY <2>4 DEF RankingArrives, Arrive, Mounted, Reading
  <2>5. CASE OpenProfile
    <3>1. profile' = NoProfile /\ requests' = {FetchGames(Null)}
      BY <2>5 DEF OpenProfile, Mounted
    <3>2. GamesShown(profile', games')
      BY <3>1, NothingYet
    <3>3. GamesAsked(FetchGames(Null), profile')
      BY <3>1 DEF GamesAsked, FetchGames, GamesFields, NoProfile
    <3> QED
      BY <3>1, <3>2, <3>3 DEF Reading
  <2>6. CASE LoadMore
    <3>1. /\ page' = page /\ games' = games /\ ~profile.loading /\ profile.nextCursor # Null
          /\ GamesShown(profile, games) /\ \A r \in requests : GamesAsked(r, profile)
      BY <2>6 DEF LoadMore, HasMore, Reading, dbVars
    <3>2. requests' = {FetchGames(profile.nextCursor)}
      BY <2>6, <3>1 DEF LoadMore, GamesAsked
    <3>3. /\ profile' = [x \in ProfileFields |-> profile'[x]]
          /\ profile'.first = profile.first /\ profile'.games = profile.games
          /\ profile'.nextCursor = profile.nextCursor /\ profile'.loading
      BY <2>6, <3>1 DEF LoadMore, GamesShown, ProfileFields
    <3>4. GamesShown(profile', games)
      BY <3>1, <3>3 DEF GamesShown
    <3>5. profile.games # <<>> /\ profile.nextCursor = Last(profile.games)
      BY <3>1 DEF GamesShown
    <3>6. GamesAsked(FetchGames(profile.nextCursor), profile')
      BY <3>1, <3>3, <3>5 DEF GamesAsked, FetchGames, GamesFields
    <3> QED
      BY <3>1, <3>2, <3>4, <3>6 DEF Reading
  <2>7. CASE OpenRanking \/ SessionKnown \/ ToLobby
    BY <2>7 DEF OpenRanking, SessionKnown, ToLobby, Reading
  <2>8. ASSUME NEW s, Rerun(s) PROVE Reading'
    BY <2>8 DEF Rerun, Reading
  <2> QED
    BY <1>2, <2>1, <2>2, <2>3, <2>4, <2>5, <2>6, <2>7, <2>8 DEF PagesNext, Reload, ChooseSort
<1>3. CASE UNCHANGED historyVars
  BY <1>1, <1>3 DEF historyVars, dbVars
<1>4. CASE VisitsNext
  <2>1. ASSUME NEW c, ShowRoom(c) PROVE Reading'
    BY <2>1 DEF ShowRoom, Reading
  <2>2. CASE LeaveRoom
    BY <2>2 DEF LeaveRoom, Reading
  <2>3. CASE AssignAndEnter \/ AssignFails
    BY <1>3, <2>3 DEF AssignAndEnter, AssignFails
  <2>4. ASSUME NEW i, LookupFound(i) \/ LookupFails(i) \/ SocketOpens(i) \/ SocketCloses(i)
        PROVE  Reading'
    BY <1>3, <2>4 DEF LookupFound, LookupFails, SocketOpens, SocketCloses
  <2> QED
    BY <1>4, <2>1, <2>2, <2>3, <2>4 DEF VisitsNext, JoinByCode, Assigned
<1> QED
  BY <1>2, <1>3, <1>4 DEF TabNext, PagesStep, VisitsStep, CanvasStep, tabVars

LEMMA WhatIsReadIsWhole ==
  ASSUME Ledger, Mounted, Reading
  PROVE  ListIsWhole
<1>1. GamesShown(profile, games)
  BY NothingYet DEF Mounted, Reading
<1>2. IsInjective(profile.games)
  BY <1>1 DEF GamesShown, Ordered, IsInjective
<1>3. Rows(profile.first, Viewed) \subseteq Places
  <2>1. profile.first \in SUBSET Game /\ IsFiniteSet(profile.first)
    BY <1>1, FS_Subset DEF GamesShown, Ledger
  <2> QED
    BY <2>1, RowsAreFinite, ViewedAssumption
<1>4. ASSUME NEW x \in Rows(profile.first, Viewed),
             \/ profile.games # <<>> /\ Before(x, Last(profile.games))
             \/ ~profile.loading /\ ~profile.error /\ profile.nextCursor = Null
      PROVE  x[1] \in {y[1] : y \in Range(profile.games)}
  <2>1. ~(/\ profile.games # <<>> => Before(Last(profile.games), x)
          /\ profile.loading \/ profile.error \/ profile.nextCursor # Null)
    <3>1. profile.games # <<>> => Last(profile.games) \in Places
      BY <1>1, LastPlace DEF GamesShown
    <3> QED
      BY <1>3, <1>4, <3>1, PlaceOrder
  <2>2. Shows(profile.games, x)
    BY <1>1, <2>1 DEF GamesShown
  <2>3. PICK i \in DOMAIN profile.games : profile.games[i][1] = x[1]
    BY <2>2 DEF Shows
  <2>4. profile.games[i] \in Range(profile.games)
    BY DEF Range
  <2> QED
    BY <2>3, <2>4
<1> QED
  BY <1>2, <1>4 DEF ListIsWhole

\* ProfilePage.loadGames and listGames (history.service.ts:139): for any page
\* size and any games that come in while a reader pages through the list, late
\* ones among them, no line appears twice and no game is passed over.
THEOREM ListStaysWhole == TabSpec => []ListIsWhole
<1>1. TabInit => Ledger /\ Mounted /\ Reading
  <2>1. TabInit => Reading
    BY DEF TabInit, PagesInit, Reading
  <2> QED
    BY <2>1, InitLedger, InitMounted
<1>2. Ledger /\ Mounted /\ Reading /\ [TabNext]_tabVars => (Ledger /\ Mounted /\ Reading)'
  BY StepLedger, StepMounted, StepReading
<1>3. Ledger /\ Mounted /\ Reading => ListIsWhole
  BY WhatIsReadIsWhole
<1> QED
  BY <1>1, <1>2, <1>3, PTL DEF TabSpec
===============================================================================
