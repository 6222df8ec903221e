------------------------------- MODULE Drawing -------------------------------
(***************************************************************************)
(* The canvas of the drawer (DrawCanvas.tsx): from the events of one       *)
(* pointer to the segments that are painted and sent, a batch per          *)
(* animation frame.                                                        *)
(*                                                                         *)
(* The points of a stroke are numbered from 1, so a batch of them is an    *)
(* interval.  What becomes of a segment after it was sent, the server's    *)
(* refusal included, is in RoomClient.                                     *)
(*                                                                         *)
(* Operators named ..._Faulty hold a plausible mistake; see module Room.   *)
(***************************************************************************)
EXTENDS Naturals, Sequences

CONSTANT MaxPoints    \* bound of the model: points of one stroke

ASSUME MaxPointsAssumption == MaxPoints \in Nat \ {0}

VARIABLES
  mayDraw,    \* the hook's state: it is this player's turn
  canDraw,    \* the same as the page has rendered it
  pointer,    \* "up" or "down", as the browser reports it
  drawing,    \* drawingRef
  flushed,    \* flushedRef
  buffer,     \* bufferRef: points from..to of the stroke
  points,     \* how many points the stroke has taken so far
  segments,   \* what onStroke was called with for this stroke
  stroke      \* history: "none", "begun", "ended" by lifting, or "dropped"

canvasVars ==
  <<mayDraw, canDraw, pointer, drawing, flushed, buffer, points, segments, stroke>>

Batch(from, to) == [from |-> from, to |-> to]
Empty == Batch(1, 0)
Length(b) == IF b.to < b.from THEN 0 ELSE b.to - b.from + 1

CanvasInit ==
  /\ mayDraw = FALSE /\ canDraw = FALSE /\ pointer = "up"
  /\ drawing = FALSE /\ flushed = FALSE /\ buffer = Empty
  /\ points = 0 /\ segments = <<>> /\ stroke = "none"

\* The page is unmounted.
CanvasReset ==
  /\ mayDraw' = FALSE /\ canDraw' = FALSE /\ pointer' = "up"
  /\ drawing' = FALSE /\ flushed' = FALSE /\ buffer' = Empty
  /\ points' = 0 /\ segments' = <<>> /\ stroke' = "none"

-----------------------------------------------------------------------------
\* A message has begun or ended this player's turn; the page is not yet drawn.
TurnChanges ==
  /\ mayDraw' = ~mayDraw
  /\ UNCHANGED <<canDraw, pointer, drawing, flushed, buffer, points, segments, stroke>>

\* The page is rendered and the effect on [canDraw] runs: without permission
\* the stroke is dropped and the frames stop.
Render ==
  /\ canDraw # mayDraw /\ canDraw' = mayDraw
  /\ IF mayDraw THEN UNCHANGED <<drawing, buffer, stroke>>
     ELSE /\ drawing' = FALSE /\ buffer' = Empty
          /\ stroke' = IF drawing THEN "dropped" ELSE stroke
  /\ UNCHANGED <<mayDraw, pointer, flushed, points, segments>>

\* emitSegment
Emit(batch) == segments' = Append(segments, batch) /\ flushed' = TRUE

FlushedAtDown_Faulty == flushed     \* not reset for the next stroke
FlushedAtDown == FALSE

\* handlePointerDown
PointerDown ==
  /\ pointer = "up" /\ pointer' = "down"
  /\ IF canDraw
     THEN /\ drawing' = TRUE /\ flushed' = FlushedAtDown /\ buffer' = Batch(1, 1)
          /\ points' = 1 /\ segments' = <<>> /\ stroke' = "begun"
     ELSE UNCHANGED <<drawing, flushed, buffer, points, segments, stroke>>
  /\ UNCHANGED <<mayDraw, canDraw>>

\* handlePointerMove
PointerMove ==
  /\ canDraw /\ drawing /\ points < MaxPoints
  /\ points' = points + 1 /\ buffer' = [buffer EXCEPT !.to = @ + 1]
  /\ UNCHANGED <<mayDraw, canDraw, pointer, drawing, flushed, segments, stroke>>

\* flush, in an animation frame: the last point begins the next batch.
Flush ==
  /\ canDraw /\ Length(buffer) >= 2
  /\ buffer' = Batch(buffer.to, buffer.to)
  /\ Emit(buffer)
  /\ UNCHANGED <<mayDraw, canDraw, pointer, drawing, points, stroke>>

\* The tail that no frame has sent, or the only point of a click.
Unsent == Length(buffer) >= 2 \/ (Length(buffer) = 1 /\ ~flushed)

\* handlePointerUp, which also handles the pointer's leaving.
PointerUp ==
  /\ pointer = "down" /\ pointer' = "up"
  /\ IF drawing
     THEN /\ drawing' = FALSE /\ buffer' = Empty /\ stroke' = "ended"
          /\ IF Unsent THEN Emit(buffer) ELSE UNCHANGED <<segments, flushed>>
     ELSE UNCHANGED <<drawing, flushed, buffer, segments, stroke>>
  /\ UNCHANGED <<mayDraw, canDraw, points>>

\* handlePointerCancel
PointerCancel ==
  /\ pointer = "down" /\ pointer' = "up"
  /\ drawing' = FALSE /\ buffer' = Empty
  /\ stroke' = IF drawing THEN "dropped" ELSE stroke
  /\ UNCHANGED <<mayDraw, canDraw, flushed, points, segments>>

Pointing ==
  \/ Render \/ Flush
  \/ PointerDown \/ PointerMove \/ PointerUp \/ PointerCancel

CanvasNext == TurnChanges \/ Pointing \/ CanvasReset

CanvasSpec == CanvasInit /\ [][CanvasNext]_canvasVars

-----------------------------------------------------------------------------
CanvasTypeOK ==
  /\ mayDraw \in BOOLEAN /\ canDraw \in BOOLEAN /\ pointer \in {"up", "down"}
  /\ drawing \in BOOLEAN /\ flushed \in BOOLEAN
  /\ buffer \in [from : 1 .. MaxPoints, to : 0 .. MaxPoints]
  /\ points \in 0 .. MaxPoints
  /\ segments \in Seq([from : 1 .. MaxPoints, to : 1 .. MaxPoints])
  /\ stroke \in {"none", "begun", "ended", "dropped"}

Sent == IF segments = <<>> THEN 1 ELSE segments[Len(segments)].to

\* The segments of a stroke join each other, the first one begins at its first
\* point, and none is a dot except a stroke of one point. A stroke that is
\* lifted has been sent to its last point, whichever frames came in between
\* (DrawCanvas.tsx:158: else the points after the last frame would be cut off
\* and a click would not be painted at all).
EveryPointIsSent ==
  /\ \A i \in DOMAIN segments :
       /\ segments[i].from = IF i = 1 THEN 1 ELSE segments[i - 1].to
       /\ segments[i].from < segments[i].to \/ (segments[i].to = 1 /\ points = 1)
  /\ stroke = "ended" => segments # <<>> /\ Sent = points
  /\ stroke = "begun" => buffer = Batch(Sent, points)
=============================================================================
