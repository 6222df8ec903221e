--------------------------------- MODULE Tab ---------------------------------
(***************************************************************************)
(* One browser tab: it shows one page at a time, and a page that is left   *)
(* is unmounted with everything it was about to do, except what its        *)
(* requests still lead to.  The history's pages read what is saved         *)
(* meanwhile; the canvas is there as long as a room page is shown.         *)
(***************************************************************************)
EXTENDS Visits, Drawing

tabVars == <<historyVars, visitVars, canvasVars>>

TabInit == DbInit /\ PagesInit /\ VisitsInit /\ CanvasInit

\* The lobby that is left does not wait any more, but its request goes on.
PagesStep ==
  /\ PagesNext
  /\ pending' = (pending /\ page' = "lobby")
  /\ UNCHANGED <<assigns, roomVars, canvasVars>>

\* The canvas is unmounted with the room page, in the middle of a stroke perhaps.
VisitsStep == VisitsNext /\ IF room' = room THEN UNCHANGED canvasVars ELSE CanvasReset

\* A turn begins and ends by a message.
CanvasStep ==
  /\ page = "room"
  /\ \/ (\E i \in Run : Is(i, {"open"})) /\ TurnChanges
     \/ Pointing
  /\ UNCHANGED <<historyVars, visitVars>>

TabNext == PagesStep \/ VisitsStep \/ CanvasStep

TabSpec == TabInit /\ [][TabNext]_tabVars
=============================================================================
