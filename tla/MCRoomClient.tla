---------------------------- MODULE MCRoomClient ----------------------------
(* RoomClient on a small instance for TLC. *)
EXTENDS RoomClient

CONSTANTS p1, p2, p3, p4, w1, m1, m2

FourPlayers == {p1, p2, p3, p4}
OneWord == {w1}
TwoMarks == {m1, m2}

\* The other players are only compared for equality, and so are the marks.
Alike == Permutations({p2, p3, p4}) \cup Permutations(TwoMarks)

\* The histories of results, reveals and drawers decide no step, and of the
\* properties checked here none reads them.
Observed == <<roomVars, games, gone, clientVars>>
=============================================================================
