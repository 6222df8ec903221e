------------------------------ MODULE MCResults ------------------------------
(* Results on small instances for TLC. *)
EXTENDS Results

CONSTANTS u1, u2

Users == {u1, u2}

\* Games 2 and 3 have the same members in opposite rank order, which can
\* deadlock in the database, and u1 played game 3 from two tabs. Nothing is
\* saved of games 1 and 4, for the reasons the configurations give.
FourGames == 1 .. 4
FourRosters == <<<<>>, <<u1, u2>>, <<u2, u1, u1>>, <<>>>>
=============================================================================
