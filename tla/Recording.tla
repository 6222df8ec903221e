------------------------------ MODULE Recording ------------------------------
(***************************************************************************)
(* What the players are promised about a finished game: it is added to     *)
(* their totals at most once, completely or not at all, and the totals are *)
(* those of the games recorded.  Games are numbered by finishedAt.         *)
(***************************************************************************)
EXTENDS Naturals, Sequences, FiniteSets

CONSTANTS Game, User, Roster    \* as in module Results, which assumes their types

\* Roster[g] lists the members among the players of g. A member who played
\* from two tabs is two players and is listed twice.
VARIABLES
  recorded,      \* games in the history
  gamesPlayed,   \* user_stats.games_played
  lastPlayed     \* user_stats.last_played_at; 0 without a row

\* How many player rows of game g belong to user u.
Rows(g, u) == Cardinality({i \in DOMAIN Roster[g] : Roster[g][i] = u})

Later(a, b) == IF a >= b THEN a ELSE b

Init ==
  /\ recorded = {}
  /\ gamesPlayed = [u \in User |-> 0]
  /\ lastPlayed = [u \in User |-> 0]

Record(g) ==
  /\ g \notin recorded
  /\ recorded' = recorded \cup {g}
  /\ gamesPlayed' = [u \in User |-> gamesPlayed[u] + Rows(g, u)]
  /\ lastPlayed' = [u \in User |-> IF Rows(g, u) = 0 THEN lastPlayed[u]
                                   ELSE Later(lastPlayed[u], g)]

Next == \E g \in Game : Record(g)

Spec == Init /\ [][Next]_<<recorded, gamesPlayed, lastPlayed>>
=============================================================================
