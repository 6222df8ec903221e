-------------------------------- MODULE MCTab --------------------------------
(* Tab on a small instance for TLC. *)
EXTENDS Tab, TLC

CONSTANTS ca, cb, ra, rb

Codes == {ca, cb}
Runs == {ra, rb}
Alike == Permutations(Codes) \cup Permutations(Runs)

Three == 1 .. 3
Two == {1, 2}

\* Game 1 was there before the totals were. Games 1 and 3 ended in the same
\* millisecond, game 2 after them. Member 1 plays game 3 in two tabs, and its
\* first page of two rows ends between the two when all games are saved.
Times == <<2, 3, 2>>

Names == {"ann", "anna", "amy", "bob", "bo", "guest"}

Seat(u, name, score, rank) ==
  [user |-> u, nickname |-> name, score |-> score, rank |-> rank]

Events ==
  << << Seat(1, "ann", 1, 1), Seat(Null, "guest", 0, 2) >>,
     << Seat(2, "bob", 2, 1), Seat(1, "amy", 0, 2) >>,
     << Seat(1, "ann", 1, 1), Seat(2, "bo", 1, 1), Seat(1, "anna", 0, 3) >> >>
=============================================================================
