------------------------------- MODULE MCRoom -------------------------------
(* Room on small instances for TLC. *)
EXTENDS Room, TLC

CONSTANTS p1, p2, p3, p4, w1, w2, m1

ThreePlayers == {p1, p2, p3}
FourPlayers == {p1, p2, p3, p4}
TwoWords == {w1, w2}
OneMark == {m1}

\* Player ids and words are only compared for equality.
SymmetricFour == Permutations(FourPlayers) \cup Permutations(TwoWords)
SymmetricThree == Permutations(ThreePlayers) \cup Permutations(TwoWords)
=============================================================================
