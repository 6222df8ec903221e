---------------------------- MODULE MCConnections ----------------------------
(* Connections on a small instance for TLC. *)
EXTENDS Connections

CONSTANTS low, upp

\* Two spellings of one code.
Codes == {low, upp}
NormalOf == [c \in Codes |-> upp]
=============================================================================
