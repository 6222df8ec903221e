---------------------------- MODULE MCPlacement ----------------------------
(***************************************************************************)
(* Instance of module Placement for TLC.  Shards, requests and clients are *)
(* alike, so that TLC may take their permutations for the same state (for  *)
(* invariants and action properties; the run with liveness does not).      *)
(***************************************************************************)
EXTENDS Placement, TLC

Alike == Permutations(Shard) \cup Permutations(Request) \cup Permutations(Client)
=============================================================================
