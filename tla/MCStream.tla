------------------------------ MODULE MCStream ------------------------------
(* Streams of both systems; the protocol makes no difference to them.      *)
EXTENDS Stream, TLC

(* For the safety properties only.                                         *)
Symmetry == Permutations(Threads) \cup Permutations(Handles)
=============================================================================
