-------------------------- MODULE MCOrderingState --------------------------
(* OrderingState on a small instance: every caller, failure and crash.      *)
EXTENDS OrderingState, TLC

Symmetry == Permutations(Attempts) \cup Permutations(Expectations)
=============================================================================
