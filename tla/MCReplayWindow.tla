-------------------------- MODULE MCReplayWindow ----------------------------
(* Model-checking instance of ReplayWindow: session ids are interchangeable. *)
EXTENDS ReplayWindow, TLC

SessionSymmetry == Permutations(Session)
=============================================================================
