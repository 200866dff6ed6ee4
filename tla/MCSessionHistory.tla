-------------------------- MODULE MCSessionHistory --------------------------
(* SessionHistory for TLC: two goroutines that process messages of a session. *)
EXTENDS SessionHistory, TLC

CONSTANTS t1, t2

TurnSymmetry == Permutations(Turns)
=============================================================================
