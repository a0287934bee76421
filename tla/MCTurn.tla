------------------------------- MODULE MCTurn -------------------------------
(* Two sessions and a plan with work left or done for TLC.                  *)
EXTENDS Turn

CONSTANTS s1, s2, left, done
=============================================================================
