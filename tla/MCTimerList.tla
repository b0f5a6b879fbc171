----------------------------- MODULE MCTimerList -----------------------------
(* Instances of TimerList for TLC. *)
EXTENDS TimerList, TLC

Symmetry == Permutations(Timer)
=============================================================================
