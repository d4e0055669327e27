---------------------------- MODULE MCTimeWheel ----------------------------
(* Small wheels for TLC: three of them, the seconds with three slots, so that *)
(* a delay goes through two cascades and past a full turn of each wheel.      *)
EXTENDS TimeWheel, TLC

MCCounts == <<3, 2, 2>>

\* Timers are only told apart by what was done with them.
MCSymmetry == Permutations(Timers)
=============================================================================
