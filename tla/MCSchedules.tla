---------------------------- MODULE MCSchedules -----------------------------
(* Small instances of Schedules for TLC: the threads are interchangeable.     *)
EXTENDS Schedules, TLC

Symmetry == Permutations(Threads)
=============================================================================
