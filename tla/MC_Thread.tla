----------------------------- MODULE MC_Thread -----------------------------
(* Small instances of Thread for TLC. *)
EXTENDS Thread

CONSTANTS t1, t2

OnePage  == {main, idle, reaper, t1}
TwoPages == {main, idle, reaper, t1, t2}

(* Pages are interchangeable; main, idle and reaper are not. *)
PageSymmetry == Permutations({t1, t2})
=============================================================================
