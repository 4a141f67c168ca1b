------------------------------ MODULE MC_Mutex ------------------------------
(* Small instances of Mutex for TLC. *)
EXTENDS Mutex

CONSTANTS t1, t2

TwoPages == {main, idle, reaper, t1, t2}

(* Pages are interchangeable; main, idle and reaper are not. *)
PageSymmetry == Permutations({t1, t2})
=============================================================================
