------------------------------ MODULE MC_Sleep ------------------------------
(***************************************************************************)
(* Small instances of Sleep for TLC: a word of 8 values, and 2 ticks in 3  *)
(* milliseconds.  1 is less than a tick and sleeps for one, 3 is 2 ticks,  *)
(* and the product of 4 is 8, which wraps: 2 ticks are asked, 1 is slept.  *)
(***************************************************************************)
EXTENDS Sleep

CONSTANT t1

OnePage == {main, idle, reaper, t1}
=============================================================================
