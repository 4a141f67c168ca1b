------------------------------ MODULE MC_Bget ------------------------------
(* A small instance of Bget for TLC: sizes below and above a quantum; and  *)
(* sizes that no block can have, with a word of 272 values: none at all,   *)
(* one whose sum wraps (130 is rounded to 132, and 140 is past 135) and    *)
(* one that is negative as a bufsize.                                      *)
EXTENDS Bget

SmallRequests == {1, 9, 24, 0, 130, 200}
SizesThatWrap == {1, 9, 130}
=============================================================================
