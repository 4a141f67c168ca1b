---------------------------- MODULE MC_PageAlloc ----------------------------
(* Small instances of PageAlloc for TLC. *)
EXTENDS PageAlloc

CONSTANTS p1, p2, p3, p4

FourPages == {p1, p2, p3, p4}
InOrder   == <<p1, p2, p3, p4>>
Anything  == FourPages \cup {NoPage}
Zeroed    == {NoPage}
=============================================================================
