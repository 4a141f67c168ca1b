------------------------------ MODULE PageSet ------------------------------
(***************************************************************************)
(* What a page allocator promises: allocPage() hands out a page that       *)
(* nobody has, freePage() takes back a page that was handed out.           *)
(* createThread() and destroyThread() of kernel/thread.c rely on this.     *)
(***************************************************************************)
CONSTANT Pages

VARIABLES free, used

Init == free = Pages /\ used = {}

allocPage(p) ==
  /\ p \in free
  /\ free' = free \ {p}
  /\ used' = used \cup {p}

freePage(p) ==
  /\ p \in used
  /\ used' = used \ {p}
  /\ free' = free \cup {p}

Next == \E p \in Pages : allocPage(p) \/ freePage(p)

Spec == Init /\ [][Next]_<<free, used>>
=============================================================================
