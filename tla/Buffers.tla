------------------------------ MODULE Buffers ------------------------------
(***************************************************************************)
(* What a heap promises its callers: a buffer is aligned, lies inside the  *)
(* pool, is as long as was asked for, overlaps no other buffer, and stays  *)
(* where it is until the caller releases it.                               *)
(***************************************************************************)
EXTENDS Naturals

CONSTANTS
  Places,    \* the aligned addresses of the pool
  poolEnd,   \* the first address behind the pool
  Requests   \* the sizes callers ask for

VARIABLE sizeAt   \* the size of the live buffer that starts at each address

Apart(a, s, b, t) == a + s <= b \/ b + t <= a

Init == sizeAt = [a \in {} |-> 0]

(* A buffer of s bytes at a; the buffers at gone are released. *)
Exchange(gone, a, s) ==
  /\ sizeAt' = [b \in (DOMAIN sizeAt \ gone) \cup {a} |->
                  IF b = a THEN s ELSE sizeAt[b]]
  /\ a + s <= poolEnd
  /\ \A b \in DOMAIN sizeAt : Apart(a, s, b, sizeAt[b])

Acquire(a, s) == Exchange({}, a, s)

Release(a) == sizeAt' = [b \in DOMAIN sizeAt \ {a} |-> sizeAt[b]]

(* The new buffer is there before the old one goes. *)
Replace(old, a, s) == Exchange({old}, a, s)

Next ==
  \/ \E a \in Places, s \in Requests : Acquire(a, s)
  \/ \E a \in DOMAIN sizeAt : Release(a)
  \/ \E old \in DOMAIN sizeAt, a \in Places, s \in Requests : Replace(old, a, s)

Spec == Init /\ [][Next]_sizeAt
=============================================================================
