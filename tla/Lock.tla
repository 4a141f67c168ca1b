-------------------------------- MODULE Lock --------------------------------
(***************************************************************************)
(* What a mutex promises: of the threads that want it one at a time gets   *)
(* it, and only the thread that has it gives it back.                      *)
(***************************************************************************)
CONSTANTS Threads, Nobody

VARIABLES wanting, holder

Init == wanting = {} /\ holder = Nobody

request(t) ==
  /\ t \notin wanting /\ holder # t
  /\ wanting' = wanting \cup {t}
  /\ UNCHANGED holder

acquire(t) ==
  /\ t \in wanting /\ holder = Nobody
  /\ holder' = t
  /\ wanting' = wanting \ {t}

release(t) ==
  /\ holder = t
  /\ holder' = Nobody
  /\ UNCHANGED wanting

Next == \E t \in Threads : request(t) \/ acquire(t) \/ release(t)

Spec == Init /\ [][Next]_<<wanting, holder>>
=============================================================================
