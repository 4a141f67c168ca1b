------------------------------ MODULE Services ------------------------------
(***************************************************************************)
(* Threads that use the screen, shared memory, thread creation and keys at *)
(* the same time: their modules under one scheduler.                       *)
(***************************************************************************)
EXTENDS Screen, Shm, ThreadList, Tlocal

vars == <<taskVars, screenVars, shmVars, listVars, tlocalVars>>

Init == TasksInit /\ ScreenInit /\ ShmInit /\ ListInit /\ TlocalInit

serve(t) ==
  /\ Runs(t) /\ todo[t] # <<>>
  /\ \/ enter(t) /\ UNCHANGED <<screenVars, shmVars, listVars, tlocalVars>>
     \/ /\ Call(t).fn \in {"kPutChar", "kGetChar", "kSetCursor"}
        /\ screenSteps(t) /\ UNCHANGED <<shmVars, listVars, tlocalVars>>
     \/ /\ Call(t).fn \in {"shmGet", "shmRelease", "shmWrite", "shmRead"}
        /\ shmSteps(t) /\ UNCHANGED <<screenVars, listVars, tlocalVars>>
     \/ /\ Call(t).fn \in {"createThread", "destroyThread"}
        /\ listSteps(t) /\ UNCHANGED <<screenVars, shmVars, tlocalVars>>
     \/ tlocalSteps(t) /\ UNCHANGED <<screenVars, shmVars, listVars>>

(* A thread with nothing left to do, or that waits for a write, has looked *)
(* for a descriptor up to the bound, or has no thread to destroy.          *)
Stops(t) ==
  todo[t] # <<>> =>
    CASE Call(t).fn = "shmRead" -> at[t] = "waiting"
      [] Call(t).fn = "shmGet" -> i[t] >= Descs + ScanBound
      [] Call(t).fn = "destroyThread" -> created = {}
      [] OTHER -> FALSE

finished ==
  /\ halted = "no" => \A t \in Tasks : Stops(t)
  /\ UNCHANGED vars

Next == finished \/ \E t \in Tasks : serve(t)

Spec == Init /\ [][Next]_vars

-----------------------------------------------------------------------------
(* Calls of the kernel's own threads (kernel/main.c), in the order in      *)
(* which they make them.                                                   *)

PutChar(ch) == [fn |-> "kPutChar", via |-> Direct, ch |-> ch]
SetCursor(r, c, b) == [fn |-> "kSetCursor", via |-> Direct, row |-> r, col |-> c, back |-> b]

(* One round of each of their loops; dateTime() is modelled in Rtc.        *)
printDate == <<[fn |-> "kGetChar", via |-> Direct], SetCursor(0, 1, FALSE),
               PutChar("digit"), SetCursor(0, 0, TRUE)>>
testShmSend == <<[fn |-> "shmGet", via |-> Direct],
                 [fn |-> "shmWrite", via |-> Direct, desc |-> 0],
                 [fn |-> "shmWrite", via |-> Direct, desc |-> 0]>>
testShmRead == <<[fn |-> "shmRead", via |-> Direct, desc |-> 0],
                 [fn |-> "shmRead", via |-> Direct, desc |-> 0]>>
=============================================================================
