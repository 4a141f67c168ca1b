------------------------------- MODULE Mutex -------------------------------
(***************************************************************************)
(* A mutex_t of kernel/thread.c on top of the scheduler.  mutexLock() and  *)
(* mutex_unlock() exclude other threads with g_preemption_disabled, not    *)
(* with the interrupt flag: between two steps of theirs interrupts arrive, *)
(* but no other thread runs, except in mutexWait(), which gives up the CPU *)
(* in the middle of the critical section.                                  *)
(***************************************************************************)
EXTENDS Thread

CONSTANT mutex   \* the mutex_t, named by its waitQueue

ASSUME MutexAssumption == mutex \in WaitQueues

VARIABLES
  locked,   \* mutex->locked
  holder,   \* mutex->owner
  stage     \* how far each thread is in mutexLock and mutex_unlock

mutexVars == <<vars, locked, holder, stage>>

MutexInit ==
  /\ Init
  /\ locked = FALSE
  /\ holder = NoThread
  /\ stage = [t \in Threads |-> "none"]

At(s) == stage[current] = s
Reach(s) == stage' = [stage EXCEPT ![current] = s]

-----------------------------------------------------------------------------
(* mutexLock.  It tests locked again whenever mutexWait() has returned.    *)
(* A Mutant is a plausible bug in the definition that follows it.          *)

lockBegins ==
  /\ At("none")
  /\ disablePreemption
  /\ Reach("locking")
  /\ UNCHANGED <<locked, holder>>

lockWaits ==
  /\ At("locking") /\ locked
  /\ mutexWait(mutex)
  /\ UNCHANGED <<locked, holder, stage>>

MutantLockTakes ==
  /\ At("locking")
  /\ enablePreemption
  /\ locked' = TRUE
  /\ holder' = current
  /\ Reach("holding")

lockTakes ==
  /\ At("locking") /\ ~locked
  /\ enablePreemption
  /\ locked' = TRUE
  /\ holder' = current
  /\ Reach("holding")

mutexLock == lockBegins \/ lockWaits \/ lockTakes

-----------------------------------------------------------------------------
(* mutex_unlock.                                                           *)

mutexHeld == locked /\ holder = current

unlockBegins ==
  /\ At("holding")
  /\ IF mutexHeld
       THEN /\ disablePreemption
            /\ locked' = FALSE
            /\ holder' = NoThread
            /\ Reach("unlocking")
       ELSE /\ Executing("run") /\ KASSERTFails
            /\ UNCHANGED <<locked, holder, stage>>

unlockWakes ==
  /\ At("unlocking")
  /\ wakeOne(mutex)
  /\ Reach("unlocked")
  /\ UNCHANGED <<locked, holder>>

MutantUnlockReturns ==
  /\ At("unlocking") \/ At("unlocked")
  /\ enablePreemption
  /\ Reach("none")
  /\ UNCHANGED <<locked, holder>>

unlockReturns ==
  /\ \/ At("unlocking") /\ queue[mutex] = <<>>
     \/ At("unlocked")
  /\ enablePreemption
  /\ Reach("none")
  /\ UNCHANGED <<locked, holder>>

mutex_unlock == unlockBegins \/ unlockWakes \/ unlockReturns

(***************************************************************************)
(* Every other step of the kernel.  Only the mutex uses its wait queue,    *)
(* only mutexes disable preemption, and a thread that exits has unlocked.  *)
(***************************************************************************)
others ==
  /\ \/ schedule \/ launchKernelThread \/ iret \/ timerHandler
     \/ spawnThread \/ joins \/ reap
     \/ exits /\ At("none")
     \/ yield \/ (\E ms \in SleepMillis : sleep(ms)) \/ resumeRunning
     \/ begIntAtomic \/ endIntAtomic
     \/ \E q \in WaitQueues \ {mutex} : wait(q) \/ wakeOne(q) \/ wakeWaiters(q)
     \/ mutexWaitReturns
     \/ khalt
  /\ UNCHANGED <<locked, holder, stage>>

MutexNext == mutexLock \/ mutex_unlock \/ others

MutexSpec == MutexInit /\ [][MutexNext]_mutexVars

-----------------------------------------------------------------------------

(***************************************************************************)
(* locked and owner say who is between mutexLock() and mutex_unlock():     *)
(* one thread when it is locked, and nobody when it is not.                *)
(***************************************************************************)
HolderAlone ==
  /\ locked <=> holder # NoThread
  /\ \A t \in Threads : stage[t] = "holding" <=> holder = t

(***************************************************************************)
(* mutex_unlock() wakes one waiter, and a third thread may take the mutex  *)
(* before that one runs again.  Still nobody waits for a mutex that no one *)
(* holds, unless somebody is about to wake a waiter or to take it.         *)
(***************************************************************************)
WaitersNotForgotten ==
  queue[mutex] # <<>> =>
    \/ locked
    \/ \E t \in Threads : stage[t] = "unlocking"
    \/ \E t \in Threads \ On(mutex) : stage[t] = "locking"

(***************************************************************************)
(* g_preemption_disabled is one flag for the machine but belongs to the    *)
(* running thread: mutexWait() gives it up and takes it back, so that it   *)
(* is set exactly while the running thread is in its section.              *)
(***************************************************************************)
PreemptionFlagOwned ==
  /\ preemptionDisabled <=> pc[current] = "nopreempt"
  /\ \A t \in Threads : pc[t] = "nopreempt" => t = current

(***************************************************************************)
(* The mutex is a lock.                                                    *)
(***************************************************************************)
Promise == INSTANCE Lock WITH
  Nobody <- NoThread,
  wanting <- {t \in Threads : stage[t] = "locking"}

Implements == Promise!Spec
=============================================================================
