---------------------------- MODULE MutexProofs ----------------------------
(***************************************************************************)
(* Proofs about Mutex: every step of it is a step of Thread, so that what  *)
(* ThreadProofs and ThreadSafety show holds here too, the mutex is a lock, *)
(* and no waiter is left behind, for any number of threads.                *)
(***************************************************************************)
EXTENDS Mutex, ThreadSafety

(* The history that HolderAlone needs, and where a mutex user can be.      *)
MutexInv ==
  /\ Inv
  /\ locked \in BOOLEAN
  /\ holder \in Threads \cup {NoThread}
  /\ stage \in [Threads -> {"none", "locking", "holding", "unlocking", "unlocked"}]
  /\ HolderAlone

(* In the initial state nobody holds the mutex.                            *)
LEMMA MutexInitInv == MutexInit => MutexInv
<1>1. MutexInit => Inv
  BY InitInv DEF MutexInit
<1>2. MutexInit => HolderAlone
  BY ThreadAssumption DEF MutexInit, HolderAlone, ThreadAssumption
<1> QED BY <1>1, <1>2 DEF MutexInit, MutexInv

(* The mutex calls what Thread lets its clients call.                      *)
LEMMA MutexStepsAreSteps ==
  ASSUME MutexInv, [MutexNext]_mutexVars
  PROVE  [Next]_vars
<1>1. current \in Threads
  BY DEF MutexInv, Inv, TypeOK
<1>2. CASE UNCHANGED mutexVars
  BY <1>2 DEF mutexVars
<1>3. CASE lockBegins
  BY <1>3 DEF lockBegins, Next, mutexes
<1>4. CASE lockWaits
  BY <1>4, MutexAssumption DEF lockWaits, Next, mutexes, MutexAssumption
<1>5. CASE lockTakes
  BY <1>5 DEF lockTakes, Next, mutexes
<1>6. CASE unlockBegins
  <2>1. mutexHeld
    BY <1>1, <1>6, ThreadAssumption
    DEF unlockBegins, At, mutexHeld, MutexInv, HolderAlone, ThreadAssumption
  <2> QED BY <1>6, <2>1 DEF unlockBegins, Next, mutexes
<1>7. CASE unlockWakes
  BY <1>7, MutexAssumption DEF unlockWakes, Next, blocks, MutexAssumption
<1>8. CASE unlockReturns
  BY <1>8 DEF unlockReturns, Next, mutexes
<1>9. CASE others
  BY <1>9 DEF others, Next, blocks, mutexes
<1> QED
  BY <1>2, <1>3, <1>4, <1>5, <1>6, <1>7, <1>8, <1>9
  DEF MutexNext, mutexLock, mutex_unlock

(* What each operation does to the mutex, seen as a lock.                  *)
wanting == {t \in Threads : stage[t] = "locking"}

(* Each operation keeps HolderAlone and is a step of Lock or none. *)
LEMMA MutexSteps ==
  ASSUME MutexInv, [MutexNext]_mutexVars
  PROVE  /\ locked' \in BOOLEAN
         /\ holder' \in Threads \cup {NoThread}
         /\ stage' \in [Threads -> {"none", "locking", "holding", "unlocking", "unlocked"}]
         /\ HolderAlone'
         /\ [Promise!Next]_<<wanting, holder>>
<1> PICK t \in Threads : t = current
  BY DEF MutexInv, Inv, TypeOK
<1>0. /\ locked \in BOOLEAN /\ holder \in Threads \cup {NoThread}
      /\ stage \in [Threads -> {"none", "locking", "holding", "unlocking", "unlocked"}]
      /\ locked <=> holder # NoThread
      /\ \A u \in Threads : stage[u] = "holding" <=> holder = u
      /\ NoThread \notin Threads
  BY ThreadAssumption DEF MutexInv, HolderAlone, ThreadAssumption
<1>1. CASE UNCHANGED <<locked, holder, stage>>
  <2>1. HolderAlone'
    BY <1>0, <1>1 DEF HolderAlone
  <2>2. UNCHANGED <<wanting, holder>>
    BY <1>1 DEF wanting
  <2> QED BY <1>0, <1>1, <2>1, <2>2
<1>2. CASE lockBegins
  <2>1. /\ stage' = [stage EXCEPT ![t] = "locking"] /\ stage[t] = "none"
        /\ locked' = locked /\ holder' = holder
    BY <1>2 DEF lockBegins, At, Reach
  <2>2. HolderAlone'
    BY <1>0, <2>1 DEF HolderAlone
  <2>3. Promise!request(t)
    BY <1>0, <2>1 DEF Promise!request
  <2>4. Promise!Next
    BY <2>3 DEF Promise!Next
  <2> QED BY <1>0, <2>1, <2>2, <2>4
<1>3. CASE lockTakes
  <2>1. /\ stage' = [stage EXCEPT ![t] = "holding"] /\ stage[t] = "locking"
        /\ ~locked /\ locked' = TRUE /\ holder' = t
    BY <1>3 DEF lockTakes, At, Reach
  <2>2. HolderAlone'
    BY <1>0, <2>1 DEF HolderAlone
  <2>3. Promise!acquire(t)
    BY <1>0, <2>1 DEF Promise!acquire
  <2>4. Promise!Next
    BY <2>3 DEF Promise!Next
  <2> QED BY <1>0, <2>1, <2>2, <2>4
<1>4. CASE unlockBegins /\ mutexHeld
  <2>1. /\ stage' = [stage EXCEPT ![t] = "unlocking"] /\ stage[t] = "holding"
        /\ locked' = FALSE /\ holder' = NoThread /\ holder = t
    BY <1>4 DEF unlockBegins, mutexHeld, At, Reach
  <2>2. HolderAlone'
    BY <1>0, <2>1 DEF HolderAlone
  <2>3. Promise!release(t)
    BY <1>0, <2>1 DEF Promise!release
  <2>4. Promise!Next
    BY <2>3 DEF Promise!Next
  <2> QED BY <1>0, <2>1, <2>2, <2>4
<1>5. CASE unlockWakes \/ unlockReturns
  <2>1. PICK s \in {"none", "unlocked"} :
          /\ stage' = [stage EXCEPT ![t] = s] /\ stage[t] \in {"unlocking", "unlocked"}
          /\ locked' = locked /\ holder' = holder
    BY <1>5 DEF unlockWakes, unlockReturns, At, Reach
  <2>2. HolderAlone'
    BY <1>0, <2>1 DEF HolderAlone
  <2>3. wanting' = wanting
    BY <1>0, <2>1 DEF wanting
  <2> QED BY <1>0, <2>1, <2>2, <2>3
<1>6. CASE unlockBegins /\ ~mutexHeld
  BY <1>1, <1>6 DEF unlockBegins
<1>7. CASE lockWaits \/ others \/ UNCHANGED mutexVars
  BY <1>1, <1>7 DEF lockWaits, others, mutexVars
<1> QED
  BY <1>2, <1>3, <1>4, <1>5, <1>6, <1>7 DEF MutexNext, mutexLock, mutex_unlock
(* Every step of a system with a mutex preserves both invariants.          *)
LEMMA MutexNextInv ==
  ASSUME OwnersOnly, MutexInv, [MutexNext]_mutexVars
  PROVE  MutexInv'
<1>1. Inv'
  BY MutexStepsAreSteps, NextInv DEF MutexInv
<1> QED BY <1>1, MutexSteps DEF MutexInv

(***************************************************************************)
(* At most one thread is between mutexLock() and mutex_unlock(), and       *)
(* locked and owner say which.                                             *)
(***************************************************************************)
THEOREM MutualExclusion == ASSUME OwnersOnly PROVE MutexSpec => []HolderAlone
<1>1. MutexInit => MutexInv
  BY MutexInitInv
<1>2. MutexInv /\ [MutexNext]_mutexVars => MutexInv'
  BY MutexNextInv
<1>3. MutexInv => HolderAlone
  BY DEF MutexInv
<1> QED
  BY <1>1, <1>2, <1>3, PTL DEF MutexSpec

(***************************************************************************)
(* mutexLock() and mutex_unlock() implement Lock.                          *)
(***************************************************************************)
THEOREM MutexIsLock == ASSUME OwnersOnly PROVE MutexSpec => Implements
<1>1. MutexInit => MutexInv /\ Promise!Init
  BY MutexInitInv DEF MutexInit, Promise!Init
<1>2. MutexInv /\ [MutexNext]_mutexVars => MutexInv'
  BY MutexNextInv
<1>3. MutexInv /\ [MutexNext]_mutexVars => [Promise!Next]_<<wanting, holder>>
  BY MutexSteps
<1> QED
  BY <1>1, <1>2, <1>3, PTL DEF MutexSpec, Implements, Promise!Spec, wanting

(***************************************************************************)
(* A system with mutexes is a system as Thread describes it: with them,    *)
(* too, no thread is in two queues.                                        *)
(***************************************************************************)
THEOREM MutexThreadsApart == ASSUME OwnersOnly PROVE MutexSpec => []OnePlaceOnly
<1>1. MutexInit => MutexInv
  BY MutexInitInv
<1>2. MutexInv /\ [MutexNext]_mutexVars => MutexInv'
  BY MutexNextInv
<1>3. MutexInv => OnePlaceOnly
  BY DEF MutexInv, Inv
<1> QED
  BY <1>1, <1>2, <1>3, PTL DEF MutexSpec

-----------------------------------------------------------------------------
(* The preemption flag and the waiters.                                    *)

(* What the flag says after a step that leaves it and the labels alone. *)
LEMMA FlagStays ==
  ASSUME PreemptionFlagOwned, UNCHANGED <<current, preemptionDisabled, pc>>
  PROVE  PreemptionFlagOwned'
BY DEF PreemptionFlagOwned

(* The current thread goes on to a label that fits the flag. *)
LEMMA FlagGoto ==
  ASSUME TypeOK, PreemptionFlagOwned, UNCHANGED current, NEW label, Goto(label),
         preemptionDisabled' <=> label = "nopreempt"
  PROVE  PreemptionFlagOwned'
<1>1. /\ current \in Threads /\ pc'[current] = label
      /\ \A t \in Threads \ {current} : pc'[t] = pc[t]
  BY DEF TypeOK, Goto
<1> QED
  BY <1>1 DEF PreemptionFlagOwned

(***************************************************************************)
(* No step of the kernel takes the flag away from the thread that set it:  *)
(* schedule() is only reached with the flag clear.                         *)
(***************************************************************************)
LEMMA FlagNext ==
  ASSUME Inv, LabelsInv, PreemptionFlagOwned, [Next]_vars
  PROVE  PreemptionFlagOwned'
<1> USE DEF schedVars, clockVars, lifeVars, Executing
<1>0. /\ TypeOK /\ current \in Threads
      /\ preemptionDisabled <=> pc[current] = "nopreempt"
  BY DEF Inv, TypeOK, PreemptionFlagOwned
<1>1. CASE schedule
  <2>1. CASE switchToThread /\ ~KASSERTFails
    <3>1. ~preemptionDisabled /\ UNCHANGED <<pc, preemptionDisabled>>
      BY <2>1 DEF switchToThread
    <3>2. \A t \in Threads : pc[t] # "nopreempt"
      BY <1>0, <3>1 DEF PreemptionFlagOwned
    <3>3. current' \in Threads
      BY <2>1, SwitchStep DEF Inv, TypeOK
    <3> QED
      BY <3>1, <3>2, <3>3 DEF PreemptionFlagOwned
  <2>2. CASE wakeSleepersWake \/ wakeSleepersSkip \/ KASSERTFails
    BY <2>2, FlagStays DEF wakeSleepersWake, wakeSleepersSkip, KASSERTFails
  <2> QED
    BY <1>1, <2>1, <2>2 DEF schedule
<1>2. CASE timerHandler \/ iret \/ khalt \/ UNCHANGED vars
  BY <1>2, FlagStays DEF timerHandler, timerTick, timerPreempts, iret, khalt, vars
<1>3. CASE launchKernelThread
  <2>1. PICK label \in {"destroy", "run"} : Goto(label)
    BY <1>3 DEF launchKernelThread
  <2>2. pc[current] # "nopreempt" /\ UNCHANGED <<current, preemptionDisabled>>
    BY <1>3 DEF launchKernelThread
  <2> QED
    BY <1>0, <2>1, <2>2, FlagGoto
<1>4. CASE spawnThread
  <2>1. ASSUME NEW t \in Threads, NEW detached \in BOOLEAN, createThread(t, detached)
        PROVE  PreemptionFlagOwned'
    <3>1. /\ pc[current] = "run" /\ UNCHANGED <<current, preemptionDisabled>>
          /\ pc'[t] = "created" /\ pc'[current] = "spawn"
          /\ \A u \in Threads \ {t, current} : pc'[u] = pc[u]
      <4>1. pc[current] = "run" /\ pc[t] = "free"
        BY <2>1 DEF createThread
      <4> QED
        BY <1>0, <2>1, <4>1 DEF createThread, TypeOK
    <3> QED
      BY <1>0, <3>1 DEF PreemptionFlagOwned
  <2>2. CASE createThreadFails
    BY <2>2, FlagStays DEF createThreadFails
  <2>3. CASE makeRunnableAtomic
    <3> DEFINE t == target[current]
    <3>1. /\ pc[current] = "spawn" /\ t \in Threads /\ pc[t] = "created"
          /\ UNCHANGED <<current, preemptionDisabled>>
      BY <1>0, <2>3 DEF makeRunnableAtomic, Inv, SpawnersApart
    <3>2. /\ pc'[t] = "launch" /\ pc'[current] = "run"
          /\ \A u \in Threads \ {t, current} : pc'[u] = pc[u]
      BY <1>0, <2>3, <3>1 DEF makeRunnableAtomic, TypeOK
    <3> HIDE DEF t
    <3> QED
      BY <1>0, <3>1, <3>2 DEF PreemptionFlagOwned
  <2> QED
    BY <1>4, <2>1, <2>2, <2>3 DEF spawnThread
<1>5. CASE exits \/ joins
  <2>1. CASE KASSERTFails \/ joinWaits
    BY <2>1, FlagStays DEF KASSERTFails, joinWaits
  <2>2. CASE (detachSelf \/ joinReturns) /\ ~KASSERTFails
    BY <1>0, <2>2, FlagGoto DEF detachSelf, joinReturns
  <2>3. CASE callDestructor \/ destructorReturns \/ notifyJoiners
    BY <1>0, <2>3, FlagGoto DEF callDestructor, destructorReturns, notifyJoiners
  <2>4. CASE (\E n \in 0..MaxDestructors : exit(n)) \/ (\E t \in Threads : join(t))
    BY <1>0, <2>4, FlagGoto DEF exit, join
  <2> QED
    BY <1>5, <2>1, <2>2, <2>3, <2>4 DEF exits, joins
<1>6. CASE reap
  <2>1. CASE reaperWaits
    BY <2>1, FlagStays DEF reaperWaits
  <2>2. CASE reaperTakes \/ reaperYields \/ reaperResumes \/ reaperLoops
    BY <1>0, <2>2, FlagGoto DEF reaperTakes, reaperYields, reaperResumes, reaperLoops
  <2>3. CASE destroyThread
    <3>1. /\ \A t \in Threads : pc'[t] = pc[t] \/ (pc'[t] = "free" /\ pc[t] = "dead")
          /\ UNCHANGED <<current, preemptionDisabled>>
      <4>1. Head(chain) \in Threads /\ pc[Head(chain)] = "dead"
        <5>1. 1 \in DOMAIN chain /\ chain[1] = Head(chain)
          BY <1>0, <2>3, EmptySeq, LenProperties DEF destroyThread, TypeOK
        <5>2. chain[1] \in Threads
          BY <1>0, <5>1, LenProperties DEF TypeOK
        <5> QED
          BY <5>1, <5>2 DEF Inv, ChainDead
      <4> QED
        BY <1>0, <2>3, <4>1 DEF destroyThread, TypeOK
    <3> QED
      BY <1>0, <3>1 DEF PreemptionFlagOwned
  <2> QED
    BY <1>6, <2>1, <2>2, <2>3 DEF reap
<1>7. CASE blocks
  <2>1. CASE yield \/ resumeRunning \/ begIntAtomic \/ endIntAtomic
    BY <1>0, <2>1, FlagGoto DEF yield, resumeRunning, begIntAtomic, endIntAtomic
  <2>2. CASE \E ms \in SleepMillis : sleep(ms)
    BY <1>0, <2>2, FlagGoto, FlagStays DEF sleep
  <2>3. CASE \E q \in WaitQueues : wait(q) \/ wakeOne(q) \/ wakeWaiters(q)
    BY <2>3, FlagStays DEF wait, wakeOne, wakeWaiters
  <2> QED
    BY <1>7, <2>1, <2>2, <2>3 DEF blocks
<1>8. CASE mutexes
  BY <1>0, <1>8, FlagGoto DEF mutexes, disablePreemption, enablePreemption, mutexWait,
     mutexWaitReturns
<1> QED
  BY <1>1, <1>2, <1>3, <1>4, <1>5, <1>6, <1>7, <1>8 DEF Next

(* Who waits for the mutex is in mutexLock(). *)
WaitersLock == \A t \in On(mutex) : t \in Threads /\ stage[t] = "locking"

(* Another queue than the mutex's: an operation on it leaves the waiters. *)
LEMMA OtherQueues ==
  ASSUME TypeOK, NEW q \in QueueIds \ {mutex}
  PROVE  /\ \A t : enqueueThread(queue, q, t)[mutex] = queue[mutex]
         /\ threadQueueClear(queue, q)[mutex] = queue[mutex]
         /\ wakeAll(queue, q)[mutex] = queue[mutex]
         /\ \A i : dequeueThread(queue, q, i)[mutex] = queue[mutex]
         /\ \A i : wakeNth(queue, q, i)[mutex] = queue[mutex]
         /\ \A t \in Threads : reapThread(t)[mutex] = queue[mutex]
<1>1. /\ queue \in [QueueIds -> Seq(Threads)] /\ mutex \in QueueIds
      /\ mutex \notin {"runQueue", "graveyardQueue", "reaperWaitQueue"}
  BY ThreadAssumption, MutexAssumption DEF TypeOK, QueueIds, KernelQueues
<1>2. {"runQueue", "graveyardQueue", "reaperWaitQueue"} \subseteq QueueIds
  BY QueueNames
<1> QED
  BY <1>1, <1>2 DEF enqueueThread, threadQueueClear, wakeAll, dequeueThread, wakeNth, reapThread

(* Nothing but the mutex touches its wait queue. *)
LEMMA OthersKeepWaiters ==
  ASSUME Inv, others
  PROVE  queue'[mutex] = queue[mutex]
<1> USE DEF schedVars, Executing
<1>0. TypeOK /\ current \in Threads
  BY DEF Inv, TypeOK
<1>1. /\ {"runQueue", "sleepQueue", "reaperWaitQueue", "graveyardQueue"} \subseteq QueueIds \ {mutex}
      /\ Threads \subseteq QueueIds \ {mutex}
      /\ WaitQueues \subseteq QueueIds
  BY ThreadAssumption, MutexAssumption, QueueNames DEF QueueIds, KernelQueues
<1>2. CASE schedule
  BY <1>0, <1>1, <1>2, OtherQueues DEF schedule, wakeSleepersWake, wakeSleepersSkip,
     switchToThread, KASSERTFails
<1>3. CASE launchKernelThread \/ iret \/ resumeRunning \/ begIntAtomic \/ endIntAtomic
             \/ mutexWaitReturns \/ khalt
  BY <1>3 DEF launchKernelThread, iret, resumeRunning, begIntAtomic, endIntAtomic,
     mutexWaitReturns, khalt, vars
<1>4. CASE timerHandler
  BY <1>0, <1>1, <1>4, OtherQueues DEF timerHandler, timerTick, timerPreempts
<1>5. CASE spawnThread
  BY <1>0, <1>1, <1>5, OtherQueues DEF spawnThread, createThread, createThreadFails,
     makeRunnableAtomic
<1>6. CASE joins
  <2>1. CASE \E t \in Threads : join(t)
    BY <2>1 DEF join
  <2>2. CASE joinWaits \/ joinReturns
    <3>1. target[current] \in Threads
      BY <1>0, <2>2 DEF joinWaits, joinReturns, Inv, HandlesCounted, TypeOK
    <3> QED
      BY <1>0, <1>1, <2>2, <3>1, OtherQueues DEF joinWaits, joinReturns, KASSERTFails,
         detachThread, reapIfUnreferenced
  <2> QED
    BY <1>6, <2>1, <2>2 DEF joins
<1>7. CASE reap
  BY <1>0, <1>1, <1>7, OtherQueues DEF reap, reaperWaits, reaperTakes, reaperYields,
     reaperResumes, destroyThread, reaperLoops
<1>8. CASE exits
  BY <1>0, <1>1, <1>8, OtherQueues DEF exits, exit, callDestructor, destructorReturns,
     notifyJoiners, detachSelf, KASSERTFails, detachThread, reapIfUnreferenced
<1>9. CASE yield \/ \E ms \in SleepMillis : sleep(ms)
  BY <1>0, <1>1, <1>9, OtherQueues DEF yield, sleep
<1>10. CASE \E q \in WaitQueues \ {mutex} : wait(q) \/ wakeOne(q) \/ wakeWaiters(q)
  BY <1>0, <1>1, <1>10, OtherQueues DEF wait, wakeOne, wakeWaiters
<1> QED
  BY <1>2, <1>3, <1>4, <1>5, <1>6, <1>7, <1>8, <1>9, <1>10 DEF others

(* Nobody waits at the start. *)
LEMMA InitWaiters == MutexInit => WaitersLock /\ WaitersNotForgotten /\ PreemptionFlagOwned
<1> SUFFICES ASSUME MutexInit PROVE WaitersLock /\ WaitersNotForgotten /\ PreemptionFlagOwned
  OBVIOUS
<1>1. mutex \in QueueIds /\ mutex # "runQueue"
  BY ThreadAssumption, MutexAssumption DEF QueueIds, KernelQueues
<1>2. queue[mutex] = <<>> /\ Range(<<>>) = {}
  BY <1>1 DEF MutexInit, Init, Range
<1>3. PreemptionFlagOwned
  BY ThreadAssumption DEF MutexInit, Init, PreemptionFlagOwned
<1> QED
  BY <1>2, <1>3 DEF WaitersLock, WaitersNotForgotten, On

(***************************************************************************)
(* A waiter that is woken is in mutexLock() and on no queue of the mutex:  *)
(* the unlocking thread hands its promise to the waiters on to it.         *)
(***************************************************************************)
LEMMA WaitersNext ==
  ASSUME MutexInv, WaitersLock, WaitersNotForgotten, [MutexNext]_mutexVars
  PROVE  WaitersLock' /\ WaitersNotForgotten'
<1> PICK t \in Threads : t = current
  BY DEF MutexInv, Inv, TypeOK
<1>0. /\ stage \in [Threads -> {"none", "locking", "holding", "unlocking", "unlocked"}]
      /\ Inv /\ TypeOK /\ Queues(queue) /\ mutex \in QueueIds \ {"runQueue"}
      /\ On(mutex) \subseteq Threads
      /\ scan = 0 => t \notin On(mutex)
  BY OnFacts, QueueNames, MutexAssumption DEF MutexInv, Inv
<1>1. CASE UNCHANGED <<locked, holder, stage>> /\ queue'[mutex] = queue[mutex]
  BY <1>1 DEF WaitersLock, WaitersNotForgotten, On
<1>2. CASE lockBegins \/ unlockBegins
  <2>1. CASE UNCHANGED stage
    <3>1. UNCHANGED <<locked, queue>>
      BY <1>0, <1>2, <2>1 DEF lockBegins, unlockBegins, At, Reach, KASSERTFails, schedVars
    <3> QED
      BY <2>1, <3>1 DEF WaitersLock, WaitersNotForgotten, On
  <2>2. CASE ~UNCHANGED stage
    <3>1. PICK s \in {"locking", "unlocking"} :
            /\ stage[t] \in {"none", "holding"} /\ stage' = [stage EXCEPT ![t] = s]
            /\ queue' = queue
            /\ s = "locking" => locked' = locked
      BY <1>2, <2>2 DEF lockBegins, unlockBegins, At, Reach, disablePreemption, schedVars
    <3>2. t \notin On(mutex)
      BY <3>1 DEF WaitersLock
    <3>3. On(mutex)' = On(mutex)
      BY <3>1 DEF On
    <3>4. WaitersLock'
      BY <1>0, <3>1, <3>2, <3>3 DEF WaitersLock
    <3>5. WaitersNotForgotten'
      BY <1>0, <3>1, <3>3 DEF WaitersNotForgotten
    <3> QED
      BY <3>4, <3>5
  <2> QED
    BY <2>1, <2>2
<1>3. CASE lockWaits
  <2>1. /\ stage[t] = "locking" /\ locked /\ UNCHANGED <<locked, stage>>
        /\ queue' = enqueueThread(queue, mutex, t) /\ scan = 0
    BY <1>3 DEF lockWaits, At, mutexWait, Executing
  <2>2. t \notin QueuedIn(queue)
    BY <1>0, <2>1, OnFacts DEF Queued
  <2> DEFINE rs == enqueueThread(queue, mutex, t)
  <2>3. \A p \in QueueIds : Range(rs[p]) =
          IF p = mutex THEN Range(queue[p]) \cup {t} ELSE Range(queue[p])
    <3>1. Queues(queue) /\ mutex \in QueueIds
      BY <1>0
    <3> QED
      BY <2>2, <3>1, EnqueueLemma
  <2> HIDE DEF rs
  <2>4. On(mutex)' = On(mutex) \cup {t}
    BY <1>0, <2>1, <2>3 DEF On, rs
  <2> QED
    BY <2>1, <2>4 DEF WaitersLock, WaitersNotForgotten
<1>4. CASE lockTakes
  <2>1. /\ stage' = [stage EXCEPT ![t] = "holding"] /\ locked' /\ queue' = queue /\ scan = 0
    BY <1>4 DEF lockTakes, Reach, enablePreemption, schedVars, Executing
  <2>2. t \notin On(mutex) /\ On(mutex)' = On(mutex)
    BY <1>0, <2>1 DEF On
  <2> QED
    BY <1>0, <2>1, <2>2 DEF WaitersLock, WaitersNotForgotten
<1>5. CASE unlockWakes
  <2>1. /\ stage[t] = "unlocking" /\ stage' = [stage EXCEPT ![t] = "unlocked"]
        /\ queue[mutex] # <<>> /\ queue' = wakeNth(queue, mutex, 1)
    BY <1>5 DEF unlockWakes, At, Reach, wakeOne
  <2> DEFINE r  == queue[mutex][1]
             rs == wakeNth(queue, mutex, 1)
  <2>2. 1 \in DOMAIN queue[mutex]
    BY <1>0, <2>1, EmptySeq DEF Queues
  <2>3. Woken(queue, mutex, r, rs)
    BY <1>0, <2>2, WakeNthLemma
  <2>4. queue' = rs
    BY <2>1
  <2> HIDE DEF r, rs
  <2>5. r \in On(mutex) /\ On(mutex)' = On(mutex) \ {r}
    BY <1>0, <2>3, <2>4 DEF On, Woken
  <2>6. r \in Threads /\ stage[r] = "locking" /\ r # t /\ t \notin On(mutex)
    BY <2>1, <2>5 DEF WaitersLock
  <2>7. WaitersLock'
    BY <1>0, <2>1, <2>5, <2>6 DEF WaitersLock
  <2>8. r \in Threads \ On(mutex)' /\ stage'[r] = "locking"
    BY <1>0, <2>1, <2>5, <2>6
  <2> QED
    BY <2>7, <2>8 DEF WaitersNotForgotten
<1>6. CASE unlockReturns
  <2>1. /\ stage' = [stage EXCEPT ![t] = "none"] /\ queue' = queue /\ locked' = locked
        /\ stage[t] = "unlocked" \/ (stage[t] = "unlocking" /\ queue[mutex] = <<>>)
    BY <1>6 DEF unlockReturns, At, Reach, enablePreemption, schedVars
  <2>2. t \notin On(mutex) /\ On(mutex)' = On(mutex)
    BY <2>1 DEF On, WaitersLock
  <2>3. WaitersLock'
    BY <1>0, <2>1, <2>2 DEF WaitersLock
  <2>4. WaitersNotForgotten'
    BY <1>0, <2>1, <2>2 DEF WaitersNotForgotten
  <2> QED
    BY <2>3, <2>4
<1>7. CASE others
  BY <1>0, <1>1, <1>7, OthersKeepWaiters DEF others
<1>8. CASE UNCHANGED mutexVars
  BY <1>1, <1>8 DEF mutexVars, vars, schedVars
<1> QED
  BY <1>2, <1>3, <1>4, <1>5, <1>6, <1>7, <1>8 DEF MutexNext, mutexLock, mutex_unlock

(* All that holds of a system with a mutex. *)
MutexSafe ==
  /\ MutexInv /\ SafeInv /\ PreemptionFlagOwned /\ WaitersLock /\ WaitersNotForgotten

(* At the start. *)
LEMMA MutexInitSafe == MutexInit => MutexSafe
BY MutexInitInv, InitSafe, InitWaiters DEF MutexInit, MutexSafe

(* Every step keeps all of it. *)
LEMMA MutexNextSafe ==
  ASSUME OwnersOnly, MutexSafe, [MutexNext]_mutexVars
  PROVE  MutexSafe'
<1>1. [Next]_vars /\ MutexInv /\ MutexInv'
  BY MutexStepsAreSteps, MutexNextInv DEF MutexSafe
<1>2. SafeInv'
  BY <1>1, NextInv, NextLabels, NextWaits, AssertsNext DEF MutexSafe, SafeInv
<1>3. PreemptionFlagOwned'
  BY <1>1, FlagNext DEF MutexSafe, SafeInv
<1> QED
  BY <1>1, <1>2, <1>3, WaitersNext DEF MutexSafe

(***************************************************************************)
(* Threads with mutexes behave: what ThreadSafety shows of the scheduler   *)
(* and what the mutex adds hold together.                                  *)
(***************************************************************************)
THEOREM MutexSafety == ASSUME OwnersOnly PROVE MutexSpec => []MutexSafe
<1>1. MutexInit => MutexSafe
  BY MutexInitSafe
<1>2. MutexSafe /\ [MutexNext]_mutexVars => MutexSafe'
  BY MutexNextSafe
<1> QED
  BY <1>1, <1>2, PTL DEF MutexSpec

(* g_preemption_disabled is set exactly while its owner runs.              *)
THEOREM FlagNeverStolen == ASSUME OwnersOnly PROVE MutexSpec => []PreemptionFlagOwned
<1>1. MutexSafe => PreemptionFlagOwned
  BY DEF MutexSafe
<1> QED
  BY <1>1, MutexSafety, PTL

(* Nobody waits for a mutex that is free unless somebody is about to act.  *)
THEOREM WaitersRemembered == ASSUME OwnersOnly PROVE MutexSpec => []WaitersNotForgotten
<1>1. MutexSafe => WaitersNotForgotten
  BY DEF MutexSafe
<1> QED
  BY <1>1, MutexSafety, PTL

(* No KASSERT fails, that of mutex_unlock() among them.                    *)
THEOREM MutexAssertions == ASSUME OwnersOnly PROVE MutexSpec => []AssertionsHold
<1>1. MutexSafe => AssertionsHold
  BY DEF MutexSafe, SafeInv, AssertionsHold, Inv, CurrentPlaced, Executing, TypeOK
<1> QED
  BY <1>1, MutexSafety, PTL
=============================================================================
