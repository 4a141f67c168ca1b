---------------------------- MODULE SleepProofs -----------------------------
(***************************************************************************)
(* Proofs about Sleep: who sleeps has a deadline that is as far away as    *)
(* what is left of the sleep, and wakeSleepers() leaves nobody behind      *)
(* whose deadline has come.                                                *)
(***************************************************************************)
EXTENDS Sleep, ThreadProofs

-----------------------------------------------------------------------------
(* Steps of Sleep are steps of Thread.                                     *)

LEMMA SleepStepsAreSteps == [SleepNext]_sleepVars => [Next]_vars
<1>1. sleeps => Next
  BY DEF sleeps, Next, blocks
<1>2. tick => Next
  BY DEF tick, Next
<1> QED
  BY <1>1, <1>2 DEF SleepNext, others, sleepVars

LEMMA NextInvToo == ASSUME OwnersOnly, Inv, [SleepNext]_sleepVars PROVE Inv'
  BY NextInv, SleepStepsAreSteps

-----------------------------------------------------------------------------
(* Most steps let sleepers lie.                                            *)

SleepList == queue["sleepQueue"]

(* No sleeper is added, moved or given another deadline, and the walk of   *)
(* wakeSleepers() is where it was, at its start, or over.  Only the timer   *)
(* counts ticks.                                                           *)
Undisturbed ==
  /\ SleepList' = SleepList
  /\ \A i \in DOMAIN SleepList : sleepUntil'[SleepList[i]] = sleepUntil[SleepList[i]]
  /\ UNCHANGED <<scan, ticks>> \/ scan' \in {0, 1}
  /\ UNCHANGED ticks \/ timerHandler

(* What sleepers need of Inv. *)
LEMMA SleepFacts ==
  ASSUME Inv
  PROVE  /\ "sleepQueue" \in QueueIds /\ "sleepQueue" \notin Threads \cup WaitQueues
         /\ Queues(queue)
         /\ SleepList \in Seq(Threads)
         /\ DOMAIN SleepList = 1..Len(SleepList) /\ Len(SleepList) \in Nat
         /\ \A i \in DOMAIN SleepList :
              /\ SleepList[i] \in Threads
              /\ pc[SleepList[i]] # "free"
         /\ \A i, j \in DOMAIN SleepList : SleepList[i] = SleepList[j] => i = j
         /\ scan \in Nat /\ ticks \in Nat /\ ticks < TickModulus /\ current \in Threads
         /\ sleepUntil \in [Threads -> 0..TickModulus - 1]
<1>1. "sleepQueue" \in QueueIds /\ "sleepQueue" \notin Threads \cup WaitQueues
  BY ThreadAssumption DEF QueueIds, KernelQueues
<1>2. Queues(queue)
  BY DEF Inv, TypeOK, OnePlaceOnly, OnceQueued, Queues
<1>3. /\ SleepList \in Seq(Threads)
      /\ DOMAIN SleepList = 1..Len(SleepList) /\ Len(SleepList) \in Nat
      /\ \A i \in DOMAIN SleepList : SleepList[i] \in Threads /\ SleepList[i] \in Range(SleepList)
      /\ \A i, j \in DOMAIN SleepList : SleepList[i] = SleepList[j] => i = j
  BY <1>1, <1>2, QueuesFacts DEF SleepList
<1>4. \A t \in Range(SleepList) : pc[t] # "free"
  BY <1>1 DEF Inv, QueuesSorted, On, SleepList
<1>5. /\ scan \in Nat /\ current \in Threads
      /\ ticks \in 0..TickModulus - 1
      /\ sleepUntil \in [Threads -> 0..TickModulus - 1]
  BY DEF Inv, TypeOK
<1>6. ticks \in Nat /\ ticks < TickModulus
  BY <1>5, ThreadAssumption
<1> QED
  BY <1>1, <1>2, <1>3, <1>4, <1>5, <1>6

(* Other queues are filled, emptied and woken without it. *)
LEMMA OtherQueues ==
  ASSUME Inv, NEW q \in QueueIds, q # "sleepQueue", NEW t
  PROVE  /\ enqueueThread(queue, q, t)["sleepQueue"] = SleepList
         /\ \A i : dequeueThread(queue, q, i)["sleepQueue"] = SleepList
         /\ threadQueueClear(queue, q)["sleepQueue"] = SleepList
         /\ wakeAll(queue, q)["sleepQueue"] = SleepList
         /\ \A i : wakeNth(queue, q, i)["sleepQueue"] = SleepList
<1>1. queue \in [QueueIds -> Seq(Threads)] /\ {"sleepQueue", "runQueue"} \subseteq QueueIds
  BY DEF Inv, TypeOK, QueueIds, KernelQueues
<1> QED
  BY <1>1 DEF enqueueThread, dequeueThread, threadQueueClear, wakeAll, wakeNth, SleepList

LEMMA Reaping ==
  ASSUME Inv, NEW t, NEW n
  PROVE  reapIfUnreferenced(t, n)["sleepQueue"] = SleepList
<1>1. queue \in [QueueIds -> Seq(Threads)]
  BY DEF Inv, TypeOK
<1>2. {"sleepQueue", "runQueue", "graveyardQueue", "reaperWaitQueue"} \subseteq QueueIds
  BY DEF QueueIds, KernelQueues
<1> QED
  BY <1>1, <1>2 DEF reapIfUnreferenced, reapThread, enqueueThread, wakeAll, SleepList

(* Steps that change neither a queue nor a deadline. *)
LEMMA StepsWithoutQueues ==
  ASSUME \/ launchKernelThread \/ iret \/ createThreadFails \/ timerTick
         \/ callDestructor \/ destructorReturns \/ resumeRunning
         \/ begIntAtomic \/ endIntAtomic \/ disablePreemption
         \/ enablePreemption \/ mutexWaitReturns
         \/ reaperResumes \/ destroyThread \/ reaperLoops \/ KASSERTFails
         \/ UNCHANGED vars
         \/ \E n \in 0..MaxDestructors : exit(n)
         \/ \E t \in Threads : join(t)
  PROVE  Undisturbed
<1>1. /\ UNCHANGED <<queue, sleepUntil>>
      /\ UNCHANGED <<scan, ticks>> \/ scan' \in {0, 1}
      /\ UNCHANGED ticks \/ timerHandler
  <2>1. CASE timerTick
    <3>1. scan = 0
      BY <2>1 DEF timerTick, InterruptsEnabled, Executing
    <3> QED
      BY <2>1, <3>1 DEF timerTick, timerHandler
  <2>2. CASE launchKernelThread \/ iret \/ createThreadFails \/ KASSERTFails \/ UNCHANGED vars
    BY <2>2 DEF launchKernelThread, iret, createThreadFails, KASSERTFails, vars,
                schedVars, clockVars
  <2>3. CASE \/ callDestructor \/ destructorReturns
             \/ (\E n \in 0..MaxDestructors : exit(n)) \/ (\E t \in Threads : join(t))
    BY <2>3 DEF callDestructor, destructorReturns, exit, join, schedVars, clockVars
  <2>4. CASE \/ resumeRunning \/ begIntAtomic \/ endIntAtomic
             \/ disablePreemption \/ enablePreemption \/ mutexWaitReturns
    BY <2>4 DEF resumeRunning, begIntAtomic, endIntAtomic, disablePreemption,
                enablePreemption, mutexWaitReturns, schedVars, clockVars
  <2>5. CASE reaperResumes \/ destroyThread \/ reaperLoops
    BY <2>5 DEF reaperResumes, destroyThread, reaperLoops, schedVars, clockVars
  <2> QED
    BY <2>1, <2>2, <2>3, <2>4, <2>5
<1> QED
  BY <1>1 DEF Undisturbed, SleepList

(* Steps that put a thread onto another queue, or empty another queue. *)
LEMMA StepsOnOtherQueues ==
  ASSUME Inv,
         \/ yield \/ joinWaits \/ reaperWaits \/ reaperYields \/ timerPreempts
         \/ switchToThread \/ reaperTakes \/ notifyJoiners \/ makeRunnableAtomic
         \/ detachSelf \/ joinReturns
         \/ \E q \in WaitQueues : wait(q) \/ mutexWait(q) \/ wakeOne(q) \/ wakeWaiters(q)
  PROVE  Undisturbed
<1>1. /\ "runQueue" \in QueueIds /\ "graveyardQueue" \in QueueIds
      /\ "reaperWaitQueue" \in QueueIds
      /\ \A q \in Threads \cup WaitQueues : q \in QueueIds /\ q # "sleepQueue"
      /\ current \in Threads
  BY ThreadAssumption DEF QueueIds, KernelQueues, Inv, TypeOK
<1> DEFINE Moves ==
      /\ SleepList' = SleepList /\ UNCHANGED sleepUntil
      /\ UNCHANGED <<scan, ticks>> \/ scan' \in {0, 1}
      /\ UNCHANGED ticks \/ timerHandler
<1>2. ASSUME KASSERTFails PROVE Undisturbed
  BY <1>2, StepsWithoutQueues
<1>3. Moves \/ KASSERTFails
  <2>1. CASE yield \/ reaperYields \/ timerPreempts \/ makeRunnableAtomic
    BY <1>1, <2>1, OtherQueues
       DEF yield, reaperYields, timerPreempts, timerHandler, makeRunnableAtomic,
           clockVars, SleepList
  <2>2. CASE joinWaits
    <3>1. target[current] \in Threads
      BY <1>1, <2>2 DEF joinWaits, Executing, Inv, TypeOK, HandlesCounted
    <3> QED
      BY <1>1, <2>2, <3>1, OtherQueues DEF joinWaits, clockVars, SleepList
  <2>3. CASE reaperWaits \/ reaperTakes \/ notifyJoiners
    BY <1>1, <2>3, OtherQueues
       DEF reaperWaits, reaperTakes, notifyJoiners, clockVars, SleepList
  <2>4. CASE switchToThread
    BY <1>1, <2>4, OtherQueues DEF switchToThread, clockVars, SleepList
  <2>5. CASE detachSelf \/ joinReturns
    BY <2>5, Reaping DEF detachSelf, joinReturns, detachThread, clockVars, SleepList
  <2>6. ASSUME NEW q \in WaitQueues, wait(q) \/ mutexWait(q) \/ wakeOne(q) \/ wakeWaiters(q)
        PROVE  Moves
    BY <1>1, <2>6, OtherQueues DEF wait, mutexWait, wakeOne, wakeWaiters, clockVars, SleepList
  <2> QED
    BY <2>1, <2>2, <2>3, <2>4, <2>5, <2>6
<1> QED
  BY <1>2, <1>3 DEF Undisturbed

(* A thread is created in a page that no sleeper has. *)
LEMMA CreatedElsewhere ==
  ASSUME Inv, NEW t \in Threads, NEW detached \in BOOLEAN, createThread(t, detached)
  PROVE  Undisturbed
<1>1. t \in QueueIds /\ t # "sleepQueue"
  BY ThreadAssumption DEF QueueIds, KernelQueues
<1>2. SleepList' = SleepList
  BY <1>1, OtherQueues DEF createThread, SleepList
<1>3. \A i \in DOMAIN SleepList : sleepUntil'[SleepList[i]] = sleepUntil[SleepList[i]]
  <2>1. \A i \in DOMAIN SleepList : SleepList[i] \in Threads /\ SleepList[i] # t
    BY SleepFacts DEF createThread
  <2>2. sleepUntil' = [sleepUntil EXCEPT ![t] = 0]
    BY DEF createThread
  <2> QED
    BY <2>1, <2>2, SleepFacts
<1> QED
  BY <1>2, <1>3 DEF createThread, Undisturbed

LEMMA OtherSteps ==
  ASSUME Inv, [Next]_vars
  PROVE  \/ Undisturbed
         \/ wakeSleepersWake \/ wakeSleepersSkip
         \/ \E ms \in SleepMillis : sleep(ms)
<1>1. CASE UNCHANGED vars
  BY <1>1, StepsWithoutQueues
<1>2. CASE schedule \/ launchKernelThread \/ iret \/ timerHandler
  BY <1>2, StepsWithoutQueues, StepsOnOtherQueues DEF schedule, timerHandler
<1>3. CASE spawnThread
  BY <1>3, StepsWithoutQueues, StepsOnOtherQueues, CreatedElsewhere DEF spawnThread
<1>4. CASE exits \/ joins
  BY <1>4, StepsWithoutQueues, StepsOnOtherQueues DEF exits, joins
<1>5. CASE reap
  BY <1>5, StepsWithoutQueues, StepsOnOtherQueues DEF reap
<1>6. CASE blocks \/ mutexes
  BY <1>6, StepsWithoutQueues, StepsOnOtherQueues DEF blocks, mutexes
<1>7. CASE khalt
  BY <1>7, StepsWithoutQueues DEF khalt
<1> QED
  BY <1>1, <1>2, <1>3, <1>4, <1>5, <1>6, <1>7 DEF Next

(* wakeSleepers() takes one thread off the list and leaves the order. *)
LEMMA WakeTakesOne ==
  ASSUME Inv, wakeSleepersWake
  PROVE  /\ scan \in DOMAIN SleepList
         /\ ticks >= sleepUntil[SleepList[scan]]
         /\ SleepList' = RemoveAt(SleepList, scan)
         /\ Range(SleepList)' = Range(SleepList) \ {SleepList[scan]}
         /\ DOMAIN SleepList' = 1..Len(SleepList) - 1
         /\ \A j \in 1..Len(SleepList) - 1 :
              SleepList'[j] = IF j < scan THEN SleepList[j] ELSE SleepList[j + 1]
         /\ \A t \in Threads : t # SleepList[scan] => sleepUntil'[t] = sleepUntil[t]
         /\ UNCHANGED <<scan, ticks>>
<1>1. /\ scan \in DOMAIN SleepList
      /\ ticks >= sleepUntil[SleepList[scan]]
      /\ sleepUntil' = [sleepUntil EXCEPT ![SleepList[scan]] = 0]
      /\ queue' = wakeNth(queue, "sleepQueue", scan)
      /\ UNCHANGED <<scan, ticks>>
  BY DEF wakeSleepersWake, SleepList
<1>2. queue \in [QueueIds -> Seq(Threads)] /\ {"sleepQueue", "runQueue"} \subseteq QueueIds
  BY DEF Inv, TypeOK, QueueIds, KernelQueues
<1>3. SleepList' = RemoveAt(SleepList, scan)
  BY <1>1, <1>2 DEF wakeNth, enqueueThread, dequeueThread, SleepList
<1>4. /\ SleepList \in Seq(Threads)
      /\ \A i, j \in DOMAIN SleepList : SleepList[i] = SleepList[j] => i = j
      /\ sleepUntil \in [Threads -> 0..TickModulus - 1]
  BY SleepFacts
<1>5. /\ RemoveAt(SleepList, scan) \in Seq(Threads)
      /\ Len(RemoveAt(SleepList, scan)) = Len(SleepList) - 1
      /\ \A j \in 1..Len(SleepList) - 1 : RemoveAt(SleepList, scan)[j] =
           IF j < scan THEN SleepList[j] ELSE SleepList[j + 1]
  BY <1>1, <1>4, Removal
<1>6. DOMAIN RemoveAt(SleepList, scan) = 1..Len(SleepList) - 1
  BY <1>5, LenProperties
<1>7. Range(RemoveAt(SleepList, scan)) = Range(SleepList) \ {SleepList[scan]}
  BY <1>1, <1>4, RangeOfRemoval
<1>8. \A t \in Threads : t # SleepList[scan] => sleepUntil'[t] = sleepUntil[t]
  BY <1>1, <1>4
<1> QED
  BY <1>1, <1>3, <1>5, <1>6, <1>7, <1>8

(* sleep() puts the current thread behind the others. *)
LEMMA SleepAppends ==
  ASSUME Inv, NEW ms \in SleepMillis, sleep(ms)
  PROVE  /\ Range(SleepList)' = Range(SleepList) \cup {current}
         /\ sleepUntil'[current] = (ticks + InTicks(ms)) % TickModulus
         /\ \A t \in Threads : t # current => sleepUntil'[t] = sleepUntil[t]
         /\ scan' = 1 /\ UNCHANGED ticks
<1>1. /\ sleepUntil' = [sleepUntil EXCEPT ![current] = (ticks + InTicks(ms)) % TickModulus]
      /\ queue' = enqueueThread(queue, "sleepQueue", current)
      /\ scan' = 1 /\ UNCHANGED ticks
  BY DEF sleep
<1>2. queue \in [QueueIds -> Seq(Threads)] /\ "sleepQueue" \in QueueIds
  BY DEF Inv, TypeOK, QueueIds, KernelQueues
<1>3. SleepList' = Append(SleepList, current)
  BY <1>1, <1>2 DEF enqueueThread, SleepList
<1>4. /\ SleepList \in Seq(Threads) /\ current \in Threads
      /\ sleepUntil \in [Threads -> 0..TickModulus - 1]
  BY SleepFacts
<1> QED
  BY <1>1, <1>3, <1>4, RangeOfAppend

-----------------------------------------------------------------------------
(* wakeSleepers() overlooks nobody.                                        *)

(* The sleepers that wakeSleepers() has passed have still to sleep. *)
PassedInv ==
  \A i \in DOMAIN SleepList : i < scan => ticks < sleepUntil[SleepList[i]]

LEMMA NextPassed ==
  ASSUME Inv, PassedInv, [Next]_vars
  PROVE  PassedInv'
<1>1. /\ DOMAIN SleepList = 1..Len(SleepList) /\ Len(SleepList) \in Nat
      /\ \A i \in DOMAIN SleepList : SleepList[i] \in Threads
      /\ \A i, j \in DOMAIN SleepList : SleepList[i] = SleepList[j] => i = j
      /\ scan \in Nat
  BY SleepFacts
<1>2. CASE Undisturbed
  <2>1. CASE scan' \in {0, 1}
    <3>1. \A i \in DOMAIN SleepList' : ~(i < 0) /\ ~(i < 1)
      BY <1>1, <1>2 DEF Undisturbed
    <3> QED
      BY <2>1, <3>1 DEF PassedInv
  <2>2. CASE UNCHANGED <<scan, ticks>>
    BY <1>2, <2>2 DEF Undisturbed, PassedInv
  <2> QED
    BY <1>2, <2>1, <2>2 DEF Undisturbed
<1>3. CASE wakeSleepersWake
  <2>1. /\ scan \in DOMAIN SleepList
        /\ DOMAIN SleepList' = 1..Len(SleepList) - 1
        /\ \A j \in 1..Len(SleepList) - 1 :
             SleepList'[j] = IF j < scan THEN SleepList[j] ELSE SleepList[j + 1]
        /\ \A t \in Threads : t # SleepList[scan] => sleepUntil'[t] = sleepUntil[t]
        /\ UNCHANGED <<scan, ticks>>
    BY <1>3, WakeTakesOne
  <2>2. ASSUME NEW i \in DOMAIN SleepList', i < scan
        PROVE  ticks < sleepUntil'[SleepList'[i]]
    <3>1. i \in DOMAIN SleepList /\ i # scan /\ SleepList'[i] = SleepList[i]
      BY <1>1, <2>1, <2>2
    <3>2. SleepList[i] # SleepList[scan] /\ SleepList[i] \in Threads
      BY <1>1, <2>1, <3>1
    <3> QED
      BY <2>1, <2>2, <3>1, <3>2 DEF PassedInv
  <2> QED
    BY <2>1, <2>2 DEF PassedInv
<1>4. CASE wakeSleepersSkip
  <2>1. /\ scan \in DOMAIN SleepList /\ ticks < sleepUntil[SleepList[scan]]
        /\ scan' = scan + 1 /\ SleepList' = SleepList
        /\ UNCHANGED <<ticks, sleepUntil>>
    BY <1>4 DEF wakeSleepersSkip, SleepList, clockVars
  <2>2. \A i \in DOMAIN SleepList : i < scan + 1 => i < scan \/ i = scan
    BY <1>1
  <2> QED
    BY <2>1, <2>2 DEF PassedInv
<1>5. ASSUME NEW ms \in SleepMillis, sleep(ms)
      PROVE  PassedInv'
  <2>1. scan' = 1
    BY <1>5, SleepAppends
  <2>2. SleepList' \in Seq(Threads)
    <3>1. /\ queue \in [QueueIds -> Seq(Threads)] /\ "sleepQueue" \in QueueIds
          /\ current \in Threads
      BY DEF Inv, TypeOK, QueueIds, KernelQueues
    <3>2. SleepList' = Append(SleepList, current)
      BY <1>5, <3>1 DEF sleep, enqueueThread, SleepList
    <3> QED
      BY <3>1, <3>2, SleepFacts, AppendProperties
  <2>3. \A i \in DOMAIN SleepList' : ~(i < 0) /\ ~(i < 1)
    <3>1. DOMAIN SleepList' = 1..Len(SleepList')
      BY <2>2, LenProperties
    <3> QED
      BY <3>1
  <2> QED
    BY <2>1, <2>3 DEF PassedInv
<1> QED
  BY <1>2, <1>3, <1>4, <1>5, OtherSteps

-----------------------------------------------------------------------------
(* Who sleeps, and for how long.                                           *)

(* A thread that has to sleep on is on the list, with a deadline that is   *)
(* as far away as what is left, unless one of the computations wrapped.    *)
SleepersInv ==
  /\ left \in [Threads -> Nat]
  /\ wrapped \in [Threads -> BOOLEAN]
  /\ \A t \in Threads : left[t] > 0 /\ wrapped[t] = FALSE =>
       t \in Range(SleepList) /\ sleepUntil[t] = ticks + left[t]

(* The three facts, for the threads that a step leaves where they are. *)
LEMMA StaysAsleep ==
  ASSUME Inv, NEW t \in Threads, t \in Range(SleepList), Undisturbed
  PROVE  t \in Range(SleepList') /\ sleepUntil'[t] = sleepUntil[t]
<1>1. PICK i \in DOMAIN SleepList : SleepList[i] = t
  BY DEF Range
<1> QED
  BY <1>1 DEF Undisturbed, Range

(* The ticks of a sleep whose product fits into a word are those asked for. *)
LEMMA WithoutOverflow ==
  ASSUME NEW ms \in SleepMillis
  PROVE  /\ AskedTicks(ms) \in Nat
         /\ ~ProductWraps(ms) => InTicks(ms) = AskedTicks(ms)
<1>1. /\ ms \in Nat /\ TICKS_PER_SEC \in Nat
      /\ TickModulus \in Nat \ {0} /\ MillisPerSec \in Nat \ {0}
  BY ThreadAssumption
<1> DEFINE p == ms * TICKS_PER_SEC
           whole == p \div MillisPerSec
<1>2. p \in Nat
  BY <1>1
<1>3. /\ AskedTicks(ms) = IF whole < 1 THEN 1 ELSE whole
      /\ ~ProductWraps(ms) => ~(p >= TickModulus)
      /\ p % TickModulus = p => InTicks(ms) = IF whole < 1 THEN 1 ELSE whole
  BY DEF AskedTicks, ProductWraps, InTicks
<1> HIDE DEF p
<1>4. whole \in Nat
  BY <1>1, <1>2
<1> HIDE DEF whole
<1>5. p < TickModulus => p % TickModulus = p
  BY <1>1, <1>2
<1>6. AskedTicks(ms) \in Nat
  BY <1>3, <1>4
<1>7. ~ProductWraps(ms) => p % TickModulus = p
  BY <1>1, <1>2, <1>3, <1>5
<1> QED
  BY <1>3, <1>6, <1>7

(* A thread that begins to sleep is at the tail, its deadline ahead of it. *)
LEMMA SleepsStep ==
  ASSUME Inv, SleepersInv, sleeps
  PROVE  SleepersInv'
<1>1. PICK ms \in SleepMillis :
        /\ sleep(ms)
        /\ left' = [left EXCEPT ![current] = AskedTicks(ms)]
        /\ wrapped' = [wrapped EXCEPT ![current] = ProductWraps(ms) \/ DeadlineWraps(ms)]
  BY DEF sleeps
<1> DEFINE d == InTicks(ms)
           asked == AskedTicks(ms)
           wraps == ProductWraps(ms) \/ DeadlineWraps(ms)
<1>2. d \in Nat /\ TickModulus \in Nat /\ ticks \in Nat /\ current \in Threads
  BY ThreadAssumption, SleepFacts, Conversion
<1>7. asked \in Nat /\ (~ProductWraps(ms) => d = asked)
  BY WithoutOverflow
<1>8. /\ left' = [left EXCEPT ![current] = asked]
      /\ wrapped' = [wrapped EXCEPT ![current] = wraps]
  BY <1>1
<1>9. DeadlineWraps(ms) <=> ticks + d >= TickModulus
  BY DEF DeadlineWraps
<1>10. wraps \in BOOLEAN
  BY DEF DeadlineWraps, ProductWraps
<1>3. /\ Range(SleepList)' = Range(SleepList) \cup {current}
      /\ sleepUntil'[current] = (ticks + d) % TickModulus
      /\ \A t \in Threads : t # current => sleepUntil'[t] = sleepUntil[t]
      /\ UNCHANGED ticks
  BY <1>1, SleepAppends
<1> HIDE DEF d, asked, wraps
<1>5. left' \in [Threads -> Nat] /\ wrapped' \in [Threads -> BOOLEAN]
  BY <1>2, <1>7, <1>8, <1>10 DEF SleepersInv
<1>6. ASSUME NEW t \in Threads, left'[t] > 0, wrapped'[t] = FALSE
      PROVE  t \in Range(SleepList)' /\ sleepUntil'[t] = ticks' + left'[t]
  <2>1. CASE t = current
    <3>1. left'[t] = asked
      BY <1>8, <2>1 DEF SleepersInv
    <3>2. ~(ticks + d >= TickModulus) /\ d = asked
      <4>1. wrapped'[t] = wraps
        BY <1>8, <2>1 DEF SleepersInv
      <4>2. ~ProductWraps(ms) /\ ~DeadlineWraps(ms)
        BY <1>6, <4>1 DEF wraps
      <4> QED
        BY <1>7, <1>9, <4>2
    <3>3. (ticks + d) % TickModulus = ticks + d
      BY <1>2, <3>2
    <3> QED
      BY <1>3, <2>1, <3>1, <3>2, <3>3
  <2>2. CASE t # current
    <3>1. left'[t] = left[t] /\ wrapped'[t] = wrapped[t]
      BY <1>8, <2>2 DEF SleepersInv
    <3> QED
      BY <1>3, <1>6, <2>2, <3>1 DEF SleepersInv
  <2> QED
    BY <2>1, <2>2
<1> QED
  BY <1>5, <1>6 DEF SleepersInv

LEMMA TickStep ==
  ASSUME Inv, SleepersInv, tick
  PROVE  SleepersInv'
<1>1. /\ timerHandler
      /\ left' = [t \in Threads |-> IF left[t] = 0 THEN 0 ELSE left[t] - 1]
      /\ UNCHANGED wrapped
  BY DEF tick
<1>2. Undisturbed
  BY <1>1, StepsWithoutQueues, StepsOnOtherQueues DEF timerHandler
<1>3. ticks' = (ticks + 1) % TickModulus
  BY <1>1 DEF timerHandler, timerTick, timerPreempts, countTick
<1>4. /\ ticks \in Nat /\ TickModulus \in Nat
      /\ \A t \in Threads : sleepUntil[t] \in Nat /\ sleepUntil[t] < TickModulus
  BY SleepFacts, ThreadAssumption
<1>5. left' \in [Threads -> Nat]
  BY <1>1 DEF SleepersInv
<1>6. ASSUME NEW t \in Threads, left'[t] > 0, wrapped'[t] = FALSE
      PROVE  t \in Range(SleepList)' /\ sleepUntil'[t] = ticks' + left'[t]
  <2>1. left[t] \in Nat /\ left[t] > 1 /\ left'[t] = left[t] - 1 /\ wrapped[t] = FALSE
    BY <1>1, <1>6 DEF SleepersInv
  <2>2. t \in Range(SleepList) /\ sleepUntil[t] = ticks + left[t]
    BY <2>1 DEF SleepersInv
  <2>3. ticks + 1 < TickModulus
    BY <1>4, <2>1, <2>2
  <2>4. ticks' = ticks + 1
    BY <1>3, <1>4, <2>3
  <2>5. t \in Range(SleepList)' /\ sleepUntil'[t] = sleepUntil[t]
    BY <1>2, <2>2, StaysAsleep
  <2> QED
    BY <1>4, <2>1, <2>2, <2>4, <2>5
<1> QED
  BY <1>1, <1>5, <1>6 DEF SleepersInv

LEMMA OthersStep ==
  ASSUME Inv, SleepersInv, [Next]_vars, ~timerHandler,
         ~(\E ms \in SleepMillis : sleep(ms)), UNCHANGED <<left, wrapped>>
  PROVE  SleepersInv'
<1> SUFFICES ASSUME NEW t \in Threads, left[t] > 0, wrapped[t] = FALSE
             PROVE  t \in Range(SleepList)' /\ sleepUntil'[t] = ticks' + left[t]
  BY DEF SleepersInv
<1>1. t \in Range(SleepList) /\ sleepUntil[t] = ticks + left[t] /\ left[t] \in Nat
  BY DEF SleepersInv
<1>2. CASE Undisturbed
  BY <1>1, <1>2, StaysAsleep DEF Undisturbed
<1>3. CASE wakeSleepersWake
  <2>1. /\ ticks >= sleepUntil[SleepList[scan]]
        /\ Range(SleepList)' = Range(SleepList) \ {SleepList[scan]}
        /\ \A u \in Threads : u # SleepList[scan] => sleepUntil'[u] = sleepUntil[u]
        /\ UNCHANGED ticks
    BY <1>3, WakeTakesOne
  <2>2. t # SleepList[scan]
    BY <1>1, <2>1, SleepFacts
  <2> QED
    BY <1>1, <2>1, <2>2
<1>4. CASE wakeSleepersSkip
  BY <1>1, <1>4 DEF wakeSleepersSkip, SleepList, clockVars
<1> QED
  BY <1>2, <1>3, <1>4, OtherSteps

(***************************************************************************)
(* The inductive invariant of sleep() and wakeSleepers(), on top of Inv.   *)
(***************************************************************************)
SleepInv == Inv /\ PassedInv /\ SleepersInv

LEMMA InitSleepInv == SleepInit => SleepInv
<1> SUFFICES ASSUME SleepInit PROVE SleepInv
  OBVIOUS
<1>1. Inv
  BY InitInv DEF SleepInit
<1>2. PassedInv
  <2>1. scan = 0 /\ DOMAIN SleepList = 1..Len(SleepList)
    BY <1>1, SleepFacts DEF SleepInit, Init
  <2> QED
    BY <2>1 DEF PassedInv
<1>3. SleepersInv
  BY DEF SleepInit, SleepersInv
<1> QED
  BY <1>1, <1>2, <1>3 DEF SleepInv

LEMMA NextSleepInv == ASSUME OwnersOnly, SleepInv, [SleepNext]_sleepVars PROVE SleepInv'
<1>1. Inv /\ PassedInv /\ SleepersInv
  BY DEF SleepInv
<1>2. [Next]_vars
  BY SleepStepsAreSteps
<1>3. Inv' /\ PassedInv'
  BY <1>1, <1>2, NextInv, NextPassed
<1>4. SleepersInv'
  <2>1. CASE sleeps
    BY <1>1, <2>1, SleepsStep
  <2>2. CASE tick
    BY <1>1, <2>2, TickStep
  <2>3. CASE others
    BY <1>1, <1>2, <2>3, OthersStep DEF others
  <2>4. CASE UNCHANGED sleepVars
    BY <1>1, <2>4 DEF sleepVars, vars, schedVars, clockVars, SleepersInv, SleepList
  <2> QED
    BY <2>1, <2>2, <2>3, <2>4 DEF SleepNext
<1> QED
  BY <1>3, <1>4 DEF SleepInv

(***************************************************************************)
(* Whatever the scheduler, the timer and the threads do, a sleeper is on   *)
(* the list of sleepers with the deadline that it asked for until its      *)
(* ticks have passed, or one of sleep()'s two computations wrapped.        *)
(***************************************************************************)
THEOREM SleepInvariance == ASSUME OwnersOnly PROVE SleepSpec => []SleepInv
<1>1. SleepInit => SleepInv
  BY InitSleepInv
<1>2. SleepInv /\ [SleepNext]_sleepVars => SleepInv'
  BY NextSleepInv
<1> QED
  BY <1>1, <1>2, PTL DEF SleepSpec

(* sleep() ends early for a product milliseconds * TICKS_PER_SEC or a      *)
(* deadline that wrapped around uint32_t, and for no other duration.       *)
THEOREM SleepsLongEnough == ASSUME OwnersOnly PROVE SleepSpec => []EarlyWakeOnlyOnWrap
<1>1. SleepInv => EarlyWakeOnlyOnWrap
  BY DEF SleepInv, SleepersInv, EarlyWakeOnlyOnWrap, Sleeping, On, SleepList
<1> QED
  BY <1>1, SleepInvariance, PTL

(* When wakeSleepers() is through, nobody whose deadline has come sleeps.  *)
THEOREM SleepersAllWoken == ASSUME OwnersOnly PROVE SleepSpec => []NoSleeperOverlooked
<1>1. SleepInv => NoSleeperOverlooked
  <2> SUFFICES ASSUME SleepInv, scan > Len(SleepList), NEW t \in Range(SleepList)
               PROVE  ticks < sleepUntil[t]
    BY DEF NoSleeperOverlooked, On, SleepList
  <2>1. PICK i \in DOMAIN SleepList : SleepList[i] = t
    BY DEF Range
  <2>2. /\ DOMAIN SleepList = 1..Len(SleepList) /\ Len(SleepList) \in Nat
        /\ scan \in Nat
    BY SleepFacts DEF SleepInv
  <2> QED
    BY <2>1, <2>2 DEF SleepInv, PassedInv
<1> QED
  BY <1>1, SleepInvariance, PTL
=============================================================================
