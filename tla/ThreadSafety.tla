---------------------------- MODULE ThreadSafety ----------------------------
(***************************************************************************)
(* Proofs about Thread that build on Inv: no thread is lost, nobody waits  *)
(* for a wake-up that has been given, and no assertion fails, for any      *)
(* number of threads, as long as only creators join.                       *)
(***************************************************************************)
EXTENDS ThreadProofs, FiniteSetTheorems

-----------------------------------------------------------------------------
(* What labels and flags say, whatever is on the queues.                   *)

(* Preemption is off only in a section of the running thread. *)
FlagOwned == preemptionDisabled => scan = 0 /\ pc[current] = "nopreempt"

(* The idle thread never leaves its loop. *)
IdleAwake == pc[idle] \in {"launch", "run", "yield"}

(* alive is cleared before a thread begins to leave. *)
AliveStays ==
  \A t \in Threads :
    alive[t] => pc[t] \notin {"tlocalExit", "destructor", "detach", "dead", "free"}

(* The reaper alone has a list of dead threads, and works through it. *)
ReaperAlone ==
  /\ \A t \in Threads : pc[t] \in {"reap", "taken", "reaperYield", "destroy"} => t = reaper
  /\ chain # <<>> => pc[reaper] \in {"taken", "reaperYield", "destroy"}

LabelsInv == FlagOwned /\ IdleAwake /\ AliveStays /\ ReaperAlone

(* At the start main runs, the others have not, and nobody has died. *)
LEMMA InitLabels == Init => LabelsInv
BY ThreadAssumption DEF Init, LabelsInv, FlagOwned, IdleAwake, AliveStays, ReaperAlone

(* The labels whose meaning LabelsInv fixes. *)
Leaving == {"tlocalExit", "destructor", "detach", "dead", "free"}
Reaping == {"reap", "taken", "reaperYield", "destroy"}

(* The current thread goes on to a label, or stays where it is. *)
LEMMA LabelsGoto ==
  ASSUME TypeOK, LabelsInv, NEW label, Goto(label), UNCHANGED <<current, chain>>,
         \A t \in Threads : alive'[t] => alive[t],
         preemptionDisabled' => scan' = 0 /\ label = "nopreempt",
         current = idle => label \in {"launch", "run", "yield"},
         alive'[current] => label \notin Leaving,
         label \in Reaping => current = reaper,
         chain # <<>> /\ current = reaper => label \in Reaping \ {"reap"}
  PROVE  LabelsInv'
<1>1. /\ current \in Threads
      /\ pc'[current] = label /\ \A t \in Threads \ {current} : pc'[t] = pc[t]
  BY DEF TypeOK, Goto
<1>2. FlagOwned'
  BY <1>1 DEF FlagOwned
<1>3. IdleAwake'
  BY <1>1, ThreadAssumption DEF LabelsInv, IdleAwake
<1>4. AliveStays'
  BY <1>1 DEF LabelsInv, AliveStays, Leaving
<1>5. ReaperAlone'
  BY <1>1, ThreadAssumption DEF LabelsInv, ReaperAlone, Reaping
<1> QED
  BY <1>2, <1>3, <1>4, <1>5 DEF LabelsInv

(* The current thread stays where it is, and so does everybody else. *)
LEMMA LabelsStay ==
  ASSUME TypeOK, LabelsInv, UNCHANGED <<current, chain, pc, alive, preemptionDisabled>>,
         preemptionDisabled => scan' = 0
  PROVE  LabelsInv'
BY DEF LabelsInv, FlagOwned, IdleAwake, AliveStays, ReaperAlone

(* What LabelsInv says of the current thread. *)
LEMMA LabelsHere ==
  ASSUME TypeOK, LabelsInv
  PROVE  /\ current \in Threads
         /\ preemptionDisabled => scan = 0 /\ pc[current] = "nopreempt"
         /\ current = idle => pc[current] \in {"launch", "run", "yield"}
         /\ alive[current] => pc[current] \notin Leaving
         /\ pc[current] \in Reaping => current = reaper
         /\ chain # <<>> /\ current = reaper => pc[current] \in Reaping \ {"reap"}
         /\ idle \notin Clients /\ reaper \notin Clients /\ idle # reaper
BY ThreadAssumption DEF TypeOK, LabelsInv, FlagOwned, IdleAwake, AliveStays, ReaperAlone,
   Leaving, Reaping, Clients

(* schedule(), the timer and the launch of a thread. *)
LEMMA LabelsCpu ==
  ASSUME Inv, LabelsInv, schedule \/ timerHandler \/ launchKernelThread \/ iret
                           \/ khalt \/ UNCHANGED vars
  PROVE  LabelsInv'
<1> USE LabelsHere DEF schedVars, clockVars, lifeVars
<1>0. TypeOK
  BY DEF Inv
<1>1. CASE wakeSleepersWake \/ wakeSleepersSkip
  <2>1. scan # 0
    BY <1>0, <1>1, QueueNames, LenProperties DEF wakeSleepersWake, wakeSleepersSkip, TypeOK
  <2> QED
    BY <1>0, <1>1, <2>1, LabelsStay DEF wakeSleepersWake, wakeSleepersSkip
<1>2. CASE switchToThread
  <2>1. CASE KASSERTFails
    BY <1>0, <2>1, LabelsStay DEF KASSERTFails
  <2>2. CASE ~KASSERTFails
    <3>1. ~preemptionDisabled /\ UNCHANGED <<chain, pc, alive, preemptionDisabled>>
      BY <1>2, <2>2 DEF switchToThread
    <3> QED
      BY <3>1 DEF LabelsInv, FlagOwned, IdleAwake, AliveStays, ReaperAlone
  <2> QED
    BY <2>1, <2>2
<1>3. CASE timerHandler
  BY <1>0, <1>3, LabelsStay DEF timerHandler, timerTick, timerPreempts, countTick
<1>4. CASE launchKernelThread
  <2> DEFINE label == IF current = reaper THEN "destroy" ELSE "run"
  <2>1. Goto(label) /\ pc[current] = "launch"
    BY <1>4 DEF launchKernelThread, Executing
  <2>2. UNCHANGED <<current, chain, alive, scan, preemptionDisabled>>
    BY <1>4 DEF launchKernelThread
  <2> HIDE DEF label
  <2>3. /\ label \notin Leaving
        /\ label \in Reaping => current = reaper
        /\ current = reaper => label \in Reaping \ {"reap"}
        /\ current = idle => label \in {"launch", "run", "yield"}
    BY <1>0 DEF label, Leaving, Reaping
  <2> QED
    BY <1>0, <2>1, <2>2, <2>3, LabelsGoto
<1>5. CASE iret \/ khalt \/ UNCHANGED vars
  BY <1>0, <1>5, LabelsStay DEF iret, khalt, vars
<1> QED
  BY <1>1, <1>2, <1>3, <1>4, <1>5 DEF schedule

(* Threads that are spawned, exit or are joined. *)
LEMMA LabelsLife ==
  ASSUME Inv, LabelsInv, spawnThread \/ exits \/ joins
  PROVE  LabelsInv'
<1> USE LabelsHere DEF schedVars, clockVars, lifeVars, Executing, Leaving, Reaping
<1>0. TypeOK
  BY DEF Inv
<1>1. ASSUME NEW t \in Threads, NEW detached \in BOOLEAN, createThread(t, detached)
      PROVE  LabelsInv'
  <2>1. /\ pc[current] = "run" /\ pc[t] = "free" /\ current \in Clients
        /\ UNCHANGED <<current, chain, scan, preemptionDisabled>>
    BY <1>1 DEF createThread
  <2>2. /\ pc'[t] = "created" /\ pc'[current] = "spawn"
        /\ \A u \in Threads \ {t, current} : pc'[u] = pc[u]
        /\ \A u \in Threads \ {t} : alive'[u] = alive[u]
    BY <1>0, <1>1, <2>1 DEF createThread, TypeOK
  <2>3. FlagOwned' /\ AliveStays'
    BY <1>0, <2>1, <2>2 DEF FlagOwned, AliveStays, LabelsInv
  <2>4. IdleAwake' /\ ReaperAlone'
    BY <1>0, <2>1, <2>2, ThreadAssumption DEF IdleAwake, ReaperAlone, LabelsInv
  <2> QED
    BY <2>3, <2>4 DEF LabelsInv
<1>2. CASE createThreadFails
  BY <1>0, <1>2, LabelsStay DEF createThreadFails
<1>3. CASE makeRunnableAtomic
  <2> DEFINE t == target[current]
  <2>1. /\ pc[current] = "spawn" /\ t \in Threads /\ pc[t] = "created"
        /\ UNCHANGED <<current, chain, alive, scan, preemptionDisabled>>
    BY <1>0, <1>3 DEF makeRunnableAtomic, Inv, SpawnersApart
  <2>2. /\ pc'[t] = "launch" /\ pc'[current] = "run"
        /\ \A u \in Threads \ {t, current} : pc'[u] = pc[u]
    BY <1>0, <1>3, <2>1 DEF makeRunnableAtomic, TypeOK
  <2> HIDE DEF t
  <2>3. FlagOwned' /\ AliveStays'
    BY <1>0, <2>1, <2>2 DEF FlagOwned, AliveStays, LabelsInv
  <2>4. IdleAwake' /\ ReaperAlone'
    BY <1>0, <2>1, <2>2, ThreadAssumption DEF IdleAwake, ReaperAlone, LabelsInv
  <2> QED
    BY <2>3, <2>4 DEF LabelsInv
<1>4. ASSUME NEW n \in 0..MaxDestructors, exit(n) PROVE LabelsInv'
  <2>1. /\ Goto("tlocalExit") /\ current \in Clients /\ pc[current] \in {"run", "atomic"}
        /\ UNCHANGED <<current, chain, scan, preemptionDisabled>>
    BY <1>4 DEF exit
  <2>2. ~alive'[current] /\ \A t \in Threads : alive'[t] => alive[t]
    BY <1>0, <1>4 DEF exit, TypeOK
  <2> QED
    BY <1>0, <2>1, <2>2, LabelsGoto
<1>5. CASE callDestructor
  BY <1>0, <1>5, LabelsGoto DEF callDestructor
<1>6. CASE destructorReturns
  BY <1>0, <1>6, LabelsGoto DEF destructorReturns
<1>7. CASE notifyJoiners
  BY <1>0, <1>7, LabelsGoto DEF notifyJoiners
<1>8. CASE detachSelf
  <2>1. CASE KASSERTFails
    BY <1>0, <2>1, LabelsStay DEF KASSERTFails
  <2>2. CASE ~KASSERTFails
    BY <1>0, <1>8, <2>2, LabelsGoto DEF detachSelf
  <2> QED
    BY <2>1, <2>2
<1>9. ASSUME NEW t \in Threads, join(t) PROVE LabelsInv'
  BY <1>0, <1>9, LabelsGoto DEF join
<1>10. CASE joinWaits
  BY <1>0, <1>10, LabelsStay DEF joinWaits
<1>11. CASE joinReturns
  <2>1. CASE KASSERTFails
    BY <1>0, <2>1, LabelsStay DEF KASSERTFails
  <2>2. CASE ~KASSERTFails
    BY <1>0, <1>11, <2>2, LabelsGoto DEF joinReturns
  <2> QED
    BY <2>1, <2>2
<1> QED
  BY <1>1, <1>2, <1>3, <1>4, <1>5, <1>6, <1>7, <1>8, <1>9, <1>10, <1>11
  DEF spawnThread, exits, joins

(* The reaper, and the calls of clients. *)
LEMMA LabelsCalls ==
  ASSUME Inv, LabelsInv, reap \/ blocks \/ mutexes
  PROVE  LabelsInv'
<1> USE LabelsHere DEF schedVars, clockVars, lifeVars, Executing, Leaving, Reaping
<1>0. TypeOK
  BY DEF Inv
<1>1. CASE reaperWaits
  BY <1>0, <1>1, LabelsStay DEF reaperWaits
<1>2. CASE reaperTakes
  <2>1. /\ pc[current] = "reap" /\ Goto("taken")
        /\ UNCHANGED <<current, alive, scan, preemptionDisabled>>
    BY <1>2 DEF reaperTakes
  <2>2. /\ pc'[current] = "taken" /\ current = reaper
        /\ \A t \in Threads \ {current} : pc'[t] = pc[t]
    BY <1>0, <2>1 DEF Goto, TypeOK
  <2> QED
    BY <1>0, <2>1, <2>2, ThreadAssumption DEF LabelsInv, FlagOwned, IdleAwake, AliveStays, ReaperAlone
<1>3. CASE reaperYields
  BY <1>0, <1>3, LabelsGoto DEF reaperYields
<1>4. CASE reaperResumes
  BY <1>0, <1>4, LabelsGoto DEF reaperResumes
<1>5. CASE reaperLoops
  BY <1>0, <1>5, LabelsGoto DEF reaperLoops
<1>6. CASE destroyThread
  <2>1. /\ Head(chain) \in Threads /\ pc[Head(chain)] = "dead"
        /\ pc[current] = "destroy"
        /\ UNCHANGED <<current, alive, scan, preemptionDisabled>>
    <3>1. 1 \in DOMAIN chain /\ chain[1] = Head(chain)
      BY <1>0, <1>6, EmptySeq, LenProperties DEF destroyThread, TypeOK
    <3>2. chain[1] \in Threads
      BY <1>0, <3>1, LenProperties DEF TypeOK
    <3> QED
      BY <1>6, <3>1, <3>2 DEF destroyThread, Inv, ChainDead
  <2>2. /\ pc'[Head(chain)] = "free"
        /\ \A t \in Threads \ {Head(chain)} : pc'[t] = pc[t]
    BY <1>0, <1>6, <2>1 DEF destroyThread, TypeOK
  <2>3. current = reaper
    BY <1>0, <2>1
  <2>4. FlagOwned' /\ IdleAwake'
    BY <1>0, <2>1, <2>2, ThreadAssumption DEF LabelsInv, FlagOwned, IdleAwake
  <2>5. AliveStays' /\ ReaperAlone'
    BY <1>0, <2>1, <2>2, <2>3, ThreadAssumption DEF LabelsInv, AliveStays, ReaperAlone
  <2> QED
    BY <2>4, <2>5 DEF LabelsInv
<1>7. ASSUME NEW ms \in SleepMillis, sleep(ms) PROVE LabelsInv'
  <2>1. PICK label \in {"sleep", "atomic"} : Goto(label)
    BY <1>0, <1>7 DEF sleep, Goto, TypeOK
  <2>2. /\ current \in Clients /\ pc[current] \in {"run", "atomic"}
        /\ UNCHANGED <<current, chain, alive, preemptionDisabled>>
    BY <1>7 DEF sleep
  <2> QED
    BY <1>0, <2>1, <2>2, LabelsGoto
<1>8. CASE yield
  BY <1>0, <1>8, LabelsGoto DEF yield
<1>9. CASE resumeRunning
  BY <1>0, <1>9, LabelsGoto DEF resumeRunning
<1>10. CASE begIntAtomic
  BY <1>0, <1>10, LabelsGoto DEF begIntAtomic
<1>11. CASE endIntAtomic
  BY <1>0, <1>11, LabelsGoto DEF endIntAtomic
<1>12. ASSUME NEW q \in WaitQueues, wait(q) \/ wakeOne(q) \/ wakeWaiters(q)
       PROVE  LabelsInv'
  BY <1>0, <1>12, LabelsStay DEF wait, wakeOne, wakeWaiters
<1>13. CASE disablePreemption
  BY <1>0, <1>13, LabelsGoto DEF disablePreemption
<1>14. CASE enablePreemption
  BY <1>0, <1>14, LabelsGoto DEF enablePreemption
<1>15. CASE mutexWaitReturns
  BY <1>0, <1>15, LabelsGoto DEF mutexWaitReturns
<1>16. ASSUME NEW q \in WaitQueues, mutexWait(q) PROVE LabelsInv'
  BY <1>0, <1>16, LabelsGoto DEF mutexWait
<1> QED
  BY <1>1, <1>2, <1>3, <1>4, <1>5, <1>6, <1>7, <1>8, <1>9, <1>10, <1>11, <1>12,
     <1>13, <1>14, <1>15, <1>16 DEF reap, blocks, mutexes

(* Every step keeps what labels and flags say. *)
LEMMA NextLabels == ASSUME Inv, LabelsInv, [Next]_vars PROVE LabelsInv'
BY LabelsCpu, LabelsLife, LabelsCalls DEF Next

-----------------------------------------------------------------------------
(* Who waits where.                                                        *)

(* A thread that has called schedule() is queued, or dead. *)
BlockedQueued == scan > 0 => current \in Queued \/ pc[current] = "dead"

(* There is always a thread to run. *)
IdleReady == idle \in On("runQueue") \/ (current = idle /\ scan = 0)

(* Who has lost its last reference is on its way to the reaper. *)
UnreferencedFound ==
  \A t \in Threads :
    refCount[t] = 0 /\ pc[t] # "free" => t \in On("graveyardQueue") \cup Range(chain)

(* ReaperNotForgotten in terms of what is on a queue. *)
ReaperCalled == reaper \in On("reaperWaitQueue") => On("graveyardQueue") = {}

WaitInv ==
  /\ NoThreadLost /\ JoinersNotForgotten /\ BlockedQueued /\ IdleReady
  /\ UnreferencedFound /\ ReaperCalled

(* At the start two threads are ready and nobody waits. *)
LEMMA InitWaits == Init => WaitInv
<1> SUFFICES ASSUME Init PROVE WaitInv
  OBVIOUS
<1> USE ThreadAssumption
<1>1. \A q \in QueueIds : queue[q] = IF q = "runQueue" THEN <<idle, reaper>> ELSE <<>>
  BY DEF Init
<1>2. Range(<<idle, reaper>>) = {idle, reaper} /\ Range(<<>>) = {}
  BY DEF Range
<1>3. On("runQueue") = {idle, reaper}
  BY <1>1, <1>2, QueueNames DEF On
<1>4. \A q \in QueueIds \ {"runQueue"} : On(q) = {}
  BY <1>1, <1>2 DEF On
<1>5. NoThreadLost
  <2>1. {idle, reaper} \subseteq Queued
    BY <1>3, QueueNames DEF Queued, QueuedIn, On
  <2> QED
    BY <2>1 DEF NoThreadLost, Init
<1>6. JoinersNotForgotten /\ ReaperCalled
  BY <1>4, QueueNames DEF JoinersNotForgotten, ReaperCalled
<1>7. BlockedQueued /\ IdleReady
  BY <1>3 DEF BlockedQueued, IdleReady, Init
<1>8. UnreferencedFound
  BY DEF UnreferencedFound, Init
<1> QED
  BY <1>5, <1>6, <1>7, <1>8 DEF WaitInv

(* Who is on a queue is a thread, and one that runs is on none. *)
LEMMA OnFacts ==
  ASSUME Inv
  PROVE  /\ Queues(queue) /\ current \in Threads
         /\ \A q \in QueueIds : On(q) \subseteq Threads /\ On(q) \subseteq Queued
         /\ scan = 0 => current \notin Queued
         /\ \A t \in Queued : \E q \in QueueIds : t \in On(q)
<1>1. Queues(queue)
  BY InvSplit DEF PlacesInv
<1>2. \A q \in QueueIds : On(q) \subseteq Threads
  BY <1>1, QueuesFacts DEF On
<1> QED
  BY <1>1, <1>2 DEF Inv, TypeOK, OnePlaceOnly, RunningUnqueued, Queued, QueuedIn, On

(* A step that takes nobody off a queue without putting it on another. *)
LEMMA KeepWaits ==
  ASSUME Inv, WaitInv, Steady, UNCHANGED <<current, target, refCount, chain>>,
         scan' \in Nat,
         Queued \subseteq Queued',
         On("graveyardQueue")' = On("graveyardQueue"),
         On("runQueue") \subseteq On("runQueue")',
         current = idle /\ scan' > 0 => scan > 0 \/ idle \in On("runQueue")',
         reaper \in On("reaperWaitQueue")' =>
           reaper \in On("reaperWaitQueue") \/ On("graveyardQueue") = {},
         scan' > 0 => scan > 0 \/ current \in Queued',
         \A t \in Threads : \A c \in On(t)' :
           \/ c \in On(t)
           \/ c \in Threads /\ pc[c] = "join" /\ target[c] = t
                /\ pc[t] \notin {"detach", "dead", "free"},
         \A t \in Threads : pc'[t] = "detach" => pc[t] = "detach" \/ On(t)' = {}
  PROVE  WaitInv'
<1>0. scan \in Nat /\ current \in Threads
  BY DEF Inv, TypeOK
<1>1. NoThreadLost'
  <2> SUFFICES ASSUME NEW t \in Threads, pc'[t] \notin {"free", "dead"}
               PROVE  IF pc'[t] = "created" THEN \E c \in Threads : pc'[c] = "spawn" /\ target'[c] = t
                      ELSE t \in Queued' \cup {current'}
    BY DEF NoThreadLost
  <2>1. pc[t] \notin {"free", "dead"} /\ (pc'[t] = "created" <=> pc[t] = "created")
    BY DEF Steady, Unplaced
  <2>2. CASE pc[t] = "created"
    <3>1. PICK c \in Threads : pc[c] = "spawn" /\ target[c] = t
      BY <2>2 DEF WaitInv, NoThreadLost
    <3>2. pc'[c] = "spawn"
      BY <3>1 DEF Steady
    <3> QED
      BY <2>1, <2>2, <3>1, <3>2
  <2>3. CASE pc[t] # "created"
    BY <2>1, <2>3 DEF WaitInv, NoThreadLost
  <2> QED
    BY <2>2, <2>3
<1>2. JoinersNotForgotten'
  <2> SUFFICES ASSUME NEW t \in Threads, NEW c \in On(t)'
               PROVE  /\ pc'[c] = "join" /\ target'[c] = t
                      /\ pc'[t] \notin {"detach", "dead", "free"}
    BY DEF JoinersNotForgotten
  <2>1. /\ c \in Threads /\ pc[c] = "join" /\ target[c] = t
        /\ pc[t] \notin {"detach", "dead", "free"}
    <3>1. CASE c \in On(t)
      BY <3>1, OnFacts, QueueNames DEF WaitInv, JoinersNotForgotten
    <3>2. CASE c \notin On(t)
      BY <3>2
    <3> QED
      BY <3>1, <3>2
  <2>2. pc'[c] = "join" /\ pc'[t] \notin {"dead", "free"}
    BY <2>1 DEF Steady, Unplaced
  <2> QED
    BY <2>1, <2>2
<1>3. BlockedQueued'
  BY <1>0 DEF WaitInv, BlockedQueued, Steady, Unplaced
<1>4. IdleReady'
  <2>1. CASE idle \in On("runQueue")
    BY <2>1 DEF IdleReady
  <2>2. CASE idle \notin On("runQueue")
    <3>1. current = idle /\ scan = 0
      BY <2>2 DEF WaitInv, IdleReady
    <3> QED
      BY <3>1 DEF IdleReady
  <2> QED
    BY <2>1, <2>2
<1>5. UnreferencedFound'
  BY DEF WaitInv, UnreferencedFound, Steady, Unplaced
<1>6. ReaperCalled'
  BY DEF WaitInv, ReaperCalled
<1> QED
  BY <1>1, <1>2, <1>3, <1>4, <1>5, <1>6 DEF WaitInv

(* The queues stay as they are. *)
LEMMA StayWaits ==
  ASSUME Inv, WaitInv, Steady, UNCHANGED <<queue, current, target, refCount, chain>>,
         scan' \in Nat, scan' > 0 => scan > 0,
         \A t \in Threads : pc'[t] = "detach" => pc[t] = "detach"
  PROVE  WaitInv'
<1>1. Queued' = Queued /\ \A q \in QueueIds : On(q)' = On(q)
  BY DEF Queued, QueuedIn, On
<1>2. \A t \in Threads : \A c \in On(t)' : c \in On(t)
  BY <1>1, QueueNames
<1> QED
  BY <1>1, <1>2, QueueNames, KeepWaits

(* The current thread goes to the end of queue q and calls schedule(). *)
LEMMA BlockWaits ==
  ASSUME Inv, WaitInv, Steady, UNCHANGED <<current, target, refCount, chain>>,
         NEW q \in QueueIds \ {"graveyardQueue"},
         queue' = enqueueThread(queue, q, current), scan = 0, scan' = 1,
         current = idle => q = "runQueue",
         q = "reaperWaitQueue" => On("graveyardQueue") = {},
         q \in Threads => pc[current] = "join" /\ target[current] = q
                            /\ pc[q] \notin {"detach", "dead", "free"},
         \A t \in Threads : pc'[t] = "detach" => pc[t] = "detach"
  PROVE  WaitInv'
<1>1. current \in Threads /\ Queues(queue) /\ current \notin Queued
  BY OnFacts
<1>2. \A p \in QueueIds : On(p)' = IF p = q THEN On(p) \cup {current} ELSE On(p)
  <2> DEFINE rs == enqueueThread(queue, q, current)
  <2>1. \A p \in QueueIds : Range(rs[p]) =
          IF p = q THEN Range(queue[p]) \cup {current} ELSE Range(queue[p])
    BY <1>1, EnqueueLemma DEF Queued
  <2>2. queue' = rs
    OBVIOUS
  <2> HIDE DEF rs
  <2> QED
    BY <2>1, <2>2 DEF On
<1>3. Queued \subseteq Queued' /\ current \in Queued'
  BY <1>2 DEF Queued, QueuedIn, On
<1>4. \A t \in Threads : \A c \in On(t)' : c \in On(t) \/ (c = current /\ t = q)
  BY <1>2, QueueNames
<1>5. /\ On("graveyardQueue")' = On("graveyardQueue")
      /\ On("runQueue") \subseteq On("runQueue")'
      /\ current = idle => idle \in On("runQueue")'
      /\ reaper \in On("reaperWaitQueue")' =>
           reaper \in On("reaperWaitQueue") \/ On("graveyardQueue") = {}
  BY <1>2, QueueNames
<1> QED
  BY <1>1, <1>3, <1>4, <1>5, KeepWaits

(* The threads of S go from queue q to the run queue. *)
LEMMA MoveWaits ==
  ASSUME Inv, WaitInv, Steady, UNCHANGED <<current, target, refCount, chain, scan>>,
         NEW q \in QueueIds \ {"graveyardQueue", "runQueue"},
         \/ queue' = wakeAll(queue, q)
              /\ \A t \in Threads : pc'[t] = "detach" => pc[t] = "detach" \/ t = q
         \/ (\E i \in DOMAIN queue[q] : queue' = wakeNth(queue, q, i))
              /\ \A t \in Threads : pc'[t] = "detach" => pc[t] = "detach"
  PROVE  WaitInv'
<1>1. Queues(queue) /\ scan \in Nat
  BY OnFacts DEF Inv, TypeOK
<1>2. /\ \E S \in SUBSET On(q) : \A p \in QueueIds :
           On(p)' = IF p = q THEN On(p) \ S
                    ELSE IF p = "runQueue" THEN On(p) \cup S ELSE On(p)
      /\ \A t \in Threads : pc'[t] = "detach" => pc[t] = "detach" \/ On(t)' = {}
  <2>1. CASE /\ queue' = wakeAll(queue, q)
             /\ \A t \in Threads : pc'[t] = "detach" => pc[t] = "detach" \/ t = q
    <3> DEFINE rs == wakeAll(queue, q)
    <3>1. \A p \in QueueIds : Range(rs[p]) =
            IF p = q THEN {}
            ELSE IF p = "runQueue" THEN Range(queue[p]) \cup Range(queue[q])
            ELSE Range(queue[p])
      BY <1>1, WakeAllLemma
    <3> HIDE DEF rs
    <3>2. queue' = rs
      BY <2>1 DEF rs
    <3>3. \A p \in QueueIds : On(p)' =
            IF p = q THEN On(p) \ On(q)
            ELSE IF p = "runQueue" THEN On(p) \cup On(q) ELSE On(p)
      BY <3>1, <3>2 DEF On
    <3>4. q \in Threads => On(q)' = {}
      BY <3>1, <3>2 DEF On
    <3> QED
      BY <2>1, <3>3, <3>4
  <2>2. CASE /\ \E i \in DOMAIN queue[q] : queue' = wakeNth(queue, q, i)
             /\ \A t \in Threads : pc'[t] = "detach" => pc[t] = "detach"
    <3>0. PICK i \in DOMAIN queue[q] : queue' = wakeNth(queue, q, i)
      BY <2>2
    <3> DEFINE rs == wakeNth(queue, q, i)
               r == queue[q][i]
    <3>1. Woken(queue, q, r, rs)
      BY <1>1, WakeNthLemma
    <3> HIDE DEF rs, r
    <3>2. queue' = rs
      BY <3>0 DEF rs
    <3>3. {r} \in SUBSET On(q) /\ \A p \in QueueIds : On(p)' =
            IF p = q THEN On(p) \ {r}
            ELSE IF p = "runQueue" THEN On(p) \cup {r} ELSE On(p)
      BY <3>1, <3>2 DEF On, Woken
    <3> QED
      BY <2>2, <3>3
  <2> QED
    BY <2>1, <2>2
<1>3. /\ \A p \in QueueIds : p # "runQueue" => On(p)' \subseteq On(p)
      /\ On("graveyardQueue")' = On("graveyardQueue")
      /\ On("runQueue") \subseteq On("runQueue")'
  BY <1>2, QueueNames
<1>4. Queued \subseteq Queued'
  <2> SUFFICES ASSUME NEW p \in QueueIds, NEW t \in On(p)
               PROVE  \E r \in QueueIds : t \in On(r)'
    BY DEF Queued, QueuedIn, On
  <2> QED
    BY <1>2, QueueNames
<1>5. \A t \in Threads : \A c \in On(t)' : c \in On(t)
  BY <1>3, QueueNames
<1> QED
  BY <1>1, <1>2, <1>3, <1>4, <1>5, QueueNames, KeepWaits

(* What a step to another common label is. *)
LEMMA GotoFacts ==
  ASSUME Inv, NEW label \in Common, Goto(label), pc[current] \notin {"dead", "spawn", "join"}
  PROVE  /\ Steady /\ pc'[current] = label
         /\ \A t \in Threads \ {current} : pc'[t] = pc[t]
BY SteadyGoto DEF Common, Inv, Goto, TypeOK

(* The steps that only move the current thread on. *)
LEMMA WaitsGoto ==
  ASSUME Inv, WaitInv,
         \/ launchKernelThread \/ resumeRunning \/ begIntAtomic \/ endIntAtomic
         \/ disablePreemption \/ enablePreemption \/ mutexWaitReturns
         \/ callDestructor \/ destructorReturns \/ reaperResumes \/ reaperLoops
         \/ \E n \in 0..MaxDestructors : exit(n)
  PROVE  WaitInv'
<1>1. PICK label \in Common \ {"detach"} :
        /\ Goto(label) /\ pc[current] \notin {"dead", "spawn", "join"}
        /\ UNCHANGED <<queue, current, target, refCount, chain, scan>>
  <2> USE CommonLabels DEF Executing, schedVars, lifeVars
  <2>1. CASE launchKernelThread
    <3> DEFINE label == IF current = reaper THEN "destroy" ELSE "run"
    <3>1. label \in Common \ {"detach"} /\ Goto(label)
      BY <2>1 DEF launchKernelThread
    <3> QED
      BY <2>1, <3>1 DEF launchKernelThread
  <2>2. CASE resumeRunning \/ begIntAtomic \/ endIntAtomic
    BY <2>2 DEF resumeRunning, begIntAtomic, endIntAtomic
  <2>3. CASE disablePreemption \/ enablePreemption \/ mutexWaitReturns
    BY <2>3 DEF disablePreemption, enablePreemption, mutexWaitReturns
  <2>4. CASE callDestructor \/ destructorReturns
    BY <2>4 DEF callDestructor, destructorReturns
  <2>5. CASE reaperResumes \/ reaperLoops
    BY <2>5 DEF reaperResumes, reaperLoops
  <2>6. CASE \E n \in 0..MaxDestructors : exit(n)
    BY <2>6 DEF exit
  <2> QED
    BY <2>1, <2>2, <2>3, <2>4, <2>5, <2>6
<1>2. /\ Steady /\ pc'[current] = label
      /\ \A t \in Threads \ {current} : pc'[t] = pc[t]
  BY <1>1, GotoFacts
<1>3. scan' \in Nat
  BY <1>1 DEF Inv, TypeOK
<1> QED
  BY <1>1, <1>2, <1>3, StayWaits

(* The steps that change neither a queue nor a label. *)
LEMMA WaitsQuiet ==
  ASSUME Inv, WaitInv,
         \/ wakeSleepersSkip \/ timerTick \/ iret \/ createThreadFails \/ khalt
         \/ KASSERTFails \/ UNCHANGED vars
  PROVE  WaitInv'
<1> USE DEF schedVars, clockVars, lifeVars
<1>1. scan \in Nat
  BY DEF Inv, TypeOK
<1>2. CASE wakeSleepersSkip
  <2>1. scan # 0
    BY <1>2, QueueNames, LenProperties DEF wakeSleepersSkip, Inv, TypeOK
  <2> QED
    BY <1>1, <1>2, <2>1, StayWaits DEF wakeSleepersSkip, Steady
<1>3. CASE timerTick \/ iret \/ createThreadFails
  BY <1>1, <1>3, StayWaits DEF timerTick, countTick, iret, createThreadFails, Steady
<1>4. CASE khalt \/ KASSERTFails \/ UNCHANGED vars
  BY <1>1, <1>4, StayWaits DEF khalt, KASSERTFails, vars, Steady
<1> QED
  BY <1>2, <1>3, <1>4

(* The steps by which the current thread goes onto a queue. *)
LEMMA WaitsBlock ==
  ASSUME Inv, LabelsInv, WaitInv,
         \/ yield \/ joinWaits \/ reaperWaits \/ reaperYields \/ timerPreempts
         \/ \E ms \in SleepMillis : sleep(ms)
         \/ \E q \in WaitQueues : wait(q) \/ mutexWait(q)
  PROVE  WaitInv'
<1> USE LabelsHere, CommonLabels DEF Executing, clockVars, lifeVars
<1>0. TypeOK /\ current \in Threads
  BY DEF Inv, TypeOK
<1>1. pc' = pc => Steady /\ \A t \in Threads : pc'[t] = "detach" => pc[t] = "detach"
  BY DEF Steady
<1>2. ASSUME NEW label \in Common \ {"detach"}, Goto(label),
             pc[current] \notin {"dead", "spawn", "join"}
      PROVE  Steady /\ \A t \in Threads : pc'[t] = "detach" => pc[t] = "detach"
  BY <1>0, <1>2, GotoFacts
<1>3. {"runQueue", "sleepQueue", "reaperWaitQueue"} \cap Threads = {}
  BY ThreadAssumption DEF KernelQueues
<1>4. CASE yield
  BY <1>0, <1>2, <1>3, <1>4, QueueNames, BlockWaits DEF yield
<1>5. CASE reaperYields
  <2>1. current # idle
    BY <1>0, <1>5 DEF reaperYields
  <2> QED
    BY <1>0, <1>2, <1>3, <1>5, <2>1, QueueNames, BlockWaits DEF reaperYields
<1>6. CASE timerPreempts
  <2>1. scan = 0 /\ pc' = pc
    BY <1>6 DEF timerPreempts, InterruptsEnabled
  <2> QED
    BY <1>0, <1>1, <1>3, <1>6, <2>1, QueueNames, BlockWaits DEF timerPreempts
<1>7. CASE reaperWaits
  <2>1. On("graveyardQueue") = {}
    BY <1>7, EmptySeq DEF reaperWaits, On, Range
  <2>2. current # idle
    BY <1>0, <1>7 DEF reaperWaits
  <2> QED
    BY <1>0, <1>1, <1>3, <1>7, <2>1, <2>2, QueueNames, BlockWaits DEF reaperWaits
<1>8. CASE joinWaits
  <2>1. target[current] \in Threads
    BY <1>0, <1>8 DEF joinWaits, Inv, HandlesCounted, TypeOK
  <2>2. pc[target[current]] \notin {"detach", "dead", "free"}
    BY <1>8, <2>1 DEF joinWaits, LabelsInv, AliveStays
  <2>3. current # idle
    BY <1>0, <1>8 DEF joinWaits
  <2>4. target[current] # "reaperWaitQueue"
    BY <1>3, <2>1
  <2> QED
    BY <1>0, <1>1, <1>8, <2>1, <2>2, <2>3, <2>4, QueueNames, BlockWaits DEF joinWaits
<1>9. ASSUME NEW ms \in SleepMillis, sleep(ms) PROVE WaitInv'
  <2>1. PICK label \in {"sleep", "atomic"} : Goto(label)
    BY <1>0, <1>9 DEF sleep, Goto, TypeOK
  <2>2. pc[current] \in {"run", "atomic"} /\ current # idle /\ scan = 0
    BY <1>0, <1>9 DEF sleep
  <2>3. Steady /\ \A t \in Threads : pc'[t] = "detach" => pc[t] = "detach"
    BY <1>2, <2>1, <2>2
  <2> QED
    BY <1>0, <1>3, <1>9, <2>2, <2>3, QueueNames, BlockWaits DEF sleep
<1>10. ASSUME NEW q \in WaitQueues PROVE q \in QueueIds \ {"graveyardQueue"} /\ q \notin Threads
                                          /\ q # "reaperWaitQueue"
  BY <1>10, ThreadAssumption DEF QueueIds, KernelQueues
<1>11. ASSUME NEW q \in WaitQueues, wait(q) PROVE WaitInv'
  <2>1. current # idle /\ scan = 0 /\ pc' = pc
    BY <1>0, <1>11 DEF wait
  <2> QED
    BY <1>0, <1>1, <1>10, <1>11, <2>1, BlockWaits DEF wait
<1>12. ASSUME NEW q \in WaitQueues, mutexWait(q) PROVE WaitInv'
  <2>1. current # idle /\ scan = 0 /\ pc[current] = "nopreempt"
    BY <1>0, <1>12 DEF mutexWait
  <2> QED
    BY <1>0, <1>2, <1>10, <1>12, <2>1, BlockWaits DEF mutexWait
<1> QED
  BY <1>4, <1>5, <1>6, <1>7, <1>8, <1>9, <1>11, <1>12

(* The steps by which others become runnable. *)
LEMMA WaitsWake ==
  ASSUME Inv, WaitInv,
         \/ notifyJoiners \/ wakeSleepersWake
         \/ \E q \in WaitQueues : wakeOne(q) \/ wakeWaiters(q)
  PROVE  WaitInv'
<1> USE CommonLabels DEF lifeVars, clockVars
<1>0. TypeOK /\ current \in Threads /\ Queues(queue)
  BY OnFacts DEF Inv
<1>1. pc' = pc => Steady /\ \A t \in Threads : pc'[t] = "detach" => pc[t] = "detach"
  BY DEF Steady
<1>2. CASE notifyJoiners
  <2>1. Steady /\ \A t \in Threads : pc'[t] = "detach" => pc[t] = "detach" \/ t = current
    BY <1>0, <1>2, GotoFacts DEF notifyJoiners, Executing
  <2>2. current \in QueueIds \ {"graveyardQueue", "runQueue"}
    BY <1>0, QueueNames
  <2> QED
    BY <1>2, <2>1, <2>2, MoveWaits DEF notifyJoiners
<1>3. CASE wakeSleepersWake
  <2>1. \E i \in DOMAIN queue["sleepQueue"] : queue' = wakeNth(queue, "sleepQueue", i)
    BY <1>3 DEF wakeSleepersWake
  <2>2. "sleepQueue" \in QueueIds \ {"graveyardQueue", "runQueue"}
    BY QueueNames
  <2> QED
    BY <1>1, <1>3, <2>1, <2>2, MoveWaits DEF wakeSleepersWake
<1>4. ASSUME NEW q \in WaitQueues, wakeOne(q) PROVE WaitInv'
  <2>1. 1 \in DOMAIN queue[q]
    BY <1>0, <1>4, QueueNames, EmptySeq DEF wakeOne, Queues
  <2> QED
    BY <1>1, <1>4, <2>1, QueueNames, MoveWaits DEF wakeOne
<1>5. ASSUME NEW q \in WaitQueues, wakeWaiters(q) PROVE WaitInv'
  BY <1>1, <1>5, QueueNames, MoveWaits DEF wakeWaiters
<1> QED
  BY <1>2, <1>3, <1>4, <1>5

(* The next thread in the run queue takes the CPU. *)
LEMMA WaitsSwitch ==
  ASSUME Inv, WaitInv, switchToThread
  PROVE  WaitInv'
<1>1. CASE queue["runQueue"] = <<>> \/ preemptionDisabled
  BY <1>1, WaitsQuiet DEF switchToThread
<1>2. CASE ~(queue["runQueue"] = <<>> \/ preemptionDisabled)
  <2> DEFINE h  == queue["runQueue"][1]
             rs == dequeueThread(queue, "runQueue", 1)
  <2>0. Queues(queue) /\ "runQueue" \in QueueIds /\ 1 \in DOMAIN queue["runQueue"]
    BY <1>2, OnFacts, QueueNames, EmptySeq DEF Queues
  <2>1. /\ current' = h /\ scan' = 0 /\ queue' = rs
        /\ UNCHANGED <<pc, target, refCount, chain>>
    BY <1>2 DEF switchToThread, lifeVars
  <2>2. scan > 0
    <3>1. Len(queue["sleepQueue"]) \in Nat /\ scan \in Nat
      BY QueueNames, LenProperties DEF Inv, TypeOK
    <3> QED
      BY <3>1 DEF switchToThread
  <2>3. \A p \in QueueIds : On(p)' = IF p = "runQueue" THEN On(p) \ {h} ELSE On(p)
    <3>1. \A p \in QueueIds : Range(rs[p]) =
            IF p = "runQueue" THEN Range(queue[p]) \ {h} ELSE Range(queue[p])
      BY <2>0, DequeueLemma
    <3> HIDE DEF rs, h
    <3> QED
      BY <2>1, <3>1 DEF On
  <2> HIDE DEF h, rs
  <2>4. Queued \subseteq Queued' \cup {h}
    BY <2>3 DEF Queued, QueuedIn, On
  <2>5. NoThreadLost'
    <3> SUFFICES ASSUME NEW t \in Threads, pc[t] \notin {"free", "dead", "created"}
                 PROVE  t \in Queued' \cup {h}
      BY <2>1 DEF WaitInv, NoThreadLost
    <3>1. t \in Queued \cup {current}
      BY DEF WaitInv, NoThreadLost
    <3>2. t = current => t \in Queued
      BY <2>2 DEF WaitInv, BlockedQueued
    <3> QED
      BY <2>4, <3>1, <3>2
  <2>6. JoinersNotForgotten'
    BY <2>1, <2>3, QueueNames DEF WaitInv, JoinersNotForgotten
  <2>7. BlockedQueued' /\ UnreferencedFound' /\ ReaperCalled'
    BY <2>1, <2>3, QueueNames DEF WaitInv, BlockedQueued, UnreferencedFound, ReaperCalled
  <2>8. IdleReady'
    <3>1. idle \in On("runQueue")
      BY <2>2 DEF WaitInv, IdleReady
    <3>2. On("runQueue")' = On("runQueue") \ {h}
      BY <2>3, QueueNames
    <3> QED
      BY <2>1, <3>1, <3>2 DEF IdleReady
  <2> QED
    BY <2>5, <2>6, <2>7, <2>8 DEF WaitInv
<1> QED
  BY <1>1, <1>2

(* A thread that nobody waits for comes to life. *)
LEMMA WaitsCreate ==
  ASSUME Inv, WaitInv, NEW t \in Threads, NEW detached \in BOOLEAN, createThread(t, detached)
  PROVE  WaitInv'
<1>1. /\ current \in Threads /\ Queues(queue) /\ scan = 0
      /\ pc[current] = "run" /\ pc[t] = "free" /\ current # t
      /\ queue' = threadQueueClear(queue, t)
      /\ UNCHANGED <<current, scan, chain>>
  BY OnFacts DEF createThread, Executing
<1>2. /\ pc'[t] = "created" /\ pc'[current] = "spawn"
      /\ \A u \in Threads \ {t, current} : pc'[u] = pc[u]
      /\ target'[current] = t /\ \A u \in Threads \ {current} : target'[u] = target[u]
      /\ refCount'[t] # 0 /\ \A u \in Threads \ {t} : refCount'[u] = refCount[u]
  BY <1>1 DEF createThread, Inv, TypeOK
<1>3. \A p \in QueueIds : On(p)' = On(p)
  <2> DEFINE rs == threadQueueClear(queue, t)
  <2>1. \A p \in QueueIds : Range(rs[p]) = IF p = t THEN {} ELSE Range(queue[p])
    BY <1>1, QueueNames, ClearLemma
  <2>2. On(t) = {}
    BY <1>1 DEF WaitInv, JoinersNotForgotten
  <2>3. queue' = rs
    BY <1>1
  <2> HIDE DEF rs
  <2> QED
    BY <2>1, <2>2, <2>3 DEF On
<1>4. Queued' = Queued
  BY <1>3 DEF Queued, QueuedIn, On
<1>5. NoThreadLost'
  <2> SUFFICES ASSUME NEW u \in Threads, pc'[u] \notin {"free", "dead"}
               PROVE  IF pc'[u] = "created" THEN \E c \in Threads : pc'[c] = "spawn" /\ target'[c] = u
                      ELSE u \in Queued' \cup {current'}
    BY DEF NoThreadLost
  <2>1. CASE u \in {t, current}
    BY <1>1, <1>2, <2>1
  <2>2. CASE u \notin {t, current} /\ pc[u] = "created"
    <3>1. PICK c \in Threads : pc[c] = "spawn" /\ target[c] = u
      BY <2>2 DEF WaitInv, NoThreadLost
    <3> QED
      BY <1>1, <1>2, <2>2, <3>1
  <2>3. CASE u \notin {t, current} /\ pc[u] # "created"
    BY <1>1, <1>2, <1>4, <2>3 DEF WaitInv, NoThreadLost
  <2> QED
    BY <2>1, <2>2, <2>3
<1>6. JoinersNotForgotten'
  <2> SUFFICES ASSUME NEW u \in Threads, NEW c \in On(u)
               PROVE  /\ pc'[c] = "join" /\ target'[c] = u
                      /\ pc'[u] \notin {"detach", "dead", "free"}
    BY <1>3, QueueNames DEF JoinersNotForgotten
  <2>1. /\ c \in Threads /\ pc[c] = "join" /\ target[c] = u
        /\ pc[u] \notin {"detach", "dead", "free"}
    BY OnFacts, QueueNames DEF WaitInv, JoinersNotForgotten
  <2> QED
    BY <1>1, <1>2, <2>1
<1>7. BlockedQueued' /\ IdleReady' /\ ReaperCalled'
  BY <1>1, <1>3, QueueNames DEF WaitInv, BlockedQueued, IdleReady, ReaperCalled
<1>8. UnreferencedFound'
  BY <1>1, <1>2, <1>3, QueueNames DEF WaitInv, UnreferencedFound
<1> QED
  BY <1>5, <1>6, <1>7, <1>8 DEF WaitInv

(* The new thread becomes runnable. *)
LEMMA WaitsSpawn ==
  ASSUME Inv, WaitInv, makeRunnableAtomic
  PROVE  WaitInv'
<1> DEFINE t == target[current]
<1>1. /\ current \in Threads /\ Queues(queue) /\ scan = 0
      /\ pc[current] = "spawn" /\ t \in Threads /\ pc[t] = "created"
      /\ queue' = enqueueThread(queue, "runQueue", t)
      /\ UNCHANGED <<current, scan, chain, refCount>>
  BY OnFacts DEF makeRunnableAtomic, Executing, Inv, SpawnersApart
<1>2. /\ pc'[t] = "launch" /\ pc'[current] = "run"
      /\ \A u \in Threads \ {t, current} : pc'[u] = pc[u]
      /\ \A u \in Threads \ {current} : target'[u] = target[u]
  BY <1>1 DEF makeRunnableAtomic, Inv, TypeOK
<1>3. t \notin Queued
  BY <1>1 DEF Inv, QueuesSorted, Queued, QueuedIn, On
<1>4. \A p \in QueueIds : On(p)' = IF p = "runQueue" THEN On(p) \cup {t} ELSE On(p)
  <2> HIDE DEF t
  <2> DEFINE rs == enqueueThread(queue, "runQueue", t)
  <2>0. Queues(queue) /\ "runQueue" \in QueueIds /\ t \in Threads /\ t \notin QueuedIn(queue)
    BY <1>1, <1>3, QueueNames DEF Queued
  <2>1. \A p \in QueueIds : Range(rs[p]) =
          IF p = "runQueue" THEN Range(queue[p]) \cup {t} ELSE Range(queue[p])
    BY <2>0, EnqueueLemma
  <2>2. queue' = rs
    BY <1>1
  <2> HIDE DEF rs
  <2> QED
    BY <2>1, <2>2 DEF On
<1>5. Queued' = Queued \cup {t}
  BY <1>4, QueueNames DEF Queued, QueuedIn, On
<1>6. NoThreadLost'
  <2> SUFFICES ASSUME NEW u \in Threads, pc'[u] \notin {"free", "dead"}
               PROVE  IF pc'[u] = "created" THEN \E c \in Threads : pc'[c] = "spawn" /\ target'[c] = u
                      ELSE u \in Queued' \cup {current'}
    BY DEF NoThreadLost
  <2>1. CASE u \in {t, current}
    BY <1>1, <1>2, <1>5, <2>1
  <2>2. CASE u \notin {t, current} /\ pc[u] = "created"
    <3>1. PICK c \in Threads : pc[c] = "spawn" /\ target[c] = u
      BY <2>2 DEF WaitInv, NoThreadLost
    <3>2. c \notin {t, current}
      BY <1>1, <2>2, <3>1
    <3> QED
      BY <1>2, <2>2, <3>1, <3>2
  <2>3. CASE u \notin {t, current} /\ pc[u] # "created"
    BY <1>1, <1>2, <1>5, <2>3 DEF WaitInv, NoThreadLost
  <2> QED
    BY <2>1, <2>2, <2>3
<1>7. JoinersNotForgotten'
  <2> SUFFICES ASSUME NEW u \in Threads, NEW c \in On(u)
               PROVE  /\ pc'[c] = "join" /\ target'[c] = u
                      /\ pc'[u] \notin {"detach", "dead", "free"}
    BY <1>4, QueueNames DEF JoinersNotForgotten
  <2>1. /\ c \in Threads /\ pc[c] = "join" /\ target[c] = u
        /\ pc[u] \notin {"detach", "dead", "free"}
    BY OnFacts, QueueNames DEF WaitInv, JoinersNotForgotten
  <2> QED
    BY <1>1, <1>2, <2>1
<1>8. BlockedQueued' /\ IdleReady' /\ ReaperCalled'
  BY <1>1, <1>4, QueueNames DEF WaitInv, BlockedQueued, IdleReady, ReaperCalled
<1>9. UnreferencedFound'
  BY <1>1, <1>2, <1>4, QueueNames DEF WaitInv, UnreferencedFound
<1> QED
  BY <1>6, <1>7, <1>8, <1>9 DEF WaitInv

(* join() is called: nobody who waits is the caller. *)
LEMMA WaitsJoin ==
  ASSUME Inv, WaitInv, NEW t \in Threads, join(t)
  PROVE  WaitInv'
<1>1. /\ current \in Threads /\ scan = 0 /\ current \notin Queued /\ pc[current] = "run"
      /\ UNCHANGED <<queue, current, scan, chain, refCount>>
  BY OnFacts DEF join, Executing, schedVars
<1>2. /\ pc'[current] = "join" /\ \A u \in Threads \ {current} : pc'[u] = pc[u]
      /\ \A u \in Threads \ {current} : target'[u] = target[u]
  BY <1>1 DEF join, Goto, Inv, TypeOK
<1>3. Queued' = Queued /\ \A p \in QueueIds : On(p)' = On(p)
  BY <1>1 DEF Queued, QueuedIn, On
<1>4. NoThreadLost'
  <2> SUFFICES ASSUME NEW u \in Threads, pc'[u] \notin {"free", "dead"}
               PROVE  IF pc'[u] = "created" THEN \E c \in Threads : pc'[c] = "spawn" /\ target'[c] = u
                      ELSE u \in Queued' \cup {current'}
    BY DEF NoThreadLost
  <2>1. CASE u = current
    BY <1>1, <1>2, <2>1
  <2>2. CASE u # current /\ pc[u] = "created"
    <3>1. PICK c \in Threads : pc[c] = "spawn" /\ target[c] = u
      BY <2>2 DEF WaitInv, NoThreadLost
    <3> QED
      BY <1>1, <1>2, <2>2, <3>1
  <2>3. CASE u # current /\ pc[u] # "created"
    BY <1>1, <1>2, <1>3, <2>3 DEF WaitInv, NoThreadLost
  <2> QED
    BY <2>1, <2>2, <2>3
<1>5. JoinersNotForgotten'
  <2> SUFFICES ASSUME NEW u \in Threads, NEW c \in On(u)
               PROVE  /\ pc'[c] = "join" /\ target'[c] = u
                      /\ pc'[u] \notin {"detach", "dead", "free"}
    BY <1>3, QueueNames DEF JoinersNotForgotten
  <2>1. /\ c \in Threads /\ pc[c] = "join" /\ target[c] = u
        /\ pc[u] \notin {"detach", "dead", "free"}
    BY OnFacts, QueueNames DEF WaitInv, JoinersNotForgotten
  <2> QED
    BY <1>1, <1>2, <2>1
<1>6. BlockedQueued' /\ IdleReady' /\ ReaperCalled'
  BY <1>1, <1>3, QueueNames DEF WaitInv, BlockedQueued, IdleReady, ReaperCalled
<1>7. UnreferencedFound'
  BY <1>1, <1>2, <1>3, QueueNames DEF WaitInv, UnreferencedFound
<1> QED
  BY <1>4, <1>5, <1>6, <1>7 DEF WaitInv

(* The queues, and who has died, after detachThread(t). *)
LEMMA DetachRanges ==
  ASSUME Inv, NEW t \in Threads, refCount[t] # 0, detachThread(t),
         refCount[t] = 1 => t \notin Queued
  PROVE  /\ refCount'[t] = refCount[t] - 1 /\ refCount[t] \in 1..2
         /\ \A u \in Threads \ {t} : refCount'[u] = refCount[u]
         /\ refCount[t] = 2 => \A p \in QueueIds : On(p)' = On(p)
         /\ refCount[t] = 1 => \A p \in QueueIds :
              On(p)' = IF p = "graveyardQueue" THEN On(p) \cup {t}
                       ELSE IF p = "reaperWaitQueue" THEN {}
                       ELSE IF p = "runQueue" THEN On(p) \cup On("reaperWaitQueue")
                       ELSE On(p)
<1>1. /\ refCount'[t] = refCount[t] - 1 /\ refCount[t] \in 1..2
      /\ \A u \in Threads \ {t} : refCount'[u] = refCount[u]
  BY DEF Inv, TypeOK, detachThread
<1>2. refCount[t] = 2 => queue' = queue
  BY DEF detachThread, reapIfUnreferenced
<1>3. ASSUME refCount[t] = 1
      PROVE  \A p \in QueueIds :
              On(p)' = IF p = "graveyardQueue" THEN On(p) \cup {t}
                       ELSE IF p = "reaperWaitQueue" THEN {}
                       ELSE IF p = "runQueue" THEN On(p) \cup On("reaperWaitQueue")
                       ELSE On(p)
  <2> DEFINE rs == reapThread(t)
  <2>1. \A p \in QueueIds : Range(rs[p]) =
              IF p = "graveyardQueue" THEN On(p) \cup {t}
              ELSE IF p = "reaperWaitQueue" THEN {}
              ELSE IF p = "runQueue" THEN On(p) \cup On("reaperWaitQueue")
              ELSE On(p)
    BY <1>3, OnFacts, ReapLemma
  <2>2. queue' = rs
    BY <1>3 DEF detachThread, reapIfUnreferenced
  <2> HIDE DEF rs
  <2> QED
    BY <2>1, <2>2 DEF On
<1> QED
  BY <1>1, <1>2, <1>3 DEF On

(* A step that drops the reference to t, who is the caller or dies here. *)
LEMMA DetachWaits ==
  ASSUME Inv, WaitInv, NEW t \in Threads, refCount[t] # 0, detachThread(t),
         refCount[t] = 1 => t \notin Queued,
         UNCHANGED <<current, chain>>, scan = 0, scan' \in Nat, current \notin Queued,
         scan' > 0 => pc'[current] = "dead",
         current = idle => scan' = 0,
         pc[current] \notin {"spawn", "free", "created", "dead"},
         pc'[current] \in {"run", "dead"},
         pc'[current] = "dead" => On(current) = {},
         \A u \in Threads \ {current} : pc'[u] = pc[u] /\ target'[u] = target[u]
  PROVE  WaitInv'
<1>1. /\ refCount'[t] = refCount[t] - 1 /\ refCount[t] \in 1..2
      /\ \A u \in Threads \ {t} : refCount'[u] = refCount[u]
      /\ refCount[t] = 2 => \A p \in QueueIds : On(p)' = On(p)
      /\ refCount[t] = 1 => \A p \in QueueIds :
              On(p)' = IF p = "graveyardQueue" THEN On(p) \cup {t}
                       ELSE IF p = "reaperWaitQueue" THEN {}
                       ELSE IF p = "runQueue" THEN On(p) \cup On("reaperWaitQueue")
                       ELSE On(p)
  BY DetachRanges
<1>2. current \in Threads /\ reaper \in Threads
  BY ThreadAssumption DEF Inv, TypeOK
<1>3. /\ On("graveyardQueue") \subseteq On("graveyardQueue")'
      /\ On("runQueue") \subseteq On("runQueue")'
      /\ \A u \in Threads : On(u)' = On(u)
      /\ refCount[t] = 1 => t \in On("graveyardQueue")' /\ On("reaperWaitQueue")' = {}
      /\ refCount[t] = 2 => /\ On("graveyardQueue")' = On("graveyardQueue")
                            /\ On("reaperWaitQueue")' = On("reaperWaitQueue")
  <2>1. \A u \in Threads : u \notin KernelQueues
    BY ThreadAssumption
  <2> QED
    BY <1>1, <2>1, QueueNames DEF KernelQueues
<1>4. Queued \subseteq Queued'
  <2> SUFFICES ASSUME NEW p \in QueueIds, NEW u \in On(p)
               PROVE  \E r \in QueueIds : u \in On(r)'
    BY DEF Queued, QueuedIn, On
  <2>1. "runQueue" \in QueueIds
    BY QueueNames
  <2> QED
    BY <1>1, <2>1
<1>5. NoThreadLost'
  <2> SUFFICES ASSUME NEW u \in Threads, pc'[u] \notin {"free", "dead"}
               PROVE  IF pc'[u] = "created" THEN \E c \in Threads : pc'[c] = "spawn" /\ target'[c] = u
                      ELSE u \in Queued' \cup {current'}
    BY DEF NoThreadLost
  <2>1. CASE u = current
    BY <2>1
  <2>2. CASE u # current /\ pc[u] = "created"
    <3>1. PICK c \in Threads : pc[c] = "spawn" /\ target[c] = u
      BY <2>2 DEF WaitInv, NoThreadLost
    <3> QED
      BY <2>2, <3>1
  <2>3. CASE u # current /\ pc[u] # "created"
    BY <1>4, <2>3 DEF WaitInv, NoThreadLost
  <2> QED
    BY <2>1, <2>2, <2>3
<1>6. JoinersNotForgotten'
  <2> SUFFICES ASSUME NEW u \in Threads, NEW c \in On(u)
               PROVE  /\ pc'[c] = "join" /\ target'[c] = u
                      /\ pc'[u] \notin {"detach", "dead", "free"}
    BY <1>3 DEF JoinersNotForgotten
  <2>1. /\ c \in Threads /\ pc[c] = "join" /\ target[c] = u /\ c # current
        /\ pc[u] \notin {"detach", "dead", "free"}
    BY OnFacts, QueueNames DEF WaitInv, JoinersNotForgotten
  <2> QED
    BY <2>1
<1>7. BlockedQueued'
  BY DEF BlockedQueued
<1>8. IdleReady'
  BY <1>3 DEF WaitInv, IdleReady
<1>9. UnreferencedFound'
  <2> SUFFICES ASSUME NEW u \in Threads, refCount'[u] = 0, pc'[u] # "free"
               PROVE  u \in On("graveyardQueue")' \cup Range(chain)
    BY DEF UnreferencedFound
  <2>1. CASE u = t
    BY <1>1, <1>3, <2>1
  <2>2. CASE u # t
    BY <1>1, <1>2, <1>3, <2>2 DEF WaitInv, UnreferencedFound
  <2> QED
    BY <2>1, <2>2
<1>10. ReaperCalled'
  BY <1>1, <1>3 DEF WaitInv, ReaperCalled
<1> QED
  BY <1>5, <1>6, <1>7, <1>8, <1>9, <1>10 DEF WaitInv

(* A thread leaves for good: nobody waits for it any more. *)
LEMMA WaitsDetach ==
  ASSUME Inv, LabelsInv, WaitInv, detachSelf
  PROVE  WaitInv'
<1>1. CASE KASSERTFails
  BY <1>1, WaitsQuiet
<1>2. CASE ~KASSERTFails
  <2>1. /\ refCount[current] # 0 /\ detachThread(current) /\ Goto("dead")
        /\ pc[current] = "detach" /\ scan = 0 /\ scan' = 1
        /\ UNCHANGED <<current, target, chain>>
    BY <1>2 DEF detachSelf, Executing
  <2>2. current \in Threads /\ current \notin Queued /\ current # idle
    BY <2>1, OnFacts, LabelsHere DEF Inv
  <2>3. pc'[current] = "dead" /\ \A u \in Threads \ {current} : pc'[u] = pc[u]
    BY <2>1, <2>2 DEF Goto, Inv, TypeOK
  <2>4. On(current) = {}
    BY <2>1, <2>2 DEF WaitInv, JoinersNotForgotten
  <2> QED
    BY <2>1, <2>2, <2>3, <2>4, DetachWaits
<1> QED
  BY <1>1, <1>2

(* A joiner returns and drops its reference. *)
LEMMA WaitsJoinReturns ==
  ASSUME Inv, WaitInv, joinReturns
  PROVE  WaitInv'
<1>1. CASE KASSERTFails
  BY <1>1, WaitsQuiet
<1>2. CASE ~KASSERTFails
  <2> DEFINE t == target[current]
  <2>1. /\ refCount[t] # 0 /\ detachThread(t) /\ Goto("run")
        /\ target' = [target EXCEPT ![current] = NoThread]
        /\ pc[current] = "join" /\ scan = 0
        /\ UNCHANGED <<current, scan, chain>>
    BY <1>2 DEF joinReturns, Executing
  <2>2. current \in Threads /\ current \notin Queued
    BY <2>1, OnFacts
  <2>3. /\ t \in handles[current] /\ t \in Threads
        /\ refCount[t] = 1 => pc[t] \in {"dead", "free"}
    BY <2>1, <2>2 DEF Inv, HandlesCounted, TypeOK
  <2>4. /\ pc'[current] = "run"
        /\ \A u \in Threads \ {current} : pc'[u] = pc[u] /\ target'[u] = target[u]
    BY <2>1, <2>2 DEF Goto, Inv, TypeOK
  <2> HIDE DEF t
  <2>5. refCount[t] = 1 => t \notin Queued
    <3> SUFFICES ASSUME refCount[t] = 1, NEW q \in QueueIds, t \in On(q) PROVE FALSE
      BY OnFacts
    <3>1. q = "graveyardQueue" /\ refCount[t] = 0
      BY <2>3 DEF Inv, QueuesSorted
    <3> QED
      BY <3>1
  <2> QED
    BY <2>1, <2>2, <2>3, <2>4, <2>5, DetachWaits
<1> QED
  BY <1>1, <1>2

(* The dead go from the graveyard to the list of the reaper. *)
LEMMA WaitsReaperTakes ==
  ASSUME Inv, LabelsInv, WaitInv, reaperTakes
  PROVE  WaitInv'
<1>1. /\ current \in Threads /\ Queues(queue) /\ scan = 0 /\ pc[current] = "reap"
      /\ chain' = queue["graveyardQueue"]
      /\ queue' = threadQueueClear(queue, "graveyardQueue") /\ Goto("taken")
      /\ UNCHANGED <<current, scan, refCount, target>>
  BY OnFacts DEF reaperTakes, Executing
<1>2. chain = <<>>
  BY <1>1, LabelsHere DEF Inv, Reaping
<1>3. Steady /\ \A t \in Threads : pc'[t] = "detach" => pc[t] = "detach"
  BY <1>1, GotoFacts, CommonLabels
<1>4. \A p \in QueueIds : On(p)' = IF p = "graveyardQueue" THEN {} ELSE On(p)
  <2> DEFINE rs == threadQueueClear(queue, "graveyardQueue")
  <2>1. \A p \in QueueIds : Range(rs[p]) =
          IF p = "graveyardQueue" THEN {} ELSE Range(queue[p])
    BY <1>1, QueueNames, ClearLemma
  <2>2. queue' = rs
    BY <1>1
  <2> HIDE DEF rs
  <2> QED
    BY <2>1, <2>2 DEF On
<1>5. \A t \in Threads : pc[t] # "dead" /\ t \in Queued => t \in Queued'
  <2> SUFFICES ASSUME NEW t \in Threads, pc[t] # "dead", NEW p \in QueueIds, t \in On(p)
               PROVE  t \in On(p)'
    BY OnFacts DEF Queued, QueuedIn, On
  <2>1. p # "graveyardQueue"
    BY DEF Inv, QueuesSorted
  <2> QED
    BY <1>4, <2>1
<1>6. Range(chain) = {} /\ Range(chain)' = On("graveyardQueue")
  BY <1>1, <1>2 DEF Range, On
<1>7. NoThreadLost'
  <2> SUFFICES ASSUME NEW u \in Threads, pc'[u] \notin {"free", "dead"}
               PROVE  IF pc'[u] = "created" THEN \E c \in Threads : pc'[c] = "spawn" /\ target'[c] = u
                      ELSE u \in Queued' \cup {current'}
    BY DEF NoThreadLost
  <2>1. pc[u] \notin {"free", "dead"} /\ (pc'[u] = "created" <=> pc[u] = "created")
    BY <1>3 DEF Steady, Unplaced
  <2>2. CASE pc[u] = "created"
    <3>1. PICK c \in Threads : pc[c] = "spawn" /\ target[c] = u
      BY <2>2 DEF WaitInv, NoThreadLost
    <3>2. pc'[c] = "spawn"
      BY <1>3, <3>1 DEF Steady
    <3> QED
      BY <1>1, <2>1, <2>2, <3>1, <3>2
  <2>3. CASE pc[u] # "created"
    BY <1>1, <1>5, <2>1, <2>3 DEF WaitInv, NoThreadLost
  <2> QED
    BY <2>2, <2>3
<1>8. JoinersNotForgotten'
  <2> SUFFICES ASSUME NEW t \in Threads, NEW c \in On(t)
               PROVE  /\ pc'[c] = "join" /\ target'[c] = t
                      /\ pc'[t] \notin {"detach", "dead", "free"}
    BY <1>4, QueueNames DEF JoinersNotForgotten
  <2>1. /\ c \in Threads /\ pc[c] = "join" /\ target[c] = t
        /\ pc[t] \notin {"detach", "dead", "free"}
    BY OnFacts, QueueNames DEF WaitInv, JoinersNotForgotten
  <2>2. pc'[c] = "join" /\ pc'[t] \notin {"dead", "free"}
    BY <1>3, <2>1 DEF Steady, Unplaced
  <2> QED
    BY <1>1, <1>3, <2>1, <2>2
<1>9. BlockedQueued' /\ IdleReady' /\ ReaperCalled'
  BY <1>1, <1>4, QueueNames DEF WaitInv, BlockedQueued, IdleReady, ReaperCalled
<1>10. UnreferencedFound'
  BY <1>1, <1>3, <1>6 DEF WaitInv, UnreferencedFound, Steady, Unplaced
<1> QED
  BY <1>7, <1>8, <1>9, <1>10 DEF WaitInv

(* The reaper frees the first thread it took. *)
LEMMA WaitsDestroy ==
  ASSUME Inv, WaitInv, destroyThread
  PROVE  WaitInv'
<1> DEFINE t == chain[1]
<1>1. /\ chain \in Seq(Threads) /\ chain # <<>>
      /\ chain' = Tail(chain) /\ pc' = [pc EXCEPT ![t] = "free"]
      /\ UNCHANGED <<queue, current, scan, refCount, target>>
  BY DEF destroyThread, Inv, TypeOK, schedVars
<1>2. /\ 1 \in DOMAIN chain /\ DOMAIN chain = 1..Len(chain) /\ Len(chain) \in Nat
      /\ t \in Threads
  BY <1>1, LenProperties, EmptySeq
<1>3. pc[t] = "dead"
  BY <1>2 DEF Inv, ChainDead
<1>4. Range(chain) \subseteq {t} \cup Range(chain)'
  <2> SUFFICES ASSUME NEW i \in DOMAIN chain, i # 1
               PROVE  \E j \in DOMAIN chain' : chain'[j] = chain[i]
    BY DEF Range
  <2>1. /\ Len(chain') = Len(chain) - 1 /\ chain' \in Seq(Threads)
        /\ \A j \in 1..Len(chain) - 1 : chain'[j] = chain[j + 1]
    BY <1>1, HeadTailProperties
  <2>2. i - 1 \in DOMAIN chain'
    BY <1>2, <2>1, LenProperties
  <2>3. i \in Int /\ i - 1 \in 1..Len(chain) - 1 /\ (i - 1) + 1 = i
    BY <1>2
  <2> QED
    BY <2>1, <2>2, <2>3
<1> HIDE DEF t
<1>5. pc'[t] = "free" /\ \A u \in Threads \ {t} : pc'[u] = pc[u]
  BY <1>1, <1>2 DEF Inv, TypeOK
<1>6. Queued' = Queued /\ \A p \in QueueIds : On(p)' = On(p)
  BY <1>1 DEF Queued, QueuedIn, On
<1>7. NoThreadLost'
  <2> SUFFICES ASSUME NEW u \in Threads, pc'[u] \notin {"free", "dead"}
               PROVE  IF pc'[u] = "created" THEN \E c \in Threads : pc'[c] = "spawn" /\ target'[c] = u
                      ELSE u \in Queued' \cup {current'}
    BY DEF NoThreadLost
  <2>1. u # t /\ pc[u] \notin {"free", "dead"} /\ pc'[u] = pc[u]
    BY <1>5
  <2>2. CASE pc[u] = "created"
    <3>1. PICK c \in Threads : pc[c] = "spawn" /\ target[c] = u
      BY <2>2 DEF WaitInv, NoThreadLost
    <3> QED
      BY <1>1, <1>3, <1>5, <2>1, <2>2, <3>1
  <2>3. CASE pc[u] # "created"
    BY <1>1, <1>6, <2>1, <2>3 DEF WaitInv, NoThreadLost
  <2> QED
    BY <2>2, <2>3
<1>8. JoinersNotForgotten'
  <2> SUFFICES ASSUME NEW u \in Threads, NEW c \in On(u)
               PROVE  /\ pc'[c] = "join" /\ target'[c] = u
                      /\ pc'[u] \notin {"detach", "dead", "free"}
    BY <1>6, QueueNames DEF JoinersNotForgotten
  <2>1. /\ c \in Threads /\ pc[c] = "join" /\ target[c] = u
        /\ pc[u] \notin {"detach", "dead", "free"}
    BY OnFacts, QueueNames DEF WaitInv, JoinersNotForgotten
  <2> QED
    BY <1>1, <1>3, <1>5, <2>1
<1>9. BlockedQueued'
  BY <1>1 DEF BlockedQueued, destroyThread, Executing
<1>10. IdleReady' /\ ReaperCalled'
  BY <1>1, <1>6, QueueNames DEF WaitInv, IdleReady, ReaperCalled
<1>11. UnreferencedFound'
  BY <1>1, <1>4, <1>5, <1>6, QueueNames DEF WaitInv, UnreferencedFound
<1> QED
  BY <1>7, <1>8, <1>9, <1>10, <1>11 DEF WaitInv

(* Every step keeps track of who waits where. *)
LEMMA NextWaits ==
  ASSUME Inv, LabelsInv, WaitInv, [Next]_vars
  PROVE  WaitInv'
<1>1. CASE schedule
  BY <1>1, WaitsWake, WaitsQuiet, WaitsSwitch DEF schedule
<1>2. CASE timerHandler
  BY <1>2, WaitsQuiet, WaitsBlock DEF timerHandler
<1>3. CASE spawnThread
  BY <1>3, WaitsCreate, WaitsQuiet, WaitsSpawn DEF spawnThread
<1>4. CASE exits
  BY <1>4, WaitsGoto, WaitsWake, WaitsDetach DEF exits
<1>5. CASE joins
  BY <1>5, WaitsJoin, WaitsBlock, WaitsJoinReturns DEF joins
<1>6. CASE reap
  BY <1>6, WaitsBlock, WaitsGoto, WaitsReaperTakes, WaitsDestroy DEF reap
<1>7. CASE blocks
  BY <1>7, WaitsBlock, WaitsGoto, WaitsWake DEF blocks
<1>8. CASE mutexes
  BY <1>8, WaitsGoto, WaitsBlock DEF mutexes
<1>9. CASE launchKernelThread \/ iret \/ khalt \/ UNCHANGED vars
  BY <1>9, WaitsGoto, WaitsQuiet
<1> QED
  BY <1>1, <1>2, <1>3, <1>4, <1>5, <1>6, <1>7, <1>8, <1>9 DEF Next

-----------------------------------------------------------------------------
(* No KASSERT fails.                                                       *)

(***************************************************************************)
(* schedule() finds a thread to run, as idle is always ready, and is not   *)
(* called with preemption disabled; detachThread() always finds a          *)
(* reference to drop.                                                      *)
(***************************************************************************)
LEMMA AssertsNext ==
  ASSUME Inv, LabelsInv, WaitInv, halted # "kassert", [Next]_vars
  PROVE  halted' # "kassert"
<1>1. CASE schedule
  <2>1. CASE wakeSleepersWake \/ wakeSleepersSkip
    BY <2>1 DEF wakeSleepersWake, wakeSleepersSkip
  <2>2. CASE switchToThread
    <3>1. scan > 0
      <4>1. Len(queue["sleepQueue"]) \in Nat /\ scan \in Nat
        BY QueueNames, LenProperties DEF Inv, TypeOK
      <4> QED
        BY <2>2, <4>1 DEF switchToThread
    <3>2. queue["runQueue"] # <<>>
      <4>1. idle \in On("runQueue")
        BY <3>1 DEF WaitInv, IdleReady
      <4> QED
        BY <4>1 DEF On, Range
    <3>3. ~preemptionDisabled
      BY <3>1 DEF LabelsInv, FlagOwned
    <3> QED
      BY <2>2, <3>2, <3>3 DEF switchToThread
  <2> QED
    BY <1>1, <2>1, <2>2 DEF schedule
<1>2. CASE exits
  <2>1. CASE detachSelf
    <3>0. current \in Threads /\ refCount[current] \in 0..2 /\ pc[current] = "detach"
      BY <2>1 DEF detachSelf, Executing, Inv, TypeOK
    <3>1. refCount[current] # 0
      BY <2>1, <3>0 DEF detachSelf, Executing, Inv, HandlesCounted
    <3> QED
      BY <2>1, <3>1 DEF detachSelf
  <2>2. CASE exits /\ ~detachSelf
    BY <2>2 DEF exits, exit, callDestructor, destructorReturns, notifyJoiners
  <2> QED
    BY <1>2, <2>1, <2>2
<1>3. CASE joins
  <2>1. CASE joinReturns
    <3>1. refCount[target[current]] # 0
      BY <2>1 DEF joinReturns, Executing, Inv, HandlesCounted, TypeOK
    <3> QED
      BY <2>1, <3>1 DEF joinReturns
  <2>2. CASE joins /\ ~joinReturns
    BY <2>2 DEF joins, join, joinWaits
  <2> QED
    BY <1>3, <2>1, <2>2
<1>4. CASE timerHandler \/ spawnThread
  BY <1>4 DEF timerHandler, timerTick, timerPreempts, spawnThread, createThread,
              createThreadFails, makeRunnableAtomic
<1>5. CASE reap
  BY <1>5 DEF reap, reaperWaits, reaperTakes, reaperYields, reaperResumes,
              destroyThread, reaperLoops
<1>6. CASE blocks
  BY <1>6 DEF blocks, yield, sleep, resumeRunning, begIntAtomic, endIntAtomic, wait,
              wakeOne, wakeWaiters
<1>7. CASE mutexes
  BY <1>7 DEF mutexes, disablePreemption, enablePreemption, mutexWait, mutexWaitReturns
<1>8. CASE launchKernelThread \/ iret \/ khalt \/ UNCHANGED vars
  BY <1>8 DEF launchKernelThread, iret, khalt, vars
<1> QED
  BY <1>1, <1>2, <1>3, <1>4, <1>5, <1>6, <1>7, <1>8 DEF Next

-----------------------------------------------------------------------------
(* The theorems.                                                           *)

SafeInv == Inv /\ LabelsInv /\ WaitInv /\ halted # "kassert"

(* The invariant behind the theorems below holds at the start. *)
LEMMA InitSafe == Init => SafeInv
<1>1. Init => halted # "kassert"
  BY DEF Init
<1> QED
  BY <1>1, InitInv, InitLabels, InitWaits DEF SafeInv

(***************************************************************************)
(* With interrupts, preemption and exits at every point, the idle thread   *)
(* stays awake, a blocked thread is on a queue, and who loses its last     *)
(* reference is on the way to the reaper.                                  *)
(***************************************************************************)
THEOREM SafeInvariance == ASSUME OwnersOnly PROVE Spec => []SafeInv
<1>1. Init => SafeInv
  BY InitSafe
<1>2. SafeInv /\ [Next]_vars => SafeInv'
  BY NextInv, NextLabels, NextWaits, AssertsNext DEF SafeInv
<1> QED
  BY <1>1, <1>2, PTL DEF Spec

(* Every thread that has not exited runs, is queued or is being spawned.   *)
THEOREM NobodyLost == ASSUME OwnersOnly PROVE Spec => []NoThreadLost
<1>1. SafeInv => NoThreadLost
  BY DEF SafeInv, WaitInv
<1> QED
  BY <1>1, SafeInvariance, PTL

(* join() waits only for a thread that has still to wake its joiners.      *)
THEOREM JoinersRemembered == ASSUME OwnersOnly PROVE Spec => []JoinersNotForgotten
<1>1. SafeInv => JoinersNotForgotten
  BY DEF SafeInv, WaitInv
<1> QED
  BY <1>1, SafeInvariance, PTL

(* The reaper does not wait while there are dead threads in the graveyard. *)
THEOREM ReaperRemembered == ASSUME OwnersOnly PROVE Spec => []ReaperNotForgotten
<1>1. SafeInv => ReaperNotForgotten
  <2> SUFFICES ASSUME SafeInv, reaper \in On("reaperWaitQueue")
               PROVE  queue["graveyardQueue"] = <<>>
    BY DEF ReaperNotForgotten
  <2>1. Range(queue["graveyardQueue"]) = {}
    BY DEF SafeInv, WaitInv, ReaperCalled, On
  <2>2. queue["graveyardQueue"] \in Seq(Threads)
    BY QueueNames DEF SafeInv, Inv, TypeOK
  <2>3. DOMAIN queue["graveyardQueue"] = {}
    BY <2>1 DEF Range
  <2>4. 1 \notin DOMAIN queue["graveyardQueue"]
    BY <2>3
  <2> QED
    BY <2>2, <2>4, EmptySeq
<1> QED
  BY <1>1, SafeInvariance, PTL

(* No KASSERT of kernel/thread.c fails and no dead thread is ever resumed. *)
THEOREM AssertionsNeverFail == ASSUME OwnersOnly PROVE Spec => []AssertionsHold
<1>1. SafeInv => AssertionsHold
  BY DEF SafeInv, AssertionsHold, Inv, CurrentPlaced, Executing, TypeOK
<1> QED
  BY <1>1, SafeInvariance, PTL

(***************************************************************************)
(* refCount never falls below what it counts, and is 0 exactly for the     *)
(* threads that the reaper will destroy.                                   *)
(***************************************************************************)
THEOREM ReferencesNeverShort == ASSUME OwnersOnly PROVE Spec => []ReferencesCounted
<1>1. SafeInv => ReferencesCounted
  <2> SUFFICES ASSUME SafeInv, NEW t \in Clients \ {main}, pc[t] # "free"
               PROVE  /\ refCount[t] >= (IF pc[t] = "dead" THEN 0 ELSE 1)
                                         + Cardinality({c \in Threads : t \in handles[c]})
                      /\ refCount[t] = 0 <=> t \in On("graveyardQueue") \cup Range(chain)
    BY DEF ReferencesCounted
  <2>1. t \in Threads /\ refCount[t] \in 0..2
    BY DEF Clients, SafeInv, Inv, TypeOK
  <2>2. refCount[t] >= (IF pc[t] = "dead" THEN 0 ELSE 1)
                         + Cardinality({c \in Threads : t \in handles[c]})
    <3> DEFINE H == {c \in Threads : t \in handles[c]}
    <3>1. CASE H = {}
      <4>1. Cardinality(H) = 0
        BY <3>1, FS_EmptySet
      <4>2. pc[t] # "dead" => refCount[t] > 0
        BY <2>1 DEF SafeInv, Inv, HandlesCounted
      <4> QED
        BY <2>1, <4>1, <4>2
    <3>2. CASE H # {}
      <4>1. PICK c \in Threads : t \in handles[c]
        BY <3>2
      <4>2. /\ \A d \in Threads : t \in handles[d] => d = c
            /\ refCount[t] > 0 /\ (pc[t] # "dead" => refCount[t] > 1)
        BY <4>1 DEF SafeInv, Inv, HandlesCounted
      <4>3. H = {c}
        BY <4>1, <4>2
      <4>4. Cardinality(H) = 1
        BY <4>3, FS_Singleton
      <4> QED
        BY <2>1, <4>2, <4>4
    <3> QED
      BY <3>1, <3>2
  <2>3. refCount[t] = 0 => t \in On("graveyardQueue") \cup Range(chain)
    BY <2>1 DEF SafeInv, WaitInv, UnreferencedFound
  <2>4. t \in On("graveyardQueue") \cup Range(chain) => refCount[t] = 0
    BY QueueNames DEF SafeInv, Inv, QueuesSorted, ChainDead, Range
  <2> QED
    BY <2>2, <2>3, <2>4
<1> QED
  BY <1>1, SafeInvariance, PTL
=============================================================================
