------------------------------- MODULE Thread -------------------------------
(***************************************************************************)
(* The kernel threads of Marox: kernel/thread.c with the timer interrupt   *)
(* (kernel/timer.c, irq_common_stub of kernel/start.s) that preempts them  *)
(* and the interrupt flag of kernel/int.c that makes them atomic.          *)
(*                                                                         *)
(* There is one CPU.  Code that runs with interrupts disabled cannot be    *)
(* interleaved with anything, so an action extends from one point where    *)
(* an interrupt or a context switch may happen to the next one.            *)
(* pc[t] is the point that thread t has reached, or, when t is not the     *)
(* current thread, the point it resumes from.                              *)
(***************************************************************************)
EXTENDS Integers, Sequences, FiniteSets, SequencesExt

CONSTANTS
  Threads,        \* the pages that can hold a thread_t
  NoThread,       \* the NULL thread_t*
  main,           \* the thread that runs kMain
  idle,           \* the idle thread of schedulerInit
  reaper,         \* the reaper thread of schedulerInit
  WaitQueues,     \* the thread_queue_t objects of the callers of wait()
  Quantum,        \* THREAD_QUANTUM
  TickModulus,    \* 2^32: g_numTicks and sleep()'s arithmetic are uint32_t
  SleepMillis,    \* the durations that sleep() is asked for
  TICKS_PER_SEC,  \* 100
  MillisPerSec,   \* 1000
  MaxDestructors, \* bound on the destructor calls of one tlocalExit
  OwnersOnly      \* TRUE: only a thread's creator joins it, and once

KernelQueues == {"runQueue", "sleepQueue", "graveyardQueue", "reaperWaitQueue"}

(***************************************************************************)
(* Every thread_queue_t of the kernel.  The queue named by a thread is its *)
(* joinQueue.  All of them link threads through the one field queueNext.   *)
(***************************************************************************)
QueueIds == KernelQueues \cup Threads \cup WaitQueues

ASSUME ThreadAssumption ==
  /\ {main, idle, reaper} \subseteq Threads
  /\ main # idle /\ main # reaper /\ idle # reaper
  /\ NoThread \notin Threads
  /\ Threads \cap KernelQueues = {}
  /\ Threads \cap WaitQueues = {}
  /\ WaitQueues \cap KernelQueues = {}
  /\ Quantum \in Nat
  /\ TickModulus \in Nat \ {0}
  /\ SleepMillis \subseteq 0..(TickModulus - 1)
  /\ TICKS_PER_SEC \in Nat \ {0} /\ MillisPerSec \in Nat \ {0}
  /\ MaxDestructors \in Nat
  /\ OwnersOnly \in BOOLEAN

VARIABLES
  queue,              \* the threads on each queue, head first
  current,            \* g_current_thread
  pc,                 \* where each thread is
  inIrq,              \* the thread was preempted: it resumes in irq_common_stub
  scan,               \* 0, or the sleeper that schedule() looks at next
  preemptionDisabled, \* g_preemption_disabled
  ticks,              \* g_numTicks
  numTicks,           \* thread_t.numTicks
  sleepUntil,         \* thread_t.sleepUntil
  alive,              \* thread_t.alive
  refCount,           \* thread_t.refCount
  owner,              \* thread_t.owner
  target,             \* the thread_t* of the spawnThread or join in progress
  handles,            \* the threads each thread created and has yet to join
  destructors,        \* destructor calls left in tlocalExit
  chain,              \* the dead threads the reaper has taken
  halted              \* "no", or why khalt() stopped the machine

schedVars  == <<queue, current, inIrq, scan, numTicks>>
clockVars  == <<ticks, sleepUntil>>
lifeVars   == <<alive, refCount, owner, target, handles, destructors, chain>>
vars == <<schedVars, clockVars, lifeVars, pc, preemptionDisabled, halted>>

-----------------------------------------------------------------------------
(* Where a thread can be.                                                  *)

InterruptibleLabels ==
  { "run",         \* thread code
    "nopreempt",   \* between disablePreemption() and enablePreemption()
    "spawn",       \* spawnThread, the new thread not yet runnable
    "destructor",  \* in a destructor called by tlocalExit
    "taken",       \* reaper, between sti() and yield()
    "destroy" }    \* reaper, destroying the threads it took

AtomicLabels ==
  { "launch",      \* new stack: launchKernelThread comes first
    "atomic",      \* between begIntAtomic() and endIntAtomic()
    "yield",       \* in yield, schedule() returns here
    "sleep",       \* in sleep, schedule() returns here
    "join",        \* in join, testing thread->alive
    "tlocalExit",  \* in exit, cleaning up thread-local data
    "detach",      \* in exit, dropping the thread's own reference
    "mutexWait",   \* in mutexWait, schedule() returns here
    "dead",        \* exit() has called schedule() for the last time
    "reap",        \* reaper, looking at graveyardQueue
    "reaperYield"} \* reaper, in yield

UnstartedLabels ==
  { "free",        \* the page is on the free list
    "created" }    \* createThread done, not yet on a queue

Labels == InterruptibleLabels \cup AtomicLabels \cup UnstartedLabels

(* Threads that run code of the kernel's clients. *)
Clients == Threads \ {idle, reaper}

(***************************************************************************)
(* The machine is executing the current thread at a given point: it is not *)
(* inside schedule() and not on its way out of an interrupt.               *)
(***************************************************************************)
Executing(label) ==
  /\ halted = "no"
  /\ scan = 0
  /\ ~inIrq[current]
  /\ pc[current] = label

(* interruptsEnabled(): the interrupt flag of the running code. *)
InterruptsEnabled == \E label \in InterruptibleLabels : Executing(label)

Goto(label) == pc' = [pc EXCEPT ![current] = label]

KASSERTFails ==
  /\ halted' = "kassert"
  /\ UNCHANGED <<schedVars, clockVars, lifeVars, pc, preemptionDisabled>>

-----------------------------------------------------------------------------
(* Thread queues, as operators on the function qs of all the queues.       *)
(* A Mutant is a plausible bug in the definition that follows it.          *)

MutantEnqueueThread(qs, q, t) == [qs EXCEPT ![q] = <<t>> \o @]
enqueueThread(qs, q, t) == [qs EXCEPT ![q] = Append(@, t)]

dequeueThread(qs, q, i) == [qs EXCEPT ![q] = RemoveAt(@, i)]

threadQueueClear(qs, q) == [qs EXCEPT ![q] = <<>>]

MutantWakeAll(qs, q) == [qs EXCEPT !["runQueue"] = @ \o qs[q]]
wakeAll(qs, q) == [qs EXCEPT !["runQueue"] = @ \o qs[q], ![q] = <<>>]

(* Take the i-th thread of queue q and make it runnable. *)
wakeNth(qs, q, i) == enqueueThread(dequeueThread(qs, q, i), "runQueue", qs[q][i])

reapThread(t) == wakeAll(enqueueThread(queue, "graveyardQueue", t), "reaperWaitQueue")

(* The queues after the reference count of t has dropped to n. *)
MutantReapWithoutWake(t, n) ==
  IF n = 0 THEN enqueueThread(queue, "graveyardQueue", t) ELSE queue
MutantReapReferenced(t, n) == IF n <= 1 THEN reapThread(t) ELSE queue
reapIfUnreferenced(t, n) == IF n = 0 THEN reapThread(t) ELSE queue

(* The threads on queue q, and the threads on any queue. *)
QueuedIn(qs) == UNION {Range(qs[q]) : q \in QueueIds}
On(q) == Range(queue[q])
Queued == QueuedIn(queue)

-----------------------------------------------------------------------------
(* The state schedulerInit leaves: main runs, idle and reaper are ready.   *)

Init ==
  /\ queue = [q \in QueueIds |->
                IF q = "runQueue" THEN <<idle, reaper>> ELSE <<>>]
  /\ current = main
  /\ pc = [t \in Threads |-> CASE t = main              -> "run"
                               [] t \in {idle, reaper} -> "launch"
                               [] OTHER                -> "free"]
  /\ inIrq = [t \in Threads |-> FALSE]
  /\ scan = 0
  /\ preemptionDisabled = FALSE
  /\ ticks = 0
  /\ numTicks = [t \in Threads |-> 0]
  /\ sleepUntil = [t \in Threads |-> 0]
  /\ alive = [t \in Threads |-> t \in {main, idle, reaper}]
  /\ refCount = [t \in Threads |-> IF t \in {main, idle, reaper} THEN 1 ELSE 0]
  /\ owner = [t \in Threads |-> NoThread]
  /\ target = [t \in Threads |-> NoThread]
  /\ handles = [t \in Threads |-> {}]
  /\ destructors = [t \in Threads |-> 0]
  /\ chain = <<>>
  /\ halted = "no"

-----------------------------------------------------------------------------
(* schedule(): wakeSleepers() walks the sleep queue, then getNextRunnable() *)
(* takes the head of the run queue and switchToThread() switches to it.     *)

MutantWakeAndSkip ==
  /\ halted = "no" /\ scan \in DOMAIN queue["sleepQueue"]
  /\ LET t == queue["sleepQueue"][scan] IN
       /\ ticks >= sleepUntil[t]
       /\ sleepUntil' = [sleepUntil EXCEPT ![t] = 0]
       /\ queue' = wakeNth(queue, "sleepQueue", scan)
  /\ scan' = scan + 1
  /\ UNCHANGED <<current, inIrq, numTicks, ticks, lifeVars, pc,
                 preemptionDisabled, halted>>

wakeSleepersWake ==
  /\ halted = "no" /\ scan \in DOMAIN queue["sleepQueue"]
  /\ LET t == queue["sleepQueue"][scan] IN
       /\ ticks >= sleepUntil[t]
       /\ sleepUntil' = [sleepUntil EXCEPT ![t] = 0]
       /\ queue' = wakeNth(queue, "sleepQueue", scan)
  /\ UNCHANGED <<current, inIrq, scan, numTicks, ticks, lifeVars, pc,
                 preemptionDisabled, halted>>

wakeSleepersSkip ==
  /\ halted = "no" /\ scan \in DOMAIN queue["sleepQueue"]
  /\ ticks < sleepUntil[queue["sleepQueue"][scan]]
  /\ scan' = scan + 1
  /\ UNCHANGED <<queue, current, inIrq, numTicks, clockVars, lifeVars, pc,
                 preemptionDisabled, halted>>

switchToThread ==
  /\ halted = "no" /\ scan > Len(queue["sleepQueue"])
  /\ IF queue["runQueue"] = <<>> \/ preemptionDisabled
       THEN KASSERTFails
       ELSE /\ current' = Head(queue["runQueue"])
            /\ queue' = dequeueThread(queue, "runQueue", 1)
            /\ numTicks' = [numTicks EXCEPT ![current] = 0]
            /\ scan' = 0
            /\ UNCHANGED <<inIrq, clockVars, lifeVars, pc,
                           preemptionDisabled, halted>>

(* A new thread's first instruction: sti().  The reaper starts with cli(). *)
launchKernelThread ==
  /\ Executing("launch")
  /\ Goto(IF current = reaper THEN "destroy" ELSE "run")
  /\ UNCHANGED <<schedVars, clockVars, lifeVars, preemptionDisabled, halted>>

(* The end of irq_common_stub for a thread that was preempted. *)
iret ==
  /\ halted = "no" /\ scan = 0
  /\ inIrq[current]
  /\ inIrq' = [inIrq EXCEPT ![current] = FALSE]
  /\ UNCHANGED <<queue, current, scan, numTicks, clockVars, lifeVars, pc,
                 preemptionDisabled, halted>>

(***************************************************************************)
(* irq0: timerHandler, then irq_common_stub.  A uint32_t wraps; numTicks   *)
(* stops at Quantum + 1 in the model, as only "> Quantum" is ever asked.   *)
(***************************************************************************)
countTick(n) ==
  /\ ticks' = (ticks + 1) % TickModulus
  /\ numTicks' = [numTicks EXCEPT ![current] = n]

timerTick ==
  /\ InterruptsEnabled
  /\ numTicks[current] < Quantum \/ preemptionDisabled
  /\ countTick(IF numTicks[current] > Quantum
                 THEN Quantum + 1 ELSE numTicks[current] + 1)
  /\ UNCHANGED <<queue, current, inIrq, scan, sleepUntil, lifeVars, pc,
                 preemptionDisabled, halted>>

MutantPreemptsAlways ==
  /\ InterruptsEnabled
  /\ numTicks[current] >= Quantum
  /\ countTick(Quantum + 1)
  /\ queue' = enqueueThread(queue, "runQueue", current)
  /\ inIrq' = [inIrq EXCEPT ![current] = TRUE]
  /\ scan' = 1
  /\ UNCHANGED <<current, sleepUntil, lifeVars, pc, preemptionDisabled,
                 halted>>

MutantPreemptsAndForgets ==
  /\ InterruptsEnabled
  /\ numTicks[current] >= Quantum /\ ~preemptionDisabled
  /\ countTick(Quantum + 1)
  /\ inIrq' = [inIrq EXCEPT ![current] = TRUE]
  /\ scan' = 1
  /\ UNCHANGED <<queue, current, sleepUntil, lifeVars, pc, preemptionDisabled,
                 halted>>

timerPreempts ==
  /\ InterruptsEnabled
  /\ numTicks[current] >= Quantum /\ ~preemptionDisabled
  /\ countTick(Quantum + 1)
  /\ queue' = enqueueThread(queue, "runQueue", current)
  /\ inIrq' = [inIrq EXCEPT ![current] = TRUE]
  /\ scan' = 1
  /\ UNCHANGED <<current, sleepUntil, lifeVars, pc, preemptionDisabled,
                 halted>>

-----------------------------------------------------------------------------
(* Blocking.  scan' = 1 is the call of schedule().                          *)

yield ==
  /\ Executing("run")
  /\ queue' = enqueueThread(queue, "runQueue", current)
  /\ scan' = 1
  /\ Goto("yield")
  /\ UNCHANGED <<current, inIrq, numTicks, clockVars, lifeVars,
                 preemptionDisabled, halted>>

(* sleep()'s conversion: the product wraps, and no sleep is shorter than 1. *)
MutantInTicks(ms) == ((ms * TICKS_PER_SEC) % TickModulus) \div MillisPerSec

InTicks(ms) ==
  LET ticksAsked == ((ms * TICKS_PER_SEC) % TickModulus) \div MillisPerSec
  IN  IF ticksAsked < 1 THEN 1 ELSE ticksAsked

(* From the sleep system call the flag is already clear, and stays so. *)
sleep(ms) ==
  /\ current \in Clients
  /\ \/ Executing("run") /\ Goto("sleep")
     \/ Executing("atomic") /\ UNCHANGED pc
  /\ sleepUntil' = [sleepUntil EXCEPT ![current] = (ticks + InTicks(ms)) % TickModulus]
  /\ queue' = enqueueThread(queue, "sleepQueue", current)
  /\ scan' = 1
  /\ UNCHANGED <<current, inIrq, numTicks, ticks, lifeVars,
                 preemptionDisabled, halted>>

(* schedule() returns to yield or sleep, which set the flag again. *)
resumeRunning ==
  /\ Executing("yield") \/ Executing("sleep")
  /\ Goto("run")
  /\ UNCHANGED <<schedVars, clockVars, lifeVars, preemptionDisabled, halted>>

begIntAtomic ==
  /\ Executing("run") /\ current \in Clients
  /\ Goto("atomic")
  /\ UNCHANGED <<schedVars, clockVars, lifeVars, preemptionDisabled, halted>>

endIntAtomic ==
  /\ Executing("atomic")
  /\ Goto("run")
  /\ UNCHANGED <<schedVars, clockVars, lifeVars, preemptionDisabled, halted>>

wait(q) ==
  /\ Executing("atomic")
  /\ queue' = enqueueThread(queue, q, current)
  /\ scan' = 1
  /\ UNCHANGED <<current, inIrq, numTicks, clockVars, lifeVars, pc,
                 preemptionDisabled, halted>>

MutantWakeOne(q) ==
  /\ Executing("atomic") \/ Executing("nopreempt")
  /\ queue[q] # <<>>
  /\ queue' = dequeueThread(queue, q, 1)
  /\ UNCHANGED <<current, inIrq, scan, numTicks, clockVars, lifeVars, pc,
                 preemptionDisabled, halted>>

wakeOne(q) ==
  /\ Executing("atomic") \/ Executing("nopreempt")
  /\ queue[q] # <<>>
  /\ queue' = wakeNth(queue, q, 1)
  /\ UNCHANGED <<current, inIrq, scan, numTicks, clockVars, lifeVars, pc,
                 preemptionDisabled, halted>>

(* By a thread with the flag clear, or by the handler of another IRQ. *)
wakeWaiters(q) ==
  /\ Executing("atomic") \/ InterruptsEnabled
  /\ queue[q] # <<>>
  /\ queue' = wakeAll(queue, q)
  /\ UNCHANGED <<current, inIrq, scan, numTicks, clockVars, lifeVars, pc,
                 preemptionDisabled, halted>>

disablePreemption ==
  /\ Executing("run") /\ current \in Clients
  /\ preemptionDisabled' = TRUE
  /\ Goto("nopreempt")
  /\ UNCHANGED <<schedVars, clockVars, lifeVars, halted>>

enablePreemption ==
  /\ Executing("nopreempt")
  /\ preemptionDisabled' = FALSE
  /\ Goto("run")
  /\ UNCHANGED <<schedVars, clockVars, lifeVars, halted>>

MutantMutexWait(q) ==
  /\ Executing("nopreempt")
  /\ queue' = enqueueThread(queue, q, current)
  /\ scan' = 1
  /\ Goto("mutexWait")
  /\ UNCHANGED <<current, inIrq, numTicks, clockVars, lifeVars,
                 preemptionDisabled, halted>>

mutexWait(q) ==
  /\ Executing("nopreempt")
  /\ preemptionDisabled' = FALSE
  /\ queue' = enqueueThread(queue, q, current)
  /\ scan' = 1
  /\ Goto("mutexWait")
  /\ UNCHANGED <<current, inIrq, numTicks, clockVars, lifeVars, halted>>

mutexWaitReturns ==
  /\ Executing("mutexWait")
  /\ preemptionDisabled' = TRUE
  /\ Goto("nopreempt")
  /\ UNCHANGED <<schedVars, clockVars, lifeVars, halted>>

-----------------------------------------------------------------------------
(* spawnThread.                                                            *)

createThread(t, detached) ==
  /\ Executing("run") /\ current \in Clients
  /\ pc[t] = "free"
  /\ alive' = [alive EXCEPT ![t] = TRUE]
  /\ refCount' = [refCount EXCEPT ![t] = IF detached THEN 1 ELSE 2]
  /\ owner' = [owner EXCEPT ![t] = IF detached THEN NoThread ELSE current]
  /\ handles' = [handles EXCEPT ![current] = IF detached THEN @ ELSE @ \cup {t}]
  /\ target' = [target EXCEPT ![current] = t]
  /\ queue' = threadQueueClear(queue, t)
  /\ sleepUntil' = [sleepUntil EXCEPT ![t] = 0]
  /\ numTicks' = [numTicks EXCEPT ![t] = 0]
  /\ pc' = [pc EXCEPT ![t] = "created", ![current] = "spawn"]
  /\ UNCHANGED <<current, inIrq, scan, ticks, destructors, chain,
                 preemptionDisabled, halted>>

(* KASSERT(thread) in spawnThread. *)
createThreadFails ==
  /\ Executing("run") /\ current \in Clients
  /\ \A t \in Threads : pc[t] # "free"
  /\ halted' = "outOfMemory"
  /\ UNCHANGED <<schedVars, clockVars, lifeVars, pc, preemptionDisabled>>

makeRunnableAtomic ==
  /\ Executing("spawn")
  /\ queue' = enqueueThread(queue, "runQueue", target[current])
  /\ pc' = [pc EXCEPT ![target[current]] = "launch", ![current] = "run"]
  /\ target' = [target EXCEPT ![current] = NoThread]
  /\ UNCHANGED <<current, inIrq, scan, numTicks, clockVars, alive, refCount,
                 owner, handles, destructors, chain, preemptionDisabled, halted>>

-----------------------------------------------------------------------------
(* exit.  Nobody can use the handles of a thread that is gone.             *)

exit(n) ==
  /\ current \in Clients \ {main}
  /\ Executing("run") \/ Executing("atomic")
  /\ alive' = [alive EXCEPT ![current] = FALSE]
  /\ handles' = [handles EXCEPT ![current] = {}]
  /\ destructors' = [destructors EXCEPT ![current] = n]
  /\ Goto("tlocalExit")
  /\ UNCHANGED <<schedVars, clockVars, refCount, owner, target, chain,
                 preemptionDisabled, halted>>

callDestructor ==
  /\ Executing("tlocalExit")
  /\ destructors[current] > 0
  /\ destructors' = [destructors EXCEPT ![current] = @ - 1]
  /\ Goto("destructor")
  /\ UNCHANGED <<schedVars, clockVars, alive, refCount, owner, target, handles,
                 chain, preemptionDisabled, halted>>

destructorReturns ==
  /\ Executing("destructor")
  /\ Goto("tlocalExit")
  /\ UNCHANGED <<schedVars, clockVars, lifeVars, preemptionDisabled, halted>>

MutantNotifiesNobody ==
  /\ Executing("tlocalExit")
  /\ destructors[current] = 0
  /\ Goto("detach")
  /\ UNCHANGED <<schedVars, clockVars, lifeVars, preemptionDisabled, halted>>

notifyJoiners ==
  /\ Executing("tlocalExit")
  /\ destructors[current] = 0
  /\ queue' = wakeAll(queue, current)
  /\ Goto("detach")
  /\ UNCHANGED <<current, inIrq, scan, numTicks, clockVars, lifeVars,
                 preemptionDisabled, halted>>

MutantDetachThread(t) ==
  /\ refCount' = [refCount EXCEPT ![t] = @ - 2]
  /\ queue' = reapIfUnreferenced(t, refCount[t] - 2)

detachThread(t) ==
  /\ refCount' = [refCount EXCEPT ![t] = @ - 1]
  /\ queue' = reapIfUnreferenced(t, refCount[t] - 1)

detachSelf ==
  /\ Executing("detach")
  /\ IF refCount[current] = 0
       THEN KASSERTFails
       ELSE /\ detachThread(current)
            /\ scan' = 1
            /\ Goto("dead")
            /\ UNCHANGED <<current, inIrq, numTicks, clockVars, alive, owner,
                           target, handles, destructors, chain,
                           preemptionDisabled, halted>>

-----------------------------------------------------------------------------
(* join.  The KASSERT that was meant to compare the owner assigns it.      *)

MayJoin(t) ==
  IF OwnersOnly THEN t \in handles[current]
  ELSE t # current /\ \E c \in Threads : t \in handles[c]

join(t) ==
  /\ Executing("run") /\ current \in Clients
  /\ MayJoin(t)
  /\ owner' = [owner EXCEPT ![t] = current]
  /\ target' = [target EXCEPT ![current] = t]
  /\ Goto("join")
  /\ UNCHANGED <<schedVars, clockVars, alive, refCount, handles, destructors,
                 chain, preemptionDisabled, halted>>

MutantJoinWaits ==
  /\ Executing("join")
  /\ queue' = enqueueThread(queue, target[current], current)
  /\ scan' = 1
  /\ UNCHANGED <<current, inIrq, numTicks, clockVars, lifeVars, pc,
                 preemptionDisabled, halted>>

joinWaits ==
  /\ Executing("join")
  /\ alive[target[current]]
  /\ queue' = enqueueThread(queue, target[current], current)
  /\ scan' = 1
  /\ UNCHANGED <<current, inIrq, numTicks, clockVars, lifeVars, pc,
                 preemptionDisabled, halted>>

joinReturns ==
  /\ Executing("join")
  /\ ~alive[target[current]]
  /\ IF refCount[target[current]] = 0
       THEN KASSERTFails
       ELSE /\ detachThread(target[current])
            /\ handles' = [handles EXCEPT ![current] = @ \ {target[current]}]
            /\ target' = [target EXCEPT ![current] = NoThread]
            /\ Goto("run")
            /\ UNCHANGED <<current, inIrq, scan, numTicks, clockVars, alive,
                           owner, destructors, chain,
                           preemptionDisabled, halted>>

-----------------------------------------------------------------------------
(* The reaper thread.                                                      *)

reaperWaits ==
  /\ Executing("reap")
  /\ queue["graveyardQueue"] = <<>>
  /\ queue' = enqueueThread(queue, "reaperWaitQueue", current)
  /\ scan' = 1
  /\ UNCHANGED <<current, inIrq, numTicks, clockVars, lifeVars, pc,
                 preemptionDisabled, halted>>

MutantReaperTakes ==
  /\ Executing("reap")
  /\ queue["graveyardQueue"] # <<>>
  /\ chain' = queue["graveyardQueue"]
  /\ Goto("taken")
  /\ UNCHANGED <<schedVars, clockVars, alive, refCount, owner, target, handles,
                 destructors, preemptionDisabled, halted>>

reaperTakes ==
  /\ Executing("reap")
  /\ queue["graveyardQueue"] # <<>>
  /\ chain' = queue["graveyardQueue"]
  /\ queue' = threadQueueClear(queue, "graveyardQueue")
  /\ Goto("taken")
  /\ UNCHANGED <<current, inIrq, scan, numTicks, clockVars, alive, refCount,
                 owner, target, handles, destructors, preemptionDisabled, halted>>

reaperYields ==
  /\ Executing("taken")
  /\ queue' = enqueueThread(queue, "runQueue", current)
  /\ scan' = 1
  /\ Goto("reaperYield")
  /\ UNCHANGED <<current, inIrq, numTicks, clockVars, lifeVars,
                 preemptionDisabled, halted>>

reaperResumes ==
  /\ Executing("reaperYield")
  /\ Goto("destroy")
  /\ UNCHANGED <<schedVars, clockVars, lifeVars, preemptionDisabled, halted>>

destroyThread ==
  /\ Executing("destroy")
  /\ chain # <<>>
  /\ chain' = Tail(chain)
  /\ pc' = [pc EXCEPT ![Head(chain)] = "free"]
  /\ UNCHANGED <<schedVars, clockVars, alive, refCount, owner, target, handles,
                 destructors, preemptionDisabled, halted>>

reaperLoops ==
  /\ Executing("destroy")
  /\ chain = <<>>
  /\ Goto("reap")
  /\ UNCHANGED <<schedVars, clockVars, lifeVars, preemptionDisabled, halted>>

-----------------------------------------------------------------------------
schedule == wakeSleepersWake \/ wakeSleepersSkip \/ switchToThread

timerHandler == timerTick \/ timerPreempts

spawnThread ==
  \/ \E t \in Threads, detached \in BOOLEAN : createThread(t, detached)
  \/ createThreadFails
  \/ makeRunnableAtomic

exits ==
  \/ \E n \in 0..MaxDestructors : exit(n)
  \/ callDestructor \/ destructorReturns \/ notifyJoiners \/ detachSelf

joins == (\E t \in Threads : join(t)) \/ joinWaits \/ joinReturns

reap == reaperWaits \/ reaperTakes \/ reaperYields \/ reaperResumes
        \/ destroyThread \/ reaperLoops

blocks ==
  \/ yield \/ (\E ms \in SleepMillis : sleep(ms)) \/ resumeRunning
  \/ begIntAtomic \/ endIntAtomic
  \/ \E q \in WaitQueues : wait(q) \/ wakeOne(q) \/ wakeWaiters(q)

mutexes ==
  \/ disablePreemption \/ enablePreemption
  \/ (\E q \in WaitQueues : mutexWait(q)) \/ mutexWaitReturns

(* khalt() is where a failed KASSERT ends. *)
khalt == halted # "no" /\ UNCHANGED vars

Next ==
  \/ schedule \/ launchKernelThread \/ iret \/ timerHandler
  \/ spawnThread \/ exits \/ joins \/ reap \/ blocks \/ mutexes
  \/ khalt

Spec == Init /\ [][Next]_vars

(***************************************************************************)
(* Fairness.  The CPU executes: a step with the flag clear, which nothing  *)
(* can delay, is taken, and so is a finite stretch of kernel code with the *)
(* flag set once the thread has had the CPU often enough.  The 8259 keeps  *)
(* a timer interrupt pending while the flag is clear, and a thread cannot  *)
(* arrange for every tick to fall into a section without preemption.       *)
(* Of client code it is assumed that it leaves the sections in which it    *)
(* has disabled interrupts or preemption; otherwise it may loop forever.   *)
(***************************************************************************)
uninterrupted ==
  \/ schedule \/ launchKernelThread \/ iret \/ resumeRunning
  \/ callDestructor \/ notifyJoiners \/ detachSelf \/ joinWaits \/ joinReturns
  \/ reaperWaits \/ reaperTakes \/ reaperResumes \/ mutexWaitReturns
  \/ endIntAtomic

Fairness ==
  /\ WF_vars(uninterrupted)
  /\ WF_vars(enablePreemption)
  /\ SF_vars(timerPreempts)
  /\ SF_vars(reaperYields \/ destroyThread \/ reaperLoops)
  /\ \A t \in Threads : SF_vars(current = t /\ destructorReturns)

FairSpec == Spec /\ Fairness

-----------------------------------------------------------------------------
(* Safety.                                                                 *)

(***************************************************************************)
(* Every variable holds a value of its C type: thread pointers point to    *)
(* pages that can hold threads and g_numTicks stays below 2^32.            *)
(***************************************************************************)
TypeOK ==
  /\ queue \in [QueueIds -> Seq(Threads)]
  /\ current \in Threads
  /\ pc \in [Threads -> Labels]
  /\ inIrq \in [Threads -> BOOLEAN]
  /\ scan \in Nat
  /\ preemptionDisabled \in BOOLEAN
  /\ ticks \in 0..(TickModulus - 1)
  /\ numTicks \in [Threads -> 0..(Quantum + 1)]
  /\ sleepUntil \in [Threads -> 0..(TickModulus - 1)]
  /\ alive \in [Threads -> BOOLEAN]
  /\ refCount \in [Threads -> 0..2]
  /\ owner \in [Threads -> Threads \cup {NoThread}]
  /\ target \in [Threads -> Threads \cup {NoThread}]
  /\ handles \in [Threads -> SUBSET Threads]
  /\ destructors \in [Threads -> 0..MaxDestructors]
  /\ chain \in Seq(Threads)
  /\ halted \in {"no", "outOfMemory", "kassert"}

(***************************************************************************)
(* All queues link threads through the one field queueNext, and            *)
(* enqueueThread() only asks whether the thread is already on the same     *)
(* queue: a thread that is on two queues, or on one queue twice, or that   *)
(* runs while it is queued, cuts or ties the lists.  No thread ever is.    *)
(***************************************************************************)
OnceIn(qs) ==
  \A p, q \in QueueIds :
    \A i \in DOMAIN qs[p], j \in DOMAIN qs[q] :
      qs[p][i] = qs[q][j] => p = q /\ i = j

OnceQueued == OnceIn(queue)

RunningUnqueued == scan = 0 => current \notin Queued

OnePlaceOnly == OnceQueued /\ RunningUnqueued

(***************************************************************************)
(* A thread that has not exited is running, on a queue, or about to be     *)
(* made runnable by the thread that spawned it: no path through wait, wake *)
(* and preemption drops one.                                               *)
(***************************************************************************)
NoThreadLost ==
  \A t \in Threads :
    CASE pc[t] \in {"free", "dead"} -> TRUE
      [] pc[t] = "created" -> \E c \in Threads : pc[c] = "spawn" /\ target[c] = t
      [] OTHER -> t \in Queued \cup {current}

(***************************************************************************)
(* The assertions of schedule(), getNextRunnable(), detachThread() and     *)
(* exit() hold: there is always a thread to run, nobody schedules with     *)
(* preemption disabled, no reference is dropped twice and no dead thread   *)
(* is ever scheduled.                                                      *)
(***************************************************************************)
AssertionsHold == halted # "kassert" /\ ~Executing("dead")

(***************************************************************************)
(* The page of a thread goes back to the free list only when no queue, no  *)
(* holder of a handle, no join in progress and no list of the reaper still *)
(* points to it.                                                           *)
(***************************************************************************)
NoUseAfterFree ==
  \A t \in Threads : pc[t] = "free" =>
    /\ t \notin Queued \cup {current} \cup Range(chain)
    /\ \A c \in Threads :
         t \notin handles[c] /\ (pc[c] # "free" => target[c] # t)

(***************************************************************************)
(* refCount of a spawned thread counts the thread itself until it is dead  *)
(* and the handle of its creator, and is 0 exactly when the thread has     *)
(* been handed to the reaper, which has not destroyed it yet.              *)
(***************************************************************************)
ReferencesCounted ==
  \A t \in Clients \ {main} : pc[t] # "free" =>
    /\ refCount[t] >= (IF pc[t] = "dead" THEN 0 ELSE 1)
                       + Cardinality({c \in Threads : t \in handles[c]})
    /\ refCount[t] = 0 <=> t \in On("graveyardQueue") \cup Range(chain)

(***************************************************************************)
(* A thread waits in join() only for a thread that has still to notify its *)
(* joinQueue in exit(): alive is cleared long before, with interrupts on   *)
(* in between when destructors run, and the wake-up is never missed.       *)
(***************************************************************************)
JoinersNotForgotten ==
  \A t \in Threads : \A c \in On(t) :
    /\ pc[c] = "join" /\ target[c] = t
    /\ pc[t] \notin {"detach", "dead", "free"}

(***************************************************************************)
(* Only the owner can join on a thread (the comment in join()).            *)
(***************************************************************************)
OnlyTheOwnerJoins ==
  \A c \in Threads : pc[c] = "join" => target[c] \in handles[c]

(***************************************************************************)
(* The reaper never sleeps over a graveyard that has a thread in it.       *)
(***************************************************************************)
ReaperNotForgotten ==
  reaper \in On("reaperWaitQueue") => queue["graveyardQueue"] = <<>>

-----------------------------------------------------------------------------
(* The inductive invariant behind OnePlaceOnly and NoUseAfterFree.         *)

(* Only dead threads without references are in the graveyard, and only     *)
(* threads that have still code to run are on another queue.               *)
QueuesSorted ==
  \A q \in QueueIds : \A t \in On(q) :
    IF q = "graveyardQueue"
      THEN pc[t] = "dead" /\ refCount[t] = 0
      ELSE pc[t] \notin {"free", "created", "dead"}

CurrentPlaced ==
  /\ pc[current] \notin {"free", "created"}
  /\ pc[current] = "dead" => scan > 0

ChainDead ==
  /\ \A i \in DOMAIN chain :
       pc[chain[i]] = "dead" /\ refCount[chain[i]] = 0 /\ chain[i] \notin Queued
  /\ \A i, j \in DOMAIN chain : chain[i] = chain[j] => i = j

(* Every thread that is being spawned belongs to one spawner, and outside *)
(* of spawnThread and join a thread keeps no pointer to another.          *)
SpawnersApart ==
  /\ \A c \in Threads : target[c] # NoThread => pc[c] \in {"spawn", "join"}
  /\ \A c \in Threads : pc[c] = "spawn" =>
       target[c] \in Threads /\ pc[target[c]] = "created"
  /\ \A c, d \in Threads :
       pc[c] = "spawn" /\ pc[d] = "spawn" /\ target[c] = target[d] => c = d

(* Every handle has a reference behind it, and every living thread too. *)
HandlesCounted ==
  /\ \A t \in Threads : pc[t] \notin {"free", "dead"} => refCount[t] > 0
  /\ \A c \in Threads : \A t \in handles[c] :
       /\ pc[t] # "free" /\ refCount[t] > 0
       /\ pc[t] # "dead" => refCount[t] > 1
       /\ \A d \in Threads : t \in handles[d] => c = d
  /\ \A c \in Threads : pc[c] = "join" => target[c] \in handles[c]

Inv ==
  /\ TypeOK /\ OnePlaceOnly /\ QueuesSorted /\ CurrentPlaced /\ ChainDead
  /\ SpawnersApart /\ HandlesCounted

-----------------------------------------------------------------------------
(* Liveness.  Nothing is promised once the machine has halted.             *)

Halted == halted # "no"

(***************************************************************************)
(* A runnable thread gets the CPU, whatever the others do: the run queue   *)
(* is served first come, first served and nobody keeps the CPU.            *)
(***************************************************************************)
RunnableRuns ==
  \A t \in Threads : t \in On("runQueue") ~> (current = t \/ Halted)

(***************************************************************************)
(* A thread that waits in join() for a thread that has exited returns.     *)
(***************************************************************************)
JoinersReturn ==
  \A c \in Threads :
    (pc[c] = "join" /\ ~alive[target[c]]) ~> (pc[c] # "join" \/ Halted)

(***************************************************************************)
(* A dead thread that nobody refers to is destroyed and its page freed.    *)
(***************************************************************************)
DeadAreDestroyed ==
  \A t \in Threads :
    (pc[t] = "dead" /\ refCount[t] = 0) ~> (pc[t] = "free" \/ Halted)
=============================================================================
