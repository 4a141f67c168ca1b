# Marox in TLA+

Marox is a small teaching kernel for one x86 CPU (`src/kernel`, C and
assembler): preemptive kernel threads, a page allocator, a heap, drivers for
timer, keyboard and real-time clock, and a system-call gate. This directory
holds TLA+ modules translated from that code, the configurations with which
TLC checks them, and proofs for TLAPS. There are no tests in the repository, and
all of the kernel's hard behaviour is about *when* an interrupt arrives, which
a test could hardly steer.

## 1. Inventory

| component | source | state | operations | hard behaviour |
|---|---|---|---|---|
| threads and scheduler | `thread.c`, `thread.h` | four kernel queues, a join queue per thread, `g_current_thread`, `thread_t` fields | `spawnThread`, `exit`, `join`, `detachThread`, reaper, `sleep`, `wait`, `wakeOne`, `wakeAll`, `yield`, `schedule` | interleaving by preemption, reference counts, one link field shared by all queues, a list edited while it is walked |
| interrupt flag | `int.c` | the CPU's IF | `cli`, `sti`, `begIntAtomic`, `endIntAtomic` | who may be interrupted where; system calls run with IF clear |
| timer | `timer.c` | `g_numTicks`, `g_need_reschedule` | `timerHandler`, `delay` | preemption, wrap-around of a 32-bit counter |
| context switch, interrupt stubs | `start.s` | stacks, registers | `switchToThread`, `irq_common_stub` | a thread leaves inside an interrupt and comes back later; `schedule` is called after the registers were restored |
| mutexes | `thread.c` | `locked`, `owner`, wait queue, `g_preemption_disabled` | `mutexLock`, `mutex_unlock` | release and wake-up, a global flag that belongs to the running thread |
| thread-local data | `thread.c` | `tlocalKeyCounter`, destructors | `tlocalCreate/Set/Get`, `tlocalExit` | destructors run with interrupts on in a dying thread; an early return leaves IF clear |
| list of all threads, thread ids | `thread.c` | `allThreadHead`, `next_free_id` | `allThreadsAdd/Remove`, `initThread` | changed with interrupts on |
| page allocator | `mem.c` | page array, free list with tail and count | `allocPage`, `freePage`, `memInit` | stale `next` pointers |
| shared memory | `mem.c` | 100 descriptors, `shmLock`, wait queue | `shmGet/Release/Read/Write` | check-then-set without a lock, a search without an end, wait without a condition, lock taken with IF clear |
| heap | `bget.c` | boundary-tagged blocks on a free list | `bget`, `brel`, `bpool` | splitting and merging, sizes with sign, sums that overflow |
| keyboard | `kb.c` | ring of 256 key codes, wait queue | `keyboardHandler`, `waitForKey`, `getLine` | full ring, producer in an interrupt, several readers |
| interrupt controller | `irq.c` | handler table, mask | `enableIrq`, `disableIrq`, `baseIrqHandler` | cached mask of two chips |
| real-time clock | `rtc.c` | `g_dateTime` | `rtcHandler`, `dateTime` | read torn by the interrupt; BCD and 12-hour conversion |
| system calls | `syscall.c` | a table | `syscallHandler` | callee runs with IF clear |
| screen | `screen.c` | cursor registers of the VGA controller, attribute | `kPutChar`, `kGetChar`, `kSetCursor` | index and data port accessed with interrupts on by several threads; unsigned offsets |
| printing, strings | `print.c`, `string.c` | none | `kvprintf`, `memset`, ... | pure functions |
| boot and tables | `main.c`, `gdt.c`, `idt.c`, `paging.c`, `io.s`, `util.s` | tables written once | init functions | none after boot |

Interaction: an interrupt (timer, keyboard, clock) runs on the stack of the
current thread with IF clear, may make threads runnable and may ask
`irq_common_stub` to call `schedule`. Threads share memory; they exclude the
interrupt handlers with IF and each other with IF, with
`g_preemption_disabled` or with a mutex. Pages for threads come from the page
allocator and go back to it through the reaper.

## 2. Modules

| module | models | kind |
|---|---|---|
| `Thread` | scheduler, timer preemption, life of threads | component |
| `Sleep` | `Thread` with history variables for what `sleep()` promises | composition |
| `Mutex` | a `mutex_t` on top of `Thread` | composition |
| `Lock` | what a mutex promises | abstract specification |
| `PageAlloc` | `allocPage`, `freePage` and the linked free list | component |
| `PageSet` | what a page allocator promises | abstract specification |
| `Bget` | the heap: `bpool`, `bget`, `bgetz`, `bgetr`, `brel` behind `shmInit`, `malloc`, `free` | component |
| `Buffers` | what a heap promises | abstract specification |
| `Irq` | the two interrupt controllers and `irq.c` | component |
| `Keyboard` | the handler of IRQ 1, the ring of key codes, its readers; extends `Irq` | component |
| `Rtc` | the real-time clock and its handler; extends `Irq` | component |
| `Devices` | `kMain`'s start-up with `Irq`, `Keyboard` and `Rtc` together | composition |
| `Tasks` | threads that call services, directly or through `int 0x80` | component |
| `Screen` | the cursor, access by access to its ports | component |
| `Shm` | shared memory | component |
| `ThreadList` | the list of all threads, thread ids, a thread's pages | component |
| `Tlocal` | the keys of thread-local data | component |
| `Services` | `Screen`, `Shm`, `ThreadList` and `Tlocal` under one scheduler | composition |
| `MC_Thread`, `MC_Sleep`, `MC_Mutex`, `MC_PageAlloc`, `MC_Bget`, `MC_Devices`, `MC_Services` | instances for TLC | model checking |
| `ThreadProofs` | facts about sequences as linked lists, the inductive invariant of `Thread` and what follows from it | proof |
| `ThreadSafety` | nobody is lost or forgotten, no assertion of `Thread` fails | proof |
| `SleepProofs` | who wakes early, and that no sleeper is overlooked | proof |
| `MutexProofs` | `Mutex` implements `Thread` and `Lock`; its flag and its waiters | proof |
| `PageAllocProofs` | the free list stays intact and implements `PageSet` | proof |
| `BgetProofs` | the heap stays in order, implements `Buffers`, and fails only when full | proof |
| `DevicesProofs` | interrupts, silent devices, the ring and its readers, lines, the date | proof |
| `ServicesProofs` | the interrupt flag of callers, owners of descriptors and their texts, the cursor, the list of all threads | proof |

### Thread

There is one CPU, and code that runs with IF clear cannot be interleaved with
anything. An action of `Thread` is therefore the code from one point where an
interrupt or a context switch may happen to the next; `pc[t]` names that
point. Labels are divided into `InterruptibleLabels` (IF set), `AtomicLabels`
(IF clear) and `UnstartedLabels`. `schedule()` itself is a loop of actions:
`scan` is the position of `wakeSleepers()` in the sleep queue (0 outside of
`schedule()`), `switchToThread` ends it. A thread preempted by the timer has
`inIrq` set, because it resumes in `irq_common_stub` (action `iret`) and not
where it was interrupted. `KASSERT` is modelled: when one fails the machine
halts (`halted`), and `AssertionsHold` says that this never happens.

Queues are sequences. In the code they are lists through the single field
`queueNext`; that a sequence per queue is an adequate picture is exactly what
`OnePlaceOnly` establishes (a thread is in one place of one queue only).

Clients (every thread but idle and reaper) may call any operation at any time,
with these restrictions: `main` does not exit (`kMain` runs for ever in
`join`), a section with IF clear or without preemption does not spawn or join
(the functions assert IF set), and with `OwnersOnly = TRUE` only the creator
of a thread joins it, and once. With `OwnersOnly = FALSE` any thread may, as
the code permits. A handle that its holder no longer has (it exited) is gone:
such a thread keeps its page for ever, as in the code. The memory the
allocator has is `Threads`; when it is used up `spawnThread` halts.

| bound | meaning |
|---|---|
| `Threads` | pages that can hold a thread, the three of `schedulerInit` included |
| `Quantum` | `THREAD_QUANTUM`; 0 lets every tick preempt, the most interleavings |
| `TickModulus` | 2^32 in the code, for the tick counter and for the arithmetic of `sleep()`; 1 where time is irrelevant, 8 in `Sleep` |
| `SleepMillis` | the durations asked of `sleep()`, in milliseconds |
| `TICKS_PER_SEC`, `MillisPerSec` | 100 and 1000 in the code; 2 and 3 in the runs |
| `MaxDestructors` | destructor calls of one `tlocalExit` |
| `WaitQueues` | queues of clients of `wait()` |

### Sleep

`sleep()` turns milliseconds into ticks (`InTicks`) with a product that wraps,
and adds them to a counter that wraps. `left[t]` counts the ticks that a sleeper
has yet to see, by the milliseconds that were asked (`AskedTicks`, computed
without a width), and `wrapped[t]` records that one of the two computations
wrapped. They change nothing in the kernel's steps.

### Mutex

`mutexLock()` and `mutex_unlock()` hold off other threads with
`g_preemption_disabled` while interrupts keep arriving. `stage[t]` says how far
thread `t` is in them; `locked` and `holder` are the fields of the `mutex_t`
and its wait queue is an element of `WaitQueues`. Every action is a step of
`Thread` (`disablePreemption`, `mutexWait`, `wakeOne`, `enablePreemption`) with
what it does to the mutex, and `others` is every other step of the kernel.
Clients keep three rules: only the mutex uses its wait queue, a thread does not
lock a mutex that it holds (`mutexLock` asserts it), and a thread that exits
has unlocked. A thread that holds the mutex may otherwise do anything, also
block for ever. `Implements` maps `Lock`'s `wanting` to the threads between
the call of `mutexLock()` and the assignment of `locked`.

A woken waiter may find the mutex taken again by a thread that came later and
goes to the tail of the queue, any number of times. The code promises no
fairness among waiters and none is stated.

### PageAlloc

Each operation runs between `begIntAtomic()` and `endIntAtomic()` and is one
action. `next` is the field of the page array, so that the list is the one in
memory and not a sequence: `FreelistIntact` says that following `next` from
the head `count` times visits each page marked `PAGE_AVAIL` once and ends in
the tail. `Garbage` is what the array may contain before `memInit`, which never
writes the `next` field of the last page.

`MayDrain = FALSE` restricts the clients: they do not take the last free page.
Under it the allocator implements `PageSet`, which is what `Thread` presumes
when `createThread` takes a page of its own choice. Without it the allocator
fails (section 6).

### Bget

Every call runs with IF clear and is one action; what could go wrong is the
arithmetic and the order of the writes within a call. `mem` maps the address of
each block to its header (`prevfree`, `bsize`, two links), and each function of
`bget.c` is an operator from memory to memory that makes the same updates in
the same order: an `EXCEPT` per assignment. Sizes are bytes; `SizeQuant` is 4
and a header has 8 bytes, as on the 32-bit machine. The allocator is compiled
with `BestFit` and `SizeQuant 4` and without statistics and dumps. `bectl` has
no caller, so that the hooks it sets stay `NULL` and the code they guard is
left out. `bgetr` has no caller either but is part of the allocator's
interface and cheap to keep. Its copy of the contents is data.

`malloc()` and `bgetr()` are asked for any unsigned word, which `bget()` takes
as a signed number (`Bufsize`), rounds and adds a header to (`SizeNeeded`);
`Word` is the number of values of a word, 2^32. A request of 0, or one that is
negative as a `bufsize`, fails an assertion; one whose sum wraps finds every
free block large enough and stores a header far outside the pool (`Wild`). Both
end in `bgetHalts`: what such a store destroys is not modelled.

Callers release each buffer once and never the hundred of `shmInit`. Each
assertion of the code is an operator (`bgetAsserts`, ...). `bgetHalts` is the
failure of those of `bget`; for the others an action that would fail one is
disabled. `AssertionsHold` says of every state that no next call fails any, if
the size it asks is at least 1 and its block can be measured by a `bufsize`
(`Representable`: up to 2^31 - 12). `Implements` maps the live buffers to
`Buffers`.

### Irq, Keyboard, Rtc and Devices

`Irq` has the handler table and the mask copy of `irq.c`, and the hardware they
drive: mask, request and in-service registers of both controllers with the
priorities of the cascade, latched edges, and spurious interrupts 7 and 15.
`dropped` records the requests that the reset in `irqInit` cleared. What
the chip itself does (`Rank`, `First`, `Request`, `Deliverable`) is no code of
the repository and is marked external; so are the keystrokes of `Keyboard` and
the clock of `Rtc`. A handler runs with IF clear and is one action
together with the acknowledgement and the return.

`Keyboard` has the output buffer of the keyboard controller (`data`), the ring
and its indices, the wait queue and the readers. A key code is one of the four
that the code tells apart. `kdbus` has fewer entries than there are scan codes;
a code beyond it may be read as anything. A key may be pressed at any time from
power-on, before `irqInit` too. `unread` and `lost` are history variables: what
was put into the ring and neither taken nor lost, and whether a full ring has
lost its codes.
`kc` of `getLine` is uninitialized at the first round and may be anything.
Between the test of the queue and `wait()` interrupts are off, so that
`waitForKey` and each round of `getLine` are one step.

`Rtc` has the clock with both formats of its registers, `rtcInit` access by
access, the handler and `dateTime()`. The handler's loop over the registers may
be overtaken by the clock (`smeared`), `dateTime()` member by member by the
handler; `time` is what was copied and `renewed` says whether another time was
published meanwhile. Four of the seven members
are modelled; day, month and weekday are treated as the minute is. What
happens to the hour in the 12-hour format is in section 6.

`Devices` is `kMain`'s order: masks and handlers with IF clear, `sti`, then the
drivers one after the other while interrupts arrive, then threads that read
keys and the date. The scheduler may switch threads at any interrupt, so that
any thread may take the next step; `Thread` models how.

### Tasks and Services

A thread has a list of calls to make (`todo`), each direct or through the gate
of `int 0x80`; `at` is its place in the present one. `off` is the thread that
runs with IF clear, if one does, `saved` the flag that the gate pushed. With
IF set any thread may run between any two steps. `Screen`, `Shm`, `ThreadList`
and `Tlocal` add the steps of their calls.

* `Screen`: each `outb`/`inb` to the index and data ports of the VGA controller
  is a step. Offsets are counted in cells (bytes in the code, two per cell) and
  are `unsigned`: `Wrap` is what they wrap at. `mixed` and `underflowed` record
  that a thread was switched between two accesses, and that a backspace was
  printed at the first cell.
* `Shm`: test and store of the owner, the useless lock, the stores of a text and
  the copying of it are steps of their own. A text is a number and has two
  parts. The search of `shmGet()` goes on beyond the array, where any word may
  be 0 or not (`MayBeFree`, `MayBeTaken`), and is followed for `ScanBound`
  words; a store there changes nothing that is modelled, or is the last step of
  the system (`"wild store"`). Threads may have the same id (`Id`), as
  `next_free_id++` permits. `raced` records the descriptors that were taken
  while they had an owner, or released by another thread of the owner's id,
  `late` those stored to after a later text was begun, `blurred` the readers
  that a store overlaps with: all of it is permitted by the code.
* `ThreadList`: `allThreadsAdd` walks the list with IF set; `next_free_id++` is
  a load and a store; `destroyThread` runs with IF clear.
* `Tlocal`: `tlocalCreate` returns with IF clear when there are no keys left.

`overtaken`, `reused` and `refused` are histories of the same kind. A property
that speaks of such a history says *exactly under which race* the promise
fails: outside of it, it holds.

## 3. Runs

| run | configuration | question | distinct states |
|---|---|---|---|
| `thread` | 2 pages beside `main`, `idle`, `reaper`; destructors; no wait queue | do spawn, exit, join, reaping and preemption ever break a queue, lose a thread, drop a reference twice, free a thread in use or fail an assertion? | 334,803 |
| `thread_blocks` | 1 page; sleep, a wait queue, waiting without preemption | is a thread lost by the calls that block? | 59,398 |
| `thread_live` | 1 page, wait queue, fairness | does every runnable thread run, every joiner return, every dead thread go? | 18,568 |
| `sleep` | 1 page, words modulo 8, 2 ticks in 3 ms, sleeps of 1, 3 and 4 ms | who wakes early, and is a sleeper overlooked by the walk that edits its list? | 1,214,025 |
| `mutex` | 2 pages, so 3 contenders | is the mutex a lock, is a waiter forgotten, does the preemption flag leak to another thread? | 1,097,801 |
| `page_alloc` | 4 pages, 2 clients | is the list in memory the set of free pages? | 2,790 |
| `heap` | 131 bytes, one buffer of 12 for `shmInit`, a word of 272, requests of 1, 9, 24, and 0, 130, 200 | do boundary tags and free list survive every order of calls, and is it a heap? | 31,911 |
| `devices` | 2 readers, ring of 3; 4 keys, or 4 ticks in each of the 4 register formats, or both | is every interrupt acknowledged and every device served, no key lost, no reader forgotten, no date invented? | 2,434,765 |
| `services` | 3 threads, two of them with one id, 11 workloads, screen of 2 by 3, 3 descriptors (2 readable) and 1 word beyond, 6 pages, 3 keys | what do the services promise when their callers are switched at any instruction? | 401,606 |
| `thread_join`, `sleep_wrap`, `page_alloc_drain` | | violated, see section 6 | |

Why these bounds are enough to be interesting:

* Two pages give the two threads that a race over a third one's reference count
  needs (`main` is the creator and joiner), chains of two dead threads in the
  graveyard, and pages that are used again after they were freed.
* `Quantum = 0` makes every tick preempt; the larger quanta of the code only
  remove interleavings. With it every interruptible label is also a point of
  preemption.
* A word of 8 values with 2 ticks in 3 milliseconds: 1 ms is less than a tick
  and is raised to one, 3 ms are 2 ticks, and for 4 ms the product is 8 and
  wraps, so that 1 tick is slept for 2. The tick counter passes through all its
  values, so that deadlines fall on both sides of its wrap. `sleep_wrap` leaves
  4 ms out, so that the deadline alone is at fault. `TickModulus = 1`, where no
  `sleep` is called, removes the clock.
* Four pages make a list with a head, a tail and pages in between, freed in
  every order.
* 131 bytes are no multiple of 4 (`bpool` rounds down) and hold six of the
  smallest blocks beside the one of `shmInit`. Requests of 1, 9 and 24 bytes are
  below the size of two links, between two multiples of 4 and on one; between
  them they leave remainders that are split off and such that are too small. 1
  and 9 together are what makes the `Slack` of `NullOnlyWhenFull` tight: with
  one byte less TLC finds it violated. With a word of 272 values 0 and 200 are
  refused by `assert(size > 0)`, and 130 is rounded to 132 and becomes -132 with
  its header; every block that the pool can have is below 136, the first value
  that is negative as a `bufsize`.
* A ring of 3 holds two codes; four keys wrap both indices, fill it with the
  head at 0 and elsewhere, and wake both readers, who are interchangeable. The
  clock goes from noon to the afternoon and to a midnight whose year is of the
  next century, so that every conversion matters; `TicksPerRead = 2` has ticks
  with and without a read of the registers. The three machines keep keys and
  ticks apart where they do not interact.
* The screen's six cells need both cursor registers (`Byte = 4`); the cursor
  starts at the last one, so that the first character scrolls. The workloads are
  the loops of `kMain`'s own threads and those in which two threads meet in one
  service: two printers, a printer and the date, two takers and a releaser of
  one descriptor with a reader, a system call against a direct one, four takers
  of three descriptors, a release of what another thread of the same id took,
  readers of both readable descriptors and of the one that `shmRead` refuses,
  more keys than there are, three creators and a destroyer. Threads are told
  apart by their workload; the free pages are interchangeable.
* In the runs without `sleep` or without a wait queue these calls are absent
  (`SleepMillis = {}`, `WaitQueues = {}`); `thread_blocks` has all of them.

Each property is shown to depend on the code: next to a definition stand
`Mutant...` operators, each the same definition with a plausible bug, under
which the property fails. They are part of no specification.

## 4. Fairness

Only `thread_live` assumes any (`Fairness` in `Thread`).

* `WF(uninterrupted)`: the CPU executes. These steps run with the interrupt
  flag clear, so that nothing can come between. `endIntAtomic` is among them:
  it is assumed that a client leaves a section in which it has disabled
  interrupts.
* `WF(enablePreemption)`: likewise for a section without preemption. Nothing
  else runs in the meantime, so that weak fairness is enough.
* `SF(timerPreempts)`: the timer keeps ticking and the 8259 keeps an interrupt
  pending while the flag is clear. A thread can make the action disabled for a
  while by `cli` or `disablePreemption`, again and again; that every tick falls
  into such a section is excluded.
* `SF` of the reaper's steps with interrupts on and of a destructor's return:
  they are finite stretches of code that a timer tick can interrupt, and that
  finish when the thread gets the CPU often enough.

Nothing is assumed of client code otherwise: a thread may loop for ever, and
`RunnableRuns` holds all the same.

## 5. Proofs

`tlapm` checks `ThreadProofs`, `ThreadSafety`, `SleepProofs`, `MutexProofs`,
`PageAllocProofs`, `BgetProofs`, `DevicesProofs` and `ServicesProofs`, for every
value of the constants that satisfies the modules' assumptions.

**Thread.** `Invariance`: if only creators join (`OwnersOnly`), `Spec => []Inv`.
`OnePlaceOnly` is not inductive: that `enqueueThread` never meets a queued
thread follows from what the labels mean. `Inv` adds

* `QueuesSorted`: dead threads without references are in the graveyard and
  nowhere else, and nobody else is;
* `CurrentPlaced`, `ChainDead`: the running thread has code to run, the reaper's
  list has dead, unreferenced, unqueued threads, each once;
* `SpawnersApart`: a thread being created has one creator, which alone will
  enqueue it;
* `HandlesCounted`: behind every handle stands a reference, so that a thread
  with a holder is never reaped, and a thread dies with its own reference.

The proof splits `Inv` into types, places and references. `Steady` names what
most steps have in common (no thread is created, dies or starts a join), so
that one lemma each serves the steps that move the current thread on, put it
onto a queue, or wake others; the steps that create, detach, reap and switch
have lemmas of their own. `TypeCorrect`, `QueuesApart` and `FreePagesUnused`
are consequences.

`ThreadSafety` goes on from there with `SafeInv`, which adds to `Inv`

* `LabelsInv`: what labels and flags say whatever is on the queues.
  `g_preemption_disabled` is set only in a section of the running thread, the
  idle thread never leaves its loop, `alive` is cleared before a thread begins
  to leave, only the reaper has a list of the dead;
* `WaitInv`: where threads wait. Next to `NoThreadLost` and
  `JoinersNotForgotten` it has that the thread that called `schedule()` is
  queued or dead (`BlockedQueued`), that the idle thread is on the run queue or
  is running (`IdleReady`), that a thread without references is in the graveyard
  or in the reaper's hands (`UnreferencedFound`), and that the reaper waits only
  while the graveyard is empty (`ReaperCalled`);
* that no assertion of the scheduler has failed.

The assertions are the reason for most of it: that `getNextRunnable` finds a
thread needs the idle thread on the queue, that `schedule` meets a clear
preemption flag needs `FlagOwned`, and that `exit` and `detachThread` find
`alive` and a reference as they expect needs `AliveStays` and
`HandlesCounted`. `NobodyLost`, `JoinersRemembered`, `ReaperRemembered`,
`AssertionsNeverFail` and `ReferencesNeverShort` are consequences.

**Sleep.** A step of `Sleep` is a step of `Thread`, so that `Inv` holds there
under `OwnersOnly` as well. `SleepInv` adds that the sleepers in front of `scan`
have still to sleep (`PassedInv`: taking one off the list moves the others up,
and the walk stays where it is), and that a thread with ticks left is on the
list, with a deadline just as far away, unless a computation of its deadline
wrapped (`SleepersInv`). That the ticks are those asked for without a wrap is
`WithoutOverflow`. Both
rest on one lemma, that every step but `sleep`, `wakeSleepersWake` and
`wakeSleepersSkip` lets sleepers lie (`OtherSteps`). `createThread`, which
clears a deadline, needs `QueuesSorted` for that: no sleeper's page is free.

**Mutex.** `MutexStepsAreSteps`: under `HolderAlone` every step of `Mutex` is a
step of `Thread`, so that `Inv` and `SafeInv` hold there without being proved
again. `MutualExclusion` and `MutexIsLock` follow from one lemma on what each
operation does to `locked`, `holder` and `stage`. `MutexSafe` joins these with
`PreemptionFlagOwned` and `WaitersNotForgotten`; the latter needs that whoever
is on the wait queue is in `mutexLock()`, so that the thread an unlock wakes is
one that is going to take the mutex.

**PageAlloc.** `FreelistIntact` with `PagesExclusive` is inductive if the list
never becomes empty: taking the head shifts the witness list by one, freeing a
page extends it by one. `Refinement` maps `free` to the pages marked
`PAGE_AVAIL` and `used` to those somebody holds. `PageAssertions` follows from
the types in the invariant.

**Bget.** The invariants that TLC checks are not inductive one by one: that
`brel` finds its neighbours needs the tags, that it may unlink one needs the
list, and that the list has just the free blocks needs the tags again.
`HeapInv` is: either `bpool` has not run, or

* `Tiled`: every block ends where the next one starts, is 16 bytes or longer,
  aligned, and has one block in front of it (but the first);
* `Tagged`: the block behind a free block has its size in `prevfree`, and a free
  block is followed by one that is not free; the links of all others are the
  callers';
* `Chained`: some sequence without repetition has all the free blocks, and their
  links both ways are its neighbours;
* `BuffersOk`: every block that is not free, but the sentinel, is the block of
  one buffer in use, and as long as was asked or up to 16 bytes longer.

One lemma each says what the stores of `Link`, `Unlink` and `Joined` leave in
every header; `LinkChains` and `UnlinkChains` carry the chain over them, and
`Divide` and `Merge` the tiling. `bget` then splits a block (`SplitPool`) or
takes it whole (`TakePool`). `brel` has a state in between, in which the block
it frees may touch a free one (`Loose`): `JoinPreviousPool` leads into it,
`JoinNextPool` stays in it, and the last store leads out (`TagPool`). On the way
fall all of `bgetAsserts`, `bgetzAsserts` and `brelAsserts`
(`NoAssertionFails`), for sizes that are `Representable`. For any others the
theorems claim what they claim of every state, and the step is a halt, which
changes no memory. `Walk` is a recursive function; that it goes along the
chain (`WalkAlong`) is shown by looking at the least index where it would not.
`HeapImplementsBuffers` follows from `HandsOut` and `TakesBack`: blocks are
disjoint and buffers are inside their blocks. `OutOfMemoryIsReal` looks at the
block at the start of a stretch and the two behind it. The 7 bytes
in `Slack` come from its longest case: a buffer of one byte has a block of 32
when no remainder could be split off, and the hole behind it begins later than
rounding to 4 explains.

**Devices.** `PicInv` says how far `kMain` is and what has been programmed by
then (`Progress`, `Programmed`), and which interrupt is in service during which
handler (`Acknowledged`). `DevicesNotStuck` is part of it: a request of the
keyboard is lost by the reset in `irqInit`, which `dropped` records, and by
nothing else, because the handler is installed before the IRQ is enabled; the
clock sends nothing before `rtcInit`, which comes later. `RingInv` is separate.
Its core is arithmetic: with indices modulo `Size`, storing one code and taking
`n` are appending to the sequence from head to tail and cutting off its front
(`StoredGrows`, `StoredShrinks`), except in the one case `StoredOverruns`.
Nothing about it depends on 256.

`LinesAreComplete` needs that nothing but key codes get into the ring, which
is so because the handler runs only when the controller has a byte (`CodesInv`),
and that a reader has letters only while it waits for the rest of its line
(`LineInv`). The editing of a line (`Typed`) is a recursive function; that it
exists, and that it leaves letters when it is given letters, erasures and
unmapped keys, is shown by the least place where it would not be so.

`DateIsTrue`: the format is known before the clock's IRQ is enabled
(`FormatInv`), so that the handler converts as the clock writes; unpacking BCD
is division with remainder (`Unpacked`), and the century added to a year is the
one of `CURRENT_YEAR` or the next (`Years`). `RtcAssumption` has the clock show
times of day and years in the 100 from `CURRENT_YEAR` on; a year outside of
these cannot be told from two digits. What is published is therefore a time the
clock showed (`PublishedInv`), and what `dateTime()` has copied is the beginning
of what is published, unless that was renewed (`CopyInv`).

**Services.** `FlagsGivenBack` needs that a thread that runs with IF clear is in
a system call, and that the gate saved a set flag (`FlagsInv`); it assumes
`CallsAllowed`: calls are from a set, in which `yield` is not a system call, as
in the table of `syscall.c`. What each step does to the calling thread is stated
once (`Moves`), so that the argument is made per kind of step and not per step.
`DescriptorsOwned` assumes nothing of the calls, and of the ids only that none
is 0: an owner is set by `shmGet()` and cleared by `shmRelease()`, `raced` has
the two cases in which that was not the owner's own doing, and a scan that ends
beyond the array takes no descriptor.

Each of the other three has an invariant of its own, which holds until the flag
is set that names the race.

* `CursorStaysOnScreen` assumes `CursorCalls`: what `kSetCursor` is told is a
  row and a column of the screen. While one thread at most is at the ports
  (`PortsInv`), the index port selects what it wrote there, `offset` has the
  high byte read so far or the high register has the high byte of `offset`, and
  the registers together are a cell whenever nobody is setting them. The rest is
  division with remainder: a cell goes into two bytes and comes out the same,
  and after every character but a backspace at the first cell a scroll of one
  row is enough.
* `TextsReadWhole`, for every readable descriptor: numbers are given in order,
  so that a buffer that no store hit `late` only ever gets later texts, and has
  one text whole unless its writer is between the two stores (`TextIn`). A
  reader that was woken carries the number of a text that has been stored by
  then, and what it copies is at least that, if it was to the same descriptor
  (`TextFor`). That a second part cannot come from a later text than the first
  is what `blurred` is about.
* `ThreadsListed`: `Listed` is what can be reached along `next`, which says
  nothing of the order. `Chained` does: the threads created are the members of
  one sequence without repetition, which starts at `allThreadHead`, and their
  links are its neighbours. Adding a thread makes it longer at its end, and
  removing one takes one member out. A walk along `Cardinality(Pages)` links
  covers the chain, which is shown by the least place it would not reach. Next
  to that, no page is used for two things (`PagesInv`), a page that is in
  nobody's list points nowhere (`OrderInv`), and ids are below the next one
  (`IdsInv`).

Every safety invariant and every refinement that a passing run checks is stated
by a theorem. Only model-checked is liveness (`RunnableRuns`, `JoinersReturn`,
`DeadAreDestroyed`), which is out of the prover's reach, like `ENABLED`.
No theorem extends to `OwnersOnly = FALSE` or
`MayDrain = TRUE`, where section 6 shows the properties violated.

## 6. Where the code departs from its comments

Three of these are runs of the project, and "run" names them. The others are in
the models, where the passing runs meet them and go round them as their
properties say; the change of configuration that makes TLC show one is given
with it.

* `thread.c:590`, `join()`: `KASSERT(thread->owner = g_current_thread)` assigns.
  The comment above says that only the owner can join; in fact anybody may, and
  two joiners drop one reference twice. Run `thread_join`; the proofs and the
  other runs assume `OwnersOnly`.
* `sleep()` has two ways to end too early, against the comment at
  `thread.c:610-612`, and `EarlyWakeOnlyOnWrap` shows that there is no third.
  `thread.c:617`: `milliseconds * TICKS_PER_SEC` is a `uint32_t` and wraps above
  42,949,672 ms; `main.c:228` sleeps for `atoi(num)*500`, where `num` is typed
  in. To see it, run `sleep_wrap` with `SleepMillis = {4}`. `thread.c:621`: the
  deadline wraps, too; a thread that goes to sleep shortly before the wrap is
  runnable at once. Run `sleep_wrap`. (A deadline shortly before the wrap can
  also be missed: `wakeSleepers` tests `getTicks() >= sleepUntil`, and when no
  `schedule()` falls between the deadline and the wrap the sleeper lies for
  another round of the counter. The comment promises no latest time, and
  `NoSleeperOverlooked` judges a deadline as the code does.)
* `mem.c:65`, `getFreelistPage()`: taking the last free page sets the head to
  `NULL` and then to the stale `next` of that page, against the comment at line
  58. The next `freePage` appends behind it and `allocPage` hands out a page
  that is in use. Run `page_alloc_drain`.
* `bget.c:598`, `bget()`: the head of the file (lines 274-276) promises a buffer
  or `NULL`. A size of 0, or from 2^31 on, halts in an assertion, and one from
  2^31 - 11 to 2^31 - 1 becomes negative by the rounding and the header, so that
  any free block is split for it and a header is stored far away. `heap` with
  `Requests <- SizesThatWrap` and the invariant `AlwaysAnswered` shows it.
* `irq.c:95`, `irqRemap()`: a key pressed before `irqInit` has its edge cleared
  by the reset of the controllers while its byte stays in the keyboard
  controller. No other edge comes before that byte is read, and only the handler
  reads it: no key is added to the queue from then on, against the comment at
  `kb.c:99-100`. `devices` with the invariant `KeyboardNotStuck` shows it.
* `kb.c:56`, `enqueueKeycode()`: with the tail at 255 and the head at 0 the full
  queue takes one more code and looks empty, against the comment at line 55.
  `devices` with the invariant `FullRingRefuses` shows it; `KeysInOrder` says
  that nothing else loses a key.

Five more observations were made on the way. No run is made of them: the
comment is about a fact outside of the models, is refuted by reading, or there
is none and the code merely does less than one might expect.

* `rtc.c:137`, `rtcInit()`: "interrupts must be disabled!", but `kMain` has
  called `sti` before. The models have interrupts on there, and
  `DevicesNotStuck` holds all the same, for the request that is latched in
  between is delivered when the IRQ is enabled.
* `rtc.c:101`: in the 12-hour format the hour is converted before its afternoon
  bit is taken off, and twelve o'clock is not treated apart. `DateTrue` claims
  the hour only for the formats that the code understands.
* `mem.h:13`: "1M heap"; `0x200000` are two.
* `mem.c:250`, `shmGet()`: the mutex is held for `++i` alone.
  `DescriptorsExclusive` says what is left. The owner is an id, and
  `thread.c:237` can give one id to two threads, which may then release and
  write to each other's descriptors.
* `mem.c:248`, `shmGet()`: with all hundred descriptors taken the search goes on
  behind the array, to the first word that is 0: there the id is stored, and a
  descriptor is returned that does not exist. Nothing says what should happen
  instead.

## 7. Not modelled

* Boot, descriptor tables and paging are written once, in the bit layout of the
  processor. `kClearScreen` runs once before there is a second
  thread.
* Printing, formatting and strings have no state that another part depends on.
  `dumpAllThreads` and the other printing functions are left out.
* Registers and stacks: a context switch is a change of `current`. Which
  registers `schedule()` changes after the stub has restored them
  (`start.s:271`) is decided by the compiler.
* `delay()` and the programming of the PIT; priorities, which nothing reads.
* What is destroyed by a store outside the heap or behind the descriptors: the
  system ends there, or goes on unharmed. A descriptor that a caller passes is
  one of the array: `shmWrite` and `shmRelease` do not look at the number, and a
  use of one outside of it, also of one that `shmGet` returned from there, reads
  and writes what is no descriptor.
* What a destructor does with its data, and which one is called: any number up
  to `MaxDestructors` is. `tlocalSet` and `tlocalGet` are stores and loads of
  that data.
* `disableIrq` and `irqEnabled`, and the hooks of `bectl`: nobody calls them.
* What the cells of the screen show and their attributes; the echo of `getLine`
  and the length of its buffer.
* The system calls `sleep`, `exit`, `waitForKey`, `getLine`, `malloc` and `free`
  are modelled where their functions are, without the gate; the gate is
  modelled with the calls of `Services`.

## 8. What is left

1. `ThreadQueue`: the queue operations on the fields `head`, `tail` and
   `queueNext`, shown to implement the sequences of `Thread` as long as
   `OnePlaceOnly` holds.
2. `ContextSwitch`: what the stubs save and restore.
