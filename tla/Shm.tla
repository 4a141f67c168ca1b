-------------------------------- MODULE Shm --------------------------------
(***************************************************************************)
(* Shared memory, the last part of kernel/mem.c: a thread takes a          *)
(* descriptor with shmGet() and writes to its buffer; readers wait in one  *)
(* queue for a write to any of them.  Nothing but ++i is done under the    *)
(* mutex.  A buffer has two parts, so that storing and copying take time;  *)
(* the n-th text stored (or memset) puts n into both.                      *)
(***************************************************************************)
EXTENDS Tasks

CONSTANTS
  Descs,        \* the number of descriptors, 100
  Readable,     \* the first that shmRead refuses, 10
  Id,           \* the id of each thread, which next_free_id++ may give to two;
                \* 0 is kMain's, which takes no descriptor
  ScanBound     \* how far beyond the last descriptor a scan is followed

ASSUME ShmAssumption ==
  /\ Descs \in Nat \ {0} /\ Readable \in 0..Descs /\ ScanBound \in Nat
  /\ Id \in [Tasks -> Nat \ {0}]

Desc == 0..(Descs - 1)

VARIABLES
  owner, buffer,    \* sharedMemory[d].owner and .buffer
  shmWaitQueue, shmLock,
  i,                \* shmGet's i of each thread
  copy,             \* what its shmRead has copied
  text,             \* the number it stores, or that of the text that woke it
  stored,           \* the descriptor of each text stored so far
  held,             \* the descriptors that shmGet returned to each thread
  raced,            \* the descriptors taken while a thread owned them, or
                    \* released by another thread of the owner's id
  late,             \* those stored to after a later text to them was begun
  blurred           \* the threads whose shmRead overlaps with a store

sharedVars == <<owner, buffer, shmWaitQueue, shmLock>>
shmVars    == <<sharedVars, i, copy, text, stored, held, raced, late, blurred>>

ShmInit ==
  /\ owner = [d \in Desc |-> 0] /\ buffer = [d \in Desc |-> <<0, 0>>]
  /\ shmWaitQueue = <<>> /\ shmLock = Nobody
  /\ i = [t \in Tasks |-> 0] /\ text = [t \in Tasks |-> 0]
  /\ copy = [t \in Tasks |-> <<0, 0>>]
  /\ stored = <<>> /\ held = [t \in Tasks |-> {}]
  /\ raced = {} /\ late = {} /\ blurred = {}

-----------------------------------------------------------------------------
(* shmGet: the test and the store are steps of their own; the loop has no  *)
(* end but a word that is 0, and beyond the array any word may be.         *)
(* mutexLock asserts that interrupts are on.                               *)

MayBeFree(d)  == d \in Desc => owner[d] = 0
MayBeTaken(d) == d \in Desc => owner[d] # 0

shmGetTests(t) ==
  /\ In(t, "shmGet", "in") /\ i[t] < Descs + ScanBound
  /\ \/ MayBeFree(i[t]) /\ Goto(t, "own")
     \/ MayBeTaken(i[t]) /\ off = t /\ KASSERTFails("mutexLock")
     \/ MayBeTaken(i[t]) /\ off # t /\ Goto(t, "lock")
  /\ UNCHANGED shmVars

(* A store beyond the array hits a word of something else: nothing comes   *)
(* of it, or the system is not heard of again.                             *)
shmGetOwns(t) ==
  /\ In(t, "shmGet", "own")
  /\ \/ /\ Returns(t)
        /\ IF i[t] \in Desc
             THEN /\ owner' = [owner EXCEPT ![i[t]] = Id[t]]
                  /\ raced' = IF owner[i[t]] = 0 THEN raced ELSE raced \cup {i[t]}
             ELSE UNCHANGED <<owner, raced>>
        /\ held' = [held EXCEPT ![t] = @ \cup {i[t]}]
        /\ i' = [i EXCEPT ![t] = 0]
     \/ /\ i[t] \notin Desc /\ halted' = "wild store"
        /\ UNCHANGED <<todo, at, off, saved, owner, raced, held, i>>
  /\ UNCHANGED <<buffer, shmWaitQueue, shmLock, copy, text, stored, late, blurred>>

shmGetLocks(t) ==
  /\ \/ /\ In(t, "shmGet", "lock") /\ shmLock = Nobody
        /\ shmLock' = t /\ Goto(t, "locked") /\ UNCHANGED i
     \/ /\ In(t, "shmGet", "locked")
        /\ i' = [i EXCEPT ![t] = @ + 1]
        /\ shmLock' = Nobody /\ Goto(t, "in")
  /\ UNCHANGED <<owner, buffer, shmWaitQueue, copy, text, stored, held, raced, late, blurred>>

-----------------------------------------------------------------------------
(* Stores to a buffer, by strcpy in shmWrite and by memset in shmRelease.  *)

At(t, fns, place, d) == at[t] = place /\ Call(t).fn \in fns /\ Call(t).desc = d

Numbered(t) ==
  /\ stored' = Append(stored, Call(t).desc)
  /\ text' = [text EXCEPT ![t] = Len(stored')]

(* A later text to d was begun before this one is stored: the descriptor   *)
(* changed hands in between, or two threads of one id write to it.         *)
Late(t, d) == \E n \in (text[t] + 1)..Len(stored) : stored[n] = d

Store(t, part) ==
  LET d == Call(t).desc IN
    /\ buffer' = [buffer EXCEPT ![d][part] = text[t]]
    /\ late' = IF Late(t, d) THEN late \cup {d} ELSE late
    /\ blurred' = blurred \cup {r \in Tasks : At(r, {"shmRead"}, "copied", d)}
    /\ UNCHANGED <<owner, shmWaitQueue, shmLock, i, copy, text, stored, held, raced>>

MutantOwns(t) == owner[Call(t).desc] # 0
Owns(t) == owner[Call(t).desc] = Id[t]

(* Another thread, of the same id, took the descriptor.                    *)
OfTwin(t, d) == owner[d] = Id[t] /\ d \notin held[t]

(* The owner is cleared before the buffer is.                              *)
shmRelease(t) ==
  \/ /\ In(t, "shmRelease", "in") /\ Owns(t)
     /\ owner' = [owner EXCEPT ![Call(t).desc] = 0]
     /\ held' = [held EXCEPT ![t] = @ \ {Call(t).desc}]
     /\ raced' = IF OfTwin(t, Call(t).desc) THEN raced \cup {Call(t).desc} ELSE raced
     /\ Numbered(t) /\ Goto(t, "first")
     /\ UNCHANGED <<buffer, shmWaitQueue, shmLock, i, copy, late, blurred>>
  \/ In(t, "shmRelease", "in") /\ ~Owns(t) /\ Returns(t) /\ UNCHANGED shmVars
  \/ In(t, "shmRelease", "first") /\ Store(t, 1) /\ Goto(t, "second")
  \/ In(t, "shmRelease", "second") /\ Store(t, 2) /\ Returns(t)

(* wakeOne(): the first in the queue may go on.                            *)
wakeOne(n) ==
  IF shmWaitQueue = <<>> THEN UNCHANGED <<shmWaitQueue, text>>
  ELSE /\ shmWaitQueue' = Tail(shmWaitQueue)
       /\ text' = [text EXCEPT ![Head(shmWaitQueue)] = n]

MutantShmWriteBegins(t) ==
  /\ Goto(t, "first")
  /\ stored' = Append(stored, Call(t).desc)
  /\ IF shmWaitQueue = <<>>
       THEN text' = [text EXCEPT ![t] = Len(stored')] /\ UNCHANGED shmWaitQueue
       ELSE /\ shmWaitQueue' = Tail(shmWaitQueue)
            /\ text' = [text EXCEPT ![t] = Len(stored'), ![Head(shmWaitQueue)] = Len(stored')]

shmWriteBegins(t) == Goto(t, "first") /\ Numbered(t) /\ UNCHANGED shmWaitQueue

shmWrite(t) ==
  \/ /\ In(t, "shmWrite", "in") /\ Owns(t) /\ shmWriteBegins(t)
     /\ UNCHANGED <<owner, buffer, shmLock, i, copy, held, raced, late, blurred>>
  \/ In(t, "shmWrite", "in") /\ ~Owns(t) /\ Returns(t) /\ UNCHANGED shmVars
  \/ In(t, "shmWrite", "first") /\ Store(t, 1) /\ Goto(t, "second")
  \/ In(t, "shmWrite", "second") /\ Store(t, 2) /\ Goto(t, "wake")
  \/ /\ In(t, "shmWrite", "wake") /\ wakeOne(text[t]) /\ Returns(t)
     /\ UNCHANGED <<owner, buffer, shmLock, i, copy, stored, held, raced, late, blurred>>

-----------------------------------------------------------------------------
(* shmRead waits first, whatever has been written; the descriptor is       *)
(* looked at afterwards.  A system call goes on with interrupts off.       *)

Copy(t, part) ==
  LET d == Call(t).desc IN
    /\ copy' = [copy EXCEPT ![t][part] = buffer[d][part]]
    /\ blurred' = IF \E u \in Tasks : At(u, {"shmWrite", "shmRelease"}, "second", d)
                    THEN blurred \cup {t} ELSE blurred

shmRead(t) ==
  \/ /\ In(t, "shmRead", "in")
     /\ shmWaitQueue' = Append(shmWaitQueue, t)
     /\ Waits(t, "waiting")
     /\ UNCHANGED <<owner, buffer, shmLock, i, copy, text, stored, held, raced, late, blurred>>
  \/ /\ In(t, "shmRead", "waiting") /\ t \notin {shmWaitQueue[n] : n \in DOMAIN shmWaitQueue}
     /\ at' = [at EXCEPT ![t] = "woken"]
     /\ off' = IF Call(t).via = Syscall THEN t ELSE Nobody
     /\ UNCHANGED <<shmVars, todo, saved, halted>>
  \/ /\ In(t, "shmRead", "woken") /\ Call(t).desc \in 0..(Readable - 1)
     /\ Copy(t, 1) /\ Goto(t, "copied")
     /\ UNCHANGED <<sharedVars, i, text, stored, held, raced, late>>
  \/ /\ In(t, "shmRead", "copied")
     /\ Copy(t, 2) /\ Goto(t, "read")
     /\ UNCHANGED <<sharedVars, i, text, stored, held, raced, late>>
  \/ /\ \/ In(t, "shmRead", "read")
        \/ In(t, "shmRead", "woken") /\ Call(t).desc \notin 0..(Readable - 1)
     /\ Returns(t)
     /\ blurred' = blurred \ {t}
     /\ copy' = [copy EXCEPT ![t] = <<0, 0>>]
     /\ UNCHANGED <<sharedVars, i, text, stored, held, raced, late>>

shmSteps(t) ==
  \/ shmGetTests(t) \/ shmGetOwns(t) \/ shmGetLocks(t)
  \/ shmRelease(t) \/ shmWrite(t) \/ shmRead(t)

-----------------------------------------------------------------------------
(***************************************************************************)
(* A descriptor is held by one thread, whose id its owner field has, and   *)
(* what has an owner is held by a thread of that id.  Two things break it: *)
(* a thread took it after another, having seen it free before (the mutex   *)
(* in shmGet protects nothing of that), or a thread that has the holder's  *)
(* id released it.                                                         *)
(***************************************************************************)
DescriptorsExclusive ==
  /\ \A t, u \in Tasks : t # u => held[t] \cap held[u] \cap Desc \subseteq raced
  /\ \A d \in Desc : owner[d] # 0 => \E t \in Tasks : owner[d] = Id[t] /\ d \in held[t]
  /\ \A t \in Tasks : \A d \in (held[t] \cap Desc) \ raced : owner[d] = Id[t]

(***************************************************************************)
(* What shmRead copies is one text, and not older than the write that woke *)
(* the reader, if that was to the same descriptor, no store overlapped     *)
(* with the copying, and none came after a later text was begun.           *)
(***************************************************************************)
TextReadIsWhole ==
  \A t \in Tasks \ blurred : \A d \in 0..(Readable - 1) :
    At(t, {"shmRead"}, "read", d) /\ d \notin late =>
      /\ copy[t][1] = copy[t][2]
      /\ stored[text[t]] = d => copy[t][1] >= text[t]
=============================================================================
