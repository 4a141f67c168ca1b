--------------------------- MODULE ServicesProofs ---------------------------
(***************************************************************************)
(* Proofs about Services, for any threads, calls and descriptors: every    *)
(* call gives the interrupt flag back, and a descriptor is one thread's    *)
(* but for a race between two shmGet() and a release by another thread of  *)
(* the owner's id.  The cursor stays on the screen, a text is read as one  *)
(* thread wrote it, and the list of all threads holds those that were      *)
(* created, for calls made with the interrupts on or off.                  *)
(***************************************************************************)
EXTENDS Services, SequenceTheorems, FiniteSetTheorems, WellFoundedInduction, TLAPS

CONSTANT Calls    \* what the threads may call

(* Threads make calls; nothing in the table of system calls yields.        *)
CallsAllowed ==
  /\ Workloads \subseteq [Tasks -> Seq(Calls)]
  /\ \A c \in Calls : c.fn = "yield" => c.via = Direct

-----------------------------------------------------------------------------
(* What the steps of the services do to the thread that makes them.        *)

(* The places within a call; only shmGet() has one named "own". *)
Elsewhere ==
  {"in", "getHigh", "getIndex", "getLow", "set", "setHigh", "setIndex", "setLow",
   "stack", "userStack", "load", "store", "add", "walk", "link",
   "lock", "locked", "first", "second", "wake", "waiting", "woken", "copied", "read"}
Within == Elsewhere \cup {"own"}

TaskTypes ==
  /\ todo \in [Tasks -> Seq(Calls)]
  /\ at \in [Tasks -> Within \cup {"out"}]
  /\ saved \in [Tasks -> Tasks \cup {Nobody}]

(* A thread goes on within its call, to one of some places; it may wait    *)
(* there, or have been woken.                                              *)
Advances(t, places) ==
  /\ at' = [at EXCEPT ![t] = at'[t]] /\ at'[t] \in places
  /\ \/ off' = off
     \/ off' = Nobody
     \/ off' = IF Call(t).via = Syscall THEN t ELSE Nobody
  /\ UNCHANGED <<todo, saved, halted>>

Fails == halted' # "cli" /\ UNCHANGED <<todo, at, off, saved>>

Moves(t, places) ==
  /\ Runs(t) /\ todo[t] # <<>> /\ at[t] # "out"
  /\ Advances(t, places) \/ Returns(t) \/ (at[t] \in places /\ Fails)

(* The screen. *)
LEMMA ScreenMoves ==
  ASSUME TaskTypes, NEW t \in Tasks, screenSteps(t)
  PROVE  Moves(t, Elsewhere)
<1> USE DEF In, Elsewhere
<1>1. CASE getCursorOffset(t)
  <2>1. /\ Runs(t) /\ todo[t] # <<>> /\ at[t] # "out"
        /\ Goto(t, "getHigh") \/ Goto(t, "getIndex") \/ Goto(t, "getLow")
    BY <1>1 DEF getCursorOffset, outIndex
  <2> QED
    BY <2>1 DEF Moves, Advances, Goto, TaskTypes, Within
<1>2. CASE kPutChar(t)
  <2>1. Runs(t) /\ todo[t] # <<>> /\ at[t] # "out" /\ Goto(t, "set")
    BY <1>2 DEF kPutChar
  <2> QED
    BY <2>1 DEF Moves, Advances, Goto, TaskTypes, Within
<1>3. CASE kGetChar(t)
  BY <1>3 DEF kGetChar, Moves
<1>4. CASE kSetCursor(t)
  <2>1. Runs(t) /\ todo[t] # <<>> /\ at[t] # "out" /\ Goto(t, "set")
    BY <1>4 DEF kSetCursor
  <2> QED
    BY <2>1 DEF Moves, Advances, Goto, TaskTypes, Within
<1>5. CASE setCursorOffset(t)
  <2>1. /\ Runs(t) /\ todo[t] # <<>> /\ at[t] # "out"
        /\ Goto(t, "setHigh") \/ Goto(t, "setIndex") \/ Goto(t, "setLow") \/ Returns(t)
    BY <1>5 DEF setCursorOffset, outIndex
  <2> QED
    BY <2>1 DEF Moves, Advances, Goto, TaskTypes, Within
<1> QED
  BY <1>1, <1>2, <1>3, <1>4, <1>5 DEF screenSteps

(* The list of threads. *)
LEMMA ListMoves ==
  ASSUME TaskTypes, NEW t \in Tasks, listSteps(t)
  PROVE  Moves(t, Elsewhere)
<1> USE DEF In, Elsewhere
<1>1. CASE allocates(t)
  <2>1. /\ Runs(t) /\ todo[t] # <<>> /\ at[t] # "out"
        /\ Goto(t, "stack") \/ Goto(t, "userStack") \/ Goto(t, "load") \/ Returns(t)
    BY <1>1 DEF allocates, fails
  <2> QED
    BY <2>1 DEF Moves, Advances, Goto, TaskTypes, Within
<1>2. CASE initThread(t)
  <2>1. /\ Runs(t) /\ todo[t] # <<>> /\ at[t] # "out"
        /\ Goto(t, "store") \/ Goto(t, "add")
    BY <1>2 DEF initThread
  <2> QED
    BY <2>1 DEF Moves, Advances, Goto, TaskTypes, Within
<1>3. CASE allThreadsAdd(t)
  <2>1. /\ Runs(t) /\ todo[t] # <<>> /\ at[t] # "out"
        /\ Goto(t, "walk") \/ Goto(t, "link") \/ Returns(t)
           \/ (at[t] = "walk" /\ Fails)
    BY <1>3 DEF allThreadsAdd, KASSERTFails, Fails
  <2> QED
    BY <2>1 DEF Moves, Advances, Goto, TaskTypes, Within
<1>4. CASE destroyThread(t)
  BY <1>4 DEF destroyThread, Moves
<1> QED
  BY <1>1, <1>2, <1>3, <1>4 DEF listSteps, createThread

(* Shared memory: only shmGet() goes on to own a descriptor. *)
LEMMA ShmMoves ==
  ASSUME TaskTypes, NEW t \in Tasks, shmSteps(t)
  PROVE  /\ Moves(t, Within)
         /\ ~shmGetTests(t) /\ ~shmGetOwns(t) => Moves(t, Elsewhere)
<1> USE DEF In, Within, Elsewhere
<1>1. CASE shmGetTests(t)
  <2>1. /\ Runs(t) /\ todo[t] # <<>> /\ at[t] # "out"
        /\ Goto(t, "own") \/ Goto(t, "lock") \/ (at[t] = "in" /\ Fails)
    BY <1>1 DEF shmGetTests, KASSERTFails, Fails
  <2> QED
    BY <1>1, <2>1 DEF Moves, Advances, Goto, TaskTypes, Within
<1>2. CASE shmGetOwns(t)
  BY <1>2 DEF shmGetOwns, Moves, Fails
<1>3. CASE shmGetLocks(t)
  <2>1. /\ Runs(t) /\ todo[t] # <<>> /\ at[t] # "out"
        /\ Goto(t, "locked") \/ Goto(t, "in")
    BY <1>3 DEF shmGetLocks
  <2> QED
    BY <2>1 DEF Moves, Advances, Goto, TaskTypes, Within
<1>4. CASE shmRelease(t)
  <2>1. /\ Runs(t) /\ todo[t] # <<>> /\ at[t] # "out"
        /\ Goto(t, "first") \/ Goto(t, "second") \/ Returns(t)
    BY <1>4 DEF shmRelease
  <2> QED
    BY <2>1 DEF Moves, Advances, Goto, TaskTypes, Within
<1>5. CASE shmWrite(t)
  <2>1. /\ Runs(t) /\ todo[t] # <<>> /\ at[t] # "out"
        /\ Goto(t, "first") \/ Goto(t, "second") \/ Goto(t, "wake") \/ Returns(t)
    BY <1>5 DEF shmWrite, shmWriteBegins
  <2> QED
    BY <2>1 DEF Moves, Advances, Goto, TaskTypes, Within
<1>6. CASE shmRead(t)
  <2>1. /\ Runs(t) /\ todo[t] # <<>> /\ at[t] # "out"
        /\ \/ Waits(t, "waiting") \/ Goto(t, "copied") \/ Goto(t, "read") \/ Returns(t)
           \/ /\ at' = [at EXCEPT ![t] = "woken"]
              /\ off' = IF Call(t).via = Syscall THEN t ELSE Nobody
              /\ UNCHANGED <<todo, saved, halted>>
    BY <1>6 DEF shmRead
  <2>2. at' = [at EXCEPT ![t] = "woken"] => at'[t] = "woken"
    BY DEF TaskTypes
  <2> QED
    BY <2>1, <2>2 DEF Moves, Advances, Goto, Waits, TaskTypes
<1> QED
  BY <1>1, <1>2, <1>3, <1>4, <1>5, <1>6 DEF shmSteps

-----------------------------------------------------------------------------
(* The interrupt flag.                                                     *)

(* Only a system call runs with interrupts off, and int 0x80 saves them as *)
(* on: but for a thread that tlocalCreate() refused a key.                 *)
FlagsInv ==
  /\ \A t \in Tasks \ refused :
       off = t => at[t] # "out" /\ todo[t] # <<>> /\ Call(t).via = Syscall
  /\ \A t \in Tasks : saved[t] = Nobody \/ (saved[t] = t /\ t \in refused)
  /\ halted = "cli" => refused # {}

(* The calls yet to be made are fewer by one when a call returns. *)
LEMMA Returning ==
  ASSUME TaskTypes, NEW t \in Tasks, todo[t] # <<>>
  PROVE  [todo EXCEPT ![t] = Tail(@)] \in [Tasks -> Seq(Calls)]
<1>1. Tail(todo[t]) \in Seq(Calls)
  BY HeadTailProperties DEF TaskTypes
<1> QED
  BY <1>1 DEF TaskTypes

(* A step within a call, or its return, keeps the flags. *)
LEMMA MovesKeepFlags ==
  ASSUME TaskTypes, FlagsInv, NEW t \in Tasks, Moves(t, Within), UNCHANGED refused
  PROVE  TaskTypes' /\ FlagsInv'
<1>0. Runs(t) /\ todo[t] # <<>> /\ at[t] # "out" /\ Nobody \notin Tasks
  BY TasksAssumption DEF Moves
<1>1. CASE Advances(t, Within)
  <2>1. /\ at' = [at EXCEPT ![t] = at'[t]] /\ at'[t] \in Within /\ at'[t] # "out"
        /\ todo' = todo /\ saved' = saved /\ halted' = halted /\ refused' = refused
        /\ \/ off' = off
           \/ off' = Nobody
           \/ off' = t /\ Call(t).via = Syscall
    BY <1>1 DEF Advances, Within, Elsewhere
  <2>2. TaskTypes'
    BY <2>1 DEF TaskTypes
  <2>3. ASSUME NEW u \in Tasks, u \notin refused, off' = u
        PROVE  at'[u] # "out" /\ todo[u] # <<>> /\ Call(u).via = Syscall
    <3>1. CASE u = t
      BY <1>0, <2>1, <2>3, <3>1 DEF FlagsInv
    <3>2. CASE u # t
      <4>1. off = u
        BY <1>0, <2>1, <2>3, <3>2
      <4> QED
        BY <2>1, <2>3, <3>2, <4>1 DEF FlagsInv, TaskTypes
    <3> QED
      BY <3>1, <3>2
  <2> QED
    BY <2>1, <2>2, <2>3 DEF FlagsInv, Call
<1>2. CASE Returns(t)
  <2>1. /\ at' = [at EXCEPT ![t] = "out"]
        /\ todo' = [todo EXCEPT ![t] = Tail(@)]
        /\ off' = IF Call(t).via = Syscall THEN saved[t] ELSE off
        /\ saved' = [saved EXCEPT ![t] = Nobody]
        /\ halted' = halted /\ refused' = refused
    BY <1>2 DEF Returns
  <2>2. TaskTypes'
    BY <1>0, <2>1, Returning DEF TaskTypes
  <2>3. ASSUME NEW u \in Tasks, u \notin refused, off' = u
        PROVE  at'[u] # "out" /\ todo'[u] # <<>> /\ Call(u)'.via = Syscall
    <3>1. Call(t).via # Syscall
      BY <1>0, <2>1, <2>3 DEF FlagsInv
    <3>2. off = u /\ u = t
      BY <1>0, <2>1, <2>3, <3>1 DEF Runs
    <3> QED
      BY <2>3, <3>1, <3>2 DEF FlagsInv
  <2>4. \A u \in Tasks : saved'[u] = Nobody \/ (saved'[u] = u /\ u \in refused)
    BY <2>1 DEF FlagsInv, TaskTypes
  <2> QED
    BY <2>1, <2>2, <2>3, <2>4 DEF FlagsInv
<1>3. CASE Fails
  <2>1. /\ halted' # "cli" /\ todo' = todo /\ at' = at /\ off' = off /\ saved' = saved
        /\ refused' = refused
    BY <1>3 DEF Fails
  <2> QED
    BY <2>1 DEF TaskTypes, FlagsInv, Call
<1> QED
  BY <1>1, <1>2, <1>3 DEF Moves

(* The gate of int 0x80 saves the flag and clears it. *)
LEMMA EnterKeepsFlags ==
  ASSUME TaskTypes, FlagsInv, NEW t \in Tasks, enter(t), UNCHANGED refused
  PROVE  TaskTypes' /\ FlagsInv'
<1>1. /\ Runs(t) /\ at[t] = "out" /\ todo[t] # <<>>
      /\ at' = [at EXCEPT ![t] = "in"]
      /\ IF Call(t).via = Syscall
           THEN off' = t /\ saved' = [saved EXCEPT ![t] = off]
           ELSE off' = off /\ saved' = saved
      /\ todo' = todo /\ halted' = halted /\ refused' = refused
  BY DEF enter
<1>2. off = Nobody \/ (off = t /\ t \in refused)
  BY <1>1 DEF FlagsInv, Runs
<1>3. TaskTypes'
  BY <1>1, <1>2 DEF TaskTypes, Within, Elsewhere
<1>4. ASSUME NEW u \in Tasks, u \notin refused, off' = u
      PROVE  at'[u] # "out" /\ todo[u] # <<>> /\ Call(u).via = Syscall
  <2>1. u = t /\ Call(t).via = Syscall
    BY <1>1, <1>2, <1>4, TasksAssumption
  <2> QED
    BY <1>1, <2>1 DEF TaskTypes
<1>5. \A u \in Tasks : saved'[u] = Nobody \/ (saved'[u] = u /\ u \in refused)
  BY <1>1, <1>2 DEF FlagsInv, TaskTypes
<1> QED
  BY <1>1, <1>3, <1>4, <1>5 DEF FlagsInv, Call

(* tlocalCreate() and yield(). *)
LEMMA TlocalKeepsFlags ==
  ASSUME CallsAllowed, TaskTypes, FlagsInv, NEW t \in Tasks, tlocalSteps(t)
  PROVE  TaskTypes' /\ FlagsInv'
<1>1. Runs(t) /\ todo[t] # <<>> /\ at[t] = "in"
  BY DEF tlocalSteps, tlocalCreate, yield, In
<1>2. CASE Returns(t) /\ UNCHANGED refused
  BY <1>1, <1>2, MovesKeepFlags DEF Moves
<1>3. CASE tlocalCreate(t) /\ tlocalKeyCounter >= MaxKeys
  <2>1. /\ refused' = refused \cup {t} /\ off' = t
        /\ at' = [at EXCEPT ![t] = "out"]
        /\ todo' = [todo EXCEPT ![t] = Tail(@)]
        /\ saved' = saved /\ halted' = halted
    BY <1>3 DEF tlocalCreate
  <2>2. TaskTypes'
    BY <1>1, <2>1, Returning DEF TaskTypes
  <2> QED
    BY <2>1, <2>2 DEF FlagsInv, TaskTypes
<1>4. CASE yield(t) /\ off = t
  <2>1. /\ halted' = "cli" /\ todo' = todo /\ at' = at /\ off' = off /\ saved' = saved
        /\ refused' = refused
    BY <1>4 DEF yield, KASSERTFails, tlocalVars
  <2>2. Call(t) \in Calls
    BY <1>1, HeadTailProperties DEF TaskTypes, Call
  <2>3. Call(t).via = Direct
    BY <1>4, <2>2 DEF CallsAllowed, yield, In
  <2>4. t \in refused
    BY <1>4, <2>3 DEF FlagsInv, Direct, Syscall
  <2> QED
    BY <2>1, <2>4 DEF TaskTypes, FlagsInv, Call
<1> QED
  BY <1>2, <1>3, <1>4 DEF tlocalSteps, tlocalCreate, yield, tlocalVars

(* Every step of the threads. *)
LEMMA NextFlags ==
  ASSUME CallsAllowed, TaskTypes, FlagsInv, [Next]_vars
  PROVE  TaskTypes' /\ FlagsInv'
<1>1. CASE UNCHANGED vars
  BY <1>1 DEF vars, taskVars, tlocalVars, TaskTypes, FlagsInv, Call
<1>2. ASSUME NEW t \in Tasks, serve(t) PROVE TaskTypes' /\ FlagsInv'
  <2>1. CASE enter(t) /\ UNCHANGED tlocalVars
    BY <2>1, EnterKeepsFlags DEF tlocalVars
  <2>2. CASE screenSteps(t) /\ UNCHANGED tlocalVars
    <3>1. Moves(t, Within)
      BY <2>2, ScreenMoves DEF Moves, Advances, Within
    <3> QED
      BY <2>2, <3>1, MovesKeepFlags DEF tlocalVars
  <2>3. CASE shmSteps(t) /\ UNCHANGED tlocalVars
    BY <2>3, ShmMoves, MovesKeepFlags DEF tlocalVars
  <2>4. CASE listSteps(t) /\ UNCHANGED tlocalVars
    <3>1. Moves(t, Within)
      BY <2>4, ListMoves DEF Moves, Advances, Within
    <3> QED
      BY <2>4, <3>1, MovesKeepFlags DEF tlocalVars
  <2>5. CASE tlocalSteps(t)
    BY <2>5, TlocalKeepsFlags
  <2> QED
    BY <1>2, <2>1, <2>2, <2>3, <2>4, <2>5 DEF serve
<1> QED
  BY <1>1, <1>2 DEF Next, finished

(* No thread outside of a call keeps interrupts off. *)
THEOREM FlagsGivenBack ==
  ASSUME CallsAllowed
  PROVE  Spec => []InterruptsGivenBack
<1>1. Init => TaskTypes /\ FlagsInv
  BY TasksAssumption
  DEF Init, TasksInit, TlocalInit, CallsAllowed, TaskTypes, FlagsInv, Within, Elsewhere
<1>2. TaskTypes /\ FlagsInv /\ [Next]_vars => TaskTypes' /\ FlagsInv'
  BY NextFlags
<1>3. FlagsInv => InterruptsGivenBack
  BY DEF FlagsInv, InterruptsGivenBack
<1> QED
  BY <1>1, <1>2, <1>3, PTL DEF Spec

-----------------------------------------------------------------------------
(* The descriptors of shared memory.                                       *)

DescTypes ==
  /\ owner \in [Desc -> Nat] /\ held \in [Tasks -> SUBSET Nat]
  /\ i \in [Tasks -> Nat]

DescInv == DescTypes /\ DescriptorsExclusive

(* The ids are numbers other than 0, which is nobody's. *)
LEMMA Ids ==
  \A t \in Tasks : Id[t] \in Nat /\ Id[t] # 0
BY ShmAssumption

(* No descriptor is taken or released. *)
LEMMA DescsKept ==
  ASSUME DescInv, owner' = owner, held' = held, i' = i, raced' = raced
  PROVE  DescInv'
BY DEF DescInv, DescTypes, DescriptorsExclusive

(* shmGet() looks for a descriptor that is free, and takes it; what it may *)
(* take beyond the array is no descriptor.                                 *)
LEMMA GetKeepsDescs ==
  ASSUME DescInv, NEW t \in Tasks,
         shmGetTests(t) \/ shmGetOwns(t) \/ shmGetLocks(t)
  PROVE  DescInv'
<1>1. CASE shmGetTests(t)
  BY <1>1, DescsKept DEF shmGetTests, shmVars, sharedVars
<1>2. CASE shmGetOwns(t) /\ halted' = halted
  <2> DEFINE d == i[t]
  <2>1. /\ held' = [held EXCEPT ![t] = @ \cup {d}]
        /\ i' = [i EXCEPT ![t] = 0]
        /\ IF d \in Desc
             THEN /\ owner' = [owner EXCEPT ![d] = Id[t]]
                  /\ raced' = (IF owner[d] = 0 THEN raced ELSE raced \cup {d})
             ELSE owner' = owner /\ raced' = raced
    BY <1>2 DEF shmGetOwns, In, Runs
  <2>2. d \in Nat
    BY DEF DescInv, DescTypes
  <2> HIDE DEF d
  <2>3. DescTypes'
    BY <2>1, <2>2, Ids DEF DescInv, DescTypes
  <2>4. \A u \in Tasks : held'[u] = IF u = t THEN held[u] \cup {d} ELSE held[u]
    BY <2>1 DEF DescInv, DescTypes
  <2>5. CASE d \notin Desc
    <3>1. \A u \in Tasks : held'[u] \cap Desc = held[u] \cap Desc
      BY <2>4, <2>5
    <3>2. owner' = owner /\ raced' = raced
      BY <2>1, <2>5
    <3>3. DescriptorsExclusive'
      BY <3>1, <3>2 DEF DescInv, DescriptorsExclusive
    <3> QED
      BY <2>3, <3>3 DEF DescInv
  <2>6. CASE d \in Desc
    <3>1. /\ \A e \in Desc : owner'[e] = IF e = d THEN Id[t] ELSE owner[e]
          /\ raced \subseteq raced' /\ (owner[d] # 0 => d \in raced')
      BY <2>1, <2>6 DEF DescInv, DescTypes
    <3>2. ASSUME NEW u \in Tasks, u # t, d \in held[u] PROVE d \in raced'
      <4>1. CASE d \in raced
        BY <3>1, <4>1
      <4>2. CASE d \notin raced
        <5>1. owner[d] = Id[u]
          BY <2>6, <3>2, <4>2 DEF DescInv, DescriptorsExclusive
        <5> QED
          BY <3>1, <5>1, Ids
      <4> QED
        BY <4>1, <4>2
    <3>3. \A u, v \in Tasks : u # v => held'[u] \cap held'[v] \cap Desc \subseteq raced'
      <4> SUFFICES ASSUME NEW u \in Tasks, NEW v \in Tasks, u # v,
                          NEW e \in Desc, e \in held'[u], e \in held'[v]
                   PROVE  e \in raced'
        OBVIOUS
      <4>1. CASE e = d
        BY <2>4, <3>2, <4>1
      <4>2. CASE e # d
        <5>1. e \in held[u]
          BY <2>4, <4>2
        <5>2. e \in held[v]
          BY <2>4, <4>2
        <5>3. held[u] \cap held[v] \cap Desc \subseteq raced
          BY DEF DescInv, DescriptorsExclusive
        <5> QED
          BY <3>1, <5>1, <5>2, <5>3
      <4> QED
        BY <4>1, <4>2
    <3>4. \A e \in Desc : owner'[e] # 0 => \E u \in Tasks : owner'[e] = Id[u] /\ e \in held'[u]
      <4> SUFFICES ASSUME NEW e \in Desc, owner'[e] # 0
                   PROVE  \E u \in Tasks : owner'[e] = Id[u] /\ e \in held'[u]
        OBVIOUS
      <4>1. CASE e = d
        BY <2>4, <3>1, <4>1
      <4>2. CASE e # d
        <5>1. PICK u \in Tasks : owner[e] = Id[u] /\ e \in held[u]
          BY <3>1, <4>2 DEF DescInv, DescriptorsExclusive
        <5> QED
          BY <2>4, <3>1, <4>2, <5>1
      <4> QED
        BY <4>1, <4>2
    <3>5. \A u \in Tasks : \A e \in (held'[u] \cap Desc) \ raced' : owner'[e] = Id[u]
      <4> SUFFICES ASSUME NEW u \in Tasks, NEW e \in Desc, e \in held'[u], e \notin raced'
                   PROVE  owner'[e] = Id[u]
        OBVIOUS
      <4>1. CASE e = d
        BY <2>4, <3>1, <3>2, <4>1
      <4>2. CASE e # d
        <5>1. e \in held[u] /\ e \notin raced
          BY <2>4, <3>1, <4>2
        <5> QED
          BY <3>1, <4>2, <5>1 DEF DescInv, DescriptorsExclusive
      <4> QED
        BY <4>1, <4>2
    <3> QED
      BY <2>3, <3>3, <3>4, <3>5 DEF DescInv, DescriptorsExclusive
  <2> QED
    BY <2>5, <2>6
<1>3. CASE shmGetOwns(t) /\ halted' # halted
  <2>1. owner' = owner /\ held' = held /\ raced' = raced /\ i' = i
    BY <1>3 DEF shmGetOwns, Returns
  <2> QED
    BY <2>1, DescsKept
<1>4. CASE shmGetLocks(t)
  <2>1. /\ owner' = owner /\ held' = held /\ raced' = raced
        /\ i' = i \/ i' = [i EXCEPT ![t] = @ + 1]
    BY <1>4 DEF shmGetLocks
  <2>2. DescTypes' /\ DescriptorsExclusive'
    BY <2>1 DEF DescInv, DescTypes, DescriptorsExclusive
  <2> QED
    BY <2>2 DEF DescInv
<1> QED
  BY <1>1, <1>2, <1>3, <1>4

(* shmRelease() clears the owner, who may be another thread of that id. *)
LEMMA ReleaseKeepsDescs ==
  ASSUME DescInv, NEW t \in Tasks,
         In(t, "shmRelease", "in"), Owns(t), shmRelease(t)
  PROVE  DescInv'
<1> DEFINE d == Call(t).desc
<1>1. /\ owner[d] = Id[t] /\ owner' = [owner EXCEPT ![d] = 0]
      /\ held' = [held EXCEPT ![t] = @ \ {d}] /\ i' = i
      /\ raced' = (IF d \notin held[t] THEN raced \cup {d} ELSE raced)
  BY DEF shmRelease, Owns, OfTwin, In
<1> HIDE DEF d
<1>2. DescTypes'
  BY <1>1 DEF DescInv, DescTypes
<1>3. /\ \A u \in Tasks : held'[u] = IF u = t THEN held[u] \ {d} ELSE held[u]
      /\ \A e \in Desc : owner'[e] = IF e = d THEN 0 ELSE owner[e]
      /\ raced \subseteq raced' /\ (d \notin held[t] => d \in raced')
  BY <1>1 DEF DescInv, DescTypes
<1>4. \A u, v \in Tasks : u # v => held'[u] \cap held'[v] \cap Desc \subseteq raced'
  <2> SUFFICES ASSUME NEW u \in Tasks, NEW v \in Tasks, u # v,
                      NEW e \in Desc, e \in held'[u], e \in held'[v]
               PROVE  e \in raced'
    OBVIOUS
  <2>1. e \in held[u] /\ e \in held[v]
    BY <1>3
  <2> QED
    BY <1>3, <2>1 DEF DescInv, DescriptorsExclusive
<1>5. \A e \in Desc : owner'[e] # 0 => \E u \in Tasks : owner'[e] = Id[u] /\ e \in held'[u]
  <2> SUFFICES ASSUME NEW e \in Desc, owner'[e] # 0
               PROVE  \E u \in Tasks : owner'[e] = Id[u] /\ e \in held'[u]
    OBVIOUS
  <2>1. e # d /\ owner'[e] = owner[e]
    BY <1>3
  <2>2. PICK u \in Tasks : owner[e] = Id[u] /\ e \in held[u]
    BY <2>1 DEF DescInv, DescriptorsExclusive
  <2> QED
    BY <1>3, <2>1, <2>2
<1>6. \A u \in Tasks : \A e \in (held'[u] \cap Desc) \ raced' : owner'[e] = Id[u]
  <2> SUFFICES ASSUME NEW u \in Tasks, NEW e \in Desc, e \in held'[u], e \notin raced'
               PROVE  owner'[e] = Id[u]
    OBVIOUS
  <2>1. e \in held[u] /\ e \notin raced /\ (u = t => e # d)
    BY <1>3
  <2>2. owner[e] = Id[u]
    BY <2>1 DEF DescInv, DescriptorsExclusive
  <2>3. e # d
    <3> SUFFICES ASSUME e = d PROVE FALSE
      OBVIOUS
    <3>1. u # t /\ e \in held[t]
      BY <1>3, <2>1
    <3> QED
      BY <2>1, <3>1 DEF DescInv, DescriptorsExclusive
  <2> QED
    BY <1>3, <2>2, <2>3
<1> QED
  BY <1>2, <1>4, <1>5, <1>6 DEF DescInv, DescriptorsExclusive

(* Stores and reads, and a shmRelease() that is refused. *)
LEMMA UseKeepsDescs ==
  ASSUME DescInv, NEW t \in Tasks,
         \/ shmRelease(t) /\ ~(In(t, "shmRelease", "in") /\ Owns(t))
         \/ shmWrite(t) \/ shmRead(t)
  PROVE  DescInv'
<1>1. owner' = owner /\ i' = i /\ held' = held /\ raced' = raced
  BY DEF shmRelease, shmWrite, shmRead, Store, Copy, shmVars, sharedVars
<1> QED
  BY <1>1, DescsKept

(* Every step of the threads. *)
LEMMA NextDescs ==
  ASSUME DescInv, [Next]_vars
  PROVE  DescInv'
<1>1. CASE UNCHANGED shmVars
  BY <1>1, DescsKept DEF shmVars, sharedVars
<1>2. ASSUME NEW t \in Tasks, shmSteps(t) PROVE DescInv'
  BY <1>2, GetKeepsDescs, ReleaseKeepsDescs, UseKeepsDescs DEF shmSteps
<1> QED
  BY <1>1, <1>2 DEF Next, finished, serve, vars

(* A descriptor belongs to the one thread whose id its owner field has,    *)
(* unless two shmGet() raced for it, or it was released by another thread  *)
(* of that id: whatever the threads call, and wherever a scan ends.        *)
THEOREM DescriptorsOwned ==
  Spec => []DescriptorsExclusive
<1>1. Init => DescInv
  BY DEF Init, ShmInit, DescInv, DescTypes, DescriptorsExclusive
<1>2. DescInv /\ [Next]_vars => DescInv'
  BY NextDescs
<1>3. DescInv => DescriptorsExclusive
  BY DEF DescInv
<1> QED
  BY <1>1, <1>2, <1>3, PTL DEF Spec

-----------------------------------------------------------------------------
(* The cursor.  A cell is a row and a column, and a cursor of two bytes.   *)

(* Division with remainder. *)
LEMMA Divided ==
  ASSUME NEW a \in Int, NEW b \in Nat, b # 0
  PROVE  /\ a \div b \in Int /\ a % b \in 0..(b - 1)
         /\ a = (a \div b) * b + (a % b)
<1> DEFINE q == a \div b
           r == a % b
<1>1. q \in Int /\ r \in 0..(b - 1)
  OBVIOUS
<1>2. a - r = b * q
  BY b > 0
<1> HIDE DEF q, r
<1>3. a = q * b + r
  BY <1>1, <1>2
<1> QED
  BY <1>1, <1>3 DEF q, r

(* A quotient is below a number when the dividend is below its multiple. *)
LEMMA Quotients ==
  ASSUME NEW a \in Nat, NEW b \in Nat, b # 0, NEW c \in Nat, a < c * b
  PROVE  a \div b \in 0..(c - 1)
<1>1. a \div b \in Int /\ a % b \in 0..(b - 1) /\ a = (a \div b) * b + (a % b)
  BY Divided
<1> DEFINE q == a \div b
           r == a % b
<1> HIDE DEF q, r
<1>2. q \in Int /\ r \in 0..(b - 1) /\ a = q * b + r
  BY <1>1 DEF q, r
<1>3. q >= 0
  <2>1. CASE q <= -1
    <3>1. q * b <= (-1) * b
      BY <1>2, <2>1
    <3> QED
      BY <1>2, <3>1
  <2> QED
    BY <1>2, <2>1
<1>4. q < c
  <2>1. CASE q >= c
    <3>1. q * b >= c * b
      BY <1>2, <2>1
    <3> QED
      BY <1>2, <3>1
  <2> QED
    BY <1>2, <2>1
<1>5. q \in 0..(c - 1)
  BY <1>2, <1>3, <1>4
<1> QED
  BY <1>5 DEF q

(* What is below the modulus is its own remainder. *)
LEMMA Remainders ==
  ASSUME NEW a \in Nat, NEW b \in Nat, a < b
  PROVE  a % b = a
OBVIOUS

(* The screen has a cell; offsets wrap around beyond it, the registers too. *)
LEMMA ScreenSize ==
  /\ ROWS \in Nat /\ COLS \in Nat /\ Byte \in Nat /\ Wrap \in Nat
  /\ ROWS # 0 /\ COLS # 0 /\ Byte # 0 /\ Wrap # 0
  /\ ROWS * COLS \in Nat /\ ROWS * COLS >= COLS /\ ROWS * COLS # 0
  /\ ROWS * COLS <= Byte * Byte /\ ROWS * COLS <= Wrap
<1>1. /\ ROWS \in Nat /\ COLS \in Nat /\ Byte \in Nat /\ Wrap \in Nat
      /\ ROWS # 0 /\ COLS # 0 /\ Byte # 0 /\ Wrap # 0
      /\ ROWS * COLS <= Byte * Byte /\ Wrap % (Byte * Byte) = 0
  BY ScreenAssumption
<1>2. ROWS * COLS \in Nat /\ ROWS * COLS >= 1 * COLS
  BY <1>1
<1>3. Byte * Byte <= Wrap
  <2> DEFINE K == Byte * Byte
  <2>1. K \in Nat /\ Wrap % K = 0
    BY <1>1
  <2> HIDE DEF K
  <2>2. Wrap < K => Wrap % K = Wrap
    BY <1>1, <2>1, Remainders
  <2>3. K <= Wrap
    BY <1>1, <2>1, <2>2
  <2> QED
    BY <2>3 DEF K
<1>4. ROWS * COLS <= Wrap
  <2> DEFINE K == Byte * Byte
             L == ROWS * COLS
  <2>1. K \in Nat /\ L \in Nat /\ L <= K /\ K <= Wrap
    BY <1>1, <1>2, <1>3
  <2> HIDE DEF K, L
  <2>2. L <= Wrap
    BY <1>1, <2>1
  <2> QED
    BY <2>2 DEF L
<1> QED
  BY <1>1, <1>2, <1>4

(* The cell of a row and a column. *)
LEMMA RowsAndColumns ==
  ASSUME NEW row \in 0..(ROWS - 1), NEW col \in 0..(COLS - 1)
  PROVE  screenOffset(row, col) \in Cells
<1>1. row * COLS \in Nat /\ row * COLS <= (ROWS - 1) * COLS
  BY ScreenSize
<1>2. (ROWS - 1) * COLS = ROWS * COLS - COLS
  BY ScreenSize
<1> QED
  BY <1>1, <1>2, ScreenSize DEF screenOffset, Cells

(* Printing at a cell moves the cursor to a cell. *)
LEMMA PrintingMoves ==
  ASSUME NEW ch, NEW o \in Cells, ~(ch = "backspace" /\ o = 0)
  PROVE  scrollScreen(Moved(ch, o)) \in Cells
<1> DEFINE L == ROWS * COLS
<1>0. L \in Nat /\ COLS \in Nat /\ COLS # 0 /\ L >= COLS /\ L <= Wrap /\ Wrap \in Nat
  BY ScreenSize
<1>1. o \in 0..(L - 1)
  BY DEF Cells
<1>2. Moved(ch, o) \in 0..L
  <2>1. CASE ch = "newline"
    <3>0. o \in Nat /\ o < ROWS * COLS
      BY <1>0, <1>1
    <3>1. o \div COLS \in 0..(ROWS - 1)
      BY <3>0, ScreenSize, Quotients
    <3>2. (o \div COLS + 1) * COLS \in Nat /\ (o \div COLS + 1) * COLS <= ROWS * COLS
      BY <3>1, ScreenSize
    <3>3. Moved(ch, o) = (o \div COLS + 1) * COLS + 0
      BY <2>1 DEF Moved, screenOffset
    <3> QED
      BY <3>2, <3>3, ScreenSize
  <2>2. CASE ch = "backspace"
    <3> HIDE DEF L
    <3>1. o - 1 \in Nat /\ o - 1 < Wrap /\ o - 1 \in 0..L
      BY <1>0, <1>1, <2>2
    <3>2. (o - 1) % Wrap = o - 1
      BY <1>0, <3>1, Remainders
    <3> QED
      BY <2>2, <3>1, <3>2 DEF Moved
  <2>3. CASE ch # "newline" /\ ch # "backspace"
    <3>1. Moved(ch, o) = o + 1
      BY <2>3 DEF Moved
    <3> HIDE DEF L
    <3> QED
      BY <1>0, <1>1, <3>1
  <2> QED
    BY <2>1, <2>2, <2>3
<1>3. ASSUME NEW p \in 0..L PROVE scrollScreen(p) \in 0..(L - 1)
  <2>1. scrollScreen(p) = IF p < L THEN p ELSE (p - COLS) % Wrap
    BY DEF scrollScreen
  <2> HIDE DEF L
  <2>2. CASE p = L
    <3>1. p - COLS \in Nat /\ p - COLS < Wrap /\ p - COLS \in 0..(L - 1)
      BY <1>0, <2>2
    <3>2. (p - COLS) % Wrap = p - COLS
      BY <1>0, <3>1, Remainders
    <3> QED
      BY <1>0, <2>1, <2>2, <3>1, <3>2
  <2>3. CASE p # L
    BY <1>0, <2>1, <2>3
  <2> QED
    BY <2>2, <2>3
<1> QED
  BY <1>2, <1>3 DEF Cells

(* A cell fits into the two registers. *)
LEMMA TwoBytes ==
  ASSUME NEW o \in Cells
  PROVE  /\ (o \div Byte) % Byte = o \div Byte
         /\ o \div Byte \in 0..(Byte - 1) /\ o % Byte \in 0..(Byte - 1)
         /\ (o \div Byte) * Byte + (o % Byte) = o
<1>1. o \in Nat /\ o < Byte * Byte
  <2> DEFINE K == Byte * Byte
             L == ROWS * COLS
  <2>1. K \in Nat /\ L \in Nat /\ L <= K /\ o \in 0..(L - 1)
    BY ScreenSize DEF Cells
  <2> HIDE DEF K, L
  <2>2. o \in Nat /\ o < K
    BY <2>1
  <2> QED
    BY <2>2 DEF K
<1>2. o \div Byte \in 0..(Byte - 1)
  BY <1>1, Quotients, ScreenSize
<1>3. o % Byte \in 0..(Byte - 1) /\ o = (o \div Byte) * Byte + (o % Byte)
  BY <1>1, Divided, ScreenSize
<1>4. (o \div Byte) % Byte = o \div Byte
  <2> DEFINE q == o \div Byte
  <2>1. q \in Nat /\ q < Byte
    BY <1>2, ScreenSize
  <2> HIDE DEF q
  <2>2. q % Byte = q
    BY <2>1, ScreenSize, Remainders
  <2> QED
    BY <2>2 DEF q
<1> QED
  BY <1>2, <1>3, <1>4

(* The cursor is set to a place on the screen. *)
CursorCalls ==
  \A c \in Calls : c.fn = "kSetCursor" /\ ~c.back =>
    c.row \in 0..(ROWS - 1) /\ c.col \in 0..(COLS - 1)

InPorts == InGet \cup InSet

OnCell == cursor.high * Byte + cursor.low \in Cells

(* What a thread has done to the registers where it is.                    *)
PortsFor(t) ==
  /\ at[t] \in {"getHigh", "setHigh"} => index = "high"
  /\ at[t] \in {"getLow", "setLow"} => index = "low"
  /\ at[t] \in {"getIndex", "getLow"} => offset[t] = cursor.high * Byte
  /\ at[t] \in {"setIndex", "setLow"} => cursor.high = offset[t] \div Byte
  /\ at[t] \notin InGet => offset[t] \in Cells

(* One thread at a time is between two accesses to the ports.              *)
PortsInv ==
  /\ index \in {"high", "low"} /\ cursor \in [{"high", "low"} -> 0..(Byte - 1)]
  /\ offset \in [Tasks -> Int] /\ position \in [Tasks -> Cells]
  /\ \A t, u \in Tasks : at[t] \in InPorts /\ at[u] \in InPorts => t = u
  /\ (\A t \in Tasks : at[t] \notin InSet) => OnCell
  /\ \A t \in Tasks : PortsFor(t)

ScreenInv ==
  /\ mixed \in BOOLEAN /\ underflowed \in BOOLEAN
  /\ mixed \/ underflowed \/ PortsInv

(* A step of a thread while no other is at the ports. *)
LEMMA AloneAtPorts ==
  ASSUME TaskTypes, PortsInv, NEW t \in Tasks,
         \A u \in Tasks : u # t => at[u] \notin InPorts,
         at' = [at EXCEPT ![t] = at'[t]],
         offset' = [offset EXCEPT ![t] = offset'[t]], offset'[t] \in Int,
         position' = [position EXCEPT ![t] = position'[t]], position'[t] \in Cells,
         index' \in {"high", "low"}, cursor' \in [{"high", "low"} -> 0..(Byte - 1)],
         at'[t] \notin InSet => OnCell', PortsFor(t)'
  PROVE  PortsInv'
<1>1. offset' \in [Tasks -> Int] /\ position' \in [Tasks -> Cells]
  BY DEF PortsInv
<1>2. \A u \in Tasks : u # t => at'[u] \notin InPorts
  BY DEF TaskTypes
<1>3. ASSUME NEW u \in Tasks, u # t PROVE PortsFor(u)'
  <2>1. at'[u] \notin InPorts
    BY <1>2, <1>3
  <2>2. offset'[u] \in Cells
    BY <1>3 DEF PortsInv, PortsFor, InPorts
  <2> QED
    BY <2>1, <2>2 DEF PortsFor, InPorts, InGet, InSet
<1> QED
  BY <1>1, <1>2, <1>3 DEF PortsInv

(* The first two accesses of getCursorOffset() and its index. *)
LEMMA GetKeepsPorts ==
  ASSUME TaskTypes, PortsInv, NEW t \in Tasks, getCursorOffset(t), ~mixed'
  PROVE  PortsInv'
<1>1. \A u \in Tasks : u # t => at[u] \notin InPorts
  BY DEF getCursorOffset, outIndex, Port, Mixes, InPorts
<1>2. at[t] \in {"in", "getHigh", "getIndex"}
  BY DEF getCursorOffset, In
<1>3. OnCell /\ PortsFor(t)
  BY <1>1, <1>2 DEF PortsInv, InPorts, InSet
<1>4. position' = position /\ cursor' = cursor
  BY DEF getCursorOffset, outIndex, Port
<1>5. position' = [position EXCEPT ![t] = position'[t]] /\ position'[t] \in Cells
      /\ cursor' \in [{"high", "low"} -> 0..(Byte - 1)] /\ OnCell'
  BY <1>3, <1>4 DEF PortsInv, OnCell
<1>6. Byte \in Nat /\ cursor.high \in Int
  BY ScreenSize DEF PortsInv
<1>7. CASE at[t] = "in"
  <2>1. index' = "high" /\ at' = [at EXCEPT ![t] = "getHigh"] /\ offset' = offset
    BY <1>7 DEF getCursorOffset, In, outIndex, Goto
  <2>2. at'[t] = "getHigh"
    BY <2>1 DEF TaskTypes
  <2>3. PortsFor(t)'
    BY <2>1, <2>2 DEF PortsFor, InGet
  <2> QED
    BY <1>1, <1>5, <2>1, <2>2, <2>3, AloneAtPorts DEF PortsInv
<1>8. CASE at[t] = "getHigh"
  <2>1. /\ index' = index /\ at' = [at EXCEPT ![t] = "getIndex"]
        /\ offset' = [offset EXCEPT ![t] = cursor[index] * Byte]
    BY <1>8 DEF getCursorOffset, In, outIndex, Goto
  <2>2. at'[t] = "getIndex" /\ offset'[t] = cursor.high * Byte
    BY <1>3, <1>8, <2>1 DEF TaskTypes, PortsInv, PortsFor
  <2>3. PortsFor(t)'
    BY <1>4, <2>2 DEF PortsFor, InGet
  <2>4. index' \in {"high", "low"}
    BY <2>1 DEF PortsInv
  <2>5. offset' = [offset EXCEPT ![t] = offset'[t]]
    BY <2>1 DEF PortsInv
  <2>6. at' = [at EXCEPT ![t] = at'[t]]
    BY <2>1, <2>2
  <2>7. offset'[t] \in Int
    BY <1>6, <2>2
  <2> QED
    BY <1>1, <1>5, <2>3, <2>4, <2>5, <2>6, <2>7, AloneAtPorts
<1>9. CASE at[t] = "getIndex"
  <2>1. index' = "low" /\ at' = [at EXCEPT ![t] = "getLow"] /\ offset' = offset
    BY <1>9 DEF getCursorOffset, In, outIndex, Goto
  <2>2. at'[t] = "getLow"
    BY <2>1 DEF TaskTypes
  <2>3. PortsFor(t)'
    BY <1>3, <1>4, <1>9, <2>1, <2>2 DEF PortsFor, InGet
  <2> QED
    BY <1>1, <1>5, <2>1, <2>2, <2>3, AloneAtPorts DEF PortsInv
<1> QED
  BY <1>2, <1>7, <1>8, <1>9

(* What its callers do with the offset. *)
LEMMA UseKeepsPorts ==
  ASSUME TaskTypes, PortsInv, NEW t \in Tasks, kPutChar(t) \/ kGetChar(t),
         ~mixed', ~underflowed'
  PROVE  PortsInv'
<1>1. \A u \in Tasks : u # t => at[u] \notin InPorts
  BY DEF kPutChar, kGetChar, Mixes, InPorts
<1>2. at[t] = "getLow"
  BY DEF kPutChar, kGetChar, In
<1>3. OnCell /\ PortsFor(t)
  BY <1>1, <1>2 DEF PortsInv, InPorts, InSet
<1> DEFINE o == offset[t] + cursor[index]
<1>4. o \in Cells
  BY <1>2, <1>3 DEF PortsFor, OnCell
<1>5. Cells \subseteq Int /\ 0 \in Cells
  BY ScreenSize DEF Cells
<1>6. cursor' = cursor /\ index' = index
  BY DEF kPutChar, kGetChar
<1>7. /\ cursor' \in [{"high", "low"} -> 0..(Byte - 1)]
      /\ index' \in {"high", "low"} /\ OnCell'
  BY <1>3, <1>6 DEF PortsInv, OnCell
<1>8. CASE kPutChar(t)
  <2> DEFINE ch == Call(t).ch
  <2>1. /\ at' = [at EXCEPT ![t] = "set"] /\ position' = position
        /\ offset' = [offset EXCEPT ![t] = scrollScreen(Moved(ch, o))]
        /\ ~(ch = "backspace" /\ o = 0)
    BY <1>8 DEF kPutChar, Goto
  <2> HIDE DEF ch, o
  <2>2. scrollScreen(Moved(ch, o)) \in Cells
    BY <1>4, <2>1, PrintingMoves
  <2>3. at'[t] = "set" /\ offset'[t] \in Cells
    BY <2>1, <2>2 DEF TaskTypes, PortsInv
  <2>4. PortsFor(t)'
    BY <2>3 DEF PortsFor
  <2>5. position' = [position EXCEPT ![t] = position'[t]] /\ position'[t] \in Cells
    BY <2>1 DEF PortsInv
  <2> QED
    BY <1>1, <1>5, <1>7, <2>1, <2>3, <2>4, <2>5, AloneAtPorts
<1>9. CASE kGetChar(t)
  <2>1. /\ at' = [at EXCEPT ![t] = "out"] /\ position' = [position EXCEPT ![t] = o]
        /\ offset' = [offset EXCEPT ![t] = 0]
    BY <1>9 DEF kGetChar, Returns
  <2> HIDE DEF o
  <2>2. at'[t] = "out" /\ offset'[t] = 0 /\ position'[t] = o
    BY <2>1 DEF TaskTypes, PortsInv
  <2>3. PortsFor(t)'
    BY <1>5, <2>2 DEF PortsFor
  <2> QED
    BY <1>1, <1>4, <1>5, <1>7, <2>1, <2>2, <2>3, AloneAtPorts
<1> QED
  BY <1>8, <1>9

(* The places of a call to the screen that follow its first step. *)
ScreenPlaces == InPorts \cup {"set"}

(* A step that leaves the registers alone and ends elsewhere. *)
LEMMA AwayFromPorts ==
  ASSUME TaskTypes, PortsInv, NEW t \in Tasks, at[t] \notin ScreenPlaces,
         at' = [at EXCEPT ![t] = at'[t]], at'[t] \notin InPorts,
         offset' = [offset EXCEPT ![t] = offset'[t]], offset'[t] \in Cells,
         index' = index, cursor' = cursor, position' = position
  PROVE  PortsInv'
<1>1. \A u \in Tasks : u # t => at'[u] = at[u] /\ offset'[u] = offset[u]
  BY DEF TaskTypes, PortsInv
<1>2. offset' \in [Tasks -> Int]
  BY ScreenSize DEF PortsInv, Cells
<1>3. \A u, v \in Tasks : at'[u] \in InPorts /\ at'[v] \in InPorts => u = v
  BY <1>1 DEF PortsInv
<1>4. (\A u \in Tasks : at'[u] \notin InSet) => OnCell'
  BY <1>1 DEF PortsInv, OnCell, ScreenPlaces, InPorts
<1>5. ASSUME NEW u \in Tasks PROVE PortsFor(u)'
  <2>1. CASE u = t
    BY <2>1 DEF PortsFor, InPorts, InGet, InSet
  <2>2. CASE u # t
    BY <1>1, <2>2 DEF PortsInv, PortsFor
  <2> QED
    BY <2>1, <2>2
<1> QED
  BY <1>2, <1>3, <1>4, <1>5 DEF PortsInv

(* kSetCursor() before it uses the ports. *)
LEMMA CursorKeepsPorts ==
  ASSUME CursorCalls, TaskTypes, PortsInv, NEW t \in Tasks, kSetCursor(t)
  PROVE  PortsInv'
<1> DEFINE o == IF Call(t).back THEN position[t]
                ELSE screenOffset(Call(t).row, Call(t).col)
<1>1. /\ at[t] = "in" /\ Call(t).fn = "kSetCursor" /\ todo[t] # <<>>
      /\ at' = [at EXCEPT ![t] = "set"] /\ offset' = [offset EXCEPT ![t] = o]
      /\ index' = index /\ cursor' = cursor /\ position' = position
  BY DEF kSetCursor, In, Goto
<1>2. Call(t) \in Calls
  BY <1>1, HeadTailProperties DEF TaskTypes, Call
<1>3. o \in Cells
  <2>1. CASE Call(t).back
    BY <2>1 DEF PortsInv
  <2>2. CASE ~Call(t).back
    BY <1>1, <1>2, <2>2, RowsAndColumns DEF CursorCalls
  <2> QED
    BY <2>1, <2>2
<1> HIDE DEF o
<1>4. at'[t] = "set" /\ offset'[t] = o
  BY <1>1 DEF TaskTypes, PortsInv
<1>5. at[t] \notin ScreenPlaces /\ at'[t] \notin InPorts
  BY <1>1, <1>4 DEF ScreenPlaces, InPorts, InGet, InSet
<1> QED
  BY <1>1, <1>3, <1>4, <1>5, AwayFromPorts

(* setCursorOffset(). *)
LEMMA SetKeepsPorts ==
  ASSUME TaskTypes, PortsInv, NEW t \in Tasks, setCursorOffset(t), ~mixed'
  PROVE  PortsInv'
<1>1. \A u \in Tasks : u # t => at[u] \notin InPorts
  BY DEF setCursorOffset, outIndex, outData, Port, Mixes, InPorts
<1>2. at[t] \in {"set", "setHigh", "setIndex", "setLow"}
  BY DEF setCursorOffset, In
<1> DEFINE o == offset[t]
<1>3. PortsFor(t) /\ o \in Cells
  BY <1>2 DEF PortsInv, PortsFor, InGet
<1>4. position' = position
  BY DEF setCursorOffset, outIndex, outData, Port
<1>5. position' = [position EXCEPT ![t] = position'[t]] /\ position'[t] \in Cells
  BY <1>4 DEF PortsInv
<1>6. /\ (o \div Byte) % Byte = o \div Byte
      /\ o \div Byte \in 0..(Byte - 1) /\ o % Byte \in 0..(Byte - 1)
      /\ (o \div Byte) * Byte + (o % Byte) = o
  BY <1>3, TwoBytes
<1>7. Cells \subseteq Int /\ 0 \in Cells
  BY ScreenSize DEF Cells
<1>8. CASE at[t] = "set"
  <2>1. /\ index' = "high" /\ at' = [at EXCEPT ![t] = "setHigh"]
        /\ offset' = offset /\ cursor' = cursor
    BY <1>8 DEF setCursorOffset, In, outIndex, outData, Goto
  <2>2. at'[t] = "setHigh"
    BY <2>1 DEF TaskTypes
  <2>3. PortsFor(t)'
    BY <1>3, <2>1, <2>2 DEF PortsFor
  <2> QED
    BY <1>1, <1>3, <1>5, <1>7, <2>1, <2>2, <2>3, AloneAtPorts DEF PortsInv, InSet
<1>9. CASE at[t] = "setHigh"
  <2>1. /\ index' = index /\ at' = [at EXCEPT ![t] = "setIndex"]
        /\ offset' = offset /\ cursor' = [cursor EXCEPT !["high"] = o \div Byte]
    BY <1>3, <1>6, <1>9 DEF setCursorOffset, In, outIndex, outData, Goto, PortsFor
  <2>2. at'[t] = "setIndex"
    BY <2>1 DEF TaskTypes
  <2>3. cursor' \in [{"high", "low"} -> 0..(Byte - 1)] /\ cursor'.high = o \div Byte
    BY <1>6, <2>1 DEF PortsInv
  <2>4. PortsFor(t)'
    BY <1>3, <2>1, <2>2, <2>3 DEF PortsFor
  <2> QED
    BY <1>1, <1>3, <1>5, <1>7, <2>1, <2>2, <2>3, <2>4, AloneAtPorts DEF PortsInv, InSet
<1>10. CASE at[t] = "setIndex"
  <2>1. /\ index' = "low" /\ at' = [at EXCEPT ![t] = "setLow"]
        /\ offset' = offset /\ cursor' = cursor
    BY <1>10 DEF setCursorOffset, In, outIndex, outData, Goto
  <2>2. at'[t] = "setLow"
    BY <2>1 DEF TaskTypes
  <2>3. PortsFor(t)'
    BY <1>3, <1>10, <2>1, <2>2 DEF PortsFor
  <2> QED
    BY <1>1, <1>3, <1>5, <1>7, <2>1, <2>2, <2>3, AloneAtPorts DEF PortsInv, InSet
<1>11. CASE at[t] = "setLow"
  <2>1. /\ index' = index /\ at' = [at EXCEPT ![t] = "out"]
        /\ offset' = [offset EXCEPT ![t] = 0]
        /\ cursor' = [cursor EXCEPT !["low"] = o % Byte]
    BY <1>3, <1>11 DEF setCursorOffset, In, outIndex, outData, Returns, PortsFor
  <2>2. at'[t] = "out" /\ offset'[t] = 0
    BY <2>1 DEF TaskTypes, PortsInv
  <2>3. /\ cursor' \in [{"high", "low"} -> 0..(Byte - 1)]
        /\ cursor'.high = o \div Byte /\ cursor'.low = o % Byte
    BY <1>3, <1>6, <1>11, <2>1 DEF PortsInv, PortsFor
  <2>4. OnCell'
    BY <1>3, <1>6, <2>3 DEF OnCell
  <2>5. PortsFor(t)'
    BY <1>7, <2>2 DEF PortsFor
  <2> QED
    BY <1>1, <1>5, <1>7, <2>1, <2>2, <2>3, <2>4, <2>5, AloneAtPorts DEF PortsInv
<1> QED
  BY <1>2, <1>8, <1>9, <1>10, <1>11

(* The steps of the other services begin and end away from the screen. *)
LEMMA OffScreen ==
  ASSUME TaskTypes, NEW t \in Tasks,
         shmSteps(t) \/ listSteps(t) \/ tlocalSteps(t) \/ enter(t)
  PROVE  /\ at' = [at EXCEPT ![t] = at'[t]]
         /\ at[t] \notin ScreenPlaces /\ at'[t] \notin ScreenPlaces
<1> USE DEF In, ScreenPlaces, InPorts, InGet, InSet
<1>1. CASE shmSteps(t)
  <2>1. /\ at[t] \notin ScreenPlaces
        /\ \/ \E p \in {"own", "lock", "locked", "in", "first", "second", "wake", "waiting",
                        "woken", "copied", "read", "out"} : at' = [at EXCEPT ![t] = p]
           \/ at' = at
    <3>1. CASE shmGetTests(t) \/ shmGetOwns(t) \/ shmGetLocks(t)
      BY <3>1 DEF shmGetTests, shmGetOwns, shmGetLocks, Goto, Returns, KASSERTFails
    <3>2. CASE shmRelease(t)
      BY <3>2 DEF shmRelease, Goto, Returns
    <3>3. CASE shmWrite(t)
      BY <3>3 DEF shmWrite, shmWriteBegins, Goto, Returns
    <3>4. CASE shmRead(t)
      BY <3>4 DEF shmRead, Goto, Returns, Waits
    <3> QED
      BY <1>1, <3>1, <3>2, <3>3, <3>4 DEF shmSteps
  <2> QED
    BY <2>1 DEF TaskTypes
<1>2. CASE listSteps(t)
  <2>1. /\ at[t] \notin ScreenPlaces
        /\ \/ \E p \in {"stack", "userStack", "load", "store", "add", "walk", "link", "out"} :
                at' = [at EXCEPT ![t] = p]
           \/ at' = at
    <3>1. CASE allocates(t)
      BY <3>1 DEF allocates, fails, Goto, Returns
    <3>2. CASE initThread(t)
      BY <3>2 DEF initThread, Goto
    <3>3. CASE allThreadsAdd(t)
      BY <3>3 DEF allThreadsAdd, Goto, Returns, KASSERTFails
    <3>4. CASE destroyThread(t)
      BY <3>4 DEF destroyThread, Returns
    <3> QED
      BY <1>2, <3>1, <3>2, <3>3, <3>4 DEF listSteps, createThread
  <2> QED
    BY <2>1 DEF TaskTypes
<1>3. CASE tlocalSteps(t)
  BY <1>3 DEF tlocalSteps, tlocalCreate, yield, Returns, KASSERTFails, TaskTypes
<1>4. CASE enter(t)
  BY <1>4 DEF enter, TaskTypes
<1> QED
  BY <1>1, <1>2, <1>3, <1>4

(* Every step of the threads. *)
LEMMA NextPorts ==
  ASSUME CursorCalls, TaskTypes, ScreenInv, [Next]_vars
  PROVE  ScreenInv'
<1>1. CASE UNCHANGED vars
  BY <1>1 DEF vars, taskVars, screenVars, ScreenInv, PortsInv, PortsFor, OnCell
<1>2. ASSUME NEW t \in Tasks, serve(t) PROVE ScreenInv'
  <2>1. CASE screenSteps(t)
    <3>1. /\ mixed' = mixed \/ mixed' = (mixed \/ Mixes(t))
          /\ \/ underflowed' = underflowed
             \/ \E o : underflowed' = (underflowed \/ (Call(t).ch = "backspace" /\ o = 0))
      <4>1. CASE getCursorOffset(t)
        BY <4>1 DEF getCursorOffset, outIndex, Port
      <4>2. CASE kPutChar(t) \/ kGetChar(t) \/ kSetCursor(t)
        BY <4>2 DEF kPutChar, kGetChar, kSetCursor
      <4>3. CASE setCursorOffset(t)
        BY <4>3 DEF setCursorOffset, outIndex, outData, Port
      <4> QED
        BY <2>1, <4>1, <4>2, <4>3 DEF screenSteps
    <3>4. /\ mixed' \in BOOLEAN /\ underflowed' \in BOOLEAN
          /\ (mixed => mixed') /\ (underflowed => underflowed')
      <4>0. mixed \in BOOLEAN /\ underflowed \in BOOLEAN
        BY DEF ScreenInv
      <4>1. mixed' = mixed \/ mixed' = (mixed \/ Mixes(t))
        BY <3>1
      <4>2. mixed' \in BOOLEAN /\ (mixed => mixed')
        BY <4>0, <4>1
      <4>3. CASE underflowed' = underflowed
        BY <4>0, <4>2, <4>3
      <4>4. ASSUME NEW o, underflowed' = (underflowed \/ (Call(t).ch = "backspace" /\ o = 0))
            PROVE  underflowed' \in BOOLEAN /\ (underflowed => underflowed')
        BY <4>0, <4>4
      <4> QED
        BY <3>1, <4>2, <4>3, <4>4
    <3>2. ASSUME ~mixed', ~underflowed' PROVE PortsInv'
      <4>1. PortsInv
        BY <3>2, <3>4 DEF ScreenInv
      <4> QED
        BY <2>1, <3>2, <4>1, GetKeepsPorts, UseKeepsPorts, CursorKeepsPorts, SetKeepsPorts
        DEF screenSteps
    <3> QED
      BY <3>2, <3>4 DEF ScreenInv
  <2>2. CASE /\ shmSteps(t) \/ listSteps(t) \/ tlocalSteps(t) \/ enter(t)
             /\ UNCHANGED screenVars
    <3>1. UNCHANGED <<index, cursor, offset, position, mixed, underflowed>>
      BY <2>2 DEF screenVars
    <3>2. /\ at' = [at EXCEPT ![t] = at'[t]]
          /\ at[t] \notin ScreenPlaces /\ at'[t] \notin ScreenPlaces
      BY <2>2, OffScreen
    <3>3. ASSUME PortsInv PROVE PortsInv'
      <4>1. /\ offset' = [offset EXCEPT ![t] = offset'[t]] /\ offset'[t] \in Cells
            /\ at'[t] \notin InPorts
        BY <3>1, <3>2, <3>3 DEF PortsInv, PortsFor, ScreenPlaces, InPorts
      <4> QED
        BY <3>1, <3>2, <3>3, <4>1, AwayFromPorts
    <3> QED
      BY <3>1, <3>3 DEF ScreenInv
  <2> QED
    BY <1>2, <2>1, <2>2 DEF serve
<1> QED
  BY <1>1, <1>2 DEF Next, finished

(* Unless two threads were at the ports at the same time, or a backspace   *)
(* was printed at the first cell, the cursor stays on the screen.          *)
THEOREM CursorStaysOnScreen ==
  ASSUME CallsAllowed, CursorCalls
  PROVE  Spec => []CursorOnScreen
<1>1. Init => TaskTypes /\ FlagsInv /\ ScreenInv
  <2> SUFFICES ASSUME Init PROVE TaskTypes /\ FlagsInv /\ ScreenInv
    OBVIOUS
  <2>1. TaskTypes /\ FlagsInv
    BY TasksAssumption
    DEF Init, TasksInit, TlocalInit, CallsAllowed, TaskTypes, FlagsInv, Within, Elsewhere
  <2>2. Start \in Cells /\ 0 \in Cells /\ Cells \subseteq Int
    BY ScreenAssumption, ScreenSize DEF Cells
  <2>3. /\ index = "low" /\ cursor = [high |-> Start \div Byte, low |-> Start % Byte]
        /\ offset = [t \in Tasks |-> 0] /\ position = [t \in Tasks |-> 0]
        /\ at = [t \in Tasks |-> "out"]
        /\ mixed = FALSE /\ underflowed = FALSE
    BY DEF Init, ScreenInit, TasksInit
  <2>4. /\ Start \div Byte \in 0..(Byte - 1) /\ Start % Byte \in 0..(Byte - 1)
        /\ (Start \div Byte) * Byte + (Start % Byte) = Start
    BY <2>2, TwoBytes
  <2>5. cursor \in [{"high", "low"} -> 0..(Byte - 1)] /\ OnCell
    BY <2>2, <2>3, <2>4 DEF OnCell
  <2>6. \A t \in Tasks : at[t] \notin InPorts /\ PortsFor(t)
    BY <2>2, <2>3 DEF PortsFor, InPorts, InGet, InSet
  <2>7. offset \in [Tasks -> Int] /\ position \in [Tasks -> Cells]
    BY <2>2, <2>3
  <2> QED
    BY <2>1, <2>3, <2>5, <2>6, <2>7 DEF ScreenInv, PortsInv
<1>2. TaskTypes /\ FlagsInv /\ ScreenInv /\ [Next]_vars => TaskTypes' /\ FlagsInv' /\ ScreenInv'
  BY NextFlags, NextPorts
<1>3. ScreenInv => CursorOnScreen
  BY DEF ScreenInv, PortsInv, PortsFor, OnCell, CursorOnScreen
<1> QED
  BY <1>1, <1>2, <1>3, PTL DEF Spec

-----------------------------------------------------------------------------
(* The texts in shared memory.                                             *)

DescsCalled == {c.desc : c \in Calls}

Parts == 1..2

TextTypes ==
  /\ stored \in Seq(DescsCalled) /\ text \in [Tasks -> Nat]
  /\ buffer \in [Desc -> [Parts -> Nat]] /\ copy \in [Tasks -> [Parts -> Nat]]
  /\ shmWaitQueue \in Seq(Tasks)

Queued == {shmWaitQueue[n] : n \in DOMAIN shmWaitQueue}

(* A thread that stores a text, or has stored it; a reader that a write    *)
(* has woken.                                                              *)
Writers == {"shmWrite", "shmRelease"}
Writing(t) == at[t] \in {"first", "second", "wake"} /\ Call(t).fn \in Writers
Woken(t)   == at[t] \in {"woken", "copied", "read"} \/ (at[t] = "waiting" /\ t \notin Queued)

(* What has been stored of the text of a thread, or copied by it.          *)
TextFor(t) ==
  /\ Writing(t) => text[t] \in 1..Len(stored) /\ stored[text[t]] = Call(t).desc
  /\ Woken(t) => text[t] \in 1..Len(stored)
  /\ at[t] = "copied" => Call(t).desc \in Desc
  /\ \A d \in Desc : d \notin late =>
       /\ At(t, Writers, "second", d) => buffer[d][1] >= text[t]
       /\ At(t, Writers, "wake", d) => \A k \in Parts : buffer[d][k] >= text[t]
       /\ Woken(t) /\ stored[text[t]] = d => \A k \in Parts : buffer[d][k] >= text[t]
       /\ t \notin blurred =>
            /\ At(t, {"shmRead"}, "copied", d) =>
                 copy[t][1] = buffer[d][1] /\ buffer[d][1] = buffer[d][2]
            /\ At(t, {"shmRead"}, "read", d) =>
                 /\ copy[t][1] = copy[t][2]
                 /\ stored[text[t]] = d => copy[t][1] >= text[t]

(* A buffer has parts of texts that were written to it, of the same text   *)
(* unless a thread has stored only the first.                              *)
TextIn(d) ==
  /\ \A k \in Parts :
       \/ buffer[d][k] = 0
       \/ buffer[d][k] \in 1..Len(stored) /\ stored[buffer[d][k]] = d
  /\ d \notin late /\ (\A t \in Tasks : ~At(t, Writers, "second", d)) =>
       buffer[d][1] = buffer[d][2]

TextInv ==
  /\ TextTypes
  /\ \A t \in Queued : at[t] = "waiting"
  /\ \A t \in Tasks : TextFor(t)
  /\ \A d \in Desc : TextIn(d)

(* Texts are added, and a buffer that is used properly gets later ones.    *)
Forward ==
  /\ Len(stored) <= Len(stored') /\ \A n \in 1..Len(stored) : stored'[n] = stored[n]
  /\ late \subseteq late'
  /\ \A d \in Desc : d \notin late' => \A k \in Parts : buffer'[d][k] >= buffer[d][k]

(* The threads that do not step. *)
LEMMA OthersTexts ==
  ASSUME TextInv, TextTypes', Forward, NEW u \in Tasks,
         at'[u] = at[u], todo'[u] = todo[u], text'[u] = text[u], copy'[u] = copy[u],
         u \in blurred => u \in blurred', Woken(u)' => Woken(u),
         \A d \in Desc : At(u, {"shmRead"}, "copied", d) /\ u \notin blurred' =>
           buffer'[d] = buffer[d]
  PROVE  TextFor(u)'
<1>1. TextFor(u) /\ TextTypes
  BY DEF TextInv
<1>2. Len(stored) \in Nat /\ Len(stored') \in Nat
  BY <1>1, LenProperties DEF TextTypes
<1>3. ASSUME NEW n \in 1..Len(stored)
      PROVE  n \in 1..Len(stored') /\ stored'[n] = stored[n]
  BY <1>2 DEF Forward
<1>4. Writing(u)' => text'[u] \in 1..Len(stored') /\ stored'[text'[u]] = Call(u)'.desc
  <2>1. Writing(u)' => Writing(u)
    BY DEF Writing, Call
  <2> QED
    BY <1>1, <1>3, <2>1 DEF TextFor, Call
<1>5. Woken(u)' => text'[u] \in 1..Len(stored')
  BY <1>1, <1>3 DEF TextFor
<1>6. ASSUME NEW d \in Desc, d \notin late'
      PROVE  /\ At(u, Writers, "second", d)' => buffer'[d][1] >= text'[u]
             /\ At(u, Writers, "wake", d)' => \A k \in Parts : buffer'[d][k] >= text'[u]
             /\ Woken(u)' /\ stored'[text'[u]] = d => \A k \in Parts : buffer'[d][k] >= text'[u]
             /\ u \notin blurred' =>
                  /\ At(u, {"shmRead"}, "copied", d)' =>
                       copy'[u][1] = buffer'[d][1] /\ buffer'[d][1] = buffer'[d][2]
                  /\ At(u, {"shmRead"}, "read", d)' =>
                       /\ copy'[u][1] = copy'[u][2]
                       /\ stored'[text'[u]] = d => copy'[u][1] >= text'[u]
  <2>1. d \notin late
    BY <1>6 DEF Forward
  <2>2. \A k \in Parts : /\ buffer'[d][k] \in Nat /\ buffer[d][k] \in Nat
                         /\ buffer'[d][k] >= buffer[d][k]
    BY <1>1, <1>6 DEF TextTypes, Forward
  <2>3. text[u] \in Nat /\ 1 \in Parts
    BY <1>1 DEF TextTypes, Parts
  <2>4. \A fns, place : At(u, fns, place, d)' <=> At(u, fns, place, d)
    BY DEF At, Call
  <2>5. At(u, Writers, "second", d)' => buffer'[d][1] >= text'[u]
    BY <1>1, <2>1, <2>2, <2>3, <2>4 DEF TextFor
  <2>6. At(u, Writers, "wake", d)' => \A k \in Parts : buffer'[d][k] >= text'[u]
    BY <1>1, <2>1, <2>2, <2>3, <2>4 DEF TextFor
  <2>7. Woken(u)' => stored'[text'[u]] = stored[text[u]]
    BY <1>1, <1>3 DEF TextFor
  <2>8. Woken(u)' /\ stored'[text'[u]] = d => \A k \in Parts : buffer'[d][k] >= text'[u]
    BY <1>1, <2>1, <2>2, <2>3, <2>7 DEF TextFor
  <2>9. ASSUME u \notin blurred'
        PROVE  /\ At(u, {"shmRead"}, "copied", d)' =>
                    copy'[u][1] = buffer'[d][1] /\ buffer'[d][1] = buffer'[d][2]
               /\ At(u, {"shmRead"}, "read", d)' =>
                    /\ copy'[u][1] = copy'[u][2]
                    /\ stored'[text'[u]] = d => copy'[u][1] >= text'[u]
    <3>1. u \notin blurred
      BY <2>9
    <3>2. ASSUME At(u, {"shmRead"}, "copied", d)'
          PROVE  copy'[u][1] = buffer'[d][1] /\ buffer'[d][1] = buffer'[d][2]
      <4>1. At(u, {"shmRead"}, "copied", d)
        BY <2>4, <3>2
      <4>2. buffer'[d] = buffer[d]
        BY <2>9, <4>1
      <4> QED
        BY <1>1, <2>1, <3>1, <4>1, <4>2 DEF TextFor
    <3>3. ASSUME At(u, {"shmRead"}, "read", d)'
          PROVE  /\ copy'[u][1] = copy'[u][2]
                 /\ stored'[text'[u]] = d => copy'[u][1] >= text'[u]
      <4>1. At(u, {"shmRead"}, "read", d) /\ Woken(u)'
        BY <2>4, <3>3 DEF At, Woken
      <4> QED
        BY <1>1, <2>1, <2>7, <3>1, <4>1 DEF TextFor
    <3> QED
      BY <3>2, <3>3
  <2> QED
    BY <2>5, <2>6, <2>8, <2>9
<1>7. at'[u] = "copied" => Call(u)'.desc \in Desc
  BY <1>1 DEF TextFor, Call
<1> QED
  BY <1>4, <1>5, <1>6, <1>7 DEF TextFor

ShmPlaces == {"first", "second", "wake", "waiting", "woken", "copied", "read"}

(* Nothing is claimed of a thread elsewhere. *)
LEMMA NoTextFor ==
  ASSUME NEW t, at[t] \notin ShmPlaces
  PROVE  TextFor(t)
BY DEF TextFor, Writing, Woken, At, ShmPlaces

(* A step that has nothing to do with the texts. *)
LEMMA TextsKept ==
  ASSUME TaskTypes, TextInv, NEW t \in Tasks,
         at' = [at EXCEPT ![t] = at'[t]], todo' = [todo EXCEPT ![t] = todo'[t]],
         at[t] \notin {"second", "waiting"}, at'[t] \notin ShmPlaces,
         UNCHANGED <<buffer, shmWaitQueue, text, stored>>,
         \A u \in Tasks : u # t => copy'[u] = copy[u] /\ (u \in blurred => u \in blurred'),
         copy' \in [Tasks -> [Parts -> Nat]], late \subseteq late'
  PROVE  TextInv'
<1>1. \A u \in Tasks : u # t => at'[u] = at[u] /\ todo'[u] = todo[u]
  BY DEF TaskTypes
<1>2. TextTypes'
  BY DEF TextInv, TextTypes
<1>3. Forward
  <2>1. Len(stored) \in Nat
    BY LenProperties DEF TextInv, TextTypes
  <2>2. \A d \in Desc, k \in Parts : buffer[d][k] \in Nat
    BY DEF TextInv, TextTypes
  <2> QED
    BY <2>1, <2>2 DEF Forward
<1>4. ASSUME NEW u \in Tasks PROVE TextFor(u)'
  <2>1. CASE u = t
    BY <2>1 DEF TextFor, Writing, Woken, At, ShmPlaces
  <2>2. CASE u # t
    <3>1. at'[u] = at[u] /\ todo'[u] = todo[u] /\ text'[u] = text[u] /\ copy'[u] = copy[u]
          /\ (u \in blurred => u \in blurred')
      BY <1>1, <2>2
    <3>2. Woken(u)' => Woken(u)
      BY <3>1 DEF Woken, Queued
    <3> QED
      BY <1>2, <1>3, <3>1, <3>2, OthersTexts
  <2> QED
    BY <2>1, <2>2
<1>5. \A u \in Queued' : at'[u] = "waiting"
  BY <1>1 DEF TextInv, TextTypes, Queued
<1>6. ASSUME NEW d \in Desc PROVE TextIn(d)'
  <2>1. TextIn(d)
    BY DEF TextInv
  <2>2. \A u \in Tasks : At(u, Writers, "second", d) => At(u, Writers, "second", d)'
    BY <1>1 DEF At, Call
  <2> QED
    BY <2>1, <2>2 DEF TextIn
<1> QED
  BY <1>2, <1>4, <1>5, <1>6 DEF TextInv

(* A text is numbered when it is begun. *)
LEMMA TextBegins ==
  ASSUME TaskTypes, TextInv, NEW t \in Tasks, todo[t] # <<>>,
         at[t] = "in", at' = [at EXCEPT ![t] = "first"], todo' = todo, Numbered(t),
         UNCHANGED <<buffer, shmWaitQueue, copy, late, blurred>>
  PROVE  TextInv'
<1> DEFINE d == Call(t).desc
<1>1. d \in DescsCalled
  <2>1. Call(t) \in Calls
    BY HeadTailProperties DEF TaskTypes, Call
  <2> QED
    BY <2>1 DEF DescsCalled
<1> HIDE DEF d
<1>2. stored' = Append(stored, d) /\ text' = [text EXCEPT ![t] = Len(stored')]
  BY DEF Numbered, d
<1>3. stored \in Seq(DescsCalled) /\ Len(stored) \in Nat
  BY LenProperties DEF TextInv, TextTypes
<1>4. /\ stored' \in Seq(DescsCalled) /\ Len(stored') = Len(stored) + 1
      /\ \A n \in 1..Len(stored) : stored'[n] = stored[n]
      /\ stored'[Len(stored) + 1] = d
  BY <1>1, <1>2, <1>3, AppendProperties
<1>5. TextTypes'
  BY <1>2, <1>3, <1>4 DEF TextInv, TextTypes
<1>6. Forward
  <2>1. \A e \in Desc, k \in Parts : buffer[e][k] \in Nat
    BY DEF TextInv, TextTypes
  <2> QED
    BY <1>3, <1>4, <2>1 DEF Forward
<1>7. at'[t] = "first" /\ text'[t] = Len(stored) + 1
  BY <1>2, <1>4 DEF TaskTypes, TextInv, TextTypes
<1>8. \A u \in Tasks : u # t => at'[u] = at[u] /\ text'[u] = text[u]
  BY <1>2 DEF TaskTypes, TextInv, TextTypes
<1>9. ASSUME NEW u \in Tasks PROVE TextFor(u)'
  <2>1. CASE u = t
    <3>1. text'[t] \in 1..Len(stored') /\ stored'[text'[t]] = Call(t)'.desc
      BY <1>3, <1>4, <1>7 DEF d, Call
    <3> QED
      BY <1>7, <2>1, <3>1 DEF TextFor, Woken, At
  <2>2. CASE u # t
    <3>1. at'[u] = at[u] /\ todo'[u] = todo[u] /\ text'[u] = text[u] /\ copy'[u] = copy[u]
          /\ (u \in blurred => u \in blurred')
      BY <1>8, <2>2
    <3>2. Woken(u)' => Woken(u)
      BY <3>1 DEF Woken, Queued
    <3> QED
      BY <1>5, <1>6, <3>1, <3>2, OthersTexts
  <2> QED
    BY <2>1, <2>2
<1>10. \A u \in Queued' : at'[u] = "waiting"
  BY <1>8 DEF TextInv, TextTypes, Queued
<1>11. ASSUME NEW e \in Desc PROVE TextIn(e)'
  <2>1. TextIn(e)
    BY DEF TextInv
  <2>2. \A u \in Tasks : At(u, Writers, "second", e) => At(u, Writers, "second", e)'
    BY <1>8 DEF At, Call
  <2> QED
    BY <1>3, <1>4, <2>1, <2>2 DEF TextIn
<1> QED
  BY <1>5, <1>9, <1>10, <1>11 DEF TextInv

(* What a store does to the buffers. *)
LEMMA Stored ==
  ASSUME TextInv, NEW t \in Tasks, NEW part \in Parts, Writing(t), Store(t, part)
  PROVE  /\ TextTypes' /\ Forward /\ stored' = stored /\ text' = text /\ copy' = copy
         /\ shmWaitQueue' = shmWaitQueue /\ blurred \subseteq blurred'
         /\ \A d \in Desc : \A k \in Parts :
              buffer'[d][k] = IF d = Call(t).desc /\ k = part THEN text[t] ELSE buffer[d][k]
         /\ \A d \in Desc : d # Call(t).desc => buffer'[d] = buffer[d]
         /\ \A u \in Tasks : At(u, {"shmRead"}, "copied", Call(t).desc) => u \in blurred'
         /\ Call(t).desc \in Desc /\ Call(t).desc \notin late' =>
              \A k \in Parts : text[t] >= buffer[Call(t).desc][k]
<1> DEFINE c == Call(t).desc
           n == text[t]
<1>1. /\ buffer' = [buffer EXCEPT ![c][part] = n]
      /\ late' = (IF Late(t, c) THEN late \cup {c} ELSE late)
      /\ blurred' = blurred \cup {u \in Tasks : At(u, {"shmRead"}, "copied", c)}
      /\ stored' = stored /\ text' = text /\ copy' = copy /\ shmWaitQueue' = shmWaitQueue
  BY DEF Store
<1>2. TextTypes /\ n \in 1..Len(stored) /\ stored[n] = c /\ n \in Nat
  BY DEF TextInv, TextFor, TextTypes
<1>3. Late(t, c) <=> \E m \in (n + 1)..Len(stored) : stored[m] = c
  BY DEF Late
<1>4. Len(stored) \in Nat
  BY <1>2, LenProperties DEF TextTypes
<1> HIDE DEF c, n
<1>5. ASSUME NEW d \in Desc
      PROVE  /\ buffer'[d] \in [Parts -> Nat]
             /\ \A k \in Parts :
                  buffer'[d][k] = IF d = c /\ k = part THEN n ELSE buffer[d][k]
             /\ d # c => buffer'[d] = buffer[d]
  <2>1. buffer[d] \in [Parts -> Nat] /\ buffer \in [Desc -> [Parts -> Nat]]
    BY <1>2 DEF TextTypes
  <2>2. buffer'[d] = IF d = c THEN [buffer[d] EXCEPT ![part] = n] ELSE buffer[d]
    BY <1>1, <2>1
  <2> QED
    BY <1>2, <2>1, <2>2
<1>6. buffer' \in [Desc -> [Parts -> Nat]]
  <2>1. buffer' = [d \in Desc |-> buffer'[d]]
    BY <1>1, <1>2 DEF TextTypes
  <2> QED
    BY <1>5, <2>1
<1>7. TextTypes'
  BY <1>1, <1>2, <1>6 DEF TextTypes
<1>8. ASSUME c \in Desc, c \notin late', NEW k \in Parts PROVE n >= buffer[c][k]
  <2>1. ~Late(t, c)
    BY <1>1, <1>8
  <2>2. buffer[c][k] = 0 \/ (buffer[c][k] \in 1..Len(stored) /\ stored[buffer[c][k]] = c)
    BY <1>8 DEF TextInv, TextIn
  <2> QED
    BY <1>2, <1>3, <1>4, <2>1, <2>2
<1>9. Forward
  <2>1. \A d \in Desc : d \notin late' => \A k \in Parts : buffer'[d][k] >= buffer[d][k]
    <3> SUFFICES ASSUME NEW d \in Desc, d \notin late', NEW k \in Parts
                 PROVE  buffer'[d][k] >= buffer[d][k]
      OBVIOUS
    <3>1. buffer[d][k] \in Nat
      BY <1>2 DEF TextTypes
    <3>2. d = c /\ k = part => n >= buffer[d][k]
      BY <1>8
    <3> QED
      BY <1>5, <3>1, <3>2
  <2> QED
    BY <1>1, <1>4, <2>1 DEF Forward
<1> QED
  BY <1>1, <1>5, <1>7, <1>8, <1>9 DEF c, n

(* A thread stores the first part of its text, then the second. *)
LEMMA StoreKeepsTexts ==
  ASSUME TaskTypes, TextInv, NEW t \in Tasks, Call(t).fn \in Writers,
         \/ at[t] = "first" /\ Store(t, 1) /\ at'[t] = "second" /\ todo' = todo
         \/ at[t] = "second" /\ Store(t, 2) /\ at'[t] = "wake" /\ todo' = todo
         \/ at[t] = "second" /\ Store(t, 2) /\ at'[t] = "out",
         at' = [at EXCEPT ![t] = at'[t]], todo' = [todo EXCEPT ![t] = todo'[t]]
  PROVE  TextInv'
<1> DEFINE c == Call(t).desc
           n == text[t]
<1>1. Writing(t) /\ 1 \in Parts /\ 2 \in Parts
  BY DEF Writing, Parts
<1>2. PICK part \in Parts : Store(t, part) /\ (at[t] = "first" <=> part = 1)
  BY DEF Parts
<1>3. /\ TextTypes' /\ Forward /\ stored' = stored /\ text' = text /\ copy' = copy
      /\ shmWaitQueue' = shmWaitQueue /\ blurred \subseteq blurred'
      /\ \A d \in Desc : \A k \in Parts :
           buffer'[d][k] = IF d = c /\ k = part THEN n ELSE buffer[d][k]
      /\ \A d \in Desc : d # c => buffer'[d] = buffer[d]
      /\ \A u \in Tasks : At(u, {"shmRead"}, "copied", c) => u \in blurred'
      /\ c \in Desc /\ c \notin late' => \A k \in Parts : n >= buffer[c][k]
  <2>1. part \in Parts /\ Writing(t) /\ Store(t, part)
    BY <1>1, <1>2
  <2> QED
    BY <2>1, Stored
<1>4. /\ TextTypes /\ n \in 1..Len(stored) /\ stored[n] = c /\ n \in Nat
      /\ TextFor(t) /\ late \subseteq late'
  BY <1>1, <1>3 DEF TextInv, TextFor, TextTypes, Forward
<1>5. \A u \in Tasks : u # t => at'[u] = at[u] /\ todo'[u] = todo[u]
  BY DEF TaskTypes
<1> HIDE DEF n
<1>6. ASSUME c \in Desc, c \notin late', at[t] = "second"
      PROVE  buffer'[c][1] = n /\ buffer'[c][2] = n
  <2>1. c \notin late /\ At(t, Writers, "second", c)
    BY <1>4, <1>6 DEF At
  <2>2. buffer[c][1] >= n
    BY <1>4, <1>6, <2>1 DEF TextFor, n
  <2>3. buffer[c][1] = n
    BY <1>1, <1>3, <1>4, <1>6, <2>2 DEF TextTypes
  <2>4. part = 2
    BY <1>2, <1>6 DEF Parts
  <2> QED
    BY <1>1, <1>3, <1>6, <2>3, <2>4
<1>7. ASSUME NEW u \in Tasks PROVE TextFor(u)'
  <2>1. CASE u = t /\ at'[t] # "out"
    <3>1. todo' = todo /\ Call(t)' = Call(t)
      BY <2>1 DEF Call
    <3>2. ~Woken(t)' /\ \A d : ~At(t, {"shmRead"}, "copied", d)' /\ ~At(t, {"shmRead"}, "read", d)'
      BY <2>1 DEF Woken, At
    <3>3. ASSUME NEW d \in Desc, d \notin late'
          PROVE  /\ At(t, Writers, "second", d)' => buffer'[d][1] >= text'[t]
                 /\ At(t, Writers, "wake", d)' => \A k \in Parts : buffer'[d][k] >= text'[t]
      <4>1. CASE at[t] = "first"
        <5>1. part = 1 /\ at'[t] = "second"
          BY <1>2, <4>1
        <5>2. At(t, Writers, "second", d)' => d = c
          BY <3>1 DEF At
        <5>3. d = c => buffer'[d][1] = n
          BY <1>1, <1>3, <5>1
        <5> QED
          BY <1>3, <1>4, <5>1, <5>2, <5>3 DEF At, n
      <4>2. CASE at[t] = "second"
        <5>1. at'[t] = "wake"
          BY <2>1, <4>2
        <5>2. At(t, Writers, "wake", d)' => d = c
          BY <3>1 DEF At
        <5>3. d = c => \A k \in Parts : buffer'[d][k] = n
          BY <1>6, <3>3, <4>2 DEF Parts
        <5> QED
          BY <1>3, <1>4, <5>1, <5>2, <5>3 DEF At, n
      <4> QED
        BY <4>1, <4>2
    <3>4. text'[t] \in 1..Len(stored') /\ stored'[text'[t]] = Call(t)'.desc
      BY <1>3, <1>4, <3>1 DEF n
    <3> QED
      BY <2>1, <3>2, <3>3, <3>4 DEF TextFor
  <2>2. CASE u = t /\ at'[t] = "out"
    BY <2>2 DEF TextFor, Writing, Woken, At
  <2>3. CASE u # t
    <3>1. at'[u] = at[u] /\ todo'[u] = todo[u] /\ text'[u] = text[u] /\ copy'[u] = copy[u]
          /\ (u \in blurred => u \in blurred')
      BY <1>3, <1>5, <2>3
    <3>2. Woken(u)' => Woken(u)
      BY <1>3, <3>1 DEF Woken, Queued
    <3>3. \A d \in Desc : At(u, {"shmRead"}, "copied", d) /\ u \notin blurred' =>
            buffer'[d] = buffer[d]
      BY <1>3
    <3> QED
      BY <1>3, <3>1, <3>2, <3>3, OthersTexts
  <2> QED
    BY <2>1, <2>2, <2>3
<1>8. \A u \in Queued' : at'[u] = "waiting"
  <2>1. Queued' = Queued /\ at[t] # "waiting"
    BY <1>3 DEF Queued
  <2>2. \A u \in Queued : u \in Tasks /\ at[u] = "waiting"
    BY DEF TextInv, TextTypes, Queued
  <2> QED
    BY <1>5, <2>1, <2>2
<1>9. ASSUME NEW d \in Desc PROVE TextIn(d)'
  <2>1. TextIn(d)
    BY DEF TextInv
  <2>2. \A k \in Parts :
          \/ buffer'[d][k] = 0
          \/ buffer'[d][k] \in 1..Len(stored') /\ stored'[buffer'[d][k]] = d
    BY <1>3, <1>4, <2>1 DEF TextIn
  <2>3. ASSUME d \notin late', \A u \in Tasks : ~At(u, Writers, "second", d)'
        PROVE  buffer'[d][1] = buffer'[d][2]
    <3>1. CASE d = c
      <4>1. at'[t] # "second" \/ todo' # todo
        BY <2>3, <3>1 DEF At, Call
      <4>2. at[t] = "second"
        BY <4>1
      <4> QED
        BY <1>6, <2>3, <3>1, <4>2
    <3>2. CASE d # c
      <4>1. \A u \in Tasks : At(u, Writers, "second", d) => u # t
        BY <3>2 DEF At
      <4>2. \A u \in Tasks : ~At(u, Writers, "second", d)
        BY <1>5, <2>3, <4>1 DEF At, Call
      <4>3. d \notin late
        BY <1>4, <2>3
      <4> QED
        BY <1>3, <2>1, <3>2, <4>2, <4>3 DEF TextIn
    <3> QED
      BY <3>1, <3>2
  <2> QED
    BY <2>2, <2>3 DEF TextIn
<1> QED
  BY <1>3, <1>7, <1>8, <1>9 DEF TextInv

(* The first reader in the queue is woken, if there is one. *)
LEMMA WakeKeepsTexts ==
  ASSUME TaskTypes, TextInv, NEW t \in Tasks, Call(t).fn \in Writers,
         at[t] = "wake", at' = [at EXCEPT ![t] = "out"],
         todo' = [todo EXCEPT ![t] = todo'[t]], wakeOne(text[t]),
         UNCHANGED <<buffer, copy, stored, late, blurred>>
  PROVE  TextInv'
<1>1. CASE shmWaitQueue = <<>>
  <2>1. shmWaitQueue' = shmWaitQueue /\ text' = text
    BY <1>1 DEF wakeOne
  <2>2. at'[t] = "out" /\ copy' \in [Tasks -> [Parts -> Nat]]
    BY DEF TaskTypes, TextInv, TextTypes
  <2> QED
    BY <2>1, <2>2, TextsKept DEF ShmPlaces
<1>2. CASE shmWaitQueue # <<>>
  <2> DEFINE h == Head(shmWaitQueue)
  <2>1. shmWaitQueue' = Tail(shmWaitQueue) /\ text' = [text EXCEPT ![h] = text[t]]
    BY <1>2 DEF wakeOne
  <2>2. TextTypes
    BY DEF TextInv
  <2>3. /\ h \in Tasks /\ Tail(shmWaitQueue) \in Seq(Tasks)
        /\ h = shmWaitQueue[1] /\ Len(shmWaitQueue) \in Nat /\ Len(shmWaitQueue) >= 1
        /\ Len(Tail(shmWaitQueue)) = Len(shmWaitQueue) - 1
        /\ \A n \in 1..Len(Tail(shmWaitQueue)) : Tail(shmWaitQueue)[n] = shmWaitQueue[n + 1]
    BY <1>2, <2>2, HeadTailProperties, LenProperties, EmptySeq DEF TextTypes
  <2> HIDE DEF h
  <2>4. h \in Queued /\ Queued' \subseteq Queued /\ Queued \subseteq Queued' \cup {h}
    <3>1. DOMAIN shmWaitQueue = 1..Len(shmWaitQueue)
          /\ DOMAIN shmWaitQueue' = 1..(Len(shmWaitQueue) - 1)
          /\ \A n \in DOMAIN shmWaitQueue' : shmWaitQueue'[n] = shmWaitQueue[n + 1]
      BY <2>1, <2>2, <2>3 DEF TextTypes
    <3>2. \A n \in DOMAIN shmWaitQueue : n = 1 \/ n - 1 \in DOMAIN shmWaitQueue'
      BY <2>3, <3>1
    <3>3. h \in Queued
      BY <2>3, <3>1 DEF Queued
    <3>4. ASSUME NEW n \in DOMAIN shmWaitQueue'
          PROVE  shmWaitQueue'[n] \in Queued
      <4>1. n + 1 \in DOMAIN shmWaitQueue /\ shmWaitQueue'[n] = shmWaitQueue[n + 1]
        BY <2>3, <3>1
      <4> QED
        BY <4>1 DEF Queued
    <3>5. ASSUME NEW n \in DOMAIN shmWaitQueue
          PROVE  shmWaitQueue[n] \in Queued' \cup {h}
      <4>1. CASE n = 1
        BY <2>3, <4>1
      <4>2. CASE n # 1
        <5>1. n - 1 \in DOMAIN shmWaitQueue' /\ shmWaitQueue'[n - 1] = shmWaitQueue[n]
          BY <2>3, <3>1, <4>2
        <5> QED
          BY <5>1 DEF Queued
      <4> QED
        BY <4>1, <4>2
    <3> QED
      BY <3>3, <3>4, <3>5 DEF Queued
  <2>5. /\ at[h] = "waiting" /\ h # t /\ text[t] \in Nat
        /\ text[t] \in 1..Len(stored) /\ stored[text[t]] = Call(t).desc
    BY <2>2, <2>4 DEF TextInv, TextTypes, TextFor, Writing
  <2>6. TextTypes'
    BY <2>1, <2>2, <2>3, <2>5 DEF TextTypes
  <2>7. Forward
    <3>1. Len(stored) \in Nat
      BY <2>2, LenProperties DEF TextTypes
    <3>2. \A d \in Desc, k \in Parts : buffer[d][k] \in Nat
      BY <2>2 DEF TextTypes
    <3> QED
      BY <3>1, <3>2 DEF Forward
  <2>8. /\ at'[t] = "out" /\ text'[h] = text[t]
        /\ \A u \in Tasks : u # t => at'[u] = at[u] /\ todo'[u] = todo[u]
        /\ \A u \in Tasks : u # h => text'[u] = text[u]
    BY <2>1, <2>2, <2>3 DEF TaskTypes, TextTypes
  <2>9. ASSUME NEW u \in Tasks PROVE TextFor(u)'
    <3>1. CASE u = t
      BY <2>8, <3>1, NoTextFor DEF TextFor, Writing, Woken, At
    <3>2. CASE u = h
      <4>1. at'[h] = "waiting"
        BY <2>5, <2>8, <3>2
      <4>2. ASSUME NEW d \in Desc, d \notin late, stored[text[t]] = d, NEW k \in Parts
            PROVE  buffer[d][k] >= text[t]
        <5>1. At(t, Writers, "wake", d)
          BY <2>5, <4>2 DEF At
        <5> QED
          BY <4>2, <5>1 DEF TextInv, TextFor
      <4> QED
        BY <2>5, <2>8, <3>2, <4>1, <4>2 DEF TextFor, Writing, At
    <3>3. CASE u # t /\ u # h
      <4>1. at'[u] = at[u] /\ todo'[u] = todo[u] /\ text'[u] = text[u] /\ copy'[u] = copy[u]
            /\ (u \in blurred => u \in blurred')
        BY <2>8, <3>3
      <4>2. Woken(u)' => Woken(u)
        BY <2>4, <3>3, <4>1 DEF Woken
      <4> QED
        BY <2>6, <2>7, <4>1, <4>2, OthersTexts
    <3> QED
      BY <3>1, <3>2, <3>3
  <2>10. \A u \in Queued' : at'[u] = "waiting"
    <3>1. \A u \in Queued : u \in Tasks /\ at[u] = "waiting"
      BY <2>2 DEF TextInv, TextTypes, Queued
    <3> QED
      BY <2>4, <2>8, <3>1
  <2>11. ASSUME NEW d \in Desc PROVE TextIn(d)'
    <3>1. TextIn(d)
      BY DEF TextInv
    <3>2. \A u \in Tasks : At(u, Writers, "second", d) => At(u, Writers, "second", d)'
      BY <2>8 DEF At, Call
    <3> QED
      BY <3>1, <3>2 DEF TextIn
  <2> QED
    BY <2>6, <2>9, <2>10, <2>11 DEF TextInv
<1> QED
  BY <1>1, <1>2

(* A reader waits, goes on, and copies one part after the other. *)
LEMMA ReadKeepsTexts ==
  ASSUME TaskTypes, TextInv, NEW t \in Tasks, todo' = todo,
         at' = [at EXCEPT ![t] = at'[t]], UNCHANGED <<buffer, text, stored, late>>,
         \/ /\ at[t] = "in" /\ at'[t] = "waiting"
            /\ shmWaitQueue' = Append(shmWaitQueue, t) /\ UNCHANGED <<copy, blurred>>
         \/ /\ at[t] = "waiting" /\ at'[t] = "woken" /\ t \notin Queued
            /\ UNCHANGED <<shmWaitQueue, copy, blurred>>
         \/ /\ at[t] = "woken" /\ at'[t] = "copied" /\ Copy(t, 1)
            /\ Call(t).desc \in Desc /\ UNCHANGED shmWaitQueue
         \/ /\ at[t] = "copied" /\ at'[t] = "read" /\ Copy(t, 2)
            /\ Call(t).fn = "shmRead" /\ Call(t).desc \in Desc /\ UNCHANGED shmWaitQueue
  PROVE  TextInv'
<1> DEFINE c == Call(t).desc
<1>1. TextTypes /\ TextFor(t)
  BY DEF TextInv
<1>2. /\ shmWaitQueue' \in Seq(Tasks) /\ Queued \subseteq Queued'
      /\ Queued' \subseteq Queued \cup {t} /\ (at'[t] = "waiting" => t \in Queued')
      /\ at'[t] # "waiting" => shmWaitQueue' = shmWaitQueue
  <2>1. CASE shmWaitQueue' = shmWaitQueue /\ at'[t] # "waiting"
    BY <1>1, <2>1 DEF TextTypes, Queued
  <2>2. CASE shmWaitQueue' = Append(shmWaitQueue, t)  /\ at'[t] = "waiting"
    <3> DEFINE q == shmWaitQueue
    <3>1. q \in Seq(Tasks) /\ Len(q) \in Nat
      BY <1>1, LenProperties DEF TextTypes
    <3>2. /\ Append(q, t) \in Seq(Tasks) /\ Len(Append(q, t)) = Len(q) + 1
          /\ \A n \in 1..Len(q) : Append(q, t)[n] = q[n]
          /\ Append(q, t)[Len(q) + 1] = t
      BY <3>1, AppendProperties
    <3>3. /\ DOMAIN q = 1..Len(q) /\ DOMAIN shmWaitQueue' = 1..(Len(q) + 1)
          /\ shmWaitQueue'[Len(q) + 1] = t /\ \A n \in 1..Len(q) : shmWaitQueue'[n] = q[n]
      BY <2>2, <3>1, <3>2
    <3>4. t \in Queued'
      <4>1. Len(q) + 1 \in DOMAIN shmWaitQueue'
        BY <3>1, <3>3
      <4> QED
        BY <3>3, <4>1 DEF Queued
    <3>5. Queued \subseteq Queued'
      <4>1. \A n \in DOMAIN q : n \in DOMAIN shmWaitQueue' /\ shmWaitQueue'[n] = q[n]
        BY <3>1, <3>3
      <4> QED
        BY <4>1 DEF Queued
    <3>6. Queued' \subseteq Queued \cup {t}
      <4>1. \A n \in DOMAIN shmWaitQueue' :
              shmWaitQueue'[n] = t \/ (n \in DOMAIN q /\ shmWaitQueue'[n] = q[n])
        BY <3>1, <3>3
      <4> QED
        BY <4>1 DEF Queued
    <3> QED
      BY <2>2, <3>2, <3>4, <3>5, <3>6
  <2> QED
    BY <2>1, <2>2
<1>3. /\ copy' \in [Tasks -> [Parts -> Nat]] /\ blurred \subseteq blurred'
      /\ \A u \in Tasks : u # t => copy'[u] = copy[u]
  <2>1. CASE UNCHANGED <<copy, blurred>>
    BY <1>1, <2>1 DEF TextTypes
  <2>2. ASSUME NEW part \in Parts, Copy(t, part), c \in Desc
        PROVE  /\ copy' \in [Tasks -> [Parts -> Nat]] /\ blurred \subseteq blurred'
               /\ \A u \in Tasks : u # t => copy'[u] = copy[u]
    <3>1. copy' = [copy EXCEPT ![t][part] = buffer[c][part]] /\ blurred \subseteq blurred'
      BY <2>2 DEF Copy
    <3>2. buffer[c][part] \in Nat
      BY <1>1, <2>2 DEF TextTypes
    <3> HIDE DEF c
    <3> QED
      BY <1>1, <3>1, <3>2 DEF TextTypes
  <2>3. 1 \in Parts /\ 2 \in Parts
    BY DEF Parts
  <2> QED
    BY <2>1, <2>2, <2>3
<1>4. TextTypes'
  BY <1>1, <1>2, <1>3 DEF TextTypes
<1>5. Forward
  <2>1. Len(stored) \in Nat
    BY <1>1, LenProperties DEF TextTypes
  <2>2. \A d \in Desc, k \in Parts : buffer[d][k] \in Nat
    BY <1>1 DEF TextTypes
  <2> QED
    BY <2>1, <2>2 DEF Forward
<1>6. \A u \in Tasks : u # t => at'[u] = at[u]
  BY DEF TaskTypes
<1>7. ASSUME NEW u \in Tasks, u # t PROVE TextFor(u)'
  <2>1. at'[u] = at[u] /\ todo'[u] = todo[u] /\ text'[u] = text[u] /\ copy'[u] = copy[u]
        /\ (u \in blurred => u \in blurred')
    BY <1>3, <1>6, <1>7
  <2>2. Woken(u)' => Woken(u)
    BY <1>2, <2>1 DEF Woken
  <2> QED
    BY <1>4, <1>5, <2>1, <2>2, OthersTexts
<1>8. TextFor(t)'
  <2>1. CASE at'[t] = "waiting"
    BY <1>2, <2>1 DEF TextFor, Writing, Woken, At
  <2>2. CASE at'[t] = "woken"
    <3>1. Woken(t) /\ at[t] = "waiting"
      BY <2>2 DEF Woken
    <3> QED
      BY <1>1, <2>2, <3>1 DEF TextFor, Writing, At
  <2>3. CASE at'[t] = "copied"
    <3>1. Woken(t) /\ at[t] = "woken" /\ Copy(t, 1) /\ c \in Desc
      BY <2>3 DEF Woken
    <3>2. copy' = [copy EXCEPT ![t][1] = buffer[c][1]]
          /\ blurred' = IF \E u \in Tasks : At(u, Writers, "second", c)
                          THEN blurred \cup {t} ELSE blurred
      BY <3>1 DEF Copy, Writers
    <3>3. copy'[t][1] = buffer[c][1]
      <4>1. copy \in [Tasks -> [Parts -> Nat]] /\ 1 \in Parts
        BY <1>1 DEF TextTypes, Parts
      <4> HIDE DEF c
      <4> QED
        BY <3>2, <4>1
    <3>4. ASSUME c \notin late, t \notin blurred' PROVE buffer[c][1] = buffer[c][2]
      <4>1. \A u \in Tasks : ~At(u, Writers, "second", c)
        BY <3>2, <3>4
      <4> QED
        BY <3>1, <3>4, <4>1 DEF TextInv, TextIn
    <3>5. ASSUME NEW d \in Desc, d \notin late, t \notin blurred', At(t, {"shmRead"}, "copied", d)'
          PROVE  copy'[t][1] = buffer'[d][1] /\ buffer'[d][1] = buffer'[d][2]
      <4>1. d = c
        BY <3>5 DEF At, Call
      <4> QED
        BY <3>3, <3>4, <3>5, <4>1
    <3>6. Call(t)'.desc \in Desc /\ ~Writing(t)' /\ ~At(t, {"shmRead"}, "read", c)'
      BY <2>3, <3>1 DEF Call, Writing, At
    <3>7. text[t] \in 1..Len(stored)
          /\ \A d \in Desc : d \notin late /\ stored[text[t]] = d =>
               \A k \in Parts : buffer[d][k] >= text[t]
      BY <1>1, <3>1 DEF TextFor
    <3>8. \A d : /\ ~At(t, Writers, "second", d)' /\ ~At(t, Writers, "wake", d)'
                 /\ ~At(t, {"shmRead"}, "read", d)'
      BY <2>3 DEF At
    <3> QED
      BY <3>5, <3>6, <3>7, <3>8 DEF TextFor
  <2>4. CASE at'[t] = "read"
    <3>1. /\ Woken(t) /\ at[t] = "copied" /\ Copy(t, 2)
          /\ At(t, {"shmRead"}, "copied", c) /\ c \in Desc
      BY <2>4 DEF Woken, At
    <3>2. copy' = [copy EXCEPT ![t][2] = buffer[c][2]]
      BY <3>1 DEF Copy
    <3>3. copy'[t][2] = buffer[c][2] /\ copy'[t][1] = copy[t][1]
      <4>1. copy \in [Tasks -> [Parts -> Nat]] /\ 1 \in Parts /\ 2 \in Parts
        BY <1>1 DEF TextTypes, Parts
      <4> HIDE DEF c
      <4> QED
        BY <3>2, <4>1
    <3>4. ASSUME c \notin late, t \notin blurred'
          PROVE  /\ copy'[t][1] = copy'[t][2]
                 /\ stored[text[t]] = c => copy'[t][1] >= text[t]
      <4>1. t \notin blurred
        BY <1>3, <3>4
      <4>2. copy[t][1] = buffer[c][1] /\ buffer[c][1] = buffer[c][2]
        BY <1>1, <3>1, <3>4, <4>1 DEF TextFor
      <4>3. stored[text[t]] = c => buffer[c][1] >= text[t]
        BY <1>1, <3>1, <3>4 DEF TextFor, Parts
      <4> QED
        BY <3>3, <4>2, <4>3
    <3>5. \A d : At(t, {"shmRead"}, "read", d)' => d = c
      BY DEF At, Call
    <3> QED
      BY <1>1, <2>4, <3>1, <3>4, <3>5 DEF TextFor, Writing, At, Woken
  <2> QED
    BY <2>1, <2>2, <2>3, <2>4
<1>9. \A u \in Queued' : at'[u] = "waiting"
  <2>1. \A u \in Queued : u \in Tasks /\ at[u] = "waiting"
    BY <1>1 DEF TextInv, TextTypes, Queued
  <2>2. CASE at'[t] = "waiting"
    BY <1>2, <1>6, <2>1, <2>2
  <2>3. CASE at'[t] # "waiting"
    <3>1. Queued' = Queued /\ t \notin Queued
      BY <1>2, <2>1, <2>3 DEF Queued
    <3> QED
      BY <1>6, <2>1, <3>1
  <2> QED
    BY <2>2, <2>3
<1>10. ASSUME NEW d \in Desc PROVE TextIn(d)'
  <2>1. TextIn(d)
    BY DEF TextInv
  <2>2. at[t] # "second"
    OBVIOUS
  <2>3. \A u \in Tasks : At(u, Writers, "second", d) => At(u, Writers, "second", d)'
    BY <1>6, <2>2 DEF At, Call
  <2> QED
    BY <2>1, <2>3 DEF TextIn
<1> QED
  BY <1>4, <1>7, <1>8, <1>9, <1>10 DEF TextInv

(* A step of shmGet(). *)
LEMMA GetKeepsTexts ==
  ASSUME TaskTypes, TextInv, NEW t \in Tasks,
         shmGetTests(t) \/ shmGetOwns(t) \/ shmGetLocks(t)
  PROVE  TextInv'
<1>1. UNCHANGED <<buffer, shmWaitQueue, text, stored, copy, blurred>> /\ late \subseteq late'
  BY DEF shmGetTests, shmGetOwns, shmGetLocks, shmVars, sharedVars
<1>2. /\ at[t] \in {"in", "own", "lock", "locked"}
      /\ todo' = todo \/ todo' = [todo EXCEPT ![t] = Tail(todo[t])]
      /\ \/ at' = at
         \/ \E p \in {"own", "lock", "locked", "in", "out"} : at' = [at EXCEPT ![t] = p]
  BY DEF shmGetTests, shmGetOwns, shmGetLocks, In, Goto, Returns, KASSERTFails
<1>3. /\ at' = [at EXCEPT ![t] = at'[t]] /\ at'[t] \notin ShmPlaces
      /\ todo' = [todo EXCEPT ![t] = todo'[t]]
  BY <1>2 DEF TaskTypes, ShmPlaces
<1>4. copy' \in [Tasks -> [Parts -> Nat]]
  BY <1>1 DEF TextInv, TextTypes
<1> QED
  BY <1>1, <1>2, <1>3, <1>4, TextsKept

(* A call that returns without having stored, or after it has read. *)
LEMMA ReturnKeepsTexts ==
  ASSUME TaskTypes, TextInv, NEW t \in Tasks,
         at[t] \in {"in", "woken", "read"}, Returns(t),
         UNCHANGED <<buffer, shmWaitQueue, text, stored, late>>,
         \/ UNCHANGED <<copy, blurred>>
         \/ copy' = [copy EXCEPT ![t] = <<0, 0>>] /\ blurred' = blurred \ {t}
  PROVE  TextInv'
<1>1. /\ at' = [at EXCEPT ![t] = at'[t]] /\ at'[t] = "out"
      /\ todo' = [todo EXCEPT ![t] = todo'[t]]
  BY DEF Returns, TaskTypes
<1>2. <<0, 0>> \in [Parts -> Nat]
  BY DEF Parts
<1>3. /\ copy' \in [Tasks -> [Parts -> Nat]]
      /\ \A u \in Tasks : u # t => copy'[u] = copy[u] /\ (u \in blurred => u \in blurred')
  BY <1>2 DEF TextInv, TextTypes
<1> QED
  BY <1>1, <1>3, TextsKept DEF ShmPlaces

(* Every step of shared memory. *)
LEMMA ShmKeepsTexts ==
  ASSUME TaskTypes, TextInv, NEW t \in Tasks, shmSteps(t)
  PROVE  TextInv'
<1> DEFINE texts == <<buffer, text, stored, late>>
<1>1. CASE shmRelease(t)
  <2>1. CASE In(t, "shmRelease", "in") /\ Owns(t)
    <3>1. /\ todo[t] # <<>> /\ at[t] = "in" /\ at' = [at EXCEPT ![t] = "first"]
          /\ todo' = todo /\ Numbered(t)
          /\ UNCHANGED <<buffer, shmWaitQueue, copy, late, blurred>>
      BY <1>1, <2>1 DEF shmRelease, In, Goto
    <3> QED
      BY <3>1, TextBegins
  <2>2. CASE In(t, "shmRelease", "in") /\ ~Owns(t)
    BY <1>1, <2>2, ReturnKeepsTexts DEF shmRelease, In, shmVars, sharedVars
  <2>3. CASE at[t] # "in"
    <3>1. /\ Call(t).fn = "shmRelease"
          /\ \/ at[t] = "first" /\ Store(t, 1) /\ Goto(t, "second")
             \/ at[t] = "second" /\ Store(t, 2) /\ Returns(t)
      BY <1>1, <2>3 DEF shmRelease, In
    <3>2. /\ at' = [at EXCEPT ![t] = at'[t]] /\ todo' = [todo EXCEPT ![t] = todo'[t]]
          /\ Goto(t, "second") => at'[t] = "second" /\ todo' = todo
          /\ Returns(t) => at'[t] = "out"
      BY <3>1 DEF Goto, Returns, TaskTypes
    <3> QED
      BY <3>1, <3>2, StoreKeepsTexts DEF Writers
  <2> QED
    BY <1>1, <2>1, <2>2, <2>3 DEF shmRelease, In
<1>2. CASE shmWrite(t)
  <2>1. CASE In(t, "shmWrite", "in") /\ Owns(t)
    <3>1. /\ todo[t] # <<>> /\ at[t] = "in" /\ at' = [at EXCEPT ![t] = "first"]
          /\ todo' = todo /\ Numbered(t)
          /\ UNCHANGED <<buffer, shmWaitQueue, copy, late, blurred>>
      BY <1>2, <2>1 DEF shmWrite, shmWriteBegins, In, Goto
    <3> QED
      BY <3>1, TextBegins
  <2>2. CASE In(t, "shmWrite", "in") /\ ~Owns(t)
    BY <1>2, <2>2, ReturnKeepsTexts DEF shmWrite, In, shmVars, sharedVars
  <2>3. CASE at[t] \in {"first", "second"}
    <3>1. /\ Call(t).fn = "shmWrite"
          /\ \/ at[t] = "first" /\ Store(t, 1) /\ Goto(t, "second")
             \/ at[t] = "second" /\ Store(t, 2) /\ Goto(t, "wake")
      BY <1>2, <2>3 DEF shmWrite, In
    <3>2. /\ at' = [at EXCEPT ![t] = at'[t]] /\ todo' = todo
          /\ todo' = [todo EXCEPT ![t] = todo'[t]]
          /\ Goto(t, "second") => at'[t] = "second"
          /\ Goto(t, "wake") => at'[t] = "wake"
      BY <3>1 DEF Goto, TaskTypes
    <3> QED
      BY <3>1, <3>2, StoreKeepsTexts DEF Writers
  <2>4. CASE at[t] = "wake"
    <3>1. /\ Call(t).fn = "shmWrite" /\ wakeOne(text[t]) /\ Returns(t)
          /\ UNCHANGED <<buffer, copy, stored, late, blurred>>
      BY <1>2, <2>4 DEF shmWrite, In
    <3>2. at' = [at EXCEPT ![t] = "out"] /\ todo' = [todo EXCEPT ![t] = todo'[t]]
      BY <3>1 DEF Returns, TaskTypes
    <3> QED
      BY <2>4, <3>1, <3>2, WakeKeepsTexts DEF Writers
  <2> QED
    BY <1>2, <2>1, <2>2, <2>3, <2>4 DEF shmWrite, In
<1>3. CASE shmRead(t)
  <2>1. CASE Returns(t) /\ at[t] \in {"woken", "read"}
    <3>1. /\ copy' = [copy EXCEPT ![t] = <<0, 0>>] /\ blurred' = blurred \ {t}
          /\ UNCHANGED <<buffer, shmWaitQueue, text, stored, late>>
      <4>1. at'[t] = "out"
        BY <2>1 DEF Returns, TaskTypes
      <4> QED
        BY <1>3, <2>1, <4>1 DEF shmRead, In, Goto, Waits, TaskTypes, sharedVars
    <3> QED
      BY <2>1, <3>1, ReturnKeepsTexts
  <2>2. CASE ~(Returns(t) /\ at[t] \in {"woken", "read"})
    <3>1. /\ todo' = todo /\ Call(t).fn = "shmRead" /\ UNCHANGED <<buffer, text, stored, late>>
          /\ \/ /\ at[t] = "in" /\ at' = [at EXCEPT ![t] = "waiting"]
                /\ shmWaitQueue' = Append(shmWaitQueue, t) /\ UNCHANGED <<copy, blurred>>
             \/ /\ at[t] = "waiting" /\ at' = [at EXCEPT ![t] = "woken"] /\ t \notin Queued
                /\ UNCHANGED <<shmWaitQueue, copy, blurred>>
             \/ /\ at[t] = "woken" /\ at' = [at EXCEPT ![t] = "copied"] /\ Copy(t, 1)
                /\ Call(t).desc \in 0..(Readable - 1) /\ UNCHANGED shmWaitQueue
             \/ /\ at[t] = "copied" /\ at' = [at EXCEPT ![t] = "read"] /\ Copy(t, 2)
                /\ UNCHANGED shmWaitQueue
      BY <1>3, <2>2 DEF shmRead, In, Goto, Waits, Queued, shmVars, sharedVars
    <3>2. Call(t).desc \in 0..(Readable - 1) => Call(t).desc \in Desc
      BY ShmAssumption DEF Desc
    <3>3. at[t] = "copied" => Call(t).desc \in Desc
      BY DEF TextInv, TextFor
    <3>4. at' = [at EXCEPT ![t] = at'[t]]
      BY <3>1 DEF TaskTypes
    <3>5. \A p : at' = [at EXCEPT ![t] = p] => at'[t] = p
      BY DEF TaskTypes
    <3> QED
      BY <3>1, <3>2, <3>3, <3>4, <3>5, ReadKeepsTexts
  <2> QED
    BY <2>1, <2>2
<1> QED
  BY <1>1, <1>2, <1>3, GetKeepsTexts DEF shmSteps

(* The steps of the other services. *)
LEMMA OffShm ==
  ASSUME TaskTypes, TextInv, NEW t \in Tasks, UNCHANGED shmVars,
         screenSteps(t) \/ listSteps(t) \/ tlocalSteps(t) \/ enter(t)
  PROVE  TextInv'
<1> DEFINE Away ==
      /\ at[t] \notin {"second", "waiting"}
      /\ todo' = todo \/ todo' = [todo EXCEPT ![t] = Tail(todo[t])]
      /\ \/ at' = at /\ at[t] \notin ShmPlaces
         \/ \E p \in (Within \cup {"out"}) \ ShmPlaces : at' = [at EXCEPT ![t] = p]
<1>1. Away
  <2> USE DEF In, ShmPlaces, Within, Elsewhere
  <2>1. CASE screenSteps(t)
    <3>1. CASE getCursorOffset(t)
      BY <3>1 DEF getCursorOffset, outIndex, Goto
    <3>2. CASE kPutChar(t) \/ kGetChar(t) \/ kSetCursor(t)
      BY <3>2 DEF kPutChar, kGetChar, kSetCursor, Goto, Returns
    <3>3. CASE setCursorOffset(t)
      BY <3>3 DEF setCursorOffset, outIndex, Goto, Returns
    <3> QED
      BY <2>1, <3>1, <3>2, <3>3 DEF screenSteps
  <2>2. CASE listSteps(t)
    <3>1. CASE allocates(t)
      BY <3>1 DEF allocates, fails, Goto, Returns
    <3>2. CASE initThread(t)
      BY <3>2 DEF initThread, Goto
    <3>3. CASE allThreadsAdd(t)
      BY <3>3 DEF allThreadsAdd, Goto, Returns, KASSERTFails
    <3>4. CASE destroyThread(t)
      BY <3>4 DEF destroyThread, Returns
    <3> QED
      BY <2>2, <3>1, <3>2, <3>3, <3>4 DEF listSteps, createThread
  <2>3. CASE tlocalSteps(t)
    BY <2>3 DEF tlocalSteps, tlocalCreate, yield, Returns, KASSERTFails
  <2>4. CASE enter(t)
    BY <2>4 DEF enter
  <2> QED
    BY <2>1, <2>2, <2>3, <2>4
<1>2. /\ at' = [at EXCEPT ![t] = at'[t]] /\ at'[t] \notin ShmPlaces
      /\ todo' = [todo EXCEPT ![t] = todo'[t]]
  BY <1>1 DEF TaskTypes
<1>3. /\ UNCHANGED <<buffer, shmWaitQueue, text, stored, copy, late, blurred>>
      /\ copy' \in [Tasks -> [Parts -> Nat]]
  BY DEF shmVars, sharedVars, TextInv, TextTypes
<1> QED
  BY <1>1, <1>2, <1>3, TextsKept

(* Every step of the threads. *)
LEMMA NextTexts ==
  ASSUME TaskTypes, TextInv, [Next]_vars
  PROVE  TextInv'
<1>1. CASE UNCHANGED vars
  BY <1>1 DEF vars, taskVars, shmVars, sharedVars, TextInv, TextTypes, TextFor, TextIn,
              Writing, Woken, Queued, At, Call
<1>2. ASSUME NEW t \in Tasks, serve(t) PROVE TextInv'
  BY <1>2, ShmKeepsTexts, OffShm DEF serve
<1> QED
  BY <1>1, <1>2 DEF Next, finished

(* What shmRead() copies is one text, no older than the one that woke it,  *)
(* unless a store to the descriptor overlapped with it, or one came after  *)
(* a later text was begun there.  It holds for every readable descriptor,  *)
(* whatever the ids of the threads are.                                    *)
THEOREM TextsReadWhole ==
  ASSUME CallsAllowed
  PROVE  Spec => []TextReadIsWhole
<1>1. Init => TaskTypes /\ FlagsInv /\ TextInv
  <2> SUFFICES ASSUME Init PROVE TaskTypes /\ FlagsInv /\ TextInv
    OBVIOUS
  <2>1. TaskTypes /\ FlagsInv
    BY TasksAssumption
    DEF Init, TasksInit, TlocalInit, CallsAllowed, TaskTypes, FlagsInv, Within, Elsewhere
  <2>2. <<0, 0>> \in [Parts -> Nat] /\ \A k \in Parts : <<0, 0>>[k] = 0
    BY DEF Parts
  <2>3. /\ buffer = [d \in Desc |-> <<0, 0>>] /\ shmWaitQueue = <<>> /\ stored = <<>>
        /\ text = [t \in Tasks |-> 0] /\ copy = [t \in Tasks |-> <<0, 0>>]
        /\ at = [t \in Tasks |-> "out"]
    BY DEF Init, ShmInit, TasksInit
  <2>4. TextTypes
    BY <2>2, <2>3 DEF TextTypes
  <2>5. \A t \in Tasks : TextFor(t)
    BY <2>3, NoTextFor DEF ShmPlaces
  <2>6. \A d \in Desc : TextIn(d)
    BY <2>2, <2>3 DEF TextIn
  <2>7. Queued = {}
    BY <2>3 DEF Queued
  <2> QED
    BY <2>1, <2>4, <2>5, <2>6, <2>7 DEF TextInv
<1>2. TaskTypes /\ FlagsInv /\ TextInv /\ [Next]_vars => TaskTypes' /\ FlagsInv' /\ TextInv'
  BY NextFlags, NextTexts
<1>3. TextInv => TextReadIsWhole
  <2>1. \A d \in 0..(Readable - 1) : d \in Desc
    BY ShmAssumption DEF Desc
  <2> QED
    BY <2>1 DEF TextInv, TextFor, TextReadIsWhole
<1> QED
  BY <1>1, <1>2, <1>3, PTL DEF Spec

-----------------------------------------------------------------------------
(* The list of all threads.                                                *)

Places == Pages \cup {AllThreadHead}

(* The list is a chain of the threads that were created. *)
Chain(n, s) ==
  /\ s[0] = AllThreadHead /\ \A k \in 1..n : s[k] \in Pages
  /\ \A j, k \in 0..n : s[j] = s[k] => j = k
  /\ \A k \in 0..n : next[s[k]] = IF k < n THEN s[k + 1] ELSE Null
  /\ \A p : p \in created <=> \E k \in 1..n : p = s[k]

Chained == \E n \in Nat : \E s \in [0..n -> Places] : Chain(n, s)

(* The head is no page, and neither is what ends the list. *)
LEMMA ListConstants ==
  /\ IsFiniteSet(Pages) /\ Null \notin Pages /\ AllThreadHead \notin Pages
  /\ AllThreadHead # Null /\ Null \notin Places /\ AllThreadHead \in Places
  /\ Pages \subseteq Places
  /\ \A p \in Places : p # AllThreadHead => p \in Pages
BY ThreadListAssumption DEF Places

(* Sets of natural numbers have a least element. *)
LEMMA LeastOne ==
  ASSUME NEW S \in SUBSET Nat, S # {}
  PROVE  \E k \in S : \A j \in S : k <= j
<1>1. PICK k \in S : \A j \in S : <<j, k>> \notin OpToRel(<, Nat)
  BY WFMin, NatLessThanWellFounded, Zenon
<1>2. \A j \in S : ~(j < k)
  BY <1>1, Zenon DEF OpToRel
<1> QED
  BY <1>2

(* A chain is no longer than there are pages. *)
LEMMA ChainLength ==
  ASSUME NEW n \in Nat, NEW s \in [0..n -> Places], Chain(n, s)
  PROVE  Cardinality(Pages) \in Nat /\ n <= Cardinality(Pages)
<1> DEFINE f == [k \in 1..n |-> s[k]]
<1>1. f \in [1..n -> Pages] /\ \A j, k \in 1..n : f[j] = f[k] => j = k
  BY DEF Chain
<1>2. f \in Injection(1..n, Pages)
  <2> HIDE DEF f
  <2> QED
    BY <1>1 DEF Injection, IsInjective
<1> HIDE DEF f
<1>3. Cardinality(1..n) <= Cardinality(Pages)
  BY <1>2, FS_Injection, ListConstants
<1>4. Cardinality(1..n) = n
  BY FS_Interval
<1>5. Cardinality(Pages) \in Nat
  BY ListConstants, FS_CardinalityType
<1> QED
  BY <1>3, <1>4, <1>5

(* What is reached from the head is the chain. *)
LEMMA ChainReached ==
  ASSUME NEW n \in Nat, NEW s \in [0..n -> Places], Chain(n, s)
  PROVE  Listed = created
<1> DEFINE N == Cardinality(Pages)
           f == [k \in 0..N |-> {s[j] : j \in {x \in 0..n : x <= k}}
                                  \cup (IF k > n THEN {Null} ELSE {})]
           G(h) == [k \in 0..N |->
                      IF k = 0 THEN {AllThreadHead}
                      ELSE h[k - 1] \cup {next[p] : p \in h[k - 1] \ {Null}}]
<1>1. Listed = (CHOOSE h : h = G(h))[N] \ {AllThreadHead, Null}
  BY DEF Listed, Reached
<1>2. N \in Nat /\ n <= N
  BY ChainLength
<1> HIDE DEF N
<1>3. f = G(f)
  <2> SUFFICES ASSUME NEW k \in 0..N PROVE f[k] = G(f)[k]
    BY DEF f, G
  <2>1. CASE k = 0
    <3>1. f[k] = {s[0]}
      BY <2>1
    <3> QED
      BY <2>1, <3>1 DEF Chain
  <2>2. CASE k # 0
    <3> DEFINE e == f[k - 1]
    <3>1. k - 1 \in 0..N /\ G(f)[k] = e \cup {next[p] : p \in e \ {Null}}
      BY <1>2, <2>2
    <3>2. \A p : p \in e <=> \/ \E j \in 0..n : j <= k - 1 /\ p = s[j]
                             \/ k - 1 > n /\ p = Null
      BY <3>1
    <3>3. \A p : p \in f[k] <=> \/ \E j \in 0..n : j <= k /\ p = s[j]
                                \/ k > n /\ p = Null
      OBVIOUS
    <3> HIDE DEF e, f
    <3>4. ASSUME NEW p, p \in f[k] PROVE p \in e \cup {next[q] : q \in e \ {Null}}
      <4>1. CASE \E j \in 0..n : j <= k - 1 /\ p = s[j]
        BY <3>2, <4>1
      <4>2. CASE k <= n /\ p = s[k]
        <5>1. k - 1 \in 0..n /\ k - 1 < n /\ s[k - 1] \in e
          BY <1>2, <2>2, <3>2, <4>2
        <5>2. next[s[k - 1]] = s[k] /\ s[k - 1] # Null
          BY <2>2, <5>1, ListConstants DEF Chain
        <5> QED
          BY <4>2, <5>1, <5>2
      <4>3. CASE k > n /\ p = Null
        <5>1. n \in 0..n /\ s[n] \in e
          BY <1>2, <2>2, <3>2, <4>3
        <5>2. next[s[n]] = Null /\ s[n] # Null
          BY <5>1, ListConstants DEF Chain
        <5> QED
          BY <4>3, <5>1, <5>2
      <4> QED
        BY <1>2, <3>3, <3>4, <4>1, <4>2, <4>3
    <3>5. ASSUME NEW p, p \in e \cup {next[q] : q \in e \ {Null}} PROVE p \in f[k]
      <4>1. CASE p \in e
        BY <1>2, <2>2, <3>2, <3>3, <4>1
      <4>2. ASSUME NEW q \in e, q # Null, p = next[q] PROVE p \in f[k]
        <5>1. PICK j \in 0..n : j <= k - 1 /\ q = s[j]
          BY <3>2, <4>2
        <5>2. p = IF j < n THEN s[j + 1] ELSE Null
          BY <4>2, <5>1 DEF Chain
        <5>3. CASE j < n
          <6>1. j + 1 \in 0..n /\ j + 1 <= k
            BY <5>1, <5>3
          <6> QED
            BY <3>3, <5>2, <5>3, <6>1
        <5>4. CASE ~(j < n)
          BY <3>3, <5>1, <5>2, <5>4
        <5> QED
          BY <5>3, <5>4
      <4> QED
        BY <3>5, <4>1, <4>2
    <3> QED
      BY <3>1, <3>4, <3>5
  <2> QED
    BY <2>1, <2>2
<1>4. ASSUME NEW h, h = G(h) PROVE h = f
  <2> DEFINE D == {k \in 0..N : h[k] # f[k]}
  <2>1. CASE D # {}
    <3>0. D \in SUBSET Nat
      BY <1>2
    <3>1. PICK k \in D : \A j \in D : k <= j
      <4> HIDE DEF D
      <4> QED
        BY <2>1, <3>0, LeastOne
    <3>2. k \in 0..N /\ h[k] = G(h)[k] /\ f[k] = G(f)[k]
      BY <1>3, <1>4
    <3>3. k = 0 \/ (k - 1 \in 0..N /\ h[k - 1] = f[k - 1])
      <4>1. CASE k # 0
        <5>1. k - 1 \in 0..N /\ ~(k <= k - 1)
          BY <1>2, <3>2, <4>1
        <5> QED
          BY <3>1, <5>1
      <4> QED
        BY <4>1
    <3>4. G(h)[k] = G(f)[k]
      <4> HIDE DEF f
      <4> QED
        BY <3>2, <3>3
    <3> QED
      BY <3>1, <3>2, <3>4
  <2>2. CASE D = {}
    <3>1. h = [k \in 0..N |-> h[k]]
      BY <1>4
    <3>2. \A k \in 0..N : h[k] = f[k]
      BY <2>2
    <3> QED
      BY <3>1, <3>2
  <2> QED
    BY <2>1, <2>2
<1> DEFINE c == CHOOSE h : h = G(h)
<1>5. c = f
  <2> HIDE DEF G, f
  <2>1. c = G(c)
    BY <1>3
  <2> QED
    BY <1>4, <2>1
<1>6. \A p : p \in f[N] <=> (\E j \in 0..n : p = s[j]) \/ (N > n /\ p = Null)
  BY <1>2
<1> HIDE DEF G, f, c
<1>7. \A p : p \in Listed <=> p \in f[N] /\ p # AllThreadHead /\ p # Null
  BY <1>1, <1>5 DEF c
<1>8. ASSUME NEW p PROVE p \in Listed <=> p \in created
  <2>1. ASSUME NEW j \in 0..n, p = s[j]
        PROVE  /\ p # Null /\ (p = AllThreadHead <=> j = 0)
    BY <2>1, ListConstants DEF Chain
  <2>2. p \in created <=> \E j \in 1..n : p = s[j]
    BY DEF Chain
  <2>3. p \in Listed => p \in created
    <3> SUFFICES ASSUME p \in Listed PROVE p \in created
      OBVIOUS
    <3>1. PICK j \in 0..n : p = s[j]
      BY <1>6, <1>7
    <3>2. j \in 1..n
      BY <1>7, <2>1, <3>1
    <3> QED
      BY <2>2, <3>1, <3>2
  <2>4. p \in created => p \in Listed
    <3> SUFFICES ASSUME p \in created PROVE p \in Listed
      OBVIOUS
    <3>1. PICK j \in 1..n : p = s[j]
      BY <2>2
    <3>2. j \in 0..n /\ j # 0
      BY <3>1
    <3> QED
      BY <1>6, <1>7, <2>1, <3>1, <3>2
  <2> QED
    BY <2>3, <2>4
<1> QED
  BY <1>8

(* The places of createThread() after its first step. *)
Adding     == {"add", "walk", "link"}
ListPlaces == {"stack", "userStack", "load", "store"} \cup Adding

ListTypes ==
  /\ freePages \subseteq Pages /\ created \subseteq Pages
  /\ next \in [Places -> Pages \cup {Null}]
  /\ ids \in [Pages -> Nat] /\ next_free_id \in Nat
  /\ stacks \in [Pages -> SUBSET Pages]
  /\ new \in [Tasks -> Pages \cup {Null}] /\ link \in [Tasks -> Places \cup {Null}]
  /\ overtaken \in BOOLEAN /\ reused \in BOOLEAN
  /\ \A t \in Tasks : /\ new[t] # Null <=> at[t] \in ListPlaces
                      /\ at[t] \in {"walk", "link"} => link[t] \in Places

(* A thread that was created or is being created, and one that has its id. *)
IsLive(p) == p \in created \/ \E t \in Tasks : at[t] \in ListPlaces /\ new[t] = p
HasId(p)  == p \in created \/ \E t \in Tasks : at[t] \in Adding /\ new[t] = p

(* No page is used for two things. *)
PagesInv ==
  /\ \A p \in created : p \notin freePages
  /\ \A t \in Tasks : at[t] \in ListPlaces =>
       /\ new[t] \notin created /\ new[t] \notin freePages
       /\ \A u \in Tasks : new[u] = new[t] => u = t
  /\ \A p \in Pages : IsLive(p) => \A s \in stacks[p] :
       /\ s \notin freePages /\ ~IsLive(s)
       /\ \A q \in Pages : IsLive(q) /\ s \in stacks[q] => q = p

(* Ids are below the next one, which a thread may be about to store. *)
IdsInv ==
  reused = TRUE \/
    /\ \A p \in Pages : HasId(p) => ids[p] < next_free_id
    /\ \A p, q \in Pages : HasId(p) /\ HasId(q) /\ ids[p] = ids[q] => p = q

(* Only threads that were created point to others. *)
OrderInv ==
  overtaken = TRUE \/
    /\ Chained /\ halted # "allThreadsAdd"
    /\ \A p \in Pages : p \notin created => next[p] = Null

ListInv == ListTypes /\ PagesInv /\ IdsInv /\ OrderInv

(* The chain depends on the links and on what was created. *)
LEMMA SameChain ==
  ASSUME Chained, next' = next, created' = created
  PROVE  Chained'
<1>1. PICK n \in Nat : \E s \in [0..n -> Places] : Chain(n, s)
  BY DEF Chained
<1>2. PICK s \in [0..n -> Places] : Chain(n, s)
  BY <1>1
<1>3. Chain(n, s)'
  BY <1>2 DEF Chain
<1> QED
  BY <1>3 DEF Chained

(* A step of another service. *)
LEMMA ListAside ==
  ASSUME TaskTypes, ListInv, NEW t \in Tasks, at' = [at EXCEPT ![t] = at'[t]],
         at[t] \notin ListPlaces, at'[t] \notin ListPlaces, UNCHANGED listVars,
         halted' = halted \/ halted' # "allThreadsAdd"
  PROVE  ListInv'
<1>1. \A u \in Tasks : u # t => at'[u] = at[u]
  BY DEF TaskTypes
<1>2. /\ freePages' = freePages /\ next' = next /\ next_free_id' = next_free_id
      /\ created' = created /\ ids' = ids /\ stacks' = stacks /\ new' = new /\ link' = link
      /\ overtaken' = overtaken /\ reused' = reused
  BY DEF listVars
<1>3. ListTypes'
  <2>1. \A u \in Tasks : /\ new'[u] # Null <=> at'[u] \in ListPlaces
                         /\ at'[u] \in {"walk", "link"} => link'[u] \in Places
    BY <1>1, <1>2 DEF ListInv, ListTypes, ListPlaces, Adding
  <2> QED
    BY <1>2, <2>1 DEF ListInv, ListTypes
<1>4. \A u \in Tasks : /\ at'[u] \in ListPlaces <=> at[u] \in ListPlaces
                       /\ at'[u] \in Adding <=> at[u] \in Adding
  BY <1>1 DEF ListPlaces
<1>5. \A p : (IsLive(p)' <=> IsLive(p)) /\ (HasId(p)' <=> HasId(p))
  BY <1>2, <1>4 DEF IsLive, HasId
<1>6. PagesInv'
  BY <1>2, <1>4, <1>5 DEF ListInv, PagesInv
<1>7. IdsInv'
  BY <1>2, <1>5 DEF ListInv, IdsInv
<1>8. OrderInv'
  <2>1. Chained => Chained'
    BY <1>2, SameChain
  <2> QED
    BY <1>2, <2>1 DEF ListInv, OrderInv
<1> QED
  BY <1>3, <1>6, <1>7, <1>8 DEF ListInv

(* While no thread gets an id and the list is not touched. *)
LEMMA OnlyPages ==
  ASSUME TaskTypes, ListInv, NEW t \in Tasks, at' = [at EXCEPT ![t] = at'[t]],
         at[t] \notin Adding, at'[t] \notin Adding, halted' = halted,
         \A u \in Tasks : u # t => new'[u] = new[u],
         UNCHANGED <<next, next_free_id, created, ids, overtaken, reused>>
  PROVE  IdsInv' /\ OrderInv'
<1>1. \A u \in Tasks : at'[u] \in Adding <=> at[u] \in Adding
  BY DEF TaskTypes
<1>2. \A p : HasId(p)' <=> HasId(p)
  BY <1>1 DEF HasId
<1>3. IdsInv'
  BY <1>2 DEF ListInv, IdsInv
<1>4. OrderInv'
  <2>1. Chained => Chained'
    BY SameChain
  <2> QED
    BY <2>1 DEF ListInv, OrderInv
<1> QED
  BY <1>3, <1>4

(* Pages are allocated, or given back when there are too few. *)
LEMMA AllocationKeepsList ==
  ASSUME TaskTypes, ListInv, NEW t \in Tasks, allocates(t),
         UNCHANGED <<next, next_free_id, created, ids, link, overtaken, reused>>
  PROVE  ListInv'
<1>1. ListTypes /\ PagesInv
  BY DEF ListInv
<1>2. CASE fails(t)
  <2>1. /\ freePages = {} /\ at' = [at EXCEPT ![t] = "out"] /\ stacks' = stacks
        /\ freePages' = (IF new[t] = Null THEN {} ELSE {new[t]} \cup stacks[new[t]])
        /\ new' = [new EXCEPT ![t] = Null] /\ halted' = halted
    BY <1>2 DEF fails, Returns
  <2>2. at[t] \notin Adding /\ at'[t] = "out" /\ new'[t] = Null
        /\ \A u \in Tasks : u # t => at'[u] = at[u] /\ new'[u] = new[u]
    BY <1>1, <2>1 DEF allocates, In, Adding, TaskTypes, ListTypes
  <2>3. IdsInv' /\ OrderInv'
    BY <2>1, <2>2, OnlyPages DEF Adding
  <2>4. ListTypes'
    <3>1. freePages' \subseteq Pages
      BY <1>1, <2>1 DEF ListTypes
    <3>2. new' \in [Tasks -> Pages \cup {Null}]
      BY <1>1, <2>1 DEF ListTypes
    <3>3. \A u \in Tasks : /\ new'[u] # Null <=> at'[u] \in ListPlaces
                           /\ at'[u] \in {"walk", "link"} => link'[u] \in Places
      BY <1>1, <2>2 DEF ListTypes, ListPlaces, Adding
    <3> QED
      BY <1>1, <2>1, <3>1, <3>2, <3>3 DEF ListTypes
  <2>5. \A p : IsLive(p)' <=> IsLive(p) /\ (at[t] \in ListPlaces => p # new[t])
    <3>1. "out" \notin ListPlaces
      BY DEF ListPlaces, Adding
    <3>2. at[t] \in ListPlaces => new[t] \notin created
              /\ \A u \in Tasks : new[u] = new[t] => u = t
      BY <1>1 DEF PagesInv
    <3> QED
      BY <2>2, <3>1, <3>2 DEF IsLive
  <2>6. \A s : s \in freePages' => at[t] \in ListPlaces /\ (s = new[t] \/ s \in stacks[new[t]])
    BY <1>1, <2>1 DEF ListTypes
  <2>7. at[t] \in ListPlaces => new[t] \in Pages /\ IsLive(new[t])
    BY <1>1 DEF ListTypes, IsLive
  <2>8. PagesInv'
    <3>1. \A p \in created' : p \notin freePages'
      BY <1>1, <2>6, <2>7 DEF PagesInv, IsLive
    <3>2. ASSUME NEW u \in Tasks, at'[u] \in ListPlaces
          PROVE  /\ new'[u] \notin created' /\ new'[u] \notin freePages'
                 /\ \A v \in Tasks : new'[v] = new'[u] => v = u
      <4>1. u # t /\ at[u] \in ListPlaces /\ new'[u] = new[u] /\ new[u] # Null
        BY <1>1, <2>2, <3>2 DEF ListPlaces, Adding, ListTypes
      <4>2. new[u] \notin created /\ \A v \in Tasks : new[v] = new[u] => v = u
        BY <1>1, <4>1 DEF PagesInv
      <4>3. new[u] \notin freePages'
        <5>1. IsLive(new[u])
          BY <4>1 DEF IsLive
        <5> QED
          BY <1>1, <2>6, <2>7, <4>1, <4>2, <5>1 DEF PagesInv
      <4>4. \A v \in Tasks : new'[v] = new'[u] => v = u
        BY <2>2, <4>1, <4>2
      <4> QED
        BY <4>1, <4>2, <4>3, <4>4
    <3>3. ASSUME NEW p \in Pages, IsLive(p)', NEW s \in stacks'[p]
          PROVE  /\ s \notin freePages' /\ ~IsLive(s)'
                 /\ \A q \in Pages : IsLive(q)' /\ s \in stacks'[q] => q = p
      <4>1. IsLive(p) /\ s \in stacks[p] /\ (at[t] \in ListPlaces => p # new[t])
        BY <2>1, <2>5, <3>3
      <4>2. /\ ~IsLive(s)
            /\ \A q \in Pages : IsLive(q) /\ s \in stacks[q] => q = p
        BY <1>1, <4>1 DEF PagesInv
      <4>3. s \notin freePages'
        BY <2>6, <2>7, <4>1, <4>2
      <4> QED
        BY <2>1, <2>5, <4>2, <4>3
    <3> QED
      BY <3>1, <3>2, <3>3 DEF PagesInv
  <2> QED
    BY <2>3, <2>4, <2>8 DEF ListInv
<1>3. CASE /\ In(t, "createThread", "in")
           /\ \E p \in freePages :
                /\ new' = [new EXCEPT ![t] = p] /\ freePages' = freePages \ {p}
                /\ stacks' = [stacks EXCEPT ![p] = {}]
                /\ Goto(t, "stack")
  <2>1. PICK p \in freePages :
          /\ new' = [new EXCEPT ![t] = p] /\ freePages' = freePages \ {p}
          /\ stacks' = [stacks EXCEPT ![p] = {}]
    BY <1>3
  <2>2. /\ at[t] = "in" /\ at' = [at EXCEPT ![t] = "stack"] /\ halted' = halted
    BY <1>3 DEF In, Goto
  <2>3. /\ p \in Pages /\ new[t] = Null /\ at'[t] = "stack" /\ new'[t] = p /\ p # Null
        /\ \A u \in Tasks : u # t => at'[u] = at[u] /\ new'[u] = new[u]
    BY <1>1, <2>1, <2>2, ListConstants DEF TaskTypes, ListTypes, ListPlaces, Adding
  <2>4. IdsInv' /\ OrderInv'
    BY <2>2, <2>3, OnlyPages DEF Adding
  <2>5. ListTypes'
    <3>1. new' \in [Tasks -> Pages \cup {Null}] /\ stacks' \in [Pages -> SUBSET Pages]
          /\ freePages' \subseteq Pages
      BY <1>1, <2>1, <2>3 DEF ListTypes
    <3>2. \A u \in Tasks : /\ new'[u] # Null <=> at'[u] \in ListPlaces
                           /\ at'[u] \in {"walk", "link"} => link'[u] \in Places
      BY <1>1, <2>3 DEF ListTypes, ListPlaces, Adding
    <3> QED
      BY <1>1, <3>1, <3>2 DEF ListTypes
  <2>6. \A x : IsLive(x)' <=> IsLive(x) \/ x = p
    BY <2>2, <2>3 DEF IsLive, ListPlaces, Adding
  <2>7. ~IsLive(p)
    BY <1>1, <2>1 DEF IsLive, PagesInv
  <2>8. PagesInv'
    <3>1. \A x \in created' : x \notin freePages'
      BY <1>1, <2>1 DEF PagesInv
    <3>2. ASSUME NEW u \in Tasks, at'[u] \in ListPlaces
          PROVE  /\ new'[u] \notin created' /\ new'[u] \notin freePages'
                 /\ \A v \in Tasks : new'[v] = new'[u] => v = u
      <4>1. CASE u = t
        <5>1. \A v \in Tasks : v # t => new[v] # p
          BY <1>1, <2>3, <2>7 DEF IsLive, ListTypes
        <5> QED
          BY <1>1, <2>1, <2>3, <4>1, <5>1 DEF PagesInv
      <4>2. CASE u # t
        <5>1. at[u] \in ListPlaces /\ new'[u] = new[u] /\ new[u] # p
          BY <2>3, <2>7, <3>2, <4>2 DEF IsLive
        <5> QED
          BY <1>1, <2>1, <2>3, <4>2, <5>1 DEF PagesInv
      <4> QED
        BY <4>1, <4>2
    <3>3. ASSUME NEW x \in Pages, IsLive(x)', NEW s \in stacks'[x]
          PROVE  /\ s \notin freePages' /\ ~IsLive(s)'
                 /\ \A q \in Pages : IsLive(q)' /\ s \in stacks'[q] => q = x
      <4>1. /\ x # p /\ IsLive(x) /\ s \in stacks[x]
            /\ \A q \in Pages : stacks'[q] = IF q = p THEN {} ELSE stacks[q]
        BY <1>1, <2>1, <2>6, <3>3 DEF ListTypes
      <4>2. /\ s \notin freePages /\ ~IsLive(s)
            /\ \A q \in Pages : IsLive(q) /\ s \in stacks[q] => q = x
        BY <1>1, <4>1 DEF PagesInv
      <4> QED
        BY <2>1, <2>6, <4>1, <4>2
    <3> QED
      BY <3>1, <3>2, <3>3 DEF PagesInv
  <2> QED
    BY <2>4, <2>5, <2>8 DEF ListInv
<1>4. ASSUME NEW p \in freePages, freePages' = freePages \ {p},
             stacks' = [stacks EXCEPT ![new[t]] = @ \cup {p}], new' = new,
             at[t] \in {"stack", "userStack"}, halted' = halted,
             at' = [at EXCEPT ![t] = at'[t]], at'[t] \in {"userStack", "load"}
      PROVE  ListInv'
  <2>1. /\ p \in Pages /\ new[t] \in Pages /\ at[t] \in ListPlaces /\ at'[t] \in ListPlaces
        /\ \A u \in Tasks : u # t => at'[u] = at[u]
    BY <1>1, <1>4 DEF TaskTypes, ListTypes, ListPlaces, Adding
  <2>2. IdsInv' /\ OrderInv'
    BY <1>4, OnlyPages DEF Adding
  <2>3. ListTypes'
    <3>1. stacks' \in [Pages -> SUBSET Pages] /\ freePages' \subseteq Pages
      BY <1>1, <1>4, <2>1 DEF ListTypes
    <3>2. \A u \in Tasks : /\ new'[u] # Null <=> at'[u] \in ListPlaces
                           /\ at'[u] \in {"walk", "link"} => link'[u] \in Places
      BY <1>1, <1>4, <2>1 DEF ListTypes, ListPlaces, Adding
    <3> QED
      BY <1>1, <1>4, <3>1, <3>2 DEF ListTypes
  <2>4. \A u \in Tasks : at'[u] \in ListPlaces <=> at[u] \in ListPlaces
    BY <2>1
  <2>5. \A x : IsLive(x)' <=> IsLive(x)
    BY <1>4, <2>4 DEF IsLive
  <2>6. ~IsLive(p) /\ IsLive(new[t])
    BY <1>1, <1>4, <2>1 DEF IsLive, PagesInv
  <2>7. PagesInv'
    <3>1. \A x \in created' : x \notin freePages'
      BY <1>1, <1>4 DEF PagesInv
    <3>2. \A u \in Tasks : at'[u] \in ListPlaces =>
            /\ new'[u] \notin created' /\ new'[u] \notin freePages'
            /\ \A v \in Tasks : new'[v] = new'[u] => v = u
      BY <1>1, <1>4, <2>4 DEF PagesInv
    <3>3. ASSUME NEW x \in Pages, IsLive(x)', NEW s \in stacks'[x]
          PROVE  /\ s \notin freePages' /\ ~IsLive(s)'
                 /\ \A q \in Pages : IsLive(q)' /\ s \in stacks'[q] => q = x
      <4>1. \A q \in Pages :
              stacks'[q] = IF q = new[t] THEN stacks[q] \cup {p} ELSE stacks[q]
        BY <1>1, <1>4, <2>1 DEF ListTypes
      <4>2. \A q \in Pages : IsLive(q) => p \notin stacks[q]
        BY <1>1, <1>4 DEF PagesInv
      <4>3. CASE s = p
        BY <1>4, <2>5, <2>6, <3>3, <4>1, <4>2, <4>3
      <4>4. CASE s # p
        <5>1. IsLive(x) /\ s \in stacks[x]
          BY <2>5, <3>3, <4>1, <4>4
        <5>2. /\ s \notin freePages /\ ~IsLive(s)
              /\ \A q \in Pages : IsLive(q) /\ s \in stacks[q] => q = x
          BY <1>1, <5>1 DEF PagesInv
        <5> QED
          BY <1>4, <2>5, <4>1, <4>4, <5>2
      <4> QED
        BY <4>3, <4>4
    <3> QED
      BY <3>1, <3>2, <3>3 DEF PagesInv
  <2> QED
    BY <2>2, <2>3, <2>7 DEF ListInv
<1>5. ASSUME NEW place \in {"stack", "userStack"}, In(t, "createThread", place),
             NEW p \in freePages, freePages' = freePages \ {p},
             stacks' = [stacks EXCEPT ![new[t]] = @ \cup {p}], new' = new,
             Goto(t, IF place = "stack" /\ Call(t).usermode THEN "userStack" ELSE "load")
      PROVE  ListInv'
  <2>1. /\ at[t] \in {"stack", "userStack"} /\ halted' = halted
        /\ at' = [at EXCEPT ![t] = "userStack"] \/ at' = [at EXCEPT ![t] = "load"]
    BY <1>5 DEF In, Goto
  <2>2. at' = [at EXCEPT ![t] = at'[t]] /\ at'[t] \in {"userStack", "load"}
    BY <2>1 DEF TaskTypes
  <2> QED
    BY <1>4, <1>5, <2>1, <2>2
<1> QED
  BY <1>2, <1>3, <1>5 DEF allocates

(* While no page changes hands. *)
LEMMA OnlyLinks ==
  ASSUME TaskTypes, ListInv, NEW t \in Tasks, at' = [at EXCEPT ![t] = at'[t]],
         at[t] \in ListPlaces, at'[t] \in ListPlaces,
         UNCHANGED <<freePages, created, stacks, new>>
  PROVE  /\ PagesInv'
         /\ \A u \in Tasks : new'[u] # Null <=> at'[u] \in ListPlaces
<1>1. \A u \in Tasks : at'[u] \in ListPlaces <=> at[u] \in ListPlaces
  BY DEF TaskTypes
<1>2. \A p : IsLive(p)' <=> IsLive(p)
  BY <1>1 DEF IsLive
<1> QED
  BY <1>1, <1>2 DEF ListInv, ListTypes, PagesInv

(* A thread that is being created points nowhere. *)
LEMMA NewPoints ==
  ASSUME ListInv, NEW t \in Tasks, at[t] \in ListPlaces
  PROVE  /\ new[t] \in Pages /\ new[t] \in Places /\ new[t] \notin created
         /\ overtaken # TRUE => [next EXCEPT ![new[t]] = Null] = next
<1>1. new[t] \in Pages /\ new[t] \notin created /\ new[t] \in Places
  BY DEF ListInv, ListTypes, PagesInv, Places
<1>2. next \in [Places -> Pages \cup {Null}]
  BY DEF ListInv, ListTypes
<1>3. overtaken # TRUE => next[new[t]] = Null
  BY <1>1 DEF ListInv, OrderInv
<1> QED
  BY <1>1, <1>2, <1>3

(* initThread(). *)
LEMMA InitKeepsList ==
  ASSUME TaskTypes, ListInv, NEW t \in Tasks, initThread(t),
         UNCHANGED <<freePages, created, stacks, new, link, overtaken>>
  PROVE  ListInv'
<1> DEFINE p == new[t]
<1>0. ListTypes /\ PagesInv /\ IdsInv /\ OrderInv
  BY DEF ListInv
<1>1. at[t] \in {"load", "store"} /\ at'[t] \in {"store", "add"} /\ halted' = halted
      /\ at' = [at EXCEPT ![t] = at'[t]]
  <2>1. /\ at[t] \in {"load", "store"} /\ halted' = halted
        /\ at' = [at EXCEPT ![t] = "store"] \/ at' = [at EXCEPT ![t] = "add"]
    BY DEF initThread, In, Goto
  <2> QED
    BY <2>1 DEF TaskTypes
<1>2. at[t] \in ListPlaces /\ at'[t] \in ListPlaces
  BY <1>1 DEF ListPlaces, Adding
<1>3. /\ p \in Pages /\ p \in Places /\ p \notin created
      /\ overtaken # TRUE => [next EXCEPT ![p] = Null] = next
  BY <1>2, NewPoints
<1>4. PagesInv' /\ \A u \in Tasks : new'[u] # Null <=> at'[u] \in ListPlaces
  BY <1>1, <1>2, OnlyLinks
<1>5. /\ \A u \in Tasks : u # t => at'[u] = at[u]
      /\ \A u \in Tasks : u # t => new[u] # p
  BY <1>0, <1>1, <1>2 DEF TaskTypes, PagesInv
<1>6. \A u \in Tasks : at'[u] \in {"walk", "link"} => link'[u] \in Places
  BY <1>0, <1>1, <1>5 DEF ListTypes
<1>7. ~HasId(p)
  BY <1>1, <1>3, <1>5 DEF HasId, Adding
<1>8. CASE at[t] = "load"
  <2>1. /\ next' = [next EXCEPT ![p] = Null] /\ ids' = [ids EXCEPT ![p] = next_free_id]
        /\ next_free_id' = next_free_id /\ reused' = reused /\ at' = [at EXCEPT ![t] = "store"]
    BY <1>8 DEF initThread, In, Goto
  <2> HIDE DEF p
  <2>2. ListTypes'
    BY <1>0, <1>3, <1>4, <1>6, <2>1 DEF ListTypes
  <2>3. \A x : HasId(x)' <=> HasId(x)
    <3>1. \A u \in Tasks : at'[u] \in Adding <=> at[u] \in Adding
      BY <1>8, <2>1 DEF TaskTypes, Adding
    <3> QED
      BY <3>1 DEF HasId
  <2>4. \A x \in Pages : HasId(x) => ids'[x] = ids[x]
    BY <1>0, <1>7, <2>1 DEF ListTypes
  <2>5. IdsInv'
    BY <1>0, <2>1, <2>3, <2>4 DEF IdsInv
  <2>6. OrderInv'
    <3>1. CASE overtaken = TRUE
      BY <3>1 DEF OrderInv
    <3>2. CASE overtaken # TRUE
      <4>1. next' = next
        BY <1>3, <2>1, <3>2
      <4> QED
        BY <1>0, <1>1, <3>2, <4>1, SameChain DEF OrderInv
    <3> QED
      BY <3>1, <3>2
  <2> QED
    BY <1>4, <2>2, <2>5, <2>6 DEF ListInv
<1>9. CASE at[t] = "store"
  <2>1. /\ next' = next /\ ids' = ids
        /\ next_free_id' = ids[p] + 1 /\ reused' = (reused \/ next_free_id # ids[p])
        /\ at' = [at EXCEPT ![t] = "add"]
    BY <1>9 DEF initThread, In, Goto
  <2>2. ids[p] \in Nat
    BY <1>0, <1>3 DEF ListTypes
  <2>3. ListTypes'
    BY <1>0, <1>3, <1>4, <1>6, <2>1, <2>2 DEF ListTypes
  <2>4. OrderInv'
    BY <1>0, <1>1, <2>1, SameChain DEF OrderInv
  <2>5. \A x : HasId(x)' <=> HasId(x) \/ x = p
    <3>1. /\ at'[t] \in Adding /\ at[t] \notin Adding
          /\ \A u \in Tasks : u # t => (at'[u] \in Adding <=> at[u] \in Adding)
      BY <1>5, <1>9, <2>1 DEF TaskTypes, Adding
    <3> QED
      BY <3>1 DEF HasId
  <2>6. IdsInv'
    <3>1. CASE reused' = TRUE
      BY <3>1 DEF IdsInv
    <3>2. CASE reused' # TRUE
      <4>1. reused # TRUE /\ next_free_id = ids[p]
        BY <2>1, <3>2
      <4> HIDE DEF p
      <4>2. \A x \in Pages : HasId(x) => ids[x] < ids[p]
        BY <1>0, <4>1 DEF IdsInv
      <4>3. \A x, y \in Pages : HasId(x) /\ HasId(y) /\ ids[x] = ids[y] => x = y
        BY <1>0, <4>1 DEF IdsInv
      <4>4. \A x \in Pages : ids[x] \in Nat
        BY <1>0 DEF ListTypes
      <4>5. \A x \in Pages : HasId(x)' => ids'[x] < next_free_id'
        BY <2>1, <2>2, <2>5, <4>2, <4>4
      <4>6. \A x, y \in Pages : HasId(x)' /\ HasId(y)' /\ ids'[x] = ids'[y] => x = y
        BY <2>1, <2>2, <2>5, <4>2, <4>3, <4>4
      <4> QED
        BY <4>5, <4>6 DEF IdsInv
    <3> QED
      BY <3>1, <3>2
  <2> QED
    BY <1>4, <2>3, <2>4, <2>6 DEF ListInv
<1> QED
  BY <1>1, <1>8, <1>9

(* A thread is put behind the last one. *)
LEMMA ChainLonger ==
  ASSUME NEW n \in Nat, NEW s \in [0..n -> Places], Chain(n, s), NEW p \in Pages,
         p \notin created, next \in [Places -> Pages \cup {Null}], next[p] = Null,
         next' = [next EXCEPT ![s[n]] = p], created' = created \cup {p}
  PROVE  Chained'
<1> DEFINE r == [k \in 0..n + 1 |-> IF k <= n THEN s[k] ELSE p]
<1>1. /\ r \in [0..n + 1 -> Places] /\ \A k \in 0..n : r[k] = s[k]
      /\ r[n + 1] = p
  BY ListConstants
<1> HIDE DEF r
<1>2. /\ s[0] = AllThreadHead /\ \A k \in 1..n : s[k] \in Pages
      /\ \A j, k \in 0..n : s[j] = s[k] => j = k
      /\ \A k \in 0..n : next[s[k]] = IF k < n THEN s[k + 1] ELSE Null
      /\ \A x : x \in created <=> \E k \in 1..n : x = s[k]
  BY DEF Chain
<1>3. \A k \in 0..n : s[k] # p /\ s[k] \in Places
  <2>1. \A k \in 0..n : k = 0 \/ k \in 1..n
    OBVIOUS
  <2> QED
    BY <1>2, <2>1, ListConstants
<1>4. r[0] = AllThreadHead /\ \A k \in 1..(n + 1) : r[k] \in Pages
  <2>1. \A k \in 1..(n + 1) : k \in 1..n \/ k = n + 1
    OBVIOUS
  <2> QED
    BY <1>1, <1>2, <2>1
<1>5. \A k \in 0..n + 1 : k \in 0..n \/ k = n + 1
  OBVIOUS
<1>6. \A j, k \in 0..n + 1 : r[j] = r[k] => j = k
  BY <1>1, <1>2, <1>3, <1>5
<1>7. ASSUME NEW k \in 0..n + 1
      PROVE  next'[r[k]] = IF k < n + 1 THEN r[k + 1] ELSE Null
  <2>1. CASE k = n + 1
    <3>1. p \in Places /\ p # s[n]
      BY <1>3, ListConstants
    <3> QED
      BY <1>1, <2>1, <3>1
  <2>2. CASE k = n
    BY <1>1, <1>3, <2>2
  <2>3. CASE k \in 0..n /\ k # n
    <3>1. k \in 0..n /\ k < n /\ k + 1 \in 0..n /\ n \in 0..n /\ s[k] # s[n]
      BY <1>2, <2>3
    <3>2. next'[s[k]] = next[s[k]]
      BY <1>3, <3>1
    <3> QED
      BY <1>1, <1>2, <3>1, <3>2
  <2> QED
    BY <1>5, <2>1, <2>2, <2>3
<1>8. ASSUME NEW x PROVE x \in created' <=> \E k \in 1..(n + 1) : x = r[k]
  <2>1. x \in created' => \E k \in 1..(n + 1) : x = r[k]
    <3>1. CASE x = p
      BY <1>1, <3>1
    <3>2. CASE x \in created
      <4>1. PICK k \in 1..n : x = s[k]
        BY <1>2, <3>2
      <4> QED
        BY <1>1, <4>1
    <3> QED
      BY <3>1, <3>2
  <2>2. ASSUME NEW k \in 1..(n + 1), x = r[k] PROVE x \in created'
    <3>1. CASE k = n + 1
      BY <1>1, <2>2, <3>1
    <3>2. CASE k # n + 1
      <4>1. k \in 1..n /\ x = s[k]
        BY <1>1, <2>2, <3>2
      <4> QED
        BY <1>2, <4>1
    <3> QED
      BY <3>1, <3>2
  <2> QED
    BY <2>1, <2>2
<1>9. Chain(n + 1, r)'
  BY <1>4, <1>6, <1>7, <1>8 DEF Chain
<1>10. n + 1 \in Nat
  OBVIOUS
<1> QED
  BY <1>1, <1>9, <1>10 DEF Chained

(* A thread is taken out. *)
LEMMA ChainShorter ==
  ASSUME NEW n \in Nat, NEW s \in [0..n -> Places], Chain(n, s), NEW p \in created,
         DOMAIN next = Places, Listed = created,
         allThreadsRemove(p), created' = created \ {p}
  PROVE  Chained'
<1>1. /\ s[0] = AllThreadHead /\ \A k \in 1..n : s[k] \in Pages
      /\ \A j, k \in 0..n : s[j] = s[k] => j = k
      /\ \A k \in 0..n : next[s[k]] = IF k < n THEN s[k + 1] ELSE Null
      /\ \A x : x \in created <=> \E k \in 1..n : x = s[k]
  BY DEF Chain
<1>2. PICK m \in 1..n : p = s[m]
  BY <1>1
<1> DEFINE l == n - 1
           r == [k \in 0..l |-> IF k < m THEN s[k] ELSE s[k + 1]]
<1>3. /\ l \in Nat /\ n = l + 1 /\ m \in 1..(l + 1)
      /\ \A k \in 0..l : k \in 0..n /\ k + 1 \in 0..n
  BY <1>2
<1> HIDE DEF l
<1>4. /\ r \in [0..l -> Places]
      /\ \A k \in 0..l : r[k] = IF k < m THEN s[k] ELSE s[k + 1]
  BY <1>3
<1> HIDE DEF r
<1>5. \A x \in Places : next'[x] = IF x = p THEN Null
                                   ELSE IF (x \in created \/ x = AllThreadHead) /\ next[x] = p
                                     THEN next[p]
                                   ELSE next[x]
  BY DEF allThreadsRemove
<1>6. ASSUME NEW k \in 0..n, k # m
      PROVE  next'[s[k]] = IF k + 1 = m THEN next[p] ELSE next[s[k]]
  <2>1. s[k] \in Places /\ s[k] # p /\ (s[k] \in created \/ s[k] = AllThreadHead)
    <3>1. k = 0 \/ k \in 1..n
      BY <1>6
    <3>2. m \in 0..n
      BY <1>2
    <3> QED
      BY <1>1, <1>2, <1>6, <3>1, <3>2
  <2>2. next[s[k]] = p <=> k + 1 = m
    <3>1. CASE k < n
      <4>1. next[s[k]] = s[k + 1] /\ k + 1 \in 0..n /\ m \in 0..n
        BY <1>1, <1>2, <3>1
      <4> QED
        BY <1>1, <1>2, <4>1
    <3>2. CASE k = n
      <4>1. next[s[k]] = Null /\ p # Null /\ k + 1 # m
        BY <1>1, <1>2, <3>2, ListConstants
      <4> QED
        BY <4>1
    <3> QED
      BY <1>6, <3>1, <3>2
  <2> QED
    BY <1>5, <2>1, <2>2
<1>7. next[p] = IF m < n THEN s[m + 1] ELSE Null
  <2>1. m \in 0..n
    BY <1>2
  <2> QED
    BY <1>1, <1>2, <2>1
<1>8. r[0] = AllThreadHead /\ \A k \in 1..l : r[k] \in Pages
  <2>1. 0 \in 0..l /\ 0 < m
    BY <1>3
  <2>2. \A k \in 1..l : k \in 0..l /\ k \in 1..n /\ k + 1 \in 1..n
    BY <1>3
  <2> QED
    BY <1>1, <1>4, <2>1, <2>2
<1>9. ASSUME NEW j \in 0..l, NEW k \in 0..l, r[j] = r[k] PROVE j = k
  <2>1. /\ (IF j < m THEN j ELSE j + 1) \in 0..n /\ (IF k < m THEN k ELSE k + 1) \in 0..n
        /\ r[j] = s[IF j < m THEN j ELSE j + 1] /\ r[k] = s[IF k < m THEN k ELSE k + 1]
    BY <1>3, <1>4
  <2>2. (IF j < m THEN j ELSE j + 1) = (IF k < m THEN k ELSE k + 1)
    BY <1>1, <1>9, <2>1
  <2> QED
    BY <1>3, <2>2
<1>10. ASSUME NEW k \in 0..l
       PROVE  next'[r[k]] = IF k < l THEN r[k + 1] ELSE Null
  <2>1. CASE k + 1 < m
    <3>1. /\ r[k] = s[k] /\ k \in 0..n /\ k # m /\ k + 1 # m /\ k < n
          /\ k < l /\ k + 1 \in 0..l /\ r[k + 1] = s[k + 1]
      BY <1>3, <1>4, <2>1
    <3> QED
      BY <1>1, <1>6, <3>1
  <2>2. CASE k + 1 = m
    <3>1. r[k] = s[k] /\ k \in 0..n /\ k # m /\ k + 1 = m
      BY <1>3, <1>4, <2>2
    <3>2. next'[r[k]] = IF m < n THEN s[m + 1] ELSE Null
      BY <1>6, <1>7, <3>1
    <3>3. m < n => k < l /\ k + 1 \in 0..l /\ r[k + 1] = s[m + 1]
      BY <1>3, <1>4, <2>2
    <3> QED
      BY <1>3, <2>2, <3>2, <3>3
  <2>3. CASE k + 1 > m
    <3>1. r[k] = s[k + 1] /\ k + 1 \in 0..n /\ k + 1 # m /\ k + 1 + 1 # m
      BY <1>3, <1>4, <2>3
    <3>2. next'[r[k]] = IF k + 1 < n THEN s[k + 1 + 1] ELSE Null
      BY <1>1, <1>6, <3>1
    <3>3. k + 1 < n => k < l /\ k + 1 \in 0..l /\ r[k + 1] = s[k + 1 + 1]
      BY <1>3, <1>4, <2>3
    <3> QED
      BY <1>3, <3>2, <3>3
  <2> QED
    BY <1>3, <2>1, <2>2, <2>3
<1>11. ASSUME NEW x PROVE x \in created' <=> \E k \in 1..l : x = r[k]
  <2>1. ASSUME x \in created' PROVE \E k \in 1..l : x = r[k]
    <3>1. PICK k \in 1..n : x = s[k]
      BY <1>1, <2>1
    <3>2. k # m
      BY <1>2, <2>1, <3>1
    <3>3. CASE k < m
      <4>1. k \in 1..l /\ r[k] = s[k]
        BY <1>3, <1>4, <3>3
      <4> QED
        BY <3>1, <4>1
    <3>4. CASE k > m
      <4>1. k - 1 \in 1..l /\ k - 1 \in 0..l /\ ~(k - 1 < m) /\ k - 1 + 1 = k
        BY <1>3, <3>4
      <4>2. r[k - 1] = s[k]
        BY <1>4, <4>1
      <4> QED
        BY <3>1, <4>1, <4>2
    <3> QED
      BY <1>3, <3>1, <3>2, <3>3, <3>4
  <2>2. ASSUME NEW k \in 1..l, x = r[k] PROVE x \in created'
    <3>1. PICK j \in 1..n : j # m /\ x = s[j]
      <4>1. k \in 0..l /\ k \in 1..n /\ k + 1 \in 1..n
        BY <1>3
      <4>2. CASE k < m
        BY <1>4, <2>2, <4>1, <4>2
      <4>3. CASE ~(k < m)
        <5>1. x = s[k + 1] /\ k + 1 # m
          BY <1>3, <1>4, <2>2, <4>1, <4>3
        <5> QED
          BY <4>1, <5>1
      <4> QED
        BY <4>2, <4>3
    <3>2. j \in 0..n /\ m \in 0..n
      BY <1>2, <3>1
    <3>3. x \in created /\ x # p
      BY <1>1, <1>2, <3>1, <3>2
    <3> QED
      BY <3>3
  <2> QED
    BY <2>1, <2>2
<1>12. Chain(l, r)'
  BY <1>8, <1>9, <1>10, <1>11 DEF Chain
<1> QED
  BY <1>3, <1>4, <1>12 DEF Chained

(* allThreadsAdd(). *)
LEMMA AddKeepsList ==
  ASSUME TaskTypes, ListInv, NEW t \in Tasks, allThreadsAdd(t),
         UNCHANGED <<freePages, next_free_id, ids, stacks, reused>>
  PROVE  ListInv'
<1> DEFINE p == new[t]
<1>0. ListTypes /\ PagesInv /\ IdsInv /\ OrderInv
  BY DEF ListInv
<1>1. at[t] \in Adding /\ at[t] \in ListPlaces
  BY DEF allThreadsAdd, In, Adding, ListPlaces
<1>2. /\ p \in Pages /\ p \in Places /\ p \notin created /\ HasId(p) /\ p # Null
      /\ overtaken # TRUE => [next EXCEPT ![p] = Null] = next
  <2>1. HasId(p)
    BY <1>1 DEF HasId
  <2> QED
    BY <1>1, <2>1, NewPoints, ListConstants
<1>3. CASE /\ at[t] \in {"add", "walk"} /\ at'[t] \in {"walk", "link"}
           /\ at' = [at EXCEPT ![t] = at'[t]]
           /\ next' = next \/ next' = [next EXCEPT ![p] = Null]
           /\ link' = link \/ link' = [link EXCEPT ![t] = link'[t]]
           /\ link'[t] \in Places
           /\ UNCHANGED <<created, new, overtaken>>
           /\ halted' = halted \/ overtaken = TRUE
  <2>1. PagesInv' /\ \A u \in Tasks : new'[u] # Null <=> at'[u] \in ListPlaces
    BY <1>1, <1>3, OnlyLinks DEF ListPlaces, Adding
  <2>2. ListTypes'
    <3>1. next' \in [Places -> Pages \cup {Null}]
      BY <1>0, <1>2, <1>3 DEF ListTypes
    <3>3. link' \in [Tasks -> Places \cup {Null}]
      BY <1>0, <1>3 DEF ListTypes
    <3>4. \A u \in Tasks : at'[u] \in {"walk", "link"} => link'[u] \in Places
      BY <1>0, <1>3 DEF ListTypes, TaskTypes
    <3> QED
      BY <1>0, <1>3, <2>1, <3>1, <3>3, <3>4 DEF ListTypes
  <2>3. IdsInv'
    <3>1. \A u \in Tasks : at'[u] \in Adding <=> at[u] \in Adding
      BY <1>1, <1>3 DEF TaskTypes, Adding
    <3>2. \A x : HasId(x)' <=> HasId(x)
      BY <1>3, <3>1 DEF HasId
    <3> QED
      BY <1>0, <3>2 DEF IdsInv
  <2>4. OrderInv'
    <3>1. CASE overtaken = TRUE
      BY <1>3, <3>1 DEF OrderInv
    <3>2. CASE overtaken # TRUE
      <4>1. next' = next /\ halted' = halted
        BY <1>2, <1>3, <3>2
      <4> QED
        BY <1>0, <1>3, <3>2, <4>1, SameChain DEF OrderInv
    <3> QED
      BY <3>1, <3>2
  <2> QED
    BY <2>1, <2>2, <2>3, <2>4 DEF ListInv
<1>4. CASE In(t, "createThread", "add")
  <2>1. /\ next' = [next EXCEPT ![p] = Null] /\ link' = [link EXCEPT ![t] = AllThreadHead]
        /\ at' = [at EXCEPT ![t] = "walk"] /\ UNCHANGED <<created, new, overtaken>>
        /\ halted' = halted /\ at[t] = "add"
    BY <1>4 DEF allThreadsAdd, In, Goto
  <2>2. at'[t] = "walk" /\ link'[t] = AllThreadHead /\ link'[t] \in Places
    BY <1>0, <2>1, ListConstants DEF TaskTypes, ListTypes
  <2> QED
    BY <1>3, <2>1, <2>2 DEF Adding
<1>5. CASE In(t, "createThread", "walk")
  <2> DEFINE q == link[t]
  <2>1. /\ at[t] = "walk" /\ next' = next /\ UNCHANGED <<created, new, overtaken>>
        /\ IF next[q] = Null
             THEN at' = [at EXCEPT ![t] = "link"] /\ link' = link /\ halted' = halted
           ELSE IF next[q] = p THEN at' = at /\ link' = link
           ELSE /\ at' = [at EXCEPT ![t] = "walk"] /\ link' = [link EXCEPT ![t] = next[q]]
                /\ halted' = halted
    BY <1>5 DEF allThreadsAdd, In, Goto, KASSERTFails
  <2>2. q \in Places /\ next[q] \in Pages \cup {Null} /\ link[t] \in Places
    BY <1>0, <2>1 DEF ListTypes
  <2>3. overtaken # TRUE => next[q] # p
    <3> SUFFICES ASSUME overtaken # TRUE, next[q] = p PROVE FALSE
      OBVIOUS
    <3>1. PICK n \in Nat : \E s \in [0..n -> Places] : Chain(n, s)
      BY <1>0 DEF OrderInv, Chained
    <3>2. PICK s \in [0..n -> Places] : Chain(n, s)
      BY <3>1
    <3>3. q \in created \/ q = AllThreadHead
      BY <1>0, <1>2, <2>2, ListConstants DEF OrderInv
    <3>4. PICK k \in 0..n : q = s[k]
      <4>1. CASE q \in created
        BY <3>2, <4>1 DEF Chain
      <4>2. CASE q = AllThreadHead
        BY <3>2, <4>2 DEF Chain
      <4> QED
        BY <3>3, <4>1, <4>2
    <3>5. k < n /\ p = s[k + 1] /\ k + 1 \in 1..n
      BY <1>2, <3>2, <3>4 DEF Chain
    <3>6. p \in created
      BY <3>2, <3>5 DEF Chain
    <3> QED
      BY <1>2, <3>6
  <2>4. CASE next[q] = Null
    <3>1. at'[t] = "link"
      BY <2>1, <2>4 DEF TaskTypes
    <3> QED
      BY <1>3, <2>1, <2>2, <2>4, <3>1 DEF Adding
  <2>5. CASE next[q] # Null /\ next[q] = p
    BY <1>3, <2>1, <2>2, <2>3, <2>5 DEF Adding, TaskTypes
  <2>6. CASE next[q] # Null /\ next[q] # p
    <3>1. at'[t] = "walk" /\ link'[t] = next[q] /\ next[q] \in Places
      BY <1>0, <2>1, <2>2, <2>6, ListConstants DEF TaskTypes, ListTypes
    <3> QED
      BY <1>3, <2>1, <2>6, <3>1 DEF Adding
  <2> QED
    BY <2>4, <2>5, <2>6
<1>6. CASE In(t, "createThread", "link")
  <2> DEFINE q == link[t]
  <2>1. /\ next' = [next EXCEPT ![q] = p]
        /\ overtaken' = (overtaken \/ next[q] # Null \/ q \notin Listed \cup {AllThreadHead})
        /\ created' = created \cup {p} /\ new' = [new EXCEPT ![t] = Null]
        /\ link' = [link EXCEPT ![t] = Null] /\ at' = [at EXCEPT ![t] = "out"]
        /\ halted' = halted /\ at[t] = "link"
    BY <1>6 DEF allThreadsAdd, In, Returns
  <2>2. /\ at'[t] = "out" /\ new'[t] = Null /\ link'[t] = Null
        /\ \A u \in Tasks : u # t => at'[u] = at[u] /\ new'[u] = new[u] /\ link'[u] = link[u]
        /\ \A u \in Tasks : new[u] = p => u = t
    BY <1>0, <1>1, <2>1 DEF TaskTypes, ListTypes, PagesInv
  <2> HIDE DEF p
  <2>3. ListTypes'
    <3>1. /\ created' \subseteq Pages /\ next' \in [Places -> Pages \cup {Null}]
          /\ new' \in [Tasks -> Pages \cup {Null}] /\ link' \in [Tasks -> Places \cup {Null}]
      BY <1>0, <1>2, <2>1 DEF ListTypes
    <3>2. overtaken' \in BOOLEAN
      BY <2>1
    <3>3. \A u \in Tasks : /\ new'[u] # Null <=> at'[u] \in ListPlaces
                           /\ at'[u] \in {"walk", "link"} => link'[u] \in Places
      BY <1>0, <2>2 DEF ListTypes, ListPlaces, Adding
    <3> QED
      BY <1>0, <3>1, <3>2, <3>3 DEF ListTypes
  <2>4. \A x : (IsLive(x)' <=> IsLive(x)) /\ (HasId(x)' <=> HasId(x))
    <3>1. "out" \notin ListPlaces /\ "out" \notin Adding /\ new[t] = p
      BY DEF ListPlaces, Adding, p
    <3>2. \A x : x \in created' <=> x \in created \/ x = p
      BY <2>1
    <3> QED
      BY <1>1, <2>2, <3>1, <3>2 DEF IsLive, HasId
  <2>5. PagesInv'
    <3>1. \A x \in created' : x \notin freePages'
      BY <1>0, <1>1, <2>1 DEF PagesInv, p
    <3>2. ASSUME NEW u \in Tasks, at'[u] \in ListPlaces
          PROVE  /\ new'[u] \notin created' /\ new'[u] \notin freePages'
                 /\ \A v \in Tasks : new'[v] = new'[u] => v = u
      <4>1. u # t /\ at[u] \in ListPlaces /\ new'[u] = new[u] /\ new[u] # Null /\ new[u] # p
        BY <1>0, <2>2, <3>2 DEF ListPlaces, Adding, ListTypes
      <4> QED
        BY <1>0, <2>1, <2>2, <4>1 DEF PagesInv
    <3> QED
      BY <1>0, <2>4, <3>1, <3>2 DEF PagesInv
  <2>6. IdsInv'
    BY <1>0, <2>4 DEF IdsInv
  <2>7. OrderInv'
    <3>1. CASE overtaken' = TRUE
      BY <3>1 DEF OrderInv
    <3>2. CASE overtaken' # TRUE
      <4>1. overtaken # TRUE /\ next[q] = Null /\ q \in Listed \cup {AllThreadHead}
        BY <2>1, <3>2
      <4>2. PICK n \in Nat : \E s \in [0..n -> Places] : Chain(n, s)
        BY <1>0, <4>1 DEF OrderInv, Chained
      <4>3. PICK s \in [0..n -> Places] : Chain(n, s)
        BY <4>2
      <4>4. Listed = created
        BY <4>3, ChainReached
      <4>5. PICK k \in 0..n : q = s[k]
        <5>1. CASE q \in created
          BY <4>3, <5>1 DEF Chain
        <5>2. CASE q = AllThreadHead
          BY <4>3, <5>2 DEF Chain
        <5> QED
          BY <4>1, <4>4, <5>1, <5>2
      <4>6. k = n
        <5>1. CASE k < n
          <6>1. next[q] = s[k + 1] /\ k + 1 \in 1..n
            BY <4>3, <4>5, <5>1 DEF Chain
          <6>2. s[k + 1] \in Pages
            BY <4>3, <6>1 DEF Chain
          <6> QED
            BY <4>1, <6>1, <6>2, ListConstants
        <5> QED
          BY <5>1
      <4>7. next[p] = Null /\ next \in [Places -> Pages \cup {Null}]
        BY <1>0, <1>2, <4>1 DEF OrderInv, ListTypes
      <4>8. next' = [next EXCEPT ![s[n]] = p]
        BY <2>1, <4>5, <4>6
      <4>9. Chained'
        BY <1>2, <2>1, <4>3, <4>7, <4>8, ChainLonger
      <4>10. \A x \in Pages : x \notin created' => next'[x] = Null
        <5>1. \A x \in Pages : x \notin created => next[x] = Null
          BY <1>0, <4>1 DEF OrderInv
        <5>2. q \notin Pages \/ q \in created
          BY <4>1, <4>4, ListConstants
        <5>3. \A x \in Pages : x # q => next'[x] = next[x]
          BY <2>1, <4>7, ListConstants
        <5> QED
          BY <2>1, <5>1, <5>2, <5>3
      <4>11. halted' # "allThreadsAdd"
        BY <1>0, <2>1, <4>1 DEF OrderInv
      <4> QED
        BY <4>9, <4>10, <4>11 DEF OrderInv
    <3> QED
      BY <3>1, <3>2
  <2> QED
    BY <2>3, <2>5, <2>6, <2>7 DEF ListInv
<1> QED
  BY <1>4, <1>5, <1>6 DEF allThreadsAdd

(* destroyThread(). *)
LEMMA DestructionKeepsList ==
  ASSUME TaskTypes, ListInv, NEW t \in Tasks, destroyThread(t)
  PROVE  ListInv'
<1>0. ListTypes /\ PagesInv /\ IdsInv /\ OrderInv
  BY DEF ListInv
<1>1. PICK p \in created :
        /\ freePages' = freePages \cup {p} \cup stacks[p]
        /\ stacks' = [stacks EXCEPT ![p] = {}]
        /\ created' = created \ {p}
        /\ allThreadsRemove(p)
  BY DEF destroyThread
<1>2. /\ at[t] = "in" /\ at' = [at EXCEPT ![t] = "out"] /\ halted' = halted
      /\ UNCHANGED <<next_free_id, ids, new, link, overtaken, reused>>
  BY DEF destroyThread, In, Returns
<1>3. p \in Pages /\ IsLive(p) /\ p \in Places
  BY <1>0, ListConstants DEF ListTypes, IsLive
<1>4. \A u \in Tasks : /\ at'[u] \in ListPlaces <=> at[u] \in ListPlaces
                       /\ at'[u] \in Adding <=> at[u] \in Adding
                       /\ at'[u] \in {"walk", "link"} <=> at[u] \in {"walk", "link"}
  BY <1>2 DEF TaskTypes, ListPlaces, Adding
<1>5. /\ \A u \in Tasks : at[u] \in ListPlaces => new[u] # p
      /\ \A u \in Tasks : at[u] \in Adding => new[u] # p
  BY <1>0 DEF PagesInv, ListPlaces
<1>6. \A x : /\ IsLive(x)' <=> IsLive(x) /\ x # p
             /\ HasId(x)' <=> HasId(x) /\ x # p
  <2>1. \A x : x \in created' <=> x \in created /\ x # p
    BY <1>1
  <2> QED
    BY <1>2, <1>4, <1>5, <2>1 DEF IsLive, HasId
<1>7. /\ next' = [x \in Places |-> IF x = p THEN Null
                                   ELSE IF x \in Listed \cup {AllThreadHead} /\ next[x] = p
                                     THEN next[p]
                                   ELSE next[x]]
      /\ DOMAIN next = Places
  BY <1>0, <1>1 DEF ListTypes, allThreadsRemove
<1>8. ListTypes'
  <2>1. next' \in [Places -> Pages \cup {Null}]
    BY <1>0, <1>3, <1>7 DEF ListTypes
  <2>2. /\ freePages' \subseteq Pages /\ created' \subseteq Pages
        /\ stacks' \in [Pages -> SUBSET Pages]
    BY <1>0, <1>1, <1>3 DEF ListTypes
  <2> QED
    BY <1>0, <1>2, <1>4, <2>1, <2>2 DEF ListTypes
<1>9. PagesInv'
  <2>1. \A s \in stacks[p] : ~IsLive(s)
    BY <1>0, <1>3 DEF PagesInv
  <2>2. \A x \in created' : x \notin freePages'
    <3>1. \A x \in created : IsLive(x)
      BY DEF IsLive
    <3> QED
      BY <1>0, <1>1, <2>1, <3>1 DEF PagesInv
  <2>3. ASSUME NEW u \in Tasks, at'[u] \in ListPlaces
        PROVE  /\ new'[u] \notin created' /\ new'[u] \notin freePages'
               /\ \A v \in Tasks : new'[v] = new'[u] => v = u
    <3>1. at[u] \in ListPlaces /\ IsLive(new[u]) /\ new[u] # p /\ new'[u] = new[u]
      BY <1>2, <1>4, <1>5, <2>3 DEF IsLive
    <3> QED
      BY <1>0, <1>1, <1>2, <2>1, <3>1 DEF PagesInv
  <2>4. ASSUME NEW x \in Pages, IsLive(x)', NEW s \in stacks'[x]
        PROVE  /\ s \notin freePages' /\ ~IsLive(s)'
               /\ \A q \in Pages : IsLive(q)' /\ s \in stacks'[q] => q = x
    <3>1. \A q \in Pages : stacks'[q] = IF q = p THEN {} ELSE stacks[q]
      BY <1>0, <1>1, <1>3 DEF ListTypes
    <3>2. IsLive(x) /\ x # p /\ s \in stacks[x]
      BY <1>6, <2>4, <3>1
    <3>3. /\ s \notin freePages /\ ~IsLive(s)
          /\ \A q \in Pages : IsLive(q) /\ s \in stacks[q] => q = x
      BY <1>0, <3>2 DEF PagesInv
    <3>4. s # p /\ s \notin stacks[p]
      BY <1>3, <3>2, <3>3
    <3> QED
      BY <1>1, <1>6, <3>1, <3>3, <3>4
  <2> QED
    BY <2>2, <2>3, <2>4 DEF PagesInv
<1>10. IdsInv'
  BY <1>0, <1>2, <1>6 DEF IdsInv
<1>11. OrderInv'
  <2>1. CASE overtaken = TRUE
    BY <1>2, <2>1 DEF OrderInv
  <2>2. CASE overtaken # TRUE
    <3>1. PICK n \in Nat : \E s \in [0..n -> Places] : Chain(n, s)
      BY <1>0, <2>2 DEF OrderInv, Chained
    <3>2. PICK s \in [0..n -> Places] : Chain(n, s)
      BY <3>1
    <3>3. Listed = created
      BY <3>2, ChainReached
    <3>4. Chained'
      BY <1>1, <1>7, <3>2, <3>3, ChainShorter
    <3>5. \A x \in Pages : x \notin created' => next'[x] = Null
      <4>1. \A x \in Pages : x \notin created => next[x] = Null
        BY <1>0, <2>2 DEF OrderInv
      <4>2. \A x \in Pages : x \in Places /\ x # AllThreadHead
        BY ListConstants
      <4> QED
        BY <1>1, <1>7, <3>3, <4>1, <4>2
    <3>6. halted' # "allThreadsAdd"
      BY <1>0, <1>2, <2>2 DEF OrderInv
    <3> QED
      BY <3>4, <3>5, <3>6 DEF OrderInv
  <2> QED
    BY <2>1, <2>2
<1> QED
  BY <1>8, <1>9, <1>10, <1>11 DEF ListInv

(* The steps of the other services. *)
LEMMA OffList ==
  ASSUME TaskTypes, NEW t \in Tasks,
         screenSteps(t) \/ shmSteps(t) \/ tlocalSteps(t) \/ enter(t)
  PROVE  /\ at' = [at EXCEPT ![t] = at'[t]]
         /\ at[t] \notin ListPlaces /\ at'[t] \notin ListPlaces
         /\ halted' = halted \/ halted' # "allThreadsAdd"
<1> DEFINE Away ==
      /\ at[t] \notin ListPlaces /\ (halted' = halted \/ halted' # "allThreadsAdd")
      /\ \/ at' = at
         \/ \E p \in (Within \cup {"out"}) \ ListPlaces : at' = [at EXCEPT ![t] = p]
<1>1. Away
  <2> USE DEF In, ListPlaces, Adding, Within, Elsewhere
  <2>1. CASE screenSteps(t)
    <3>1. CASE getCursorOffset(t)
      BY <3>1 DEF getCursorOffset, outIndex, Goto
    <3>2. CASE kPutChar(t) \/ kGetChar(t) \/ kSetCursor(t)
      BY <3>2 DEF kPutChar, kGetChar, kSetCursor, Goto, Returns
    <3>3. CASE setCursorOffset(t)
      BY <3>3 DEF setCursorOffset, outIndex, Goto, Returns
    <3> QED
      BY <2>1, <3>1, <3>2, <3>3 DEF screenSteps
  <2>2. CASE shmSteps(t)
    <3>1. CASE shmGetTests(t) \/ shmGetOwns(t) \/ shmGetLocks(t)
      BY <3>1 DEF shmGetTests, shmGetOwns, shmGetLocks, Goto, Returns, KASSERTFails
    <3>2. CASE shmRelease(t)
      BY <3>2 DEF shmRelease, Goto, Returns
    <3>3. CASE shmWrite(t)
      BY <3>3 DEF shmWrite, shmWriteBegins, Goto, Returns
    <3>4. CASE shmRead(t)
      BY <3>4 DEF shmRead, Goto, Returns, Waits
    <3> QED
      BY <2>2, <3>1, <3>2, <3>3, <3>4 DEF shmSteps
  <2>3. CASE tlocalSteps(t)
    BY <2>3 DEF tlocalSteps, tlocalCreate, yield, Returns, KASSERTFails
  <2>4. CASE enter(t)
    BY <2>4 DEF enter
  <2> QED
    BY <2>1, <2>2, <2>3, <2>4
<1> QED
  BY <1>1 DEF TaskTypes

(* Every step of the threads. *)
LEMMA NextList ==
  ASSUME TaskTypes, ListInv, [Next]_vars
  PROVE  ListInv'
<1>1. CASE UNCHANGED vars
  <2>1. UNCHANGED <<freePages, next, next_free_id, created, ids, stacks, new, link,
                    overtaken, reused, at, halted>>
    BY <1>1 DEF vars, taskVars, listVars
  <2>2. Chained => Chained'
    BY <2>1, SameChain
  <2> QED
    BY <2>1, <2>2 DEF ListInv, ListTypes, PagesInv, IdsInv, OrderInv, IsLive, HasId
<1>2. ASSUME NEW t \in Tasks, serve(t) PROVE ListInv'
  <2>1. CASE listSteps(t)
    BY <2>1, AllocationKeepsList, InitKeepsList, AddKeepsList, DestructionKeepsList
    DEF listSteps, createThread
  <2>2. CASE /\ screenSteps(t) \/ shmSteps(t) \/ tlocalSteps(t) \/ enter(t)
             /\ UNCHANGED listVars
    BY <2>2, OffList, ListAside
  <2> QED
    BY <1>2, <2>1, <2>2 DEF serve
<1> QED
  BY <1>1, <1>2 DEF Next, finished

(* The threads that there are at first make a chain. *)
LEMMA OldChained ==
  ASSUME ListInit
  PROVE  /\ Chained /\ next \in [Places -> Pages \cup {Null}]
         /\ \A p \in Pages : p \notin created => next[p] = Null
<1> DEFINE n == Len(Old)
           s == [k \in 0..n |-> IF k = 0 THEN AllThreadHead ELSE Old[k]]
<1>1. /\ n \in Nat /\ DOMAIN Old = 1..n /\ Old \in [1..n -> Pages]
      /\ \A j, k \in 1..n : Old[j] = Old[k] => j = k
  BY ThreadListAssumption, LenProperties
<1>2. /\ next = [p \in Pages \cup {AllThreadHead} |->
                   IF p = AllThreadHead THEN (IF Old = <<>> THEN Null ELSE Old[1])
                   ELSE IF \E k \in 2..n : Old[k - 1] = p
                     THEN Old[CHOOSE k \in 2..n : Old[k - 1] = p]
                     ELSE Null]
      /\ created = {Old[k] : k \in 1..n}
  BY <1>1 DEF ListInit, Olds
<1>3. Old = <<>> <=> n = 0
  BY EmptySeq, ThreadListAssumption
<1> HIDE DEF n
<1>4. s \in [0..n -> Places] /\ s[0] = AllThreadHead /\ \A k \in 1..n : s[k] = Old[k]
  BY <1>1, ListConstants
<1> HIDE DEF s
<1>5. next[AllThreadHead] = IF n = 0 THEN Null ELSE Old[1]
  BY <1>2, <1>3
<1>6. ASSUME NEW k \in 1..n, k < n PROVE next[Old[k]] = Old[k + 1]
  <2>1. k + 1 \in 2..n /\ Old[k + 1 - 1] = Old[k]
    BY <1>1, <1>6
  <2>2. \A j \in 2..n : Old[j - 1] = Old[k] => j = k + 1
    BY <1>1, <1>6
  <2>3. Old[k] \in Pages /\ Old[k] # AllThreadHead
    BY <1>1, ListConstants
  <2>4. ASSUME NEW p \in Pages, p # AllThreadHead, \E j \in 2..n : Old[j - 1] = p
        PROVE  \E j \in 2..n : Old[j - 1] = p /\ next[p] = Old[j]
    <3> DEFINE c == CHOOSE j \in 2..n : Old[j - 1] = p
    <3>1. c \in 2..n /\ Old[c - 1] = p
      BY <2>4
    <3>2. next[p] = Old[c]
      BY <1>2, <2>4
    <3> QED
      BY <3>1, <3>2
  <2>5. \E j \in 2..n : Old[j - 1] = Old[k] /\ next[Old[k]] = Old[j]
    BY <2>1, <2>3, <2>4
  <2> QED
    BY <2>2, <2>5
<1>7. ASSUME NEW p \in Pages, \A k \in 1..n : k < n => Old[k] # p PROVE next[p] = Null
  <2>1. \A k \in 2..n : k - 1 \in 1..n /\ k - 1 < n
    BY <1>1
  <2>2. ~\E k \in 2..n : Old[k - 1] = p
    BY <1>7, <2>1
  <2> QED
    BY <1>2, <2>2, ListConstants
<1>8. ASSUME NEW p \in Pages PROVE next[p] \in Pages \cup {Null}
  <2>1. CASE \E k \in 1..n : k < n /\ Old[k] = p
    <3>1. PICK k \in 1..n : k < n /\ Old[k] = p
      BY <2>1
    <3>2. k + 1 \in 1..n
      BY <1>1, <3>1
    <3> QED
      BY <1>1, <1>6, <3>1, <3>2
  <2>2. CASE ~\E k \in 1..n : k < n /\ Old[k] = p
    BY <1>7, <2>2
  <2> QED
    BY <2>1, <2>2
<1>9. next \in [Places -> Pages \cup {Null}]
  <2>1. next[AllThreadHead] \in Pages \cup {Null}
    BY <1>1, <1>5
  <2>2. \A p \in Places : next[p] \in Pages \cup {Null}
    BY <1>8, <2>1, ListConstants
  <2>3. next = [p \in Places |-> next[p]]
    BY <1>2 DEF Places
  <2> QED
    BY <2>2, <2>3
<1>10. \A p \in Pages : p \notin created => next[p] = Null
  BY <1>2, <1>7
<1>11. Chain(n, s)
  <2>1. \A k \in 1..n : s[k] \in Pages /\ s[k] # AllThreadHead
    BY <1>1, <1>4, ListConstants
  <2>2. \A j, k \in 0..n : s[j] = s[k] => j = k
    <3>1. \A k \in 0..n : k = 0 \/ k \in 1..n
      OBVIOUS
    <3> QED
      BY <1>1, <1>4, <2>1, <3>1
  <2>3. ASSUME NEW k \in 0..n PROVE next[s[k]] = IF k < n THEN s[k + 1] ELSE Null
    <3>1. CASE k = 0
      BY <1>1, <1>4, <1>5, <3>1
    <3>2. CASE k # 0 /\ k < n
      <4>1. k \in 1..n /\ k + 1 \in 1..n
        BY <1>1, <3>2
      <4> QED
        BY <1>4, <1>6, <3>2, <4>1
    <3>3. CASE k # 0 /\ k = n
      <4>1. n \in 1..n /\ Old[n] \in Pages
        BY <1>1, <3>3
      <4>2. \A j \in 1..n : j < n => Old[j] # Old[n]
        BY <1>1, <4>1
      <4> QED
        BY <1>4, <1>7, <3>3, <4>1, <4>2
    <3> QED
      BY <1>1, <3>1, <3>2, <3>3
  <2>4. \A p : p \in created <=> \E k \in 1..n : p = s[k]
    BY <1>2, <1>4
  <2> QED
    BY <1>4, <2>1, <2>2, <2>3, <2>4 DEF Chain
<1> QED
  BY <1>1, <1>4, <1>9, <1>10, <1>11 DEF Chained

(* The ids of these threads are their places in the list. *)
LEMMA OldIds ==
  ASSUME ListInit
  PROVE  /\ ids \in [Pages -> Nat] /\ next_free_id \in Nat
         /\ \A p \in created : ids[p] < next_free_id
         /\ \A p, q \in created : ids[p] = ids[q] => p = q
<1>1. /\ Len(Old) \in Nat /\ DOMAIN Old = 1..Len(Old) /\ Old \in [1..Len(Old) -> Pages]
      /\ \A j, k \in 1..Len(Old) : Old[j] = Old[k] => j = k
  BY ThreadListAssumption, LenProperties
<1>2. /\ ids = [p \in Pages |->
                  IF p \in Olds THEN (CHOOSE k \in 1..Len(Old) : Old[k] = p) - 1 ELSE 0]
      /\ next_free_id = Len(Old) /\ created = Olds
      /\ \A p : p \in Olds <=> \E k \in 1..Len(Old) : Old[k] = p
  BY <1>1 DEF ListInit, Olds
<1>3. ASSUME NEW k \in 1..Len(Old) PROVE ids[Old[k]] = k - 1
  <2>1. (CHOOSE j \in 1..Len(Old) : Old[j] = Old[k]) = k
    BY <1>1
  <2>2. Old[k] \in Pages /\ Old[k] \in Olds
    BY <1>1, <1>2
  <2> QED
    BY <1>2, <2>1, <2>2
<1>4. ASSUME NEW p \in Pages PROVE ids[p] \in Nat
  <2>1. CASE p \in Olds
    <3>1. PICK k \in 1..Len(Old) : Old[k] = p
      BY <1>2, <2>1
    <3> QED
      BY <1>3, <3>1
  <2>2. CASE p \notin Olds
    BY <1>2, <2>2
  <2> QED
    BY <2>1, <2>2
<1>5. ids \in [Pages -> Nat]
  <2>1. ids = [p \in Pages |-> ids[p]]
    BY <1>2
  <2> QED
    BY <1>4, <2>1
<1>6. \A p \in created : ids[p] < next_free_id
  <2> SUFFICES ASSUME NEW p \in created PROVE ids[p] < next_free_id
    OBVIOUS
  <2>1. PICK k \in 1..Len(Old) : Old[k] = p
    BY <1>2
  <2> QED
    BY <1>1, <1>2, <1>3, <2>1
<1>7. \A p, q \in created : ids[p] = ids[q] => p = q
  <2> SUFFICES ASSUME NEW p \in created, NEW q \in created, ids[p] = ids[q] PROVE p = q
    OBVIOUS
  <2>1. PICK k \in 1..Len(Old) : Old[k] = p
    BY <1>2
  <2>2. PICK j \in 1..Len(Old) : Old[j] = q
    BY <1>2
  <2> QED
    BY <1>3, <2>1, <2>2
<1> QED
  BY <1>1, <1>2, <1>5, <1>6, <1>7

(* Unless allThreadsAdd() was overtaken, the list has every thread that    *)
(* there is; unless next_free_id++ was, no two have the same id.           *)
THEOREM ThreadsListed ==
  ASSUME CallsAllowed
  PROVE  Spec => []ListComplete
<1>1. Init => TaskTypes /\ FlagsInv /\ ListInv
  <2> SUFFICES ASSUME Init PROVE TaskTypes /\ FlagsInv /\ ListInv
    OBVIOUS
  <2>1. TaskTypes /\ FlagsInv
    BY TasksAssumption
    DEF Init, TasksInit, TlocalInit, CallsAllowed, TaskTypes, FlagsInv, Within, Elsewhere
  <2>2. /\ ListInit /\ freePages = Pages \ Olds /\ created = Olds
        /\ stacks = [p \in Pages |-> {}]
        /\ new = [t \in Tasks |-> Null] /\ link = [t \in Tasks |-> Null]
        /\ overtaken = FALSE /\ reused = FALSE
        /\ at = [t \in Tasks |-> "out"] /\ halted = "no"
    BY DEF Init, ListInit, TasksInit
  <2>3. Olds \subseteq Pages
    BY ThreadListAssumption DEF Olds
  <2>4. \A t \in Tasks : at[t] \notin ListPlaces /\ at[t] \notin Adding /\ new[t] = Null
    BY <2>2 DEF ListPlaces, Adding
  <2>5. ListTypes
    BY <2>2, <2>3, <2>4, OldChained, OldIds DEF ListTypes, Adding
  <2>6. PagesInv
    BY <2>2, <2>4 DEF PagesInv
  <2>7. IdsInv
    BY <2>2, <2>4, OldIds DEF IdsInv, HasId
  <2>8. OrderInv
    BY <2>2, OldChained DEF OrderInv
  <2> QED
    BY <2>1, <2>5, <2>6, <2>7, <2>8 DEF ListInv
<1>2. TaskTypes /\ FlagsInv /\ ListInv /\ [Next]_vars => TaskTypes' /\ FlagsInv' /\ ListInv'
  BY NextFlags, NextList
<1>3. ListInv => ListComplete
  <2> SUFFICES ASSUME ListInv PROVE ListComplete
    OBVIOUS
  <2>1. ASSUME ~overtaken PROVE Listed = created /\ halted # "allThreadsAdd"
    <3>1. Chained /\ halted # "allThreadsAdd"
      BY <2>1 DEF ListInv, OrderInv
    <3>2. PICK n \in Nat : \E s \in [0..n -> Places] : Chain(n, s)
      BY <3>1 DEF Chained
    <3>3. PICK s \in [0..n -> Places] : Chain(n, s)
      BY <3>2
    <3> QED
      BY <3>1, <3>3, ChainReached
  <2>2. ASSUME ~reused PROVE \A p, q \in created : p # q => ids[p] # ids[q]
    <3>1. \A p \in created : p \in Pages /\ HasId(p)
      BY DEF ListInv, ListTypes, HasId
    <3> QED
      BY <2>2, <3>1 DEF ListInv, IdsInv
  <2> QED
    BY <2>1, <2>2 DEF ListComplete
<1> QED
  BY <1>1, <1>2, <1>3, PTL DEF Spec
=============================================================================
