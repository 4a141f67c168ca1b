------------------------------- MODULE Tasks -------------------------------
(***************************************************************************)
(* Threads that call the kernel's services, directly or through int 0x80   *)
(* (kernel/syscall.c).  With interrupts on the scheduler (Thread.tla) may  *)
(* switch threads between any two steps; a thread that has them off runs   *)
(* alone until it waits or turns them on.                                  *)
(***************************************************************************)
EXTENDS Integers, Sequences, FiniteSets

CONSTANTS
  Tasks,        \* the threads
  Nobody,       \* no thread
  Workloads     \* what they call: a set of functions from Tasks to sequences
                \* of calls; a call is a record with the fields fn and via

ASSUME TasksAssumption == Nobody \notin Tasks

Direct  == "call"
Syscall == "int 0x80"

VARIABLES
  todo,         \* the calls each thread has yet to make, the present one first
  at,           \* where it is in that call
  off,          \* the thread that runs with interrupts off
  saved,        \* what off was when each thread executed int 0x80
  halted        \* "no", or the function whose KASSERT failed

taskVars == <<todo, at, off, saved, halted>>

TasksInit ==
  /\ todo \in Workloads
  /\ at = [t \in Tasks |-> "out"]
  /\ off = Nobody /\ saved = [t \in Tasks |-> Nobody]
  /\ halted = "no"

Runs(t) == halted = "no" /\ off \in {Nobody, t}

Call(t) == Head(todo[t])

(* Thread t runs and is at a place of a function that it calls. *)
In(t, fn, place) ==
  /\ Runs(t) /\ at[t] = place
  /\ todo[t] # <<>> /\ Call(t).fn = fn

Goto(t, place) ==
  /\ at' = [at EXCEPT ![t] = place]
  /\ UNCHANGED <<todo, off, saved, halted>>

(* The call returns; iret restores the interrupt flag after a system call. *)
(* The Mutant is a plausible bug in what follows it.                       *)
MutantReturns(t) ==
  /\ at' = [at EXCEPT ![t] = "out"]
  /\ todo' = [todo EXCEPT ![t] = Tail(@)]
  /\ saved' = [saved EXCEPT ![t] = Nobody]
  /\ UNCHANGED <<off, halted>>

Returns(t) ==
  /\ at' = [at EXCEPT ![t] = "out"]
  /\ todo' = [todo EXCEPT ![t] = Tail(@)]
  /\ off' = IF Call(t).via = Syscall THEN saved[t] ELSE off
  /\ saved' = [saved EXCEPT ![t] = Nobody]
  /\ UNCHANGED halted

KASSERTFails(fn) == halted' = fn /\ UNCHANGED <<todo, at, off, saved>>

(* The gate of int 0x80 turns interrupts off; base_int_handler finds       *)
(* syscallHandler in g_handlers, which calls the function in the table.    *)
enter(t) ==
  /\ Runs(t) /\ at[t] = "out" /\ todo[t] # <<>>
  /\ at' = [at EXCEPT ![t] = "in"]
  /\ IF Call(t).via = Syscall
       THEN off' = t /\ saved' = [saved EXCEPT ![t] = off]
       ELSE UNCHANGED <<off, saved>>
  /\ UNCHANGED <<todo, halted>>

(* wait() switches to another thread, which has its own interrupt flag;    *)
(* the caller goes on later with interrupts off.                           *)
Waits(t, place) ==
  /\ at' = [at EXCEPT ![t] = place]
  /\ off' = Nobody
  /\ UNCHANGED <<todo, saved, halted>>
=============================================================================
