------------------------------- MODULE Tlocal -------------------------------
(***************************************************************************)
(* The keys of thread-local data of kernel/thread.c.  Nobody in the kernel *)
(* calls these functions yet; Thread.tla models the destructors.           *)
(***************************************************************************)
EXTENDS Tasks

CONSTANT MaxKeys     \* MAX_TLOCAL_KEYS, 128

ASSUME TlocalAssumption == MaxKeys \in Nat

VARIABLES
  tlocalKeyCounter,
  keysOf,            \* the keys that tlocalCreate gave to each thread
  refused            \* the threads to which it gave none

tlocalVars == <<tlocalKeyCounter, keysOf, refused>>

TlocalInit ==
  /\ tlocalKeyCounter = 0
  /\ keysOf = [t \in Tasks |-> {}]
  /\ refused = {}

(* Without a key left it returns before endIntAtomic().                    *)
tlocalCreate(t) ==
  /\ In(t, "tlocalCreate", "in")
  /\ IF tlocalKeyCounter >= MaxKeys
       THEN /\ refused' = refused \cup {t}
            /\ off' = t
            /\ at' = [at EXCEPT ![t] = "out"]
            /\ todo' = [todo EXCEPT ![t] = Tail(@)]
            /\ UNCHANGED <<saved, halted, tlocalKeyCounter, keysOf>>
       ELSE /\ keysOf' = [keysOf EXCEPT ![t] = @ \cup {tlocalKeyCounter}]
            /\ tlocalKeyCounter' = tlocalKeyCounter + 1
            /\ Returns(t)
            /\ UNCHANGED refused

(* yield(), as every call that turns interrupts off with cli().            *)
yield(t) ==
  /\ In(t, "yield", "in")
  /\ IF off = t THEN KASSERTFails("cli") ELSE Returns(t)
  /\ UNCHANGED tlocalVars

tlocalSteps(t) == tlocalCreate(t) \/ yield(t)

-----------------------------------------------------------------------------
(***************************************************************************)
(* Every call gives the interrupt flag back as it found it, whether it was *)
(* made directly or through int 0x80 and whatever ran while it waited: a   *)
(* thread outside of any call has interrupts on, and cli() does not meet   *)
(* a clear flag, unless tlocalCreate() refused the thread a key.           *)
(***************************************************************************)
InterruptsGivenBack ==
  /\ \A t \in Tasks \ refused : off = t => at[t] # "out"
  /\ halted = "cli" => refused # {}
=============================================================================
