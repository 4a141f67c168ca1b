------------------------------- MODULE Sleep -------------------------------
(***************************************************************************)
(* What sleep() of kernel/thread.c promises.  The module watches Thread    *)
(* with two history variables that the kernel does not have: how many      *)
(* ticks of the sleep it asked for each thread still has to see, and       *)
(* whether one of sleep()'s two uint32_t computations wrapped: the product *)
(* milliseconds * TICKS_PER_SEC or the deadline getTicks() + ticks.        *)
(***************************************************************************)
EXTENDS Thread

VARIABLES left, wrapped

sleepVars == <<vars, left, wrapped>>

(* The ticks of a sleep, as its caller means them. *)
AskedTicks(ms) ==
  LET whole == (ms * TICKS_PER_SEC) \div MillisPerSec
  IN  IF whole < 1 THEN 1 ELSE whole

ProductWraps(ms)  == ms * TICKS_PER_SEC >= TickModulus
DeadlineWraps(ms) == ticks + InTicks(ms) >= TickModulus

SleepInit ==
  /\ Init
  /\ left = [t \in Threads |-> 0]
  /\ wrapped = [t \in Threads |-> FALSE]

sleeps ==
  \E ms \in SleepMillis :
    /\ sleep(ms)
    /\ left' = [left EXCEPT ![current] = AskedTicks(ms)]
    /\ wrapped' = [wrapped EXCEPT ![current] = ProductWraps(ms) \/ DeadlineWraps(ms)]

tick ==
  /\ timerHandler
  /\ left' = [t \in Threads |-> IF left[t] = 0 THEN 0 ELSE left[t] - 1]
  /\ UNCHANGED wrapped

(* Every other step of the kernel. *)
others ==
  /\ Next
  /\ ~timerHandler
  /\ ~(\E ms \in SleepMillis : sleep(ms))
  /\ UNCHANGED <<left, wrapped>>

SleepNext == sleeps \/ tick \/ others

SleepSpec == SleepInit /\ [][SleepNext]_sleepVars

Sleeping(t) == t \in On("sleepQueue")

(***************************************************************************)
(* The promise in the comment above sleep(): the thread does not become    *)
(* runnable until `ticks` ticks have passed from the time of the call.     *)
(***************************************************************************)
NoEarlyWake == \A t \in Threads : left[t] > 0 => Sleeping(t)

(***************************************************************************)
(* What the code does: only a thread whose product or deadline wrapped     *)
(* around uint32_t is woken too early.                                     *)
(***************************************************************************)
EarlyWakeOnlyOnWrap ==
  \A t \in Threads : left[t] > 0 => Sleeping(t) \/ wrapped[t]

(***************************************************************************)
(* wakeSleepers() takes threads off the list that it walks.  It overlooks  *)
(* none: when schedule() goes on to choose a thread, nobody whose deadline *)
(* has come is still asleep.  Whether it has come is judged as the code    *)
(* judges it: a deadline that passed and was not seen by schedule() before *)
(* g_numTicks wrapped counts as still to come.                             *)
(***************************************************************************)
NoSleeperOverlooked ==
  scan > Len(queue["sleepQueue"]) =>
    \A t \in On("sleepQueue") : ticks < sleepUntil[t]
=============================================================================
