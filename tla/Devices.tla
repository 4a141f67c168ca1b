------------------------------ MODULE Devices ------------------------------
(***************************************************************************)
(* The drivers together: kMain brings up the interrupt controller, the     *)
(* keyboard and the clock while interrupts arrive, then threads read keys  *)
(* and the date.  The scheduler (Thread.tla) may switch threads at every   *)
(* interrupt, so any thread may take the next step.                        *)
(***************************************************************************)
EXTENDS Keyboard, Rtc

CONSTANT Machines    \* bounds: how many bytes the keyboard sends, how often the
                     \* clock ticks, and the formats that its registers have

ASSUME DevicesAssumption ==
  \A m \in Machines : m.keys \in Nat /\ m.ticks \in Nat /\ m.formats \subseteq BOOLEAN \X BOOLEAN

VARIABLES
  booted,            \* how far kMain is
  machine            \* the one it runs on

vars == <<irqVars, kbVars, rtcVars, booted, machine>>

Init ==
  /\ IrqInit /\ KbInit /\ RtcVarsInit
  /\ booted = "cli"
  /\ machine \in Machines /\ <<hours24, binary>> \in machine.formats

Boots(from, to) == booted = from /\ booted' = to

(* kMain: irqInit, then sti, then the drivers (the timer's is left out).   *)
kMain ==
  /\ \/ /\ Boots("cli", "irqs") /\ irqInit /\ UNCHANGED <<g_isrs, cpu, irq, rtcPc>>
     \/ /\ Boots("irqs", "sti") /\ cpu' = "threads"
        /\ UNCHANGED <<g_irq_mask, g_isrs, picMask, requested, inService, irq, dropped, rtcPc>>
     \/ /\ cpu = "threads"
        /\ \/ /\ Boots("sti", "installed")
              /\ initIrqHandler(KEYBOARD, "keyboardHandler")
              /\ UNCHANGED <<g_irq_mask, picMask, rtcPc>>
           \/ /\ Boots("installed", "keyboard") /\ enableIrq(KEYBOARD)
              /\ UNCHANGED <<g_isrs, rtcPc>>
           \/ /\ Boots("keyboard", "drivers") /\ rtcPc' = "install"
              /\ UNCHANGED <<g_irq_mask, g_isrs, picMask>>
        /\ UNCHANGED <<requested, inService, cpu, irq, dropped>>
  /\ UNCHANGED <<kbVars, clock, periodic, pending, bcdValues, ticks, sent,
                 g_dateTime, smeared, time, copied, renewed>>

readKeys == \E t \in Readers : waitForKey(t) \/ getLine(t) \/ getLineResumes(t)

controller ==
  \/ interrupt
  \/ \E i \in IRQS : spurious(i)
  \/ noHandler

devices ==
  \/ keys < machine.keys /\ keystroke /\ UNCHANGED <<rtcVars, booted>>
  \/ sent < machine.ticks /\ clockTicks /\ UNCHANGED <<kbVars, booted>>
  \/ machine.ticks > 0 /\ secondPasses /\ UNCHANGED <<kbVars, booted>>

kernel ==
  \/ kMain
  \/ controller /\ UNCHANGED <<kbVars, rtcVars, booted>>
  \/ keyboardHandler /\ UNCHANGED <<rtcVars, booted>>
  \/ rtcPc = "done" /\ readKeys /\ UNCHANGED <<rtcVars, booted>>
  \/ rtcHandler /\ UNCHANGED <<kbVars, booted>>
  \/ rtcInit /\ UNCHANGED <<kbVars, booted>>
  \/ machine.ticks > 0 /\ dateTimeCopies /\ UNCHANGED <<kbVars, booted>>

Next == (devices \/ kernel) /\ UNCHANGED machine

Spec == Init /\ [][Next]_vars

-----------------------------------------------------------------------------
(***************************************************************************)
(* No device gets stuck: a byte that waits in the keyboard controller and  *)
(* a pending clock interrupt each have a request latched or their handler  *)
(* on the way.  The devices signal edges only: a handler that left them as *)
(* they are, or a PIC reset in between, silences them for ever.  There is  *)
(* one such reset: a byte that came before irqInit() is stuck.             *)
(***************************************************************************)
Served(i) == i \in requested \/ (cpu = "handler" /\ irq = i)

DevicesNotStuck ==
  /\ data # Empty => Served(KEYBOARD) \/ KEYBOARD \in dropped
  /\ pending /\ periodic => Served(RTC)

(***************************************************************************)
(* The comment in keyboardHandler(): a key that is pressed is added to the *)
(* keycode queue.  So a byte in the controller is one that the handler     *)
(* will read.  The code breaks it for a key pressed before irqInit(): no   *)
(* interrupt tells of that byte, and the keyboard sends no other after it. *)
(***************************************************************************)
KeyboardNotStuck == data # Empty => Served(KEYBOARD)
=============================================================================
