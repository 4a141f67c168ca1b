---------------------------- MODULE DevicesProofs ----------------------------
(***************************************************************************)
(* Proofs about Devices, for any number of readers, any size of the ring   *)
(* and any machine: interrupts are acknowledged, no device goes silent but *)
(* for a key before irqInit(), no reader misses a key and no key is lost,  *)
(* but when the ring is full; what getLine() returns is a line, and what   *)
(* dateTime() returns is a time.                                           *)
(***************************************************************************)
EXTENDS Devices, SequenceTheorems, WellFoundedInduction, TLAPS

-----------------------------------------------------------------------------
(* The progress of kMain and what it has programmed by then.               *)

BootStages == {"cli", "irqs", "sti", "installed", "keyboard", "drivers"}
RtcStages  == {"off", "install", "format", "write", "enable", "done"}

(* What the stages mean: interrupts are on after sti, the drivers come     *)
(* one after the other, and only the keyboard has made requests by then.   *)
Progress ==
  /\ booted \in BootStages /\ rtcPc \in RtcStages
  /\ cpu \in {"boot", "threads", "handler"}
  /\ cpu = "boot" <=> booted \in {"cli", "irqs"}
  /\ cpu = "handler" <=> irq # NoIrq
  /\ irq \in {NoIrq, KEYBOARD, 7, RTC, 15}
  /\ rtcPc # "off" <=> booted = "drivers"
  /\ periodic => rtcPc \in {"enable", "done"}
  /\ requested \subseteq {KEYBOARD, RTC}

(* A handler is installed before its IRQ is enabled. *)
Programmed ==
  /\ g_irq_mask \subseteq IRQS
  /\ booted # "cli" =>
       /\ picMask = g_irq_mask
       /\ \A i \in IRQS : i \notin g_irq_mask =>
            \/ i = CASCADE
            \/ i = KEYBOARD /\ booted \in {"keyboard", "drivers"}
            \/ i = RTC /\ rtcPc = "done"
  /\ g_isrs \in [IRQS -> {Nothing, "keyboardHandler", "rtcHandler"}]
  /\ \A i \in IRQS : /\ g_isrs[i] = "keyboardHandler" => i = KEYBOARD
                     /\ g_isrs[i] = "rtcHandler" => i = RTC
  /\ booted \in {"installed", "keyboard", "drivers"} => g_isrs[KEYBOARD] = "keyboardHandler"
  /\ rtcPc \notin {"off", "install"} => g_isrs[RTC] = "rtcHandler"
  /\ irq = KEYBOARD => g_isrs[KEYBOARD] = "keyboardHandler"
  /\ irq = RTC => g_isrs[RTC] = "rtcHandler"

(* An interrupt is in service while it is handled. *)
Acknowledged ==
  /\ irq = NoIrq => inService = {}
  /\ irq = KEYBOARD => inService = {KEYBOARD}
  /\ irq = RTC => inService = {RTC, CASCADE}
  /\ irq = 7 => inService = {} \/ inService = {7}
  /\ irq = 15 => inService = {CASCADE} \/ inService = {15, CASCADE}

PicInv == Progress /\ Programmed /\ Acknowledged /\ DevicesNotStuck

USE DEF IRQS, CASCADE, NoIrq, KEYBOARD, RTC

(* Before kMain everything is off. *)
LEMMA InitPic == Init => PicInv
<1> SUFFICES ASSUME Init PROVE PicInv
  OBVIOUS
<1> USE DEF Init, IrqInit, KbInit, RtcVarsInit
<1>1. Progress
  BY DEF Progress, BootStages, RtcStages
<1>2. Programmed
  BY DEF Programmed, Nothing
<1>3. Acknowledged
  BY DEF Acknowledged
<1>4. DevicesNotStuck
  BY DEF DevicesNotStuck, Served
<1> QED
  BY <1>1, <1>2, <1>3, <1>4 DEF PicInv

(* The first of one interrupt is that one, and of none there is none. *)
LEMMA FirstOfFew ==
  ASSUME NEW S, NEW i \in IRQS, S = {} \/ S = {i}
  PROVE  First(S) = S
<1>1. Rank(i) <= Rank(i)
  BY DEF Rank
<1> QED
  BY <1>1 DEF First

(* After the end of interrupt nothing is in service. *)
LEMMA EndOfInterrupt ==
  ASSUME Progress, Acknowledged, irq # NoIrq
  PROVE  SignalEoi = {}
<1>1. CASE irq = KEYBOARD
  <2>1. inService = {1}
    BY <1>1 DEF Acknowledged
  <2>2. Master(inService) = {1}
    BY <2>1 DEF Master
  <2>3. First({1}) = {1}
    BY FirstOfFew, 1 \in IRQS
  <2>4. ~(irq > 7)
    BY <1>1
  <2>5. SignalEoi = (inService \ {}) \ First(Master(inService))
    BY <2>4 DEF SignalEoi
  <2> QED
    BY <2>1, <2>2, <2>3, <2>5
<1>2. CASE irq = 7
  <2>1. inService = {} \/ inService = {7}
    BY <1>2 DEF Acknowledged
  <2>2. Master(inService) = inService
    BY <2>1 DEF Master
  <2>3. First(inService) = inService
    BY <2>1, FirstOfFew, 7 \in IRQS
  <2>4. ~(irq > 7)
    BY <1>2
  <2>5. SignalEoi = (inService \ {}) \ First(Master(inService))
    BY <2>4 DEF SignalEoi
  <2> QED
    BY <2>2, <2>3, <2>5
<1>3. CASE irq \in {RTC, 15}
  <2>1. inService = {2} \/ inService = {irq, 2}
    BY <1>3 DEF Acknowledged
  <2>2. Master(inService) = {2} /\ Slave(inService) = inService \ {2}
    BY <1>3, <2>1 DEF Master, Slave
  <2>3. inService \ {2} = {} \/ inService \ {2} = {irq}
    BY <1>3, <2>1
  <2>4. First(inService \ {2}) = inService \ {2} /\ First({2}) = {2}
    <3>1. irq \in IRQS /\ 2 \in IRQS
      BY <1>3
    <3> QED
      BY <2>3, <3>1, FirstOfFew
  <2>5. irq > 7
    BY <1>3
  <2>6. SignalEoi = (inService \ First(Slave(inService))) \ First(Master(inService))
    BY <2>5 DEF SignalEoi
  <2> QED
    BY <2>1, <2>2, <2>4, <2>6
<1> QED
  BY <1>1, <1>2, <1>3 DEF Progress

(* A mask is written to both PICs as far as it changed. *)
LEMMA MaskWritten ==
  ASSUME NEW mask \in SUBSET IRQS, updateIrqMask(mask), picMask = g_irq_mask
  PROVE  picMask' = g_irq_mask' /\ g_irq_mask' = mask
<1> DEFINE m == IF Master(mask) # Master(g_irq_mask) THEN Master(mask) ELSE Master(picMask)
           v == IF Slave(mask) # Slave(g_irq_mask) THEN Slave(mask) ELSE Slave(picMask)
<1>1. picMask' = Master(mask) \cup Slave(mask)
  <2>1. picMask' = m \cup v
    BY DEF updateIrqMask
  <2>2. m = Master(mask) /\ v = Slave(mask)
    OBVIOUS
  <2> HIDE DEF m, v
  <2> QED
    BY <2>1, <2>2
<1>2. Master(mask) \cup Slave(mask) = mask
  <2>1. \A i \in mask : i \in Int /\ (i < 8 \/ i > 7)
    OBVIOUS
  <2>2. \A i : i \in Master(mask) \cup Slave(mask) <=> i \in mask
    BY <2>1 DEF Master, Slave
  <2> QED
    BY <2>2
<1>3. g_irq_mask' = mask
  BY DEF updateIrqMask
<1> QED
  BY <1>1, <1>2, <1>3

(* A step that changes neither the PICs nor what kMain has reached. *)
LEMMA PicStays ==
  ASSUME PicInv, UNCHANGED <<irqVars, booted, rtcPc, periodic>>,
         data' = data, pending' = pending
  PROVE  PicInv'
BY DEF PicInv, Progress, Programmed, Acknowledged, DevicesNotStuck, Served, irqVars

(* kMain, one stage after the other. *)
LEMMA PicBoots ==
  ASSUME PicInv, kMain
  PROVE  PicInv'
<1> USE DEF Boots, BootStages, RtcStages
<1>0. UNCHANGED <<data, periodic, pending>>
  BY DEF kMain, kbVars
<1>1. CASE /\ Boots("cli", "irqs") /\ irqInit /\ UNCHANGED <<g_isrs, cpu, irq, rtcPc>>
  <2>1. cpu = "boot" /\ irq = NoIrq /\ requested' = {} /\ inService' = {}
        /\ dropped' = dropped \cup requested
    BY <1>1 DEF PicInv, Progress, irqInit
  <2>2. Progress'
    BY <1>0, <1>1, <2>1 DEF PicInv, Progress
  <2>3. Programmed'
    <3>1. picMask' = g_irq_mask' /\ g_irq_mask' = IRQS \ {CASCADE}
      BY <1>1 DEF irqInit
    <3>2. rtcPc = "off"
      BY <1>1 DEF PicInv, Progress
    <3> QED
      BY <1>1, <2>1, <3>1, <3>2 DEF PicInv, Programmed
  <2>4. Acknowledged' /\ DevicesNotStuck'
    BY <1>0, <1>1, <2>1 DEF PicInv, Progress, Acknowledged, DevicesNotStuck, Served
  <2> QED
    BY <2>2, <2>3, <2>4 DEF PicInv
<1>2. CASE /\ Boots("irqs", "sti") /\ cpu' = "threads"
           /\ UNCHANGED <<g_irq_mask, g_isrs, picMask, requested, inService, irq, dropped, rtcPc>>
  <2>1. cpu = "boot" /\ irq = NoIrq /\ rtcPc = "off"
    BY <1>2 DEF PicInv, Progress
  <2>2. Progress'
    BY <1>0, <1>2, <2>1 DEF PicInv, Progress
  <2>3. Programmed'
    BY <1>2, <2>1 DEF PicInv, Programmed
  <2>4. Acknowledged' /\ DevicesNotStuck'
    BY <1>0, <1>2, <2>1 DEF PicInv, Progress, Acknowledged, DevicesNotStuck, Served
  <2> QED
    BY <2>2, <2>3, <2>4 DEF PicInv
<1>3. CASE /\ cpu = "threads"
           /\ Boots("sti", "installed") /\ initIrqHandler(KEYBOARD, "keyboardHandler")
           /\ UNCHANGED <<g_irq_mask, picMask, rtcPc, requested, inService, cpu, irq, dropped>>
  <2>1. irq = NoIrq /\ rtcPc = "off"
    BY <1>3 DEF PicInv, Progress
  <2>2. Progress'
    BY <1>0, <1>3, <2>1 DEF PicInv, Progress
  <2>3. Programmed'
    <3>1. /\ g_isrs' \in [IRQS -> {Nothing, "keyboardHandler", "rtcHandler"}]
          /\ g_isrs'[KEYBOARD] = "keyboardHandler"
          /\ \A i \in IRQS \ {KEYBOARD} : g_isrs'[i] = g_isrs[i]
      BY <1>3 DEF initIrqHandler, PicInv, Programmed
    <3> QED
      BY <1>3, <2>1, <3>1 DEF PicInv, Programmed
  <2>4. Acknowledged' /\ DevicesNotStuck'
    BY <1>0, <1>3, <2>1 DEF PicInv, Acknowledged, DevicesNotStuck, Served
  <2> QED
    BY <2>2, <2>3, <2>4 DEF PicInv
<1>4. CASE /\ cpu = "threads"
           /\ Boots("installed", "keyboard") /\ enableIrq(KEYBOARD)
           /\ UNCHANGED <<g_isrs, rtcPc, requested, inService, cpu, irq, dropped>>
  <2>1. irq = NoIrq /\ rtcPc = "off"
    BY <1>4 DEF PicInv, Progress
  <2>2. Progress'
    BY <1>0, <1>4, <2>1 DEF PicInv, Progress
  <2>3. Programmed'
    <3>1. picMask' = g_irq_mask' /\ g_irq_mask' = g_irq_mask \ {KEYBOARD}
      BY <1>4, MaskWritten DEF enableIrq, PicInv, Programmed
    <3> QED
      BY <1>4, <2>1, <3>1 DEF PicInv, Programmed
  <2>4. Acknowledged' /\ DevicesNotStuck'
    BY <1>0, <1>4, <2>1 DEF PicInv, Acknowledged, DevicesNotStuck, Served
  <2> QED
    BY <2>2, <2>3, <2>4 DEF PicInv
<1>5. CASE /\ cpu = "threads"
           /\ Boots("keyboard", "drivers") /\ rtcPc' = "install"
           /\ UNCHANGED <<g_irq_mask, g_isrs, picMask, requested, inService, cpu, irq, dropped>>
  <2>1. irq = NoIrq /\ rtcPc = "off"
    BY <1>5 DEF PicInv, Progress
  <2>2. Progress'
    BY <1>0, <1>5, <2>1 DEF PicInv, Progress
  <2>3. Programmed'
    BY <1>5, <2>1 DEF PicInv, Programmed
  <2>4. Acknowledged' /\ DevicesNotStuck'
    BY <1>0, <1>5, <2>1 DEF PicInv, Acknowledged, DevicesNotStuck, Served
  <2> QED
    BY <2>2, <2>3, <2>4 DEF PicInv
<1> QED
  BY <1>1, <1>2, <1>3, <1>4, <1>5 DEF kMain

(* rtcInit(): the handler, the format, the periodic interrupt, the mask. *)
LEMMA PicRtcInit ==
  ASSUME PicInv, rtcInit, UNCHANGED <<data, booted>>
  PROVE  PicInv'
<1> USE DEF Step, RtcStages
<1>0. /\ cpu = "threads" /\ irq = NoIrq /\ UNCHANGED <<cpu, irq, inService, pending, dropped>>
  BY DEF rtcInit, PicInv, Progress
<1>1. booted = "drivers"
  BY DEF rtcInit, PicInv, Progress
<1>2. CASE /\ Step("install", "format") /\ initIrqHandler(RTC, "rtcHandler")
           /\ UNCHANGED <<g_irq_mask, picMask, requested, periodic, bcdValues>>
  <2>1. Progress' /\ Acknowledged' /\ DevicesNotStuck'
    BY <1>0, <1>1, <1>2 DEF PicInv, Progress, Acknowledged, DevicesNotStuck, Served
  <2>2. /\ g_isrs' \in [IRQS -> {Nothing, "keyboardHandler", "rtcHandler"}]
        /\ g_isrs'[RTC] = "rtcHandler"
        /\ \A i \in IRQS \ {RTC} : g_isrs'[i] = g_isrs[i]
    BY <1>2 DEF initIrqHandler, PicInv, Programmed
  <2>3. Programmed'
    BY <1>0, <1>1, <1>2, <2>2 DEF PicInv, Programmed
  <2> QED
    BY <2>1, <2>3 DEF PicInv
<1>3. CASE /\ Step("format", "write")
           /\ UNCHANGED <<g_irq_mask, g_isrs, picMask, requested, periodic>>
  <2>1. Progress' /\ Acknowledged' /\ DevicesNotStuck'
    BY <1>0, <1>1, <1>3 DEF PicInv, Progress, Acknowledged, DevicesNotStuck, Served
  <2>2. Programmed'
    BY <1>0, <1>1, <1>3 DEF PicInv, Programmed
  <2> QED
    BY <2>1, <2>2 DEF PicInv
<1>4. CASE /\ Step("write", "enable") /\ periodic' = TRUE
           /\ requested' = IF pending THEN requested \cup {RTC} ELSE requested
           /\ UNCHANGED <<g_irq_mask, g_isrs, picMask, bcdValues>>
  <2>1. Progress' /\ Acknowledged' /\ DevicesNotStuck'
    BY <1>0, <1>1, <1>4 DEF PicInv, Progress, Acknowledged, DevicesNotStuck, Served
  <2>2. Programmed'
    BY <1>0, <1>1, <1>4 DEF PicInv, Programmed
  <2> QED
    BY <2>1, <2>2 DEF PicInv
<1>5. CASE /\ Step("enable", "done") /\ enableIrq(RTC)
           /\ UNCHANGED <<g_isrs, requested, periodic, bcdValues>>
  <2>1. Progress' /\ Acknowledged' /\ DevicesNotStuck'
    BY <1>0, <1>1, <1>5 DEF PicInv, Progress, Acknowledged, DevicesNotStuck, Served
  <2>2. picMask' = g_irq_mask' /\ g_irq_mask' = g_irq_mask \ {RTC}
    BY <1>1, <1>5, MaskWritten DEF enableIrq, PicInv, Programmed
  <2>3. Programmed'
    BY <1>0, <1>1, <1>5, <2>2 DEF PicInv, Programmed
  <2> QED
    BY <2>1, <2>3 DEF PicInv
<1> QED
  BY <1>2, <1>3, <1>4, <1>5 DEF rtcInit

(* An interrupt is delivered: what was requested, or a spurious one. *)
LEMMA PicDelivers ==
  ASSUME PicInv, interrupt \/ (\E i \in IRQS : spurious(i)),
         UNCHANGED <<data, booted, rtcPc, periodic, pending>>
  PROVE  PicInv'
<1>0. /\ cpu = "threads" /\ irq = NoIrq /\ inService = {} /\ cpu' = "handler"
      /\ booted \notin {"cli", "irqs"} /\ UNCHANGED <<g_irq_mask, g_isrs, picMask, dropped>>
  BY DEF interrupt, spurious, PicInv, Progress, Acknowledged
<1>1. CASE interrupt
  <2>1. PICK i \in First({j \in IRQS : Deliverable(j)}) :
             /\ irq' = i /\ requested' = requested \ {i}
             /\ inService' = inService \cup {i} \cup (IF i > 7 THEN {CASCADE} ELSE {})
    BY <1>1 DEF interrupt
  <2>2. i \in IRQS /\ i \in requested /\ i \notin picMask
    BY <2>1 DEF First, Deliverable
  <2>3. i \in {KEYBOARD, RTC}
    BY <2>2 DEF PicInv, Progress
  <2>4. Progress'
    BY <1>0, <2>1, <2>3 DEF PicInv, Progress
  <2>5. Programmed'
    <3>1. /\ i = KEYBOARD => g_isrs[KEYBOARD] = "keyboardHandler"
          /\ i = RTC => g_isrs[RTC] = "rtcHandler"
      BY <1>0, <2>2, <2>3 DEF PicInv, Progress, BootStages, Programmed
    <3> QED
      BY <1>0, <2>1, <3>1 DEF PicInv, Programmed
  <2>6. Acknowledged'
    BY <1>0, <2>1, <2>3 DEF Acknowledged
  <2>7. DevicesNotStuck'
    BY <1>0, <2>1, <2>3 DEF PicInv, DevicesNotStuck, Served
  <2> QED
    BY <2>4, <2>5, <2>6, <2>7 DEF PicInv
<1>2. ASSUME NEW i \in IRQS, spurious(i) PROVE PicInv'
  <2>1. /\ irq' = i /\ i \in {7, 15} /\ requested' = requested
        /\ inService' = IF i > 7 THEN {CASCADE} ELSE {}
    BY <1>0, <1>2 DEF spurious
  <2>2. Progress'
    BY <1>0, <2>1 DEF PicInv, Progress
  <2>3. Programmed'
    BY <1>0, <2>1 DEF PicInv, Programmed
  <2>4. Acknowledged'
    BY <2>1 DEF Acknowledged
  <2>5. DevicesNotStuck'
    BY <1>0, <2>1 DEF PicInv, DevicesNotStuck, Served
  <2> QED
    BY <2>2, <2>3, <2>4, <2>5 DEF PicInv
<1> QED
  BY <1>1, <1>2

(* A handler returns, having served its device. *)
LEMMA PicReturns ==
  ASSUME PicInv, NEW handler, baseIrqHandler(handler),
         UNCHANGED <<booted, rtcPc, periodic>>,
         \/ handler = "keyboardHandler" /\ data' = Empty /\ pending' = pending
         \/ handler = "rtcHandler" /\ data' = data /\ ~pending'
         \/ handler = Nothing /\ data' = data /\ pending' = pending
  PROVE  PicInv'
<1>1. /\ cpu = "handler" /\ g_isrs[irq] = handler /\ irq # NoIrq
      /\ cpu' = "threads" /\ irq' = NoIrq /\ inService' = {}
      /\ UNCHANGED <<g_irq_mask, g_isrs, picMask, requested, dropped>>
  BY EndOfInterrupt DEF baseIrqHandler, PicInv, Progress
<1>2. booted \notin {"cli", "irqs"}
  BY <1>1 DEF PicInv, Progress
<1>3. /\ irq = KEYBOARD => handler = "keyboardHandler"
      /\ irq = RTC => handler = "rtcHandler"
  BY <1>1 DEF PicInv, Programmed
<1>4. Progress' /\ Acknowledged'
  BY <1>1, <1>2 DEF PicInv, Progress, Acknowledged
<1>5. Programmed'
  BY <1>1 DEF PicInv, Programmed
<1>6. DevicesNotStuck'
  BY <1>1, <1>3 DEF PicInv, DevicesNotStuck, Served, Nothing
<1> QED
  BY <1>4, <1>5, <1>6 DEF PicInv

(* A device asks for attention. *)
LEMMA PicRequests ==
  ASSUME PicInv,
         \/ keystroke /\ UNCHANGED <<rtcPc, periodic, pending, booted>>
         \/ clockTicks /\ UNCHANGED <<data, booted>>
  PROVE  PicInv'
<1>1. CASE keystroke /\ UNCHANGED <<rtcPc, periodic, pending, booted>>
  <2>1. /\ requested' = requested \cup {KEYBOARD}
        /\ UNCHANGED <<g_irq_mask, g_isrs, picMask, inService, cpu, irq, rtcPc, periodic,
                       pending, booted>>
    BY <1>1 DEF keystroke, Request
  <2> QED
    BY <2>1 DEF PicInv, Progress, Programmed, Acknowledged, DevicesNotStuck, Served
<1>2. CASE clockTicks /\ UNCHANGED <<data, booted>>
  <2>1. /\ periodic /\ periodic' = periodic
        /\ requested' = IF pending THEN requested ELSE requested \cup {RTC}
        /\ UNCHANGED <<g_irq_mask, g_isrs, picMask, inService, cpu, irq, rtcPc, booted, data,
                       dropped>>
    BY <1>2 DEF clockTicks, Request
  <2>2. cpu # "boot"
    BY <2>1 DEF PicInv, Progress
  <2>3. Progress' /\ Acknowledged' /\ Programmed'
    BY <2>1, <2>2 DEF PicInv, Progress, Acknowledged, Programmed
  <2>4. DevicesNotStuck'
    BY <2>1 DEF PicInv, DevicesNotStuck, Served
  <2> QED
    BY <2>3, <2>4 DEF PicInv
<1> QED
  BY <1>1, <1>2

(* Every step of the kernel and of the devices. *)
LEMMA NextPic ==
  ASSUME PicInv, [Next]_vars
  PROVE  PicInv'
<1> USE DEF kbVars, rtcVars, clock
<1>1. CASE kMain
  BY <1>1, PicBoots
<1>2. CASE controller /\ UNCHANGED <<kbVars, rtcVars, booted>>
  BY <1>2, PicDelivers, PicReturns DEF controller, noHandler
<1>3. CASE keyboardHandler /\ UNCHANGED <<rtcVars, booted>>
  BY <1>3, PicReturns DEF keyboardHandler
<1>4. CASE rtcHandler /\ UNCHANGED <<kbVars, booted>>
  BY <1>4, PicReturns DEF rtcHandler
<1>5. CASE rtcInit /\ UNCHANGED <<kbVars, booted>>
  BY <1>5, PicRtcInit
<1>6. CASE readKeys /\ UNCHANGED <<rtcVars, booted>>
  <2>1. UNCHANGED <<irqVars, data>>
    BY <1>6 DEF readKeys, waitForKey, getLine, getLineResumes
  <2> QED
    BY <1>6, <2>1, PicStays
<1>7. CASE (dateTimeCopies \/ secondPasses) /\ UNCHANGED <<kbVars, booted>>
  BY <1>7, PicStays DEF dateTimeCopies, secondPasses
<1>8. CASE keystroke /\ UNCHANGED <<rtcVars, booted>>
  BY <1>8, PicRequests
<1>9. CASE clockTicks /\ UNCHANGED <<kbVars, booted>>
  BY <1>9, PicRequests
<1>10. CASE UNCHANGED vars
  BY <1>10, PicStays DEF vars
<1> QED
  BY <1>1, <1>2, <1>3, <1>4, <1>5, <1>6, <1>7, <1>8, <1>9, <1>10
  DEF Next, devices, kernel

(***************************************************************************)
(* The stages of kMain, the masks, the handlers and the interrupt in       *)
(* service agree, whatever interrupts arrive during start-up.              *)
(***************************************************************************)
THEOREM PicInvariance == Spec => []PicInv
<1>1. Init => PicInv
  BY InitPic
<1>2. PicInv /\ [Next]_vars => PicInv'
  BY NextPic
<1> QED
  BY <1>1, <1>2, PTL DEF Spec

(* Every interrupt is acknowledged and what is enabled has a handler.      *)
THEOREM PicStaysMirrored == Spec => []PicMirrored
<1>1. PicInv => PicMirrored
  <2> SUFFICES ASSUME PicInv, cpu # "boot" PROVE PicMirrored
    BY DEF PicMirrored
  <2>0. booted # "cli"
    BY DEF PicInv, Progress
  <2>1. picMask = g_irq_mask
    BY <2>0 DEF PicInv, Programmed
  <2>2. \A i \in IRQS \ {CASCADE} : i \notin picMask => g_isrs[i] # Nothing
    BY <2>0, <2>1 DEF PicInv, Programmed, Nothing
  <2>3. inService \in
         CASE irq = NoIrq -> {{}}
           [] irq = 7     -> {{}, {7}}
           [] irq = 15    -> {{CASCADE}, {15, CASCADE}}
           [] irq > 7 /\ irq # 15 -> {{irq, CASCADE}}
           [] OTHER       -> {{irq}}
    <3>1. CASE irq = NoIrq
      BY <3>1 DEF PicInv, Acknowledged
    <3>2. CASE irq = KEYBOARD
      BY <3>2 DEF PicInv, Acknowledged
    <3>3. CASE irq = 7
      BY <3>3 DEF PicInv, Acknowledged
    <3>4. CASE irq = RTC
      BY <3>4 DEF PicInv, Acknowledged
    <3>5. CASE irq = 15
      BY <3>5 DEF PicInv, Acknowledged
    <3> QED
      BY <3>1, <3>2, <3>3, <3>4, <3>5 DEF PicInv, Progress
  <2> QED
    BY <2>1, <2>2, <2>3 DEF PicMirrored
<1> QED
  BY <1>1, PicInvariance, PTL

(* Neither the keyboard nor the clock waits for a handler that never       *)
(* comes, at whatever stage of the boot a key was pressed, except that the *)
(* byte of a key pressed before irqInit() stays where it is.               *)
THEOREM DevicesServed == Spec => []DevicesNotStuck
<1>1. PicInv => DevicesNotStuck
  BY DEF PicInv
<1> QED
  BY <1>1, PicInvariance, PTL

-----------------------------------------------------------------------------
(* The ring of key codes.  First the arithmetic of its indices.            *)

(* An index that went once around, in either direction. *)
LEMMA Around ==
  /\ Size \in Nat \ {0, 1}
  /\ \A a \in Int : a % Size \in 0..Size - 1
  /\ \A a \in Int : 0 <= a /\ a < Size => a % Size = a
  /\ \A a \in Int : Size <= a /\ a < 2 * Size => a % Size = a - Size
  /\ \A a \in Int : -Size <= a /\ a < 0 => a % Size = a + Size
<1>1. Size \in Nat \ {0, 1}
  BY KeyboardAssumption
<1>2. ASSUME NEW a \in Int
      PROVE  /\ a % Size \in 0..Size - 1
             /\ 0 <= a /\ a < Size => a % Size = a
             /\ Size <= a /\ a < 2 * Size => a % Size = a - Size
             /\ -Size <= a /\ a < 0 => a % Size = a + Size
  <2>1. a % Size \in 0..Size - 1
    BY <1>1
  <2>2. 0 <= a /\ a < Size => a % Size = a
    BY <1>1
  <2>3. Size <= a /\ a < 2 * Size => a % Size = a - Size
    BY <1>1
  <2>4. -Size <= a /\ a < 0 => a % Size = a + Size
    BY <1>1
  <2> QED
    BY <2>1, <2>2, <2>3, <2>4
<1> QED
  BY <1>1, <1>2

(* The slots in use, from the head on, end before the tail. *)
LEMMA Slots ==
  ASSUME NEW h \in 0..Size - 1, NEW t \in 0..Size - 1,
         NEW L, L = (t - h) % Size
  PROVE  /\ L \in 0..Size - 1 /\ (L = 0 <=> h = t)
         /\ t >= h => L = t - h
         /\ t < h => L = t - h + Size
         /\ (h + L) % Size = t
         /\ \A i \in 1..L : /\ (h + i - 1) % Size \in 0..Size - 1
                            /\ (h + i - 1) % Size # t
<1>0. Size \in Nat \ {0, 1} /\ h \in Int /\ t \in Int /\ t - h \in Int
  BY Around
<1>1. CASE t >= h
  <2>1. L = t - h
    BY <1>0, <1>1, Around
  <2>2. (h + L) % Size = t
    BY <1>0, <1>1, <2>1, Around
  <2>3. ASSUME NEW i \in 1..L PROVE (h + i - 1) % Size = h + i - 1 /\ h + i - 1 # t
    <3>1. h + i - 1 \in Int /\ 0 <= h + i - 1 /\ h + i - 1 < t
      BY <1>0, <2>1
    <3> QED
      BY <1>0, <3>1, Around
  <2> QED
    BY <1>0, <1>1, <2>1, <2>2, <2>3
<1>2. CASE t < h
  <2>1. L = t - h + Size
    BY <1>0, <1>2, Around
  <2>2. (h + L) % Size = t
    <3>1. h + L = t + Size /\ t + Size \in Int
      BY <1>0, <2>1
    <3> QED
      BY <1>0, <3>1, Around
  <2>3. ASSUME NEW i \in 1..L
        PROVE  (h + i - 1) % Size \in 0..Size - 1 /\ (h + i - 1) % Size # t
    <3>1. h + i - 1 \in Int /\ h <= h + i - 1 /\ h + i - 1 < t + Size
      BY <1>0, <2>1
    <3>2. CASE h + i - 1 < Size
      BY <1>0, <1>2, <3>1, <3>2, Around
    <3>3. CASE h + i - 1 >= Size
      <4>1. (h + i - 1) % Size = h + i - 1 - Size
        BY <1>0, <3>1, <3>3, Around
      <4> QED
        BY <1>0, <3>1, <3>3, <4>1
    <3> QED
      BY <3>1, <3>2, <3>3, <1>0
  <2> QED
    BY <1>0, <1>2, <2>1, <2>2, <2>3
<1> QED
  BY <1>0, <1>1, <1>2

(* As many as there are, they reach from the head to the tail. *)
LEMMA SlotsUsed ==
  ASSUME NEW h \in 0..Size - 1, NEW t \in 0..Size - 1
  PROVE  /\ ((t - h) % Size) \in 0..Size - 1
         /\ ((t - h) % Size) = 0 <=> h = t
         /\ (h + ((t - h) % Size)) % Size = t
<1> SUFFICES ASSUME NEW L, L = (t - h) % Size
             PROVE  L \in 0..Size - 1 /\ (L = 0 <=> h = t) /\ (h + L) % Size = t
  OBVIOUS
<1>1. L \in 0..Size - 1
  BY Slots
<1>2. L = 0 <=> h = t
  BY Slots
<1>3. (h + L) % Size = t
  BY Slots
<1> QED
  BY <1>1, <1>2, <1>3

(* One more code, where the test finds room and the ring does not run full. *)
LEMMA SlotsGrow ==
  ASSUME NEW h \in 0..Size - 1, NEW t \in 0..Size - 1,
         t + 1 # h, ~(t + 1 = Size /\ h = 0)
  PROVE  (((t + 1) % Size) - h) % Size = ((t - h) % Size) + 1
<1>0. /\ Size \in Nat /\ h \in Int /\ t \in Int /\ t - h \in Int /\ t + 1 - h \in Int
      /\ 0 <= h /\ h < Size /\ 0 <= t /\ t < Size
  BY Around
<1>1. CASE t + 1 < Size
  <2>1. (t + 1) % Size = t + 1
    BY <1>0, <1>1, Around
  <2>2. CASE t >= h
    <3>0. 0 <= t - h /\ t - h < Size
      BY <1>0, <2>2
    <3>1. (t - h) % Size = t - h
      BY <1>0, <3>0, Around
    <3>2. 0 <= t + 1 - h /\ t + 1 - h < Size
      BY <1>0, <1>1, <2>2
    <3>3. (t + 1 - h) % Size = t + 1 - h
      BY <1>0, <3>2, Around
    <3> QED
      BY <1>0, <2>1, <3>1, <3>3
  <2>3. CASE t < h
    <3>0. -Size <= t - h /\ t - h < 0
      BY <1>0, <2>3
    <3>1. (t - h) % Size = t - h + Size
      BY <1>0, <3>0, Around
    <3>2. -Size <= t + 1 - h /\ t + 1 - h < 0
      BY <1>0, <2>3
    <3>3. (t + 1 - h) % Size = t + 1 - h + Size
      BY <1>0, <3>2, Around
    <3> QED
      BY <1>0, <2>1, <3>1, <3>3
  <2> QED
    BY <1>0, <2>2, <2>3
<1>2. CASE t + 1 = Size
  <2>1. (t + 1) % Size = 0 /\ h > 0 /\ t >= h
    BY <1>0, <1>2, Around
  <2>0. 0 <= t - h /\ t - h < Size
    BY <1>0, <2>1
  <2>2. (t - h) % Size = t - h
    BY <1>0, <2>0, Around
  <2>3. -h \in Int /\ -Size <= -h /\ -h < 0
    BY <1>0, <2>1
  <2>4. (-h) % Size = -h + Size
    BY <2>3, Around
  <2>5. 0 - h = -h /\ t - h + 1 = -h + Size
    BY <1>0, <1>2
  <2> QED
    BY <2>1, <2>2, <2>4, <2>5
<1> QED
  BY <1>0, <1>1, <1>2

(* The first n codes are taken. *)
LEMMA SlotsShrink ==
  ASSUME NEW h \in 0..Size - 1, NEW t \in 0..Size - 1,
         NEW L, L = (t - h) % Size, NEW n \in 0..L
  PROVE  /\ (h + n) % Size \in 0..Size - 1
         /\ (t - ((h + n) % Size)) % Size = L - n
         /\ \A i \in 1..L - n : (((h + n) % Size) + i - 1) % Size = (h + n + i - 1) % Size
<1>1. L \in 0..Size - 1 /\ (t >= h => L = t - h) /\ (t < h => L = t - h + Size)
  BY Slots
<1>0. /\ Size \in Nat /\ h \in Int /\ t \in Int /\ L \in Int /\ n \in Int /\ h + n \in Int
      /\ 0 <= h /\ h < Size /\ 0 <= t /\ t < Size /\ 0 <= n /\ n <= L /\ L < Size
  BY <1>1, Around
<1>2. CASE h + n < Size
  <2>1. (h + n) % Size = h + n
    BY <1>0, <1>2, Around
  <2>2. (t - (h + n)) % Size = L - n
    <3>1. CASE t >= h
      <4>1. t - (h + n) \in Int /\ 0 <= t - (h + n) /\ t - (h + n) < Size /\ t - (h + n) = L - n
        BY <1>0, <1>1, <3>1
      <4> QED
        BY <4>1, Around
    <3>2. CASE t < h
      <4>1. /\ t - (h + n) \in Int /\ -Size <= t - (h + n) /\ t - (h + n) < 0
            /\ t - (h + n) + Size = L - n
        BY <1>0, <1>1, <1>2, <3>2
      <4> QED
        BY <4>1, Around
    <3> QED
      BY <1>0, <3>1, <3>2
  <2> DEFINE g == h + n
  <2>3. g \in 0..Size - 1 /\ (h + n) % Size = g
    BY <1>0, <1>2, <2>1
  <2>4. (t - g) % Size = L - n
    BY <2>2
  <2>5. \A i \in 1..L - n : (g + i - 1) % Size = (h + n + i - 1) % Size
    OBVIOUS
  <2> HIDE DEF g
  <2> QED
    <3>1. (t - ((h + n) % Size)) % Size = L - n
      BY <2>3, <2>4
    <3>2. \A i \in 1..L - n : (((h + n) % Size) + i - 1) % Size = (h + n + i - 1) % Size
      BY <2>3, <2>5
    <3> QED
      BY <2>3, <3>1, <3>2
<1>3. CASE h + n >= Size
  <2>1. (h + n) % Size = h + n - Size
    <3>1. h + n < 2 * Size
      BY <1>0
    <3> QED
      BY <1>0, <1>3, <3>1, Around
  <2>2. t < h
    BY <1>0, <1>1, <1>3
  <2> DEFINE g == h + n - Size
  <2>3. /\ g \in Int /\ t - g \in Int /\ t - g = L - n /\ 0 <= t - g /\ t - g < Size
        /\ 0 <= g /\ g < Size
    BY <1>0, <1>1, <1>3, <2>2
  <2>4. (t - g) % Size = L - n
    BY <2>3, Around
  <2>5. ASSUME NEW i \in 1..L - n PROVE (g + i - 1) % Size = (h + n + i - 1) % Size
    <3>1. /\ g + i - 1 \in Int /\ 0 <= g + i - 1 /\ g + i - 1 < Size
          /\ h + n + i - 1 \in Int /\ h + n + i - 1 = (g + i - 1) + Size
          /\ Size <= h + n + i - 1 /\ h + n + i - 1 < 2 * Size
      BY <1>0, <2>3
    <3>2. (g + i - 1) % Size = g + i - 1
      BY <3>1, Around
    <3>3. (h + n + i - 1) % Size = h + n + i - 1 - Size
      BY <3>1, Around
    <3>4. h + n + i - 1 - Size = g + i - 1
      BY <1>0, <3>1
    <3> QED
      BY <3>2, <3>3, <3>4
  <2>6. (h + n) % Size = g /\ g \in 0..Size - 1
    BY <1>0, <2>1, <2>3
  <2> HIDE DEF g
  <2> QED
    <3>1. (t - ((h + n) % Size)) % Size = L - n
      BY <2>4, <2>6
    <3>2. \A i \in 1..L - n : (((h + n) % Size) + i - 1) % Size = (h + n + i - 1) % Size
      BY <2>5, <2>6
    <3> QED
      BY <2>6, <3>1, <3>2
<1> QED
  BY <1>0, <1>2, <1>3

Codes == KeyCodes \cup {Empty}

(* The codes in a ring of which the head and the tail are given. *)
Stored(q, h, t) == [i \in 1..((t - h) % Size) |-> q[(h + i - 1) % Size]]

(* They are a sequence. *)
LEMMA StoredIs ==
  ASSUME NEW h \in 0..Size - 1, NEW t \in 0..Size - 1,
         NEW q \in [0..Size - 1 -> Codes]
  PROVE  /\ Stored(q, h, t) \in Seq(Codes) /\ Len(Stored(q, h, t)) = (t - h) % Size
         /\ \A i \in 1..Len(Stored(q, h, t)) : Stored(q, h, t)[i] = q[(h + i - 1) % Size]
<1> SUFFICES ASSUME NEW L, L = (t - h) % Size
             PROVE  /\ Stored(q, h, t) \in Seq(Codes) /\ Len(Stored(q, h, t)) = L
                    /\ \A i \in 1..L : Stored(q, h, t)[i] = q[(h + i - 1) % Size]
  OBVIOUS
<1>1. L \in Nat /\ \A i \in 1..L : (h + i - 1) % Size \in 0..Size - 1
  <2>1. /\ L \in 0..Size - 1
        /\ \A i \in 1..L : (h + i - 1) % Size \in 0..Size - 1
    BY Slots
  <2> QED
    BY <2>1, Around
<1>2. Stored(q, h, t) = [i \in 1..L |-> q[(h + i - 1) % Size]]
  BY DEF Stored
<1>3. \A i \in 1..L : q[(h + i - 1) % Size] \in Codes
  BY <1>1
<1>4. [i \in 1..L |-> q[(h + i - 1) % Size]] \in [1..L -> Codes]
  BY <1>3
<1>5. Stored(q, h, t) \in Seq(Codes)
  BY <1>1, <1>2, <1>4, SeqDef
<1>6. Len(Stored(q, h, t)) = L
  <2>1. DOMAIN Stored(q, h, t) = 1..L
    BY <1>2
  <2> QED
    BY <1>1, <1>5, <2>1, LenProperties
<1> QED
  BY <1>1, <1>2, <1>5, <1>6

(* A code stored behind the others is the last one. *)
LEMMA StoredGrows ==
  ASSUME NEW h \in 0..Size - 1, NEW t \in 0..Size - 1,
         NEW q \in [0..Size - 1 -> Codes], NEW c \in Codes,
         t + 1 # h, ~(t + 1 = Size /\ h = 0)
  PROVE  Stored([q EXCEPT ![t] = c], h, (t + 1) % Size) = Append(Stored(q, h, t), c)
<1>0. ASSUME NEW r \in [0..Size - 1 -> Codes], NEW u \in 0..Size - 1
      PROVE  /\ Stored(r, h, u) \in Seq(Codes) /\ Len(Stored(r, h, u)) = (u - h) % Size
             /\ \A i \in 1..Len(Stored(r, h, u)) : Stored(r, h, u)[i] = r[(h + i - 1) % Size]
  BY StoredIs, Zenon
<1> SUFFICES ASSUME NEW L, L = (t - h) % Size,
                    NEW u, u = (t + 1) % Size,
                    NEW r, r = [q EXCEPT ![t] = c]
             PROVE  Stored(r, h, u) = Append(Stored(q, h, t), c)
  OBVIOUS
<1>1. u \in 0..Size - 1
  BY Around
<1>2. (u - h) % Size = L + 1
  BY SlotsGrow
<1>3. r \in [0..Size - 1 -> Codes]
  OBVIOUS
<1>4. /\ L \in Nat /\ Stored(q, h, t) \in Seq(Codes) /\ Len(Stored(q, h, t)) = L
      /\ \A i \in 1..L : Stored(q, h, t)[i] = q[(h + i - 1) % Size]
  <2>1. /\ Stored(q, h, t) \in Seq(Codes) /\ Len(Stored(q, h, t)) = (t - h) % Size
        /\ \A i \in 1..Len(Stored(q, h, t)) : Stored(q, h, t)[i] = q[(h + i - 1) % Size]
    BY StoredIs, Zenon
  <2>2. Len(Stored(q, h, t)) = L
    BY <2>1
  <2>3. L \in Nat
    BY <2>1, <2>2, LenProperties, Zenon
  <2> QED
    BY <2>1, <2>2, <2>3
<1>5. /\ Stored(r, h, u) \in Seq(Codes) /\ Len(Stored(r, h, u)) = L + 1
      /\ \A i \in 1..L + 1 : Stored(r, h, u)[i] = r[(h + i - 1) % Size]
  <2>1. /\ Stored(r, h, u) \in Seq(Codes) /\ Len(Stored(r, h, u)) = (u - h) % Size
        /\ \A i \in 1..Len(Stored(r, h, u)) : Stored(r, h, u)[i] = r[(h + i - 1) % Size]
    BY <1>0, <1>1, <1>3, Zenon
  <2> QED
    BY <1>2, <2>1
<1>6. /\ (h + L) % Size = t
      /\ \A i \in 1..L : /\ (h + i - 1) % Size \in 0..Size - 1
                         /\ (h + i - 1) % Size # t
  BY Slots
<1>7. /\ Append(Stored(q, h, t), c) \in Seq(Codes)
      /\ Len(Append(Stored(q, h, t), c)) = L + 1
      /\ \A i \in 1..L : Append(Stored(q, h, t), c)[i] = Stored(q, h, t)[i]
      /\ Append(Stored(q, h, t), c)[L + 1] = c
  BY <1>4, AppendProperties
<1>8. ASSUME NEW i \in 1..L + 1
      PROVE  Stored(r, h, u)[i] = Append(Stored(q, h, t), c)[i]
  <2>1. CASE i = L + 1
    <3>1. h + i - 1 = h + L
      BY <1>4, <2>1
    <3>2. r[(h + i - 1) % Size] = c
      BY <1>6, <3>1
    <3> QED
      BY <1>5, <1>7, <2>1, <3>2
  <2>2. CASE i \in 1..L
    <3>1. r[(h + i - 1) % Size] = q[(h + i - 1) % Size]
      BY <1>6, <2>2
    <3> QED
      BY <1>4, <1>5, <1>7, <2>2, <3>1
  <2> QED
    BY <1>4, <2>1, <2>2
<1> QED
  BY <1>5, <1>7, <1>8, SeqEqual

(* With the head at 0, the code that fills the ring makes it look empty. *)
LEMMA StoredOverruns ==
  ASSUME NEW t \in 0..Size - 1, t + 1 = Size, NEW q
  PROVE  Stored(q, 0, (t + 1) % Size) = <<>>
<1>1. (t + 1) % Size = 0 /\ (0 - 0) % Size = 0
  BY Around
<1>2. Stored(q, 0, 0) = [i \in 1..0 |-> q[(0 + i - 1) % Size]]
  BY <1>1 DEF Stored
<1> QED
  BY <1>1, <1>2

(* What is left of a sequence without its first n elements. *)
LEMMA Rest ==
  ASSUME NEW S, NEW s \in Seq(S), NEW n \in 0..Len(s)
  PROVE  /\ SubSeq(s, n + 1, Len(s)) \in Seq(S)
         /\ Len(SubSeq(s, n + 1, Len(s))) = Len(s) - n
         /\ \A i \in 1..Len(s) - n : SubSeq(s, n + 1, Len(s))[i] = s[n + i]
<1> DEFINE b == SubSeq(s, n + 1, Len(s))
<1>1. /\ Len(s) \in Nat /\ Len(s) \in Int /\ n \in Int /\ n + 1 \in Int
      /\ \A i \in 1..Len(s) : s[i] \in S
  BY LenProperties
<1>2. \A i \in n + 1..Len(s) : s[i] \in S
  BY <1>1
<1>3. /\ b \in Seq(S)
      /\ Len(b) = IF n + 1 <= Len(s) THEN Len(s) - (n + 1) + 1 ELSE 0
      /\ \A i \in 1 .. Len(s) - (n + 1) + 1 : b[i] = s[n + 1 + i - 1]
  BY <1>1, <1>2, SubSeqProperties
<1> HIDE DEF b
<1>4. Len(b) = Len(s) - n /\ Len(s) - (n + 1) + 1 = Len(s) - n
  BY <1>1, <1>3
<1>5. ASSUME NEW i \in 1..Len(s) - n PROVE b[i] = s[n + i]
  <2>1. b[i] = s[n + 1 + i - 1]
    BY <1>3, <1>4
  <2>2. n + 1 + i - 1 = n + i
    BY <1>1
  <2> QED
    BY <2>1, <2>2
<1>6. b \in Seq(S) /\ Len(b) = Len(s) - n /\ \A i \in 1..Len(s) - n : b[i] = s[n + i]
  BY <1>3, <1>4, <1>5
<1> QED
  BY <1>6 DEF b

(* Without its first n codes. *)
LEMMA StoredShrinks ==
  ASSUME NEW h \in 0..Size - 1, NEW t \in 0..Size - 1,
         NEW q \in [0..Size - 1 -> Codes],
         NEW n \in 0..Len(Stored(q, h, t))
  PROVE  Stored(q, (h + n) % Size, t)
           = SubSeq(Stored(q, h, t), n + 1, Len(Stored(q, h, t)))
<1> SUFFICES ASSUME NEW L, L = (t - h) % Size,
                    NEW g, g = (h + n) % Size,
                    NEW s, s = Stored(q, h, t)
             PROVE  Stored(q, g, t) = SubSeq(s, n + 1, Len(s))
  OBVIOUS
<1>1. /\ L \in Nat /\ s \in Seq(Codes) /\ Len(s) = L
      /\ \A i \in 1..L : s[i] = q[(h + i - 1) % Size]
  <2>1. /\ s \in Seq(Codes) /\ Len(s) = (t - h) % Size
        /\ \A i \in 1..Len(s) : s[i] = q[(h + i - 1) % Size]
    BY StoredIs, Zenon
  <2>2. Len(s) = L
    BY <2>1
  <2>3. L \in Nat
    BY <2>1, <2>2, LenProperties, Zenon
  <2> QED
    BY <2>1, <2>2, <2>3
<1>2. n \in 0..L
  BY <1>1
<1>3. /\ g \in 0..Size - 1 /\ (t - g) % Size = L - n
      /\ \A i \in 1..L - n : (g + i - 1) % Size = (h + n + i - 1) % Size
  BY <1>2, SlotsShrink
<1>4. /\ Stored(q, g, t) \in Seq(Codes) /\ Len(Stored(q, g, t)) = L - n
      /\ \A i \in 1..L - n : Stored(q, g, t)[i] = q[(g + i - 1) % Size]
  <2>1. /\ Stored(q, g, t) \in Seq(Codes) /\ Len(Stored(q, g, t)) = (t - g) % Size
        /\ \A i \in 1..Len(Stored(q, g, t)) : Stored(q, g, t)[i] = q[(g + i - 1) % Size]
    BY <1>3, StoredIs, Zenon
  <2> QED
    BY <1>3, <2>1
<1>5. /\ SubSeq(s, n + 1, L) \in Seq(Codes)
      /\ Len(SubSeq(s, n + 1, L)) = L - n
      /\ \A i \in 1..L - n : SubSeq(s, n + 1, L)[i] = s[n + i]
  <2>1. s \in Seq(Codes) /\ n \in 0..Len(s) /\ Len(s) = L
    BY <1>1, <1>2
  <2>2. /\ SubSeq(s, n + 1, Len(s)) \in Seq(Codes)
        /\ Len(SubSeq(s, n + 1, Len(s))) = Len(s) - n
        /\ \A i \in 1..Len(s) - n : SubSeq(s, n + 1, Len(s))[i] = s[n + i]
    BY <2>1, Rest, Zenon
  <2> QED
    BY <2>1, <2>2
<1>6. ASSUME NEW i \in 1..L - n
      PROVE  Stored(q, g, t)[i] = SubSeq(s, n + 1, L)[i]
  <2>1. n + i \in 1..L /\ h + (n + i) - 1 = h + n + i - 1
    BY <1>1, <1>2, <1>3
  <2>2. s[n + i] = q[(h + n + i - 1) % Size]
    BY <1>1, <2>1
  <2> QED
    BY <1>3, <1>4, <1>5, <2>2
<1> QED
  BY <1>1, <1>4, <1>5, <1>6, SeqEqual

-----------------------------------------------------------------------------
(* The ring and its readers.                                               *)

Places == {"idle", "waiting", "woken", "lineWaiting", "lineWoken"}

RingTypes ==
  /\ keycodeQueueHead \in 0..Size - 1 /\ keycodeQueueTail \in 0..Size - 1
  /\ keycodeQueue \in [0..Size - 1 -> Codes]
  /\ data \in Codes \cup {Released, Beyond}
  /\ at \in [Readers -> Places]

RingInv == RingTypes /\ KeysInOrder /\ ReadersNotForgotten

(* What is in the ring is stored from the head to the tail. *)
LEMMA RingStores ==
  /\ InRing = Stored(keycodeQueue, keycodeQueueHead, keycodeQueueTail)
  /\ InRing' = Stored(keycodeQueue', keycodeQueueHead', keycodeQueueTail')
BY DEF InRing, Stored

(* At first the ring is empty and nobody waits. *)
LEMMA InitRing == Init => RingInv
<1> SUFFICES ASSUME Init PROVE RingInv
  OBVIOUS
<1> USE DEF Init, KbInit
<1>1. RingTypes
  BY Around DEF RingTypes, Codes, KeyCodes, Places
<1>2. KeysInOrder
  <2>1. (0 - 0) % Size = 0
    BY Around
  <2>2. InRing = [i \in 1..0 |-> keycodeQueue[(keycodeQueueHead + i - 1) % Size]]
    BY <2>1 DEF InRing
  <2> QED
    BY <2>2 DEF KeysInOrder
<1>3. ReadersNotForgotten
  BY DEF ReadersNotForgotten
<1> QED
  BY <1>1, <1>2, <1>3 DEF RingInv

(* The handler stores a code, or leaves the ring as it is. *)
LEMMA RingEnqueues ==
  ASSUME RingTypes, KeysInOrder, NEW code \in Codes, enqueueKeycode(code),
         UNCHANGED keycodeQueueHead
  PROVE  /\ KeysInOrder' /\ keycodeQueueTail' \in 0..Size - 1
         /\ keycodeQueue' \in [0..Size - 1 -> Codes]
<1>1. CASE keycodeQueueTail + 1 # keycodeQueueHead
  <2>1. /\ keycodeQueue' = [keycodeQueue EXCEPT ![keycodeQueueTail] = code]
        /\ keycodeQueueTail' = (keycodeQueueTail + 1) % Size
        /\ unread' = Kept(code)
    BY <1>1 DEF enqueueKeycode
  <2>2. keycodeQueue' \in [0..Size - 1 -> Codes]
    BY <2>1 DEF RingTypes
  <2>3. keycodeQueueTail' \in 0..Size - 1
    BY <2>1, Around DEF RingTypes
  <2>4. CASE keycodeQueueTail + 1 = Size /\ keycodeQueueHead = 0
    <3>1. InRing' = Stored(keycodeQueue', 0, (keycodeQueueTail + 1) % Size)
      BY <2>1, <2>4, RingStores
    <3>2. InRing' = <<>>
      BY <2>4, <3>1, StoredOverruns DEF RingTypes
    <3>3. unread' = <<>>
      BY <2>1, <2>4 DEF Kept, Overruns
    <3> QED
      BY <2>2, <2>3, <3>2, <3>3 DEF KeysInOrder
  <2>5. CASE ~(keycodeQueueTail + 1 = Size /\ keycodeQueueHead = 0)
    <3>1. InRing' = Stored([keycodeQueue EXCEPT ![keycodeQueueTail] = code],
                           keycodeQueueHead, (keycodeQueueTail + 1) % Size)
      BY <2>1, RingStores
    <3>2. InRing' = Append(Stored(keycodeQueue, keycodeQueueHead, keycodeQueueTail), code)
      BY <1>1, <2>5, <3>1, StoredGrows DEF RingTypes
    <3>3. unread' = Append(InRing, code)
      BY <2>1, <2>5 DEF Kept, Overruns, KeysInOrder
    <3> QED
      BY <2>2, <2>3, <3>2, <3>3, RingStores DEF KeysInOrder
  <2> QED
    BY <2>4, <2>5
<1>2. CASE ~(keycodeQueueTail + 1 # keycodeQueueHead)
  <2>1. UNCHANGED <<keycodeQueue, keycodeQueueHead, keycodeQueueTail, unread>>
    BY <1>2 DEF enqueueKeycode
  <2> QED
    BY <2>1 DEF RingTypes, KeysInOrder, InRing
<1> QED
  BY <1>1, <1>2

(* A reader takes the first n codes. *)
LEMMA RingDequeues ==
  ASSUME RingTypes, KeysInOrder, NEW n \in 0..Len(InRing), dequeueKeycode(n)
  PROVE  KeysInOrder' /\ keycodeQueueHead' \in 0..Size - 1
<1>1. /\ keycodeQueueHead' = (keycodeQueueHead + n) % Size
      /\ unread' = SubSeq(unread, n + 1, Len(unread))
      /\ UNCHANGED <<keycodeQueue, keycodeQueueTail>>
  BY DEF dequeueKeycode
<1>2. n \in Int
  <2>1. InRing \in Seq(Codes)
    BY RingStores, StoredIs DEF RingTypes
  <2> QED
    BY <2>1, LenProperties
<1>3. keycodeQueueHead' \in 0..Size - 1
  BY <1>1, <1>2, Around DEF RingTypes
<1>4. InRing' = Stored(keycodeQueue, (keycodeQueueHead + n) % Size, keycodeQueueTail)
  BY <1>1, RingStores
<1>5. n \in 0..Len(Stored(keycodeQueue, keycodeQueueHead, keycodeQueueTail))
  BY RingStores
<1>6. Stored(keycodeQueue, (keycodeQueueHead + n) % Size, keycodeQueueTail)
        = SubSeq(Stored(keycodeQueue, keycodeQueueHead, keycodeQueueTail), n + 1,
                 Len(Stored(keycodeQueue, keycodeQueueHead, keycodeQueueTail)))
  BY <1>5, StoredShrinks, Zenon DEF RingTypes
<1> QED
  BY <1>1, <1>3, <1>4, <1>6, RingStores DEF KeysInOrder

(* The ring is empty when it holds no code. *)
LEMMA RingEmpty ==
  ASSUME RingTypes
  PROVE  /\ InRing \in Seq(Codes) /\ Len(InRing) \in Nat
         /\ QueueEmpty <=> Len(InRing) = 0
         /\ (keycodeQueueHead + Len(InRing)) % Size = keycodeQueueTail
<1> SUFFICES ASSUME NEW L, L = (keycodeQueueTail - keycodeQueueHead) % Size
             PROVE  /\ InRing \in Seq(Codes) /\ Len(InRing) = L /\ L \in Nat
                    /\ QueueEmpty <=> L = 0
                    /\ (keycodeQueueHead + L) % Size = keycodeQueueTail
  OBVIOUS
<1>1. InRing \in Seq(Codes) /\ Len(InRing) = L
  <2>1. /\ Stored(keycodeQueue, keycodeQueueHead, keycodeQueueTail) \in Seq(Codes)
        /\ Len(Stored(keycodeQueue, keycodeQueueHead, keycodeQueueTail))
             = (keycodeQueueTail - keycodeQueueHead) % Size
    BY StoredIs, Zenon DEF RingTypes
  <2> QED
    BY <2>1, RingStores
<1>2. /\ L \in 0..Size - 1 /\ (L = 0 <=> keycodeQueueHead = keycodeQueueTail)
      /\ (keycodeQueueHead + L) % Size = keycodeQueueTail
  <2>1. keycodeQueueHead \in 0..Size - 1 /\ keycodeQueueTail \in 0..Size - 1
    BY DEF RingTypes
  <2> QED
    BY <2>1, SlotsUsed
<1>3. L \in Nat
  BY <1>1, LenProperties
<1> QED
  BY <1>1, <1>2, <1>3 DEF QueueEmpty

(* The least of some numbers. *)
LEMMA LeastOne ==
  ASSUME NEW S \in SUBSET Nat, S # {}
  PROVE  \E i \in S : \A j \in S : i <= j
<1>1. PICK i \in S : \A j \in S : <<j, i>> \notin OpToRel(<, Nat)
  BY WFMin, NatLessThanWellFounded, Zenon
<1>2. \A j \in S : ~(j < i)
  BY <1>1, Zenon DEF OpToRel
<1> QED
  BY <1>2

(* getLine() takes a line and returns, or takes all there is and waits. *)
LEMMA RingTakesLine ==
  ASSUME RingInv, NEW t \in Readers, NEW line, takeLine(t, line),
         at[t] \notin {"waiting", "lineWaiting"}, UNCHANGED data
  PROVE  RingInv'
<1> DEFINE ends == {i \in DOMAIN InRing : InRing[i] = Enter}
           n    == IF ends = {} THEN Len(InRing)
                   ELSE CHOOSE i \in ends : \A j \in ends : i <= j
<1>1. RingTypes /\ KeysInOrder /\ ReadersNotForgotten
  BY DEF RingInv
<1>2. /\ InRing \in Seq(Codes) /\ Len(InRing) \in Nat /\ DOMAIN InRing = 1..Len(InRing)
      /\ QueueEmpty <=> Len(InRing) = 0
      /\ (keycodeQueueHead + Len(InRing)) % Size = keycodeQueueTail
  BY <1>1, RingEmpty, LenProperties
<1>3. /\ dequeueKeycode(n)
      /\ IF ends = {} THEN wait(t, "lineWaiting") ELSE returns(t)
  BY DEF takeLine
<1>4. n \in 0..Len(InRing)
  <2>1. CASE ends = {}
    BY <1>2, <2>1
  <2>2. CASE ends # {}
    <3>1. ends \in SUBSET Nat /\ ends \subseteq 1..Len(InRing)
      BY <1>2
    <3>2. \E i \in ends : \A j \in ends : i <= j
      BY <2>2, <3>1, LeastOne
    <3>3. n \in ends
      BY <2>2, <3>2
    <3> QED
      BY <1>2, <3>1, <3>3
  <2> QED
    BY <2>1, <2>2
<1>5. KeysInOrder' /\ keycodeQueueHead' \in 0..Size - 1
  BY <1>1, <1>3, <1>4, RingDequeues
<1>6. /\ keycodeQueueHead' = (keycodeQueueHead + n) % Size
      /\ UNCHANGED <<keycodeQueue, keycodeQueueTail>>
  BY <1>3 DEF dequeueKeycode
<1>7. CASE ends = {}
  <2>1. /\ keycodeWaitQueue' = keycodeWaitQueue \cup {t}
        /\ at' = [at EXCEPT ![t] = "lineWaiting"]
    BY <1>3, <1>7 DEF wait
  <2>2. QueueEmpty'
    BY <1>2, <1>6, <1>7 DEF QueueEmpty
  <2>3. ReadersNotForgotten'
    BY <1>1, <2>1, <2>2 DEF RingTypes, ReadersNotForgotten
  <2>4. RingTypes'
    BY <1>1, <1>5, <1>6, <2>1 DEF RingTypes, Places
  <2> QED
    BY <1>5, <2>3, <2>4 DEF RingInv
<1>8. CASE ends # {}
  <2>1. at' = [at EXCEPT ![t] = "idle"] /\ keycodeWaitQueue' = keycodeWaitQueue
    BY <1>3, <1>8 DEF returns
  <2>2. keycodeWaitQueue = {}
    <3>1. ~QueueEmpty
      BY <1>2, <1>8
    <3> QED
      BY <1>1, <3>1 DEF ReadersNotForgotten
  <2>3. ReadersNotForgotten'
    BY <1>1, <2>1, <2>2 DEF RingTypes, ReadersNotForgotten
  <2>4. RingTypes'
    BY <1>1, <1>5, <1>6, <2>1 DEF RingTypes, Places
  <2> QED
    BY <1>5, <2>3, <2>4 DEF RingInv
<1> QED
  BY <1>7, <1>8

(* A reader that leaves the ring alone. *)
LEMMA RingReturns ==
  ASSUME RingInv, NEW t \in Readers, at[t] \notin {"waiting", "lineWaiting"}, returns(t),
         UNCHANGED <<data, ring, unread>>
  PROVE  RingInv'
<1>1. at' = [at EXCEPT ![t] = "idle"] /\ keycodeWaitQueue' = keycodeWaitQueue
  BY DEF returns
<1>2. /\ keycodeQueue' = keycodeQueue /\ keycodeQueueHead' = keycodeQueueHead
      /\ keycodeQueueTail' = keycodeQueueTail /\ data' = data /\ unread' = unread
  BY DEF ring
<1>3. RingTypes'
  BY <1>1, <1>2 DEF RingInv, RingTypes, Places
<1>4. KeysInOrder'
  BY <1>2 DEF RingInv, KeysInOrder, InRing
<1>5. ReadersNotForgotten'
  BY <1>1, <1>2 DEF RingInv, RingTypes, ReadersNotForgotten, QueueEmpty
<1> QED
  BY <1>3, <1>4, <1>5 DEF RingInv

(* The threads that read keys. *)
LEMMA RingIsRead ==
  ASSUME RingInv, readKeys
  PROVE  RingInv'
<1>1. PICK t \in Readers : waitForKey(t) \/ getLine(t) \/ getLineResumes(t)
  BY DEF readKeys
<1>2. CASE waitForKey(t)
  <2>1. at[t] \notin {"waiting", "lineWaiting"} /\ data' = data
    BY <1>2 DEF waitForKey
  <2>2. CASE QueueEmpty
    <3>1. /\ keycodeWaitQueue' = keycodeWaitQueue \cup {t}
          /\ at' = [at EXCEPT ![t] = "waiting"]
          /\ keycodeQueue' = keycodeQueue /\ keycodeQueueHead' = keycodeQueueHead
          /\ keycodeQueueTail' = keycodeQueueTail /\ unread' = unread
      BY <1>2, <2>2 DEF waitForKey, wait, ring
    <3>2. RingTypes'
      BY <2>1, <3>1 DEF RingInv, RingTypes, Places
    <3>3. KeysInOrder'
      BY <3>1 DEF RingInv, KeysInOrder, InRing
    <3>4. ReadersNotForgotten'
      BY <2>2, <3>1 DEF RingInv, RingTypes, ReadersNotForgotten, QueueEmpty
    <3> QED
      BY <3>2, <3>3, <3>4 DEF RingInv
  <2>3. CASE ~QueueEmpty
    <3>1. dequeueKeycode(1) /\ returns(t)
      BY <1>2, <2>3 DEF waitForKey
    <3>2. 1 \in 0..Len(InRing)
      BY <2>3, RingEmpty DEF RingInv
    <3>3. KeysInOrder' /\ keycodeQueueHead' \in 0..Size - 1
      BY <3>1, <3>2, RingDequeues DEF RingInv
    <3>4. /\ at' = [at EXCEPT ![t] = "idle"] /\ keycodeWaitQueue' = keycodeWaitQueue
          /\ keycodeQueue' = keycodeQueue /\ keycodeQueueTail' = keycodeQueueTail
      BY <3>1 DEF returns, dequeueKeycode
    <3>5. RingTypes'
      BY <2>1, <3>3, <3>4 DEF RingInv, RingTypes, Places
    <3>6. ReadersNotForgotten'
      BY <2>3, <2>1, <3>4 DEF RingInv, RingTypes, ReadersNotForgotten
    <3> QED
      BY <3>3, <3>5, <3>6 DEF RingInv
  <2> QED
    BY <2>2, <2>3
<1>3. CASE getLine(t)
  BY <1>3, RingTakesLine DEF getLine
<1>4. CASE getLineResumes(t)
  <2>1. at[t] \notin {"waiting", "lineWaiting"} /\ data' = data
    BY <1>4 DEF getLineResumes
  <2>2. CASE kc[t] = Enter
    BY <1>4, <2>1, <2>2, RingReturns DEF getLineResumes
  <2>3. CASE kc[t] # Enter
    <3>1. takeLine(t, buff[t])
      BY <1>4, <2>3 DEF getLineResumes
    <3> QED
      BY <2>1, <3>1, RingTakesLine
  <2> QED
    BY <2>2, <2>3
<1> QED
  BY <1>1, <1>2, <1>3, <1>4

(* The handler of the keyboard: the code is stored, all who wait are woken. *)
LEMMA RingIsFilled ==
  ASSUME RingInv, keyboardHandler
  PROVE  RingInv'
<1>1. data' = Empty /\ keycodeQueueHead' = keycodeQueueHead
  BY DEF keyboardHandler
<1>2. CASE data = Released
  <2>1. UNCHANGED <<unread, at, keycodeWaitQueue, keycodeQueue, keycodeQueueTail>>
    BY <1>2 DEF keyboardHandler
  <2>2. RingTypes'
    BY <1>1, <2>1 DEF RingInv, RingTypes, Codes
  <2>3. KeysInOrder'
    BY <1>1, <2>1 DEF RingInv, KeysInOrder, InRing
  <2>4. ReadersNotForgotten'
    BY <1>1, <2>1 DEF RingInv, ReadersNotForgotten, QueueEmpty
  <2> QED
    BY <2>2, <2>3, <2>4 DEF RingInv
<1>3. CASE data # Released
  <2>1. PICK code \in kdbus(data) : enqueueKeycode(code)
    BY <1>3 DEF keyboardHandler
  <2>2. code \in Codes
    BY <1>3, <2>1 DEF RingInv, RingTypes, kdbus, Codes
  <2>3. /\ KeysInOrder' /\ keycodeQueueTail' \in 0..Size - 1
        /\ keycodeQueue' \in [0..Size - 1 -> Codes]
    BY <1>1, <2>1, <2>2, RingEnqueues DEF RingInv
  <2>4. /\ keycodeWaitQueue' = {}
        /\ at' = [t \in Readers |->
                    IF t \in keycodeWaitQueue THEN Woken[at[t]] ELSE at[t]]
    BY <1>3 DEF keyboardHandler, wakeReaders
  <2>5. keycodeWaitQueue = {t \in Readers : at[t] \in {"waiting", "lineWaiting"}}
    BY DEF RingInv, ReadersNotForgotten
  <2>6. Woken["waiting"] = "woken" /\ Woken["lineWaiting"] = "lineWoken"
    BY DEF Woken
  <2>7. ASSUME NEW t \in Readers
        PROVE  at'[t] \in Places \ {"waiting", "lineWaiting"}
    <3>1. CASE at[t] = "waiting"
      BY <2>4, <2>5, <2>6, <3>1 DEF Places
    <3>2. CASE at[t] = "lineWaiting"
      BY <2>4, <2>5, <2>6, <3>2 DEF Places
    <3>3. CASE at[t] \notin {"waiting", "lineWaiting"}
      BY <2>4, <2>5, <3>3 DEF RingInv, RingTypes, Places
    <3> QED
      BY <3>1, <3>2, <3>3
  <2>8. at' \in [Readers -> Places]
    BY <2>4, <2>7
  <2>9. RingTypes'
    BY <1>1, <2>3, <2>8 DEF RingInv, RingTypes, Codes
  <2>10. ReadersNotForgotten'
    BY <2>4, <2>7 DEF ReadersNotForgotten
  <2> QED
    BY <2>3, <2>9, <2>10 DEF RingInv
<1> QED
  BY <1>2, <1>3

(* A step that leaves the ring and the readers alone. *)
LEMMA RingStays ==
  ASSUME RingInv, data' \in Codes \cup {Released, Beyond},
         UNCHANGED <<ring, keycodeWaitQueue, at, unread>>
  PROVE  RingInv'
<1>1. /\ keycodeQueue' = keycodeQueue /\ keycodeQueueHead' = keycodeQueueHead
      /\ keycodeQueueTail' = keycodeQueueTail /\ keycodeWaitQueue' = keycodeWaitQueue
      /\ at' = at /\ unread' = unread
  BY DEF ring
<1>2. RingTypes'
  BY <1>1 DEF RingInv, RingTypes
<1>3. KeysInOrder'
  BY <1>1 DEF RingInv, KeysInOrder, InRing
<1>4. ReadersNotForgotten'
  BY <1>1 DEF RingInv, ReadersNotForgotten, QueueEmpty
<1> QED
  BY <1>2, <1>3, <1>4 DEF RingInv

(* Every step of the kernel and of the devices. *)
LEMMA NextRing ==
  ASSUME RingInv, [Next]_vars
  PROVE  RingInv'
<1>1. CASE keyboardHandler
  BY <1>1, RingIsFilled
<1>2. CASE readKeys
  BY <1>2, RingIsRead
<1>3. CASE keystroke
  <2>1. data' \in Codes \cup {Released, Beyond}
        /\ UNCHANGED <<ring, keycodeWaitQueue, at, unread>>
    BY <1>3 DEF keystroke, Codes
  <2> QED
    BY <2>1, RingStays
<1>4. CASE UNCHANGED kbVars
  <2>1. data' \in Codes \cup {Released, Beyond}
        /\ UNCHANGED <<ring, keycodeWaitQueue, at, unread>>
    BY <1>4 DEF kbVars, RingInv, RingTypes
  <2> QED
    BY <2>1, RingStays
<1>5. CASE kMain
  BY <1>4, <1>5 DEF kMain
<1> QED
  BY <1>1, <1>2, <1>3, <1>4, <1>5 DEF Next, devices, kernel, vars

(***************************************************************************)
(* The ring is a queue of the codes that were typed, and its wait queue    *)
(* holds the threads that wait, for any size of the ring.                  *)
(***************************************************************************)
THEOREM RingInvariance == Spec => []RingInv
<1>1. Init => RingInv
  BY InitRing
<1>2. RingInv /\ [Next]_vars => RingInv'
  BY NextRing
<1> QED
  BY <1>1, <1>2, PTL DEF Spec

(* No key is lost, doubled or overtaken, but when the ring gets full with  *)
(* its head at 0.                                                          *)
THEOREM RingIsQueue == Spec => []KeysInOrder
<1>1. RingInv => KeysInOrder
  BY DEF RingInv
<1> QED
  BY <1>1, RingInvariance, PTL

(* Nobody waits for a key that is there. *)
THEOREM ReadersRemembered == Spec => []ReadersNotForgotten
<1>1. RingInv => ReadersNotForgotten
  BY DEF RingInv
<1> QED
  BY <1>1, RingInvariance, PTL

-----------------------------------------------------------------------------
(* Lines.  First what editing does to one.                                 *)

IsLetters(line) == line \in Seq(KeyCodes) /\ \A j \in 1..Len(line) : line[j] = Letter

(* A line with its newline, or none. *)
IsFinished(line) ==
  /\ line \in Seq(KeyCodes)
  /\ \A j \in 1..Len(line) : line[j] = Letter \/ (line[j] = Enter /\ j = Len(line))
  /\ Len(line) > 0 => line[Len(line)] = Enter

LEMMA NoLine == IsLetters(<<>>) /\ IsFinished(<<>>)
BY DEF IsLetters, IsFinished

(* A code is added at the end. *)
LEMMA Added ==
  ASSUME NEW line, IsLetters(line), NEW code \in KeyCodes
  PROVE  /\ Append(line, code) \in Seq(KeyCodes)
         /\ Len(Append(line, code)) = Len(line) + 1
         /\ Append(line, code)[Len(line) + 1] = code
         /\ \A j \in 1..Len(line) : Append(line, code)[j] = Letter
         /\ Len(line) \in Nat
<1>1. line \in Seq(KeyCodes)
  BY DEF IsLetters
<1>2. /\ Append(line, code) \in Seq(KeyCodes)
      /\ Len(Append(line, code)) = Len(line) + 1
      /\ \A j \in 1..Len(line) : Append(line, code)[j] = line[j]
      /\ Append(line, code)[Len(line) + 1] = code
  BY <1>1, AppendProperties
<1> QED
  BY <1>1, <1>2, LenProperties DEF IsLetters

(* Letters stay letters until a newline comes. *)
LEMMA EditedLetters ==
  ASSUME NEW line, IsLetters(line), NEW code \in KeyCodes, code # Enter
  PROVE  IsLetters(Edited(line, code))
<1>0. line \in Seq(KeyCodes)
  BY DEF IsLetters
<1>1. CASE code = Unmapped
  BY <1>1 DEF Edited, Unmapped, Backspace
<1>2. CASE code = Backspace
  <2>1. code # Unmapped
    BY <1>2 DEF Backspace, Unmapped
  <2>2. CASE line = <<>>
    BY <1>2, <2>1, <2>2 DEF Edited
  <2>3. CASE line # <<>>
    <3>1. Edited(line, code) = SubSeq(line, 1, Len(line) - 1)
      BY <1>2, <2>1, <2>3 DEF Edited, Front
    <3>2. Len(line) \in Nat /\ Len(line) # 0
      BY <1>0, <2>3, LenProperties, EmptySeq
    <3>3. /\ 1 \in Int /\ Len(line) - 1 \in Int
          /\ \A i \in 1..(Len(line) - 1) : line[i] \in KeyCodes
      <4>1. \A i \in 1..Len(line) : line[i] \in KeyCodes
        BY <1>0, ElementOfSeq
      <4> QED
        BY <3>2, <4>1
    <3>4. /\ SubSeq(line, 1, Len(line) - 1) \in Seq(KeyCodes)
          /\ Len(SubSeq(line, 1, Len(line) - 1))
               = IF 1 <= Len(line) - 1 THEN Len(line) - 1 - 1 + 1 ELSE 0
          /\ \A i \in 1..(Len(line) - 1 - 1 + 1) :
               SubSeq(line, 1, Len(line) - 1)[i] = line[1 + i - 1]
      BY <3>3, SubSeqProperties
    <3>5. \A i \in 1..(Len(line) - 1) :
            i \in 1..Len(line) /\ SubSeq(line, 1, Len(line) - 1)[i] = line[i]
      BY <3>2, <3>4
    <3>6. Len(SubSeq(line, 1, Len(line) - 1)) = Len(line) - 1
      <4>1. \A m \in Nat : m # 0 => (IF 1 <= m - 1 THEN m - 1 - 1 + 1 ELSE 0) = m - 1
        OBVIOUS
      <4>2. (IF 1 <= Len(line) - 1 THEN Len(line) - 1 - 1 + 1 ELSE 0) = Len(line) - 1
        BY <3>2, <4>1, Zenon
      <4> QED
        BY <3>4, <4>2
    <3> QED
      BY <3>1, <3>4, <3>5, <3>6 DEF IsLetters
  <2> QED
    BY <2>2, <2>3
<1>3. CASE code = Letter
  <2>1. Edited(line, code) = Append(line, code)
    BY <1>3 DEF Edited, Letter, Unmapped, Backspace
  <2>2. ASSUME NEW j \in 1..(Len(line) + 1) PROVE Append(line, code)[j] = Letter
    <3>1. j \in 1..Len(line) \/ j = Len(line) + 1
      BY Added
    <3> QED
      BY <1>3, <3>1, Added
  <2> QED
    BY <2>1, <2>2, Added DEF IsLetters
<1> QED
  BY <1>1, <1>2, <1>3 DEF KeyCodes

(* The newline finishes the line. *)
LEMMA EditedFinished ==
  ASSUME NEW line, IsLetters(line)
  PROVE  IsFinished(Edited(line, Enter))
<1>1. Edited(line, Enter) = Append(line, Enter) /\ Enter \in KeyCodes
  BY DEF Edited, Enter, Unmapped, Backspace, KeyCodes
<1>2. ASSUME NEW j \in 1..(Len(line) + 1)
      PROVE  \/ Append(line, Enter)[j] = Letter
             \/ Append(line, Enter)[j] = Enter /\ j = Len(line) + 1
  <2>1. j \in 1..Len(line) \/ j = Len(line) + 1
    BY <1>1, Added
  <2> QED
    BY <1>1, <2>1, Added
<1> QED
  BY <1>1, <1>2, Added DEF IsFinished

(* Editing goes from code to code. *)
LEMMA TypedSteps ==
  ASSUME NEW line, NEW codes, NEW n \in Nat
  PROVE  \E f : /\ Typed(line, codes, n) = f[n] /\ f[0] = line
                /\ \A k \in 1..n : f[k] = Edited(f[k - 1], codes[k])
<1> DEFINE After(f, k) == IF k = 0 THEN line ELSE Edited(f[k - 1], codes[k])
           Defined(k) == \E f : f = [j \in 0..k |-> After(f, j)]
           Bad == {k \in 0..n : ~Defined(k)}
<1>1. Defined(n)
  <2>1. CASE Bad # {}
    <3>1. PICK k \in Bad : \A j \in Bad : k <= j
      <4>1. Bad \in SUBSET Nat
        OBVIOUS
      <4> HIDE DEF Bad
      <4> QED
        BY <2>1, <4>1, LeastOne
    <3>2. k \in 0..n /\ ~Defined(k)
      OBVIOUS
    <3>3. CASE k = 0
      <4> DEFINE g == [j \in 0..0 |-> line]
      <4>1. g = [j \in 0..0 |-> After(g, j)]
        OBVIOUS
      <4> QED
        BY <3>2, <3>3, <4>1
    <3>4. CASE k # 0
      <4>1. k - 1 \in 0..n /\ ~(k <= k - 1)
        BY <3>2, <3>4
      <4>2. Defined(k - 1)
        BY <3>1, <4>1
      <4>3. PICK f : f = [j \in 0..(k - 1) |-> After(f, j)]
        BY <4>2
      <4> DEFINE g == [j \in 0..k |-> IF j < k THEN f[j] ELSE Edited(f[k - 1], codes[k])]
      <4>4. ASSUME NEW j \in 0..k PROVE g[j] = After(g, j)
        <5>1. CASE j = 0
          <6>1. f[0] = line /\ g[0] = f[0]
            BY <3>2, <3>4, <4>3
          <6> QED
            BY <5>1, <6>1
        <5>2. CASE j # 0
          <6>1. g[j - 1] = f[j - 1]
            BY <3>2, <5>2
          <6>2. g[j] = Edited(f[j - 1], codes[j])
            <7>1. CASE j < k
              <8>1. j \in 0..(k - 1) /\ f[j] = After(f, j)
                BY <3>2, <4>3, <7>1
              <8> QED
                BY <5>2, <7>1, <8>1
            <7>2. CASE j = k
              BY <3>2, <7>2
            <7> QED
              BY <3>2, <7>1, <7>2
          <6> QED
            BY <5>2, <6>1, <6>2
        <5> QED
          BY <5>1, <5>2
      <4>5. g = [j \in 0..k |-> After(g, j)]
        <5>1. g = [j \in 0..k |-> g[j]]
          OBVIOUS
        <5> HIDE DEF g, After
        <5> QED
          BY <4>4, <5>1
      <4> QED
        BY <3>2, <4>5
    <3> QED
      BY <3>3, <3>4
  <2>2. CASE Bad = {}
    BY <2>2
  <2> QED
    BY <2>1, <2>2
<1> DEFINE c == CHOOSE f : f = [j \in 0..n |-> After(f, j)]
<1>2. Typed(line, codes, n) = c[n]
  BY DEF Typed
<1>3. c = [j \in 0..n |-> After(c, j)]
  BY <1>1
<1> HIDE DEF c
<1>4. c[0] = line
  BY <1>3
<1>5. \A k \in 1..n : c[k] = Edited(c[k - 1], codes[k])
  <2> SUFFICES ASSUME NEW k \in 1..n PROVE c[k] = Edited(c[k - 1], codes[k])
    OBVIOUS
  <2>1. k \in 0..n /\ k # 0
    OBVIOUS
  <2> QED
    BY <1>3, <2>1
<1> QED
  BY <1>2, <1>4, <1>5

(* As long as no newline comes. *)
LEMMA StillLetters ==
  ASSUME NEW f, IsLetters(f[0]), NEW codes, NEW n \in Nat,
         \A k \in 1..n : f[k] = Edited(f[k - 1], codes[k]) /\ codes[k] \in KeyCodes \ {Enter}
  PROVE  IsLetters(f[n])
<1> DEFINE Bad == {k \in 0..n : ~IsLetters(f[k])}
<1>1. CASE Bad # {}
  <2>1. PICK k \in Bad : \A j \in Bad : k <= j
    <3>1. Bad \in SUBSET Nat
      OBVIOUS
    <3> HIDE DEF Bad
    <3> QED
      BY <1>1, <3>1, LeastOne
  <2>2. k \in 0..n /\ ~IsLetters(f[k])
    OBVIOUS
  <2>3. k - 1 \in 0..n /\ ~(k <= k - 1) /\ k \in 1..n
    BY <2>2
  <2>4. IsLetters(f[k - 1])
    BY <2>1, <2>3
  <2>5. f[k] = Edited(f[k - 1], codes[k]) /\ codes[k] \in KeyCodes /\ codes[k] # Enter
    BY <2>3
  <2>6. IsLetters(f[k])
    BY <2>4, <2>5, EditedLetters
  <2> QED
    BY <2>2, <2>6
<1>2. CASE Bad = {}
  BY <1>2
<1> QED
  BY <1>1, <1>2

(* The codes up to the newline, and the newline after them. *)
LEMMA TypedLine ==
  ASSUME NEW line, IsLetters(line), NEW codes, NEW n \in Nat
  PROVE  /\ (\A k \in 1..n : codes[k] \in KeyCodes \ {Enter}) => IsLetters(Typed(line, codes, n))
         /\ n # 0 /\ (\A k \in 1..(n - 1) : codes[k] \in KeyCodes \ {Enter}) /\ codes[n] = Enter
              => IsFinished(Typed(line, codes, n))
<1>1. PICK f : /\ Typed(line, codes, n) = f[n] /\ f[0] = line
               /\ \A k \in 1..n : f[k] = Edited(f[k - 1], codes[k])
  BY TypedSteps
<1>2. ASSUME \A k \in 1..n : codes[k] \in KeyCodes \ {Enter}
      PROVE  IsLetters(Typed(line, codes, n))
  BY <1>1, <1>2, StillLetters
<1>3. ASSUME n # 0, \A k \in 1..(n - 1) : codes[k] \in KeyCodes \ {Enter}, codes[n] = Enter
      PROVE  IsFinished(Typed(line, codes, n))
  <2>1. n - 1 \in Nat /\ n \in 1..n /\ \A k \in 1..(n - 1) : k \in 1..n
    BY <1>3
  <2>2. IsLetters(f[n - 1])
    BY <1>1, <1>3, <2>1, StillLetters
  <2>3. Typed(line, codes, n) = Edited(f[n - 1], Enter)
    BY <1>1, <1>3, <2>1
  <2> QED
    BY <2>2, <2>3, EditedFinished
<1> QED
  BY <1>2, <1>3

-----------------------------------------------------------------------------
(* The ring has key codes only: the handler runs when there is a byte.     *)

CodesInv ==
  /\ keycodeQueue \in [0..Size - 1 -> KeyCodes]
  /\ data \in KeyCodes \cup {Released, Beyond, Empty}
  /\ KEYBOARD \in requested \/ irq = KEYBOARD => data # Empty
  /\ irq = KEYBOARD => KEYBOARD \notin requested

LEMMA InitCodes == Init => CodesInv
<1> SUFFICES ASSUME Init PROVE CodesInv
  OBVIOUS
<1>1. keycodeQueue = [i \in 0..(Size - 1) |-> Unmapped] /\ data = Empty
  BY DEF Init, KbInit
<1>2. requested = {} /\ irq = NoIrq
  BY DEF Init, IrqInit
<1> QED
  BY <1>1, <1>2 DEF CodesInv, KeyCodes

(* A step that leaves the ring and the byte alone. *)
LEMMA SameCodes ==
  ASSUME CodesInv, UNCHANGED <<keycodeQueue, data>>,
         /\ KEYBOARD \in requested' => KEYBOARD \in requested
         /\ irq' = KEYBOARD => KEYBOARD \in requested \/ irq = KEYBOARD
         /\ irq' = KEYBOARD => KEYBOARD \notin requested'
  PROVE  CodesInv'
BY DEF CodesInv

(* The handler puts a key code into the ring and takes the byte. *)
LEMMA CodesHandled ==
  ASSUME PicInv, RingInv, CodesInv, keyboardHandler
  PROVE  CodesInv'
<1>1. irq = KEYBOARD /\ irq' = NoIrq /\ requested' = requested /\ data' = Empty
  BY DEF keyboardHandler, baseIrqHandler, PicInv, Programmed, Progress
<1>2. data # Empty /\ KEYBOARD \notin requested
  BY <1>1 DEF CodesInv
<1>3. keycodeQueue' \in [0..Size - 1 -> KeyCodes]
  <2>1. CASE data = Released
    BY <2>1 DEF keyboardHandler, CodesInv
  <2>2. CASE data # Released
    <3>1. PICK code \in kdbus(data) : enqueueKeycode(code)
      BY <2>2 DEF keyboardHandler
    <3>2. code \in KeyCodes
      BY <1>2, <2>2, <3>1 DEF CodesInv, kdbus
    <3>3. keycodeQueue' = keycodeQueue
            \/ keycodeQueue' = [keycodeQueue EXCEPT ![keycodeQueueTail] = code]
      BY <3>1 DEF enqueueKeycode
    <3> QED
      BY <3>2, <3>3 DEF CodesInv
  <2> QED
    BY <2>1, <2>2
<1> QED
  BY <1>1, <1>2, <1>3 DEF CodesInv

(* Every step of the kernel and of the devices. *)
LEMMA NextCodes ==
  ASSUME PicInv, RingInv, CodesInv, [Next]_vars
  PROVE  CodesInv'
<1> USE DEF kbVars, ring
<1>1. CASE kMain
  <2>1. irq' = irq /\ requested' \subseteq requested /\ UNCHANGED <<keycodeQueue, data>>
    BY <1>1 DEF kMain, irqInit
  <2> QED
    BY <2>1, SameCodes DEF CodesInv
<1>2. CASE controller /\ UNCHANGED <<kbVars, rtcVars, booted>>
  <2>1. CASE interrupt
    <3>1. irq' \in requested /\ requested' = requested \ {irq'}
      BY <2>1 DEF interrupt, First, Deliverable
    <3> QED
      BY <1>2, <3>1, SameCodes DEF CodesInv
  <2>2. CASE \E i \in IRQS : spurious(i)
    <3>1. irq' # KEYBOARD /\ requested' = requested
      BY <2>2 DEF spurious
    <3> QED
      BY <1>2, <3>1, SameCodes
  <2>3. CASE noHandler
    <3>1. irq' # KEYBOARD /\ requested' = requested
      BY <2>3 DEF noHandler, baseIrqHandler
    <3> QED
      BY <1>2, <3>1, SameCodes
  <2> QED
    BY <1>2, <2>1, <2>2, <2>3 DEF controller
<1>3. CASE keyboardHandler
  BY <1>3, CodesHandled
<1>4. CASE rtcHandler /\ UNCHANGED <<kbVars, booted>>
  <2>1. irq' # KEYBOARD /\ requested' = requested
    BY <1>4 DEF rtcHandler, baseIrqHandler
  <2> QED
    BY <1>4, <2>1, SameCodes
<1>5. CASE rtcInit /\ UNCHANGED <<kbVars, booted>>
  <2>1. irq' = irq /\ requested' \subseteq requested \cup {RTC}
    BY <1>5 DEF rtcInit
  <2> QED
    BY <1>5, <2>1, SameCodes DEF CodesInv
<1>6. CASE readKeys
  <2>1. UNCHANGED <<irq, requested, data, keycodeQueue>>
    BY <1>6 DEF readKeys, waitForKey, getLine, getLineResumes, takeLine, dequeueKeycode, irqVars
  <2> QED
    BY <2>1, SameCodes DEF CodesInv
<1>7. CASE keystroke
  <2>1. /\ irq' = irq /\ data = Empty /\ keycodeQueue' = keycodeQueue
        /\ data' \in KeyCodes \cup {Released, Beyond}
    BY <1>7 DEF keystroke
  <2>2. data' # Empty
    BY <2>1 DEF KeyCodes, Released, Beyond, Empty, Enter, Backspace, Unmapped, Letter
  <2> QED
    BY <2>1, <2>2 DEF CodesInv
<1>8. CASE clockTicks /\ UNCHANGED <<kbVars, booted>>
  <2>1. irq' = irq /\ requested' \subseteq requested \cup {RTC}
    BY <1>8 DEF clockTicks, Request
  <2> QED
    BY <1>8, <2>1, SameCodes DEF CodesInv
<1>9. CASE UNCHANGED <<irq, requested, data, keycodeQueue>>
  BY <1>9, SameCodes DEF CodesInv
<1> QED
  BY <1>1, <1>2, <1>3, <1>4, <1>5, <1>6, <1>7, <1>8, <1>9
  DEF Next, devices, kernel, secondPasses, dateTimeCopies, vars, irqVars

-----------------------------------------------------------------------------
(* The lines.  While getLine() waits for more, its line has letters only;  *)
(* a newline that kc holds by chance has come before any of them.          *)

ReadsLine(t) == at[t] \in {"lineWaiting", "lineWoken"}

LineFor(t) ==
  /\ ReadsLine(t) => IsLetters(buff[t]) /\ (kc[t] = Enter => buff[t] = <<>>)
  /\ ~ReadsLine(t) => IsFinished(buff[t])

LineInv ==
  /\ buff = [t \in Readers |-> buff[t]] /\ kc = [t \in Readers |-> kc[t]]
  /\ \A t \in Readers : LineFor(t)

(* A step of one reader. *)
LEMMA OneLine ==
  ASSUME RingInv, LineInv, NEW t \in Readers, LineFor(t)',
         at' = [at EXCEPT ![t] = at'[t]], buff' = [buff EXCEPT ![t] = buff'[t]],
         kc' = [kc EXCEPT ![t] = kc'[t]]
  PROVE  LineInv'
<1>1. ASSUME NEW u \in Readers, u # t PROVE LineFor(u)'
  <2>1. at'[u] = at[u] /\ buff'[u] = buff[u] /\ kc'[u] = kc[u]
    BY <1>1 DEF RingInv, RingTypes, LineInv
  <2> QED
    BY <2>1 DEF LineInv, LineFor, ReadsLine
<1>2. buff' = [u \in Readers |-> buff'[u]] /\ kc' = [u \in Readers |-> kc'[u]]
  BY DEF LineInv
<1> QED
  BY <1>1, <1>2 DEF LineInv

(* getLine() goes on with the letters that it has, as far as there are codes. *)
LEMMA LineTaken ==
  ASSUME RingInv, CodesInv, NEW t \in Readers, NEW line, IsLetters(line), takeLine(t, line),
         buff' = [buff EXCEPT ![t] = buff'[t]], t \in DOMAIN buff,
         kc'[t] = Enter => line = <<>> /\ QueueEmpty
  PROVE  LineFor(t)' /\ at' = [at EXCEPT ![t] = at'[t]]
<1> DEFINE L == Len(InRing)
           ends == {i \in DOMAIN InRing : InRing[i] = Enter}
           n    == IF ends = {} THEN L ELSE CHOOSE i \in ends : \A j \in ends : i <= j
<1>1. /\ InRing \in Seq(Codes) /\ L \in Nat /\ DOMAIN InRing = 1..L
      /\ QueueEmpty <=> L = 0
  BY RingEmpty, LenProperties DEF RingInv
<1>2. \A k \in 1..L : InRing[k] \in KeyCodes
  <2>1. \A k \in 1..L : InRing[k] = keycodeQueue[(keycodeQueueHead + k - 1) % Size]
    BY <1>1 DEF InRing
  <2>2. \A k \in 1..L : (keycodeQueueHead + k - 1) % Size \in 0..Size - 1
    BY <1>1, Around DEF RingInv, RingTypes
  <2> HIDE DEF L
  <2> QED
    BY <2>1, <2>2 DEF CodesInv
<1>3. /\ buff'[t] = Typed(line, InRing, n)
      /\ IF ends = {} THEN wait(t, "lineWaiting") ELSE returns(t)
  BY DEF takeLine
<1>4. CASE ends = {}
  <2>1. n = L /\ \A k \in 1..n : InRing[k] \in KeyCodes \ {Enter}
    BY <1>1, <1>2, <1>4
  <2>2. at' = [at EXCEPT ![t] = "lineWaiting"]
    BY <1>3, <1>4 DEF wait
  <2>3. at'[t] = "lineWaiting"
    BY <2>2 DEF RingInv, RingTypes
  <2> HIDE DEF n, L, ends
  <2>4. IsLetters(buff'[t])
    BY <1>1, <1>3, <2>1, TypedLine
  <2>5. line = <<>> /\ L = 0 => buff'[t] = <<>>
    <3>1. ASSUME line = <<>>, L = 0 PROVE Typed(line, InRing, n) = <<>>
      BY <2>1, <3>1, TypedSteps
    <3> QED
      BY <1>3, <3>1
  <2>6. kc'[t] = Enter => buff'[t] = <<>>
    BY <1>1, <2>5
  <2> QED
    BY <2>2, <2>3, <2>4, <2>6 DEF LineFor, ReadsLine
<1>5. CASE ends # {}
  <2>1. at' = [at EXCEPT ![t] = "idle"]
    BY <1>3, <1>5 DEF returns
  <2>2. at'[t] = "idle"
    BY <2>1 DEF RingInv, RingTypes
  <2>3. n \in ends /\ \A j \in ends : n <= j
    <3>1. ends \in SUBSET Nat
      BY <1>1
    <3>2. \E i \in ends : \A j \in ends : i <= j
      BY <1>5, <3>1, LeastOne
    <3> QED
      BY <1>5, <3>2
  <2>4. n \in 1..L /\ InRing[n] = Enter
    BY <1>1, <2>3
  <2>5. \A k \in 1..(n - 1) : InRing[k] \in KeyCodes \ {Enter}
    <3> SUFFICES ASSUME NEW k \in 1..(n - 1) PROVE InRing[k] \in KeyCodes \ {Enter}
      OBVIOUS
    <3> HIDE DEF n, L
    <3>1. k \in 1..L /\ ~(n <= k)
      BY <1>1, <2>4
    <3>2. k \notin ends
      BY <2>3, <3>1
    <3> QED
      BY <1>1, <1>2, <3>1, <3>2
  <2> HIDE DEF n, L, ends
  <2>6. n \in Nat /\ n # 0
    BY <1>1, <2>4
  <2>7. IsFinished(buff'[t])
    BY <1>3, <2>4, <2>5, <2>6, TypedLine
  <2> QED
    BY <2>1, <2>2, <2>7 DEF LineFor, ReadsLine
<1> QED
  BY <1>4, <1>5

(* The threads that read keys. *)
LEMMA LinesRead ==
  ASSUME RingInv, CodesInv, LineInv, readKeys
  PROVE  LineInv'
<1>1. PICK t \in Readers : waitForKey(t) \/ getLine(t) \/ getLineResumes(t)
  BY DEF readKeys
<1>2. t \in DOMAIN buff /\ t \in DOMAIN kc /\ t \in DOMAIN at /\ LineFor(t)
  BY DEF LineInv, RingInv, RingTypes
<1>3. CASE waitForKey(t)
  <2>1. /\ at[t] \in {"idle", "woken"} /\ buff' = buff /\ kc' = kc
        /\ \/ at' = [at EXCEPT ![t] = "waiting"]
           \/ at' = [at EXCEPT ![t] = "idle"]
    BY <1>3 DEF waitForKey, wait, returns
  <2>2. at'[t] \in {"waiting", "idle"} /\ at' = [at EXCEPT ![t] = at'[t]]
    BY <1>2, <2>1
  <2>3. LineFor(t)'
    BY <1>2, <2>1, <2>2 DEF LineFor, ReadsLine
  <2>4. buff' = [buff EXCEPT ![t] = buff'[t]] /\ kc' = [kc EXCEPT ![t] = kc'[t]]
    BY <2>1 DEF LineInv
  <2> QED
    BY <2>2, <2>3, <2>4, OneLine
<1>4. CASE getLine(t)
  <2>1. takeLine(t, <<>>)
    BY <1>4 DEF getLine
  <2>2. PICK junk \in (IF QueueEmpty THEN {Enter, Letter} ELSE {Letter}) :
          kc' = [kc EXCEPT ![t] = junk]
    BY <1>4 DEF getLine
  <2>3. kc'[t] = junk /\ kc' = [kc EXCEPT ![t] = kc'[t]]
    BY <1>2, <2>2
  <2>4. kc'[t] = Enter => QueueEmpty
    BY <2>2, <2>3 DEF Enter, Letter
  <2>5. buff' = [buff EXCEPT ![t] = buff'[t]]
    BY <1>2, <2>1 DEF takeLine
  <2>6. LineFor(t)' /\ at' = [at EXCEPT ![t] = at'[t]]
    BY <1>2, <2>1, <2>4, <2>5, NoLine, LineTaken
  <2> QED
    BY <2>3, <2>5, <2>6, OneLine
<1>5. CASE getLineResumes(t)
  <2>1. at[t] = "lineWoken" /\ kc' = [kc EXCEPT ![t] = Letter]
    BY <1>5 DEF getLineResumes
  <2>2. kc'[t] = Letter /\ kc' = [kc EXCEPT ![t] = kc'[t]]
    BY <1>2, <2>1
  <2>3. IsLetters(buff[t]) /\ (kc[t] = Enter => buff[t] = <<>>)
    BY <1>2, <2>1 DEF LineFor, ReadsLine
  <2>4. CASE kc[t] = Enter
    <3>1. at' = [at EXCEPT ![t] = "idle"] /\ buff' = buff
      BY <1>5, <2>4 DEF getLineResumes, returns
    <3>2. /\ at'[t] = "idle" /\ at' = [at EXCEPT ![t] = at'[t]]
          /\ buff' = [buff EXCEPT ![t] = buff'[t]]
      BY <1>2, <3>1 DEF LineInv
    <3>3. LineFor(t)'
      BY <2>3, <2>4, <3>1, <3>2, NoLine DEF LineFor, ReadsLine
    <3> QED
      BY <2>2, <3>2, <3>3, OneLine
  <2>5. CASE kc[t] # Enter
    <3>1. takeLine(t, buff[t])
      BY <1>5, <2>5 DEF getLineResumes
    <3>2. buff' = [buff EXCEPT ![t] = buff'[t]]
      BY <1>2, <3>1 DEF takeLine
    <3>3. kc'[t] # Enter
      BY <2>2 DEF Enter, Letter
    <3>4. LineFor(t)' /\ at' = [at EXCEPT ![t] = at'[t]]
      BY <1>2, <2>3, <3>1, <3>2, <3>3, LineTaken
    <3> QED
      BY <2>2, <3>2, <3>4, OneLine
  <2> QED
    BY <2>4, <2>5
<1> QED
  BY <1>1, <1>3, <1>4, <1>5

(* Waking readers changes no line. *)
LEMMA SameLines ==
  ASSUME LineInv, UNCHANGED <<buff, kc>>,
         \A t \in Readers : ReadsLine(t)' <=> ReadsLine(t)
  PROVE  LineInv'
BY DEF LineInv, LineFor

LEMMA NextLine ==
  ASSUME RingInv, CodesInv, LineInv, [Next]_vars
  PROVE  LineInv'
<1>1. CASE readKeys
  BY <1>1, LinesRead
<1>2. CASE keyboardHandler
  <2>1. UNCHANGED <<buff, kc>>
    BY <1>2 DEF keyboardHandler
  <2>2. CASE at' = at
    BY <2>1, <2>2, SameLines DEF ReadsLine
  <2>3. CASE wakeReaders
    <3>1. Woken["waiting"] = "woken" /\ Woken["lineWaiting"] = "lineWoken"
      BY DEF Woken
    <3>2. \A t \in Readers :
            /\ at'[t] = IF t \in keycodeWaitQueue THEN Woken[at[t]] ELSE at[t]
            /\ t \in keycodeWaitQueue => at[t] \in {"waiting", "lineWaiting"}
      BY <2>3 DEF wakeReaders, RingInv, ReadersNotForgotten
    <3>3. \A t \in Readers : ReadsLine(t)' <=> ReadsLine(t)
      BY <3>1, <3>2 DEF ReadsLine
    <3> QED
      BY <2>1, <3>3, SameLines
  <2> QED
    BY <1>2, <2>2, <2>3 DEF keyboardHandler
<1>3. CASE UNCHANGED <<buff, kc, at>>
  BY <1>3, SameLines DEF ReadsLine
<1>4. CASE kMain
  BY <1>3, <1>4 DEF kMain, kbVars
<1> QED
  BY <1>1, <1>2, <1>3, <1>4 DEF Next, devices, kernel, vars, kbVars, keystroke

(***************************************************************************)
(* Whatever is typed, and however the readers take turns: what getLine()   *)
(* returns is letters with one newline behind them, or nothing when kc     *)
(* held a newline by chance.                                               *)
(***************************************************************************)
THEOREM LinesAreComplete == Spec => []LineComplete
<1>1. Init => LineInv
  <2> SUFFICES ASSUME Init PROVE LineInv
    OBVIOUS
  <2>1. /\ at = [t \in Readers |-> "idle"] /\ kc = [t \in Readers |-> Letter]
        /\ buff = [t \in Readers |-> <<>>]
    BY DEF Init, KbInit
  <2> QED
    BY <2>1, NoLine DEF LineInv, LineFor, ReadsLine
<1>2. Init => CodesInv
  BY InitCodes
<1>3. PicInv /\ RingInv /\ CodesInv /\ [Next]_vars => CodesInv'
  BY NextCodes
<1>4. RingInv /\ CodesInv /\ LineInv /\ [Next]_vars => LineInv'
  BY NextLine
<1>5. LineInv => LineComplete
  <2> SUFFICES ASSUME LineInv, NEW t \in Readers
               PROVE  LET i == Len(buff[t]) IN
                        /\ \A j \in 1..i : buff[t][j] = Letter \/ (buff[t][j] = Enter /\ j = i)
                        /\ at[t] = "idle" /\ i > 0 => buff[t][i] = Enter
    BY DEF LineComplete
  <2>1. LineFor(t)
    BY DEF LineInv
  <2> QED
    BY <2>1 DEF LineFor, ReadsLine, IsLetters, IsFinished
<1> QED
  BY <1>1, <1>2, <1>3, <1>4, <1>5, PicInvariance, RingInvariance, PTL DEF Spec

-----------------------------------------------------------------------------
(* The date.  The registers, converted, are the time that they stand for.  *)

(* Two decimal digits, packed into a byte and taken out again. *)
LEMMA Unpacked ==
  ASSUME NEW v \in 0..99
  PROVE  /\ 16 * (v \div 10) + (v % 10) \in 0..153
         /\ BCD2BIN(16 * (v \div 10) + (v % 10)) = v
<1>1. v \in Int
  OBVIOUS
<1> DEFINE q == v \div 10
           r == v % 10
<1>2. q \in Int /\ r \in Int /\ v = 10 * q + r /\ 0 <= r /\ r < 10
  OBVIOUS
<1>3. 16 * q + r \in 0..153 /\ 0 <= q
  <2> HIDE DEF q, r
  <2> QED
    BY <1>2
<1>4. (16 * q + r) % 16 = r /\ (16 * q + r) \div 16 = q
  <2> HIDE DEF q, r
  <2> QED
    BY <1>2
<1>5. BCD2BIN(16 * q + r) = v
  <2> HIDE DEF q, r
  <2> QED
    BY <1>2, <1>4 DEF BCD2BIN
<1> QED
  BY <1>3, <1>5

(* The time of the clock; the year is one of the hundred from CURRENT_YEAR. *)
LEMMA ClockTimes ==
  ASSUME NEW n \in 0..MaxNow
  PROVE  /\ ClockAt[n] \in [Members -> Nat]
         /\ ClockAt[n].sec \in 0..59 /\ ClockAt[n].min \in 0..59 /\ ClockAt[n].hour \in 0..23
         /\ ClockAt[n].year \in 2013..2112
<1>1. ClockAt[n] \in [Members -> Nat]
  BY RtcAssumption
<1>2. /\ ClockAt[n].sec \in Nat /\ ClockAt[n].min \in Nat /\ ClockAt[n].hour \in Nat
      /\ ClockAt[n].year \in Nat
  BY <1>1 DEF Members
<1>3. /\ ClockAt[n].sec < 60 /\ ClockAt[n].min < 60 /\ ClockAt[n].hour < 24
      /\ ClockAt[n].year \in CURRENT_YEAR..(CURRENT_YEAR + 99)
  BY RtcAssumption
<1> QED
  BY <1>1, <1>2, <1>3 DEF CURRENT_YEAR

(* rtcInit() has found out whether the registers are packed. *)
Formatted == binary \in BOOLEAN /\ hours24 \in BOOLEAN /\ bcdValues = ~binary

LEMMA Seconds ==
  ASSUME Formatted, NEW n \in 0..MaxNow, NEW m \in {"sec", "min"}
  PROVE  Converted(m, Register(n, m)) = ClockAt[n][m]
<1> DEFINE v == ClockAt[n][m]
<1>1. v \in 0..99
  BY ClockTimes
<1>2. Register(n, m) = IF binary THEN v + 0 ELSE 16 * (v \div 10) + (v % 10) + 0
  BY DEF Register
<1>3. Converted(m, Register(n, m)) = IF bcdValues THEN BCD2BIN(Register(n, m)) ELSE Register(n, m)
  BY DEF Converted
<1> HIDE DEF v
<1>4. v + 0 = v /\ 16 * (v \div 10) + (v % 10) + 0 = 16 * (v \div 10) + (v % 10)
  BY <1>1
<1>5. Converted(m, Register(n, m)) = v
  BY <1>1, <1>2, <1>3, <1>4, Unpacked DEF Formatted
<1> QED
  BY <1>5 DEF v

LEMMA Years ==
  ASSUME Formatted, NEW n \in 0..MaxNow
  PROVE  Converted("year", Register(n, "year")) = ClockAt[n].year
<1> DEFINE y == ClockAt[n].year
           v == y % 100
           raw == Register(n, "year")
           w == IF bcdValues THEN BCD2BIN(raw) ELSE raw
<1>1. y \in 2013..2112
  BY ClockTimes
<1>2. raw = IF binary THEN v + 0 ELSE 16 * (v \div 10) + (v % 10) + 0
  BY DEF Register
<1>3. Converted("year", raw) =
        LET year == (CURRENT_YEAR \div 100) * 100 + w
        IN  IF year < CURRENT_YEAR THEN year + 100 ELSE year
  BY DEF Converted
<1>4. v \in 0..99 /\ (v = y - 2000 \/ v = y - 2100) /\ (v = y - 2000 => y < 2100)
      /\ (v = y - 2100 => y >= 2100)
  <2> HIDE DEF y
  <2> QED
    BY <1>1
<1> HIDE DEF v, raw
<1>5. v + 0 = v /\ 16 * (v \div 10) + (v % 10) + 0 = 16 * (v \div 10) + (v % 10)
  BY <1>4
<1>6. w = v
  <2>1. BCD2BIN(16 * (v \div 10) + (v % 10)) = v
    BY <1>4, Unpacked
  <2> QED
    BY <1>2, <1>5, <2>1 DEF Formatted
<1>7. (CURRENT_YEAR \div 100) * 100 = 2000
  BY DEF CURRENT_YEAR
<1> HIDE DEF w, y
<1>8. LET year == 2000 + w IN (IF year < 2013 THEN year + 100 ELSE year) = y
  BY <1>1, <1>4, <1>6
<1> QED
  BY <1>3, <1>7, <1>8 DEF y, raw, CURRENT_YEAR

LEMMA Hours ==
  ASSUME Formatted, NEW n \in 0..MaxNow, Understood(ClockAt[n])
  PROVE  Converted("hour", Register(n, "hour")) = ClockAt[n].hour
<1> DEFINE h == ClockAt[n].hour
           raw == Register(n, "hour")
           w == IF bcdValues THEN BCD2BIN(raw) ELSE raw
<1>1. h \in 0..23
  BY ClockTimes
<1>2. Converted("hour", raw) = IF ~hours24 /\ w >= 128 THEN ((w % 128) + 12) % 24 ELSE w
  BY DEF Converted
<1>3. CASE hours24
  <2>1. raw = IF binary THEN h + 0 ELSE 16 * (h \div 10) + (h % 10) + 0
    BY <1>3 DEF Register
  <2> HIDE DEF h, raw
  <2>2. h \in 0..99 /\ h + 0 = h /\ 16 * (h \div 10) + (h % 10) + 0 = 16 * (h \div 10) + (h % 10)
    BY <1>1
  <2>3. w = h
    BY <2>1, <2>2, Unpacked DEF Formatted
  <2> QED
    BY <1>2, <1>3, <2>3 DEF h, raw
<1>4. CASE ~hours24 /\ binary
  <2>1. raw = ((h + 11) % 12) + 1 + 128 * (h \div 12)
    BY <1>4 DEF Register
  <2>2. h % 12 # 0
    BY <1>4 DEF Understood
  <2> HIDE DEF h, raw
  <2>3. h \in 1..11 => raw = h
    BY <1>1, <2>1
  <2>4. h \in 13..23 => raw = h - 12 + 128
    BY <1>1, <2>1
  <2>5. h \in 1..11 \/ h \in 13..23
    BY <1>1, <2>2
  <2>6. w = raw
    BY <1>4 DEF Formatted
  <2>7. h \in 13..23 => raw % 128 = h - 12 /\ (h - 12 + 12) % 24 = h
    BY <2>4
  <2>8. Converted("hour", raw) = h
    BY <1>2, <1>4, <2>3, <2>4, <2>5, <2>6, <2>7
  <2> QED
    BY <2>8 DEF h, raw
<1>5. CASE ~hours24 /\ ~binary
  <2> DEFINE v == ((h + 11) % 12) + 1
  <2>1. raw = 16 * (v \div 10) + (v % 10) + 128 * (h \div 12)
    BY <1>5 DEF Register
  <2>2. h \in 1..11
    BY <1>5 DEF Understood
  <2> HIDE DEF h, raw
  <2>3. v = h /\ h \div 12 = 0
    BY <2>2
  <2> HIDE DEF v
  <2>4. h \in 0..99 /\ 16 * (h \div 10) + (h % 10) + 0 = 16 * (h \div 10) + (h % 10)
    BY <2>2
  <2>5. raw = 16 * (h \div 10) + (h % 10)
    BY <2>1, <2>3, <2>4
  <2>6. w = h
    BY <1>5, <2>4, <2>5, Unpacked DEF Formatted
  <2> HIDE DEF w
  <2>7. ~(h >= 128)
    BY <2>2
  <2> QED
    BY <1>2, <2>6, <2>7 DEF h, raw
<1> QED
  BY <1>3, <1>4, <1>5 DEF Formatted

(* The clock's format is known when its interrupts are handled, and what   *)
(* was published and copied has the members of a time.                     *)
FormatInv ==
  /\ binary \in BOOLEAN /\ hours24 \in BOOLEAN /\ bcdValues \in BOOLEAN
  /\ rtcPc \in {"off", "install", "format"} => bcdValues = FALSE
  /\ rtcPc \in {"write", "enable", "done"} => bcdValues = ~binary
  /\ irq = RTC => rtcPc = "done"

PublishedInv ==
  /\ now \in 0..MaxNow /\ g_dateTime = [m \in Members |-> g_dateTime[m]]
  /\ PublishedTrue

CopyInv ==
  /\ copied \in 0..4 /\ time = [m \in Members |-> time[m]]
  /\ renewed = TRUE \/ \A i \in 1..copied : time[Order[i]] = g_dateTime[Order[i]]

DateInv == FormatInv /\ PublishedInv /\ CopyInv

LEMMA FourMembers ==
  /\ Len(Order) = 4 /\ \A i \in 1..4 : Order[i] \in Members
  /\ \A m \in Members : \E i \in 1..4 : Order[i] = m
BY DEF Order, Members

(* At first nothing has been published. *)
LEMMA InitDate == Init => DateInv
<1> SUFFICES ASSUME Init PROVE DateInv
  OBVIOUS
<1> USE DEF Init, IrqInit, RtcVarsInit
<1>1. binary \in BOOLEAN /\ hours24 \in BOOLEAN
  OBVIOUS
<1>2. FormatInv
  <2>1. rtcPc = "off" /\ irq # RTC
    OBVIOUS
  <2>2. bcdValues = FALSE
    OBVIOUS
  <2>3. bcdValues \in BOOLEAN
    BY <2>2
  <2>4. rtcPc \notin {"write", "enable", "done"}
    BY <2>1
  <2> HIDE DEF Init, IrqInit, RtcVarsInit
  <2> QED
    BY ONLY <1>1, <2>1, <2>2, <2>3, <2>4 DEF FormatInv
<1>3. PublishedInv
  BY RtcAssumption DEF PublishedInv, PublishedTrue, Zeroed
<1>4. CopyInv
  BY DEF CopyInv, Zeroed
<1> QED
  BY <1>2, <1>3, <1>4 DEF DateInv

(* Registers that are all of one second are published as that time. *)
LEMMA PublishesTrue ==
  ASSUME PublishedInv, Formatted, readsClock, UNCHANGED <<hours24, binary>>
  PROVE  PublishedInv'
<1>1. PICK n \in 0..4 :
        /\ n < 4 => now < MaxNow
        /\ now' = IF n < 4 THEN now + 1 ELSE now
        /\ g_dateTime' = [m \in Members |->
             Converted(m, Register(IF \E i \in 1..n : Order[i] = m THEN now ELSE now', m))]
        /\ smeared' = (n \in 1..3)
  BY FourMembers DEF readsClock
<1>2. now' \in 0..MaxNow
  BY <1>1, RtcAssumption DEF PublishedInv
<1>3. g_dateTime' = [m \in Members |-> g_dateTime'[m]]
  BY <1>1
<1>4. \A k \in 0..MaxNow : Understood(ClockAt[k])' <=> Understood(ClockAt[k])
  BY DEF Understood
<1>5. CASE n \in 1..3
  BY <1>1, <1>2, <1>3, <1>5 DEF PublishedInv, PublishedTrue
<1>6. CASE n \notin 1..3
  <2>1. \A m \in Members : (IF \E i \in 1..n : Order[i] = m THEN now ELSE now') = now'
    <3>1. n = 0 \/ n = 4
      BY <1>1, <1>6
    <3> QED
      BY <1>1, <3>1, FourMembers
  <2>2. \A m \in Members : g_dateTime'[m] = Converted(m, Register(now', m))
    BY <1>1, <2>1
  <2>3. /\ g_dateTime'["sec"] = ClockAt[now'].sec /\ g_dateTime'["min"] = ClockAt[now'].min
        /\ g_dateTime'["year"] = ClockAt[now'].year
        /\ Understood(ClockAt[now']) => g_dateTime'["hour"] = ClockAt[now'].hour
    BY <1>2, <2>2, Seconds, Years, Hours DEF Members
  <2>4. ClockAt[now'] = [m \in Members |-> ClockAt[now'][m]]
    BY <1>2, ClockTimes
  <2>5. CASE Understood(ClockAt[now'])
    <3>1. \A m \in Members : g_dateTime'[m] = ClockAt[now'][m]
      BY <2>3, <2>5 DEF Members
    <3>2. g_dateTime' = ClockAt[now']
      BY <1>3, <2>4, <3>1
    <3>3. \E k \in 0..now' : g_dateTime' = ClockAt[k] /\ Understood(ClockAt[k])'
      BY <1>2, <1>4, <2>5, <3>2
    <3> QED
      BY <1>2, <1>3, <3>3 DEF PublishedInv, PublishedTrue
  <2>6. CASE ~Understood(ClockAt[now'])
    <3>1. \A m \in Members : m # "hour" => g_dateTime'[m] = ClockAt[now'][m]
      BY <2>3 DEF Members
    <3>2. [g_dateTime' EXCEPT !.hour = 0] 
             = [m \in Members |-> IF m = "hour" THEN 0 ELSE g_dateTime'[m]]
      BY <1>3
    <3>3. [ClockAt[now'] EXCEPT !.hour = 0] 
             = [m \in Members |-> IF m = "hour" THEN 0 ELSE ClockAt[now'][m]]
      BY <2>4
    <3>4. [g_dateTime' EXCEPT !.hour = 0] = [ClockAt[now'] EXCEPT !.hour = 0]
      BY <3>1, <3>2, <3>3
    <3>5. \E k \in 0..now' : /\ ~Understood(ClockAt[k])'
                            /\ [g_dateTime' EXCEPT !.hour = 0] = [ClockAt[k] EXCEPT !.hour = 0]
      BY <1>2, <1>4, <2>6, <3>4
    <3> QED
      BY <1>2, <1>3, <3>5 DEF PublishedInv, PublishedTrue
  <2> QED
    BY <2>5, <2>6
<1> QED
  BY <1>5, <1>6

(* A second passes without anything being published. *)
LEMMA StillPublished ==
  ASSUME PublishedInv, now' \in 0..MaxNow, now <= now',
         UNCHANGED <<hours24, binary, g_dateTime, smeared>>
  PROVE  PublishedInv'
<1>1. 0..now \subseteq 0..now'
  BY DEF PublishedInv
<1>2. \A n : Understood(ClockAt[n])' <=> Understood(ClockAt[n])
  BY DEF Understood
<1>3. PublishedTrue'
  BY <1>1, <1>2 DEF PublishedInv, PublishedTrue
<1> QED
  BY <1>3 DEF PublishedInv

(* rtcHandler() publishes or counts. *)
LEMMA DateHandled ==
  ASSUME PicInv, DateInv, rtcHandler
  PROVE  DateInv'
<1>1. irq = RTC /\ irq' = NoIrq
  BY DEF rtcHandler, baseIrqHandler, PicInv, Programmed, Progress
<1>2. rtcPc = "done" /\ Formatted
  BY <1>1 DEF DateInv, FormatInv, Formatted
<1>3. UNCHANGED <<hours24, binary, bcdValues, rtcPc, time, copied>>
  BY DEF rtcHandler
<1>4. FormatInv'
  BY <1>1, <1>2, <1>3 DEF DateInv, FormatInv
<1>5. CASE readsClock
  <2>1. PublishedInv'
    BY <1>2, <1>3, <1>5, PublishesTrue DEF DateInv
  <2>2. renewed' = (copied > 0)
    BY <1>5 DEF readsClock
  <2>3. copied \in 0..4
    BY DEF DateInv, CopyInv
  <2>4. renewed' = TRUE \/ copied = 0
    <3>1. copied > 0 => renewed' = TRUE
      BY <2>2
    <3> QED
      BY <2>3, <3>1
  <2>5. CopyInv'
    BY <1>3, <2>4 DEF DateInv, CopyInv
  <2> QED
    BY <1>4, <2>1, <2>5 DEF DateInv
<1>6. CASE UNCHANGED <<now, g_dateTime, smeared, renewed>>
  <2>1. PublishedInv'
    BY <1>3, <1>6, StillPublished DEF DateInv, PublishedInv
  <2>2. CopyInv'
    BY <1>3, <1>6 DEF DateInv, CopyInv
  <2> QED
    BY <1>4, <2>1, <2>2 DEF DateInv
<1> QED
  BY <1>5, <1>6 DEF rtcHandler

(* dateTime() copies one member. *)
LEMMA DateCopied ==
  ASSUME DateInv, dateTimeCopies
  PROVE  DateInv'
<1>1. UNCHANGED <<irq, now, hours24, binary, bcdValues, rtcPc, g_dateTime, smeared, renewed>>
  BY DEF dateTimeCopies, irqVars, clock
<1>2. FormatInv' /\ PublishedInv'
  BY <1>1, StillPublished DEF DateInv, FormatInv, PublishedInv
<1>3. /\ copied \in 0..3 /\ copied' = copied + 1
      /\ time' = [time EXCEPT ![Order[copied + 1]] = g_dateTime[Order[copied + 1]]]
  BY FourMembers DEF dateTimeCopies, DateInv, CopyInv
<1>4. copied + 1 \in 1..4 /\ Order[copied + 1] \in Members
  BY <1>3, FourMembers
<1>5. time' = [m \in Members |-> IF m = Order[copied + 1] THEN g_dateTime[m] ELSE time[m]]
  BY <1>3, <1>4 DEF DateInv, CopyInv
<1>6. ASSUME NEW i \in 1..(copied + 1), \A j \in 1..copied : time[Order[j]] = g_dateTime[Order[j]]
      PROVE  time'[Order[i]] = g_dateTime[Order[i]]
  <2>1. i \in 1..4 /\ Order[i] \in Members /\ (i \in 1..copied \/ i = copied + 1)
    BY <1>3, FourMembers
  <2> QED
    BY <1>5, <1>6, <2>1
<1>7. renewed' = TRUE \/ \A i \in 1..copied' : time'[Order[i]] = g_dateTime'[Order[i]]
  BY <1>1, <1>3, <1>6 DEF DateInv, CopyInv
<1>8. CopyInv'
  <2>1. copied' \in 0..4
    BY <1>3
  <2>2. time' = [m \in Members |-> time'[m]]
    BY <1>5
  <2> QED
    BY <1>7, <2>1, <2>2 DEF CopyInv
<1> QED
  BY <1>2, <1>8 DEF DateInv

(* A step that neither publishes nor copies. *)
LEMMA DateStays ==
  ASSUME DateInv, FormatInv',
         UNCHANGED <<clock, g_dateTime, smeared, renewed, time, copied>>
  PROVE  DateInv'
<1>1. UNCHANGED <<now, hours24, binary>>
  BY DEF clock
<1>2. PublishedInv'
  BY <1>1, StillPublished DEF DateInv, PublishedInv
<1>3. CopyInv'
  BY DEF DateInv, CopyInv
<1> QED
  BY <1>2, <1>3 DEF DateInv

(* Every step of the kernel and of the devices. *)
LEMMA NextDate ==
  ASSUME PicInv, DateInv, [Next]_vars
  PROVE  DateInv'
<1> USE DEF kbVars, rtcVars, clock
<1>1. CASE kMain
  <2>1. /\ UNCHANGED <<hours24, binary, bcdValues, irq>>
        /\ (rtcPc' = rtcPc \/ (rtcPc = "off" /\ rtcPc' = "install"))
    BY <1>1 DEF kMain, Boots, PicInv, Progress, DateInv, FormatInv
  <2>2. FormatInv'
    BY <2>1 DEF DateInv, FormatInv
  <2> QED
    BY <1>1, <2>2, DateStays DEF kMain
<1>2. CASE controller /\ UNCHANGED <<kbVars, rtcVars, booted>>
  <2>1. irq' = RTC => rtcPc = "done"
    <3>1. CASE interrupt
      <4>1. irq' \in IRQS /\ irq' \notin picMask /\ cpu = "threads"
        BY <3>1 DEF interrupt, First, Deliverable
      <4>2. booted # "cli"
        BY <4>1 DEF PicInv, Progress
      <4> QED
        BY <4>1, <4>2 DEF PicInv, Programmed
    <3>2. CASE \E i \in IRQS : spurious(i)
      BY <3>2 DEF spurious
    <3>3. CASE noHandler
      BY <3>3 DEF noHandler, baseIrqHandler
    <3> QED
      BY <1>2, <3>1, <3>2, <3>3 DEF controller
  <2>2. FormatInv'
    BY <1>2, <2>1 DEF DateInv, FormatInv
  <2> QED
    BY <1>2, <2>2, DateStays
<1>3. CASE keyboardHandler /\ UNCHANGED <<rtcVars, booted>>
  <2>1. irq' = NoIrq
    BY <1>3 DEF keyboardHandler, baseIrqHandler
  <2>2. FormatInv'
    BY <1>3, <2>1 DEF DateInv, FormatInv
  <2> QED
    BY <1>3, <2>2, DateStays
<1>4. CASE rtcHandler /\ UNCHANGED <<kbVars, booted>>
  BY <1>4, DateHandled
<1>5. CASE rtcInit /\ UNCHANGED <<kbVars, booted>>
  <2>1. UNCHANGED <<hours24, binary, irq>>
    BY <1>5 DEF rtcInit
  <2>2. rtcPc = "format" => bcdValues' = ~binary
    <3>1. rtcPc = "format" => bcdValues = FALSE /\ bcdValues' = (bcdValues \/ ~binary)
      BY <1>5 DEF rtcInit, Step, DateInv, FormatInv
    <3>2. binary \in BOOLEAN
      BY DEF DateInv, FormatInv
    <3> QED
      BY <3>1, <3>2
  <2>3. /\ rtcPc # "format" => bcdValues' = bcdValues
        /\ <<rtcPc, rtcPc'>> \in {<<"install", "format">>, <<"format", "write">>,
                                  <<"write", "enable">>, <<"enable", "done">>}
    BY <1>5 DEF rtcInit, Step
  <2>4. binary \in BOOLEAN /\ bcdValues' \in BOOLEAN
    BY <2>2, <2>3 DEF DateInv, FormatInv
  <2>5. FormatInv'
    BY <2>1, <2>2, <2>3, <2>4 DEF DateInv, FormatInv
  <2> QED
    BY <1>5, <2>5, DateStays DEF rtcInit
<1>6. CASE readKeys /\ UNCHANGED <<rtcVars, booted>>
  <2>1. irq' = irq
    BY <1>6 DEF readKeys, waitForKey, getLine, getLineResumes, irqVars
  <2>2. FormatInv'
    BY <1>6, <2>1 DEF DateInv, FormatInv
  <2> QED
    BY <1>6, <2>2, DateStays
<1>7. CASE dateTimeCopies
  BY <1>7, DateCopied
<1>8. CASE secondPasses
  <2>1. UNCHANGED <<irq, hours24, binary, bcdValues, rtcPc,
                    g_dateTime, smeared, time, copied, renewed>>
    BY <1>8 DEF secondPasses, irqVars
  <2>2. FormatInv' /\ CopyInv'
    BY <2>1 DEF DateInv, FormatInv, CopyInv
  <2>3. now' \in 0..MaxNow /\ now <= now'
    BY <1>8, RtcAssumption DEF secondPasses, DateInv, PublishedInv
  <2>4. PublishedInv'
    BY <2>1, <2>3, StillPublished DEF DateInv
  <2> QED
    BY <2>2, <2>4 DEF DateInv
<1>9. CASE (keystroke /\ UNCHANGED <<rtcVars, booted>>) \/ clockTicks
  <2>1. UNCHANGED <<irq, clock, bcdValues, rtcPc, g_dateTime, smeared, time, copied, renewed>>
    BY <1>9 DEF keystroke, clockTicks
  <2>2. FormatInv'
    BY <2>1 DEF DateInv, FormatInv
  <2> QED
    BY <2>1, <2>2, DateStays
<1>10. CASE UNCHANGED vars
  <2>1. UNCHANGED <<irq, clock, bcdValues, rtcPc, g_dateTime, smeared, time, copied, renewed>>
    BY <1>10 DEF vars, irqVars
  <2>2. FormatInv'
    BY <2>1 DEF DateInv, FormatInv
  <2> QED
    BY <2>1, <2>2, DateStays
<1> QED
  BY <1>1, <1>2, <1>3, <1>4, <1>5, <1>6, <1>7, <1>8, <1>9, <1>10
  DEF Next, devices, kernel

(***************************************************************************)
(* Whatever the format of the registers, the published time is one that    *)
(* the clock showed, but for the hour of the formats that rtcHandler()     *)
(* does not understand and for registers read across a second; and what    *)
(* dateTime() copies with interrupts on is the published time, unless      *)
(* another one was published in between.                                   *)
(***************************************************************************)
THEOREM DateIsTrue == Spec => []DateTrue
<1>1. Init => DateInv
  BY InitDate
<1>2. PicInv /\ DateInv /\ [Next]_vars => DateInv'
  BY NextDate
<1>3. DateInv => DateTrue
  <2> SUFFICES ASSUME DateInv, copied = 4, renewed # TRUE PROVE time = g_dateTime
    BY FourMembers DEF DateInv, PublishedInv, DateTrue, CopiedWhole
  <2>1. \A m \in Members : time[m] = g_dateTime[m]
    BY FourMembers DEF DateInv, CopyInv
  <2> QED
    BY <2>1 DEF DateInv, CopyInv, PublishedInv
<1> QED
  BY <1>1, <1>2, <1>3, PicInvariance, PTL DEF Spec
=============================================================================
