-------------------------------- MODULE Irq --------------------------------
(***************************************************************************)
(* The interrupt controller: kernel/irq.c and the two 8259 PICs it         *)
(* programs.  A mask is the set of the IRQs that are disabled.  The PICs   *)
(* latch the rising edge of a request, and deliver no request of the same  *)
(* or a lower priority until the end of interrupt is signalled.            *)
(***************************************************************************)
EXTENDS Integers

IRQS     == 0..15
CASCADE  == 2
NoIrq    == -1
Nothing  == "nothing"      \* an empty entry of g_isrs

VARIABLES
  g_irq_mask,   \* the copy of the masks that irq.c keeps
  g_isrs,       \* the handler of each IRQ
  picMask,      \* the mask registers of the PICs
  requested,    \* their request registers
  inService,    \* their in-service registers
  cpu,          \* "boot", "threads" (interrupts on) and "handler"
  irq,          \* the one baseIrqHandler serves
  dropped       \* history: the requests that a reset of the PICs cleared

irqVars == <<g_irq_mask, g_isrs, picMask, requested, inService, cpu, irq, dropped>>

IrqInit ==
  /\ g_irq_mask = {} /\ g_isrs = [i \in IRQS |-> Nothing]
  /\ picMask \in {{}, {8}} /\ requested = {} /\ inService = {}
  /\ cpu = "boot" /\ irq = NoIrq /\ dropped = {}

Master(set) == {i \in set : i < 8}
Slave(set)  == {i \in set : i > 7}

(* The slave's requests take the priority of the cascade line. *)
Rank(i) == IF i > 7 THEN i - 8 + CASCADE ELSE IF i < CASCADE THEN i ELSE i + 7
First(set) == {i \in set : \A j \in set : Rank(i) <= Rank(j)}

-----------------------------------------------------------------------------
(* What threads call, with interrupts off.  A Mutant is a plausible bug in *)
(* the definition that follows it.                                         *)

updateIrqMask(mask) ==
  /\ picMask' = (IF Master(mask) # Master(g_irq_mask) THEN Master(mask) ELSE Master(picMask))
          \cup (IF Slave(mask) # Slave(g_irq_mask) THEN Slave(mask) ELSE Slave(picMask))
  /\ g_irq_mask' = mask

enableIrq(i)  == updateIrqMask(g_irq_mask \ {i})

initIrqHandler(i, handler) == g_isrs' = [g_isrs EXCEPT ![i] = handler]

(* The initialization words reset the PICs: an edge that is latched is     *)
(* gone, and the line of a device that still waits gives no other.  Then   *)
(* the masks are written.                                                  *)
irqInit ==
  /\ g_irq_mask' = IRQS \ {CASCADE}
  /\ picMask' = g_irq_mask'
  /\ requested' = {} /\ inService' = {}
  /\ dropped' = dropped \cup requested

-----------------------------------------------------------------------------
(* An interrupt, from the request of a device to the return.               *)

Request(i) == requested' = requested \cup {i}

Deliverable(i) ==
  /\ i \in requested \ picMask
  /\ i > 7 => CASCADE \notin picMask
  /\ \A j \in inService : Rank(i) < Rank(j)

(* The gate turns interrupts off; irq_common_stub calls baseIrqHandler. *)
interrupt ==
  /\ cpu = "threads"
  /\ \E i \in First({j \in IRQS : Deliverable(j)}) :
       /\ irq' = i
       /\ requested' = requested \ {i}
       /\ inService' = inService \cup {i} \cup (IF i > 7 THEN {CASCADE} ELSE {})
  /\ cpu' = "handler"
  /\ UNCHANGED <<g_irq_mask, g_isrs, picMask, dropped>>

(* A request that went away: the PIC delivers its lowest line instead, and *)
(* does not mark it as in service.                                         *)
spurious(i) ==
  /\ cpu = "threads"
  /\ i \in {7, 15}
  /\ irq' = i
  /\ inService' = IF i > 7 THEN inService \cup {CASCADE} ELSE inService
  /\ cpu' = "handler"
  /\ UNCHANGED <<g_irq_mask, g_isrs, picMask, requested, dropped>>

MutantSignalEoi == inService \ First(Master(inService))

(* Each PIC drops the first of its interrupts in service. *)
SignalEoi ==
  (inService \ (IF irq > 7 THEN First(Slave(inService)) ELSE {}))
     \ First(Master(inService))

(* The handler runs, the end of interrupt is signalled, and the stub       *)
(* returns to a thread: nothing but the devices runs in between.           *)
baseIrqHandler(handler) ==
  /\ cpu = "handler" /\ g_isrs[irq] = handler
  /\ inService' = SignalEoi
  /\ cpu' = "threads" /\ irq' = NoIrq
  /\ UNCHANGED <<g_irq_mask, g_isrs, picMask, requested, dropped>>

noHandler == baseIrqHandler(Nothing)

-----------------------------------------------------------------------------
(***************************************************************************)
(* The copy of the masks is what the PICs hold, an interrupt is in service *)
(* just as long as its handler runs, also when it is spurious, and what is *)
(* enabled has a handler: no IRQ is blocked for ever or served by nobody.  *)
(***************************************************************************)
PicMirrored ==
  cpu # "boot" =>
    /\ picMask = g_irq_mask
    /\ inService \in
         CASE irq = NoIrq -> {{}}
           [] irq = 7     -> {{}, {7}}
           [] irq = 15    -> {{CASCADE}, {15, CASCADE}}
           [] irq > 7 /\ irq # 15 -> {{irq, CASCADE}}
           [] OTHER       -> {{irq}}
    /\ \A i \in IRQS \ {CASCADE} : i \notin picMask => g_isrs[i] # Nothing
=============================================================================
