------------------------------ MODULE Keyboard ------------------------------
(***************************************************************************)
(* kernel/kb.c: the handler of IRQ 1 puts key codes into a ring, threads   *)
(* take them out with waitForKey() and getLine().  Thread.tla models       *)
(* wait() and wakeAll(); here a thread that waits is in keycodeWaitQueue   *)
(* and one that was woken goes on at some later time.                      *)
(***************************************************************************)
EXTENDS Irq, Sequences, SequencesExt

CONSTANTS
  Readers,   \* the threads that read keys
  Size       \* KEYCODE_QUEUE_SIZE, 256; the indices wrap there (uint8_t)

ASSUME KeyboardAssumption == Size \in Nat \ {0, 1}

KEYBOARD == 1

(* The key codes that the code tells apart, the bytes that stand for them, *)
(* the byte of a released key, and one whose scan code is past the end of  *)
(* kdbus: what is read there may be anything.                              *)
Enter     == "newline"
Backspace == "backspace"
Unmapped  == "zero"
Letter    == "letter"
KeyCodes  == {Enter, Backspace, Unmapped, Letter}
Released  == "released"
Beyond    == "beyond kdbus"
Empty     == "empty"

kdbus(scancode) == IF scancode = Beyond THEN KeyCodes ELSE {scancode}

VARIABLES
  data,               \* the output buffer of the keyboard controller
  keys,               \* how many bytes the keyboard has sent
  keycodeQueue, keycodeQueueHead, keycodeQueueTail,
  keycodeWaitQueue,   \* the threads waiting there
  at,                 \* where each reader is
  kc,                 \* getLine's kc, a newline or not
  buff,               \* getLine's buffer up to its index i
  unread,             \* the codes put into the ring, neither taken nor lost
  lost                \* history: a full ring has lost its codes

ring == <<keycodeQueue, keycodeQueueHead, keycodeQueueTail>>
kbVars == <<data, keys, ring, keycodeWaitQueue, at, kc, buff, unread, lost>>

KbInit ==
  /\ data = Empty /\ keys = 0
  /\ keycodeQueue = [i \in 0..(Size - 1) |-> Unmapped]
  /\ keycodeQueueHead = 0 /\ keycodeQueueTail = 0
  /\ keycodeWaitQueue = {}
  /\ at = [t \in Readers |-> "idle"]
  /\ kc = [t \in Readers |-> Letter]
  /\ buff = [t \in Readers |-> <<>>]
  /\ unread = <<>> /\ lost = FALSE

-----------------------------------------------------------------------------
(* The keyboard sends its next byte when the last one has been read.  It   *)
(* is live from power-on: a key may come at any stage of the boot.         *)
keystroke ==
  /\ data = Empty
  /\ keys' = keys + 1
  /\ data' \in KeyCodes \cup {Released, Beyond}
  /\ Request(KEYBOARD)
  /\ UNCHANGED <<g_irq_mask, g_isrs, picMask, inService, cpu, irq, dropped>>
  /\ UNCHANGED <<ring, keycodeWaitQueue, at, kc, buff, unread, lost>>

-----------------------------------------------------------------------------
(* The handler.  A Mutant is a plausible bug in what follows it.           *)

(* A ring that gets full with the head at 0 looks empty: its codes are     *)
(* lost.                                                                   *)
Overruns == keycodeQueueTail + 1 = Size /\ keycodeQueueHead = 0

Kept(code) == IF Overruns THEN <<>> ELSE Append(unread, code)

MutantEnqueueKeycode(code) ==
  /\ keycodeQueue' = [keycodeQueue EXCEPT ![keycodeQueueTail] = code]
  /\ keycodeQueueTail' = (keycodeQueueTail + 1) % Size
  /\ unread' = Kept(code)
  /\ lost' = (lost \/ Overruns)

(* The test for a full ring is made before the index wraps.                *)
enqueueKeycode(code) ==
  IF keycodeQueueTail + 1 # keycodeQueueHead
    THEN /\ keycodeQueue' = [keycodeQueue EXCEPT ![keycodeQueueTail] = code]
         /\ keycodeQueueTail' = (keycodeQueueTail + 1) % Size
         /\ unread' = Kept(code)
         /\ lost' = (lost \/ Overruns)
    ELSE UNCHANGED <<keycodeQueue, keycodeQueueTail, unread, lost>>

Woken == [waiting |-> "woken", lineWaiting |-> "lineWoken"]

MutantWakeReaders ==
  \/ keycodeWaitQueue = {} /\ UNCHANGED <<keycodeWaitQueue, at>>
  \/ \E t \in keycodeWaitQueue :
       /\ at' = [at EXCEPT ![t] = Woken[@]]
       /\ keycodeWaitQueue' = keycodeWaitQueue \ {t}

wakeReaders ==
  /\ at' = [t \in Readers |-> IF t \in keycodeWaitQueue THEN Woken[at[t]] ELSE at[t]]
  /\ keycodeWaitQueue' = {}

(* A released key only switches a light, which keeps no state here.        *)
keyboardHandler ==
  /\ baseIrqHandler("keyboardHandler")
  /\ data' = Empty
  /\ IF data = Released
       THEN UNCHANGED <<unread, lost, at, keycodeWaitQueue,
                        keycodeQueue, keycodeQueueTail>>
       ELSE /\ \E code \in kdbus(data) : enqueueKeycode(code)
            /\ wakeReaders
  /\ UNCHANGED <<keys, keycodeQueueHead, kc, buff>>

-----------------------------------------------------------------------------
(* The readers.  Interrupts are off from the test to the wait or the       *)
(* return, so all that a thread does in between is one step.               *)

QueueEmpty == keycodeQueueHead = keycodeQueueTail

InRing ==
  [i \in 1..((keycodeQueueTail - keycodeQueueHead) % Size) |->
     keycodeQueue[(keycodeQueueHead + i - 1) % Size]]

dequeueKeycode(n) ==
  /\ keycodeQueueHead' = (keycodeQueueHead + n) % Size
  /\ unread' = SubSeq(unread, n + 1, Len(unread))
  /\ UNCHANGED <<keycodeQueue, keycodeQueueTail>>

wait(t, place) ==
  /\ keycodeWaitQueue' = keycodeWaitQueue \cup {t}
  /\ at' = [at EXCEPT ![t] = place]

returns(t) == at' = [at EXCEPT ![t] = "idle"] /\ UNCHANGED keycodeWaitQueue

waitForKey(t) ==
  /\ cpu = "threads"
  /\ at[t] \in {"idle", "woken"}
  /\ IF QueueEmpty
       THEN wait(t, "waiting") /\ UNCHANGED <<ring, unread>>
       ELSE returns(t) /\ dequeueKeycode(1)
  /\ UNCHANGED <<irqVars, data, keys, kc, buff, lost>>

MutantEdited(line, code) ==
  CASE code = Unmapped -> line
    [] code = Backspace /\ line # <<>> -> Front(line)
    [] OTHER -> Append(line, code)

Edited(line, code) ==
  CASE code = Unmapped -> line
    [] code = Backspace -> IF line = <<>> THEN line ELSE Front(line)
    [] OTHER -> Append(line, code)

(* A line after the first n of some codes. *)
Typed(line, codes, n) ==
  LET typed[k \in 0..n] == IF k = 0 THEN line ELSE Edited(typed[k - 1], codes[k])
  IN  typed[n]

(* The loop of getLine: the codes up to a newline, or all there are.       *)
takeLine(t, line) ==
  LET ends == {i \in DOMAIN InRing : InRing[i] = Enter}
      n    == IF ends = {} THEN Len(InRing) ELSE CHOOSE i \in ends : \A j \in ends : i <= j
  IN  /\ dequeueKeycode(n)
      /\ buff' = [buff EXCEPT ![t] = Typed(line, InRing, n)]
      /\ IF ends = {} THEN wait(t, "lineWaiting") ELSE returns(t)

(* kc has the value the stack happens to hold; it matters when there is no *)
(* key at the first round, for the condition of the loop tests it then.    *)
getLine(t) ==
  /\ cpu = "threads"
  /\ at[t] = "idle"
  /\ takeLine(t, <<>>)
  /\ \E junk \in (IF QueueEmpty THEN {Enter, Letter} ELSE {Letter}) :
       kc' = [kc EXCEPT ![t] = junk]
  /\ UNCHANGED <<irqVars, data, keys, lost>>

getLineResumes(t) ==
  /\ cpu = "threads"
  /\ at[t] = "lineWoken"
  /\ IF kc[t] = Enter
       THEN returns(t) /\ UNCHANGED <<ring, unread, buff>>
       ELSE takeLine(t, buff[t])
  /\ kc' = [kc EXCEPT ![t] = Letter]
  /\ UNCHANGED <<irqVars, data, keys, lost>>

-----------------------------------------------------------------------------
(***************************************************************************)
(* The ring is a queue: it holds the codes put in and not yet taken, in    *)
(* the order they were typed.  None is lost but when the ring gets full    *)
(* with the head at 0, where the test for that does not see it.            *)
(***************************************************************************)
KeysInOrder == unread = InRing

(***************************************************************************)
(* The comment in enqueueKeycode(): "only enqueue key code if the queue is *)
(* not full".  The code breaks it with the tail at the last index and the  *)
(* head at 0: the ring then looks empty, and all its codes are lost.       *)
(***************************************************************************)
FullRingRefuses == lost = FALSE

(***************************************************************************)
(* A thread waits for a key only while there is none, and whoever waits is *)
(* in the wait queue: no wake-up falls between the test and the wait.      *)
(***************************************************************************)
ReadersNotForgotten ==
  /\ keycodeWaitQueue = {t \in Readers : at[t] \in {"waiting", "lineWaiting"}}
  /\ keycodeWaitQueue # {} => QueueEmpty

(***************************************************************************)
(* What getLine returns ends with the only newline in it and has nothing   *)
(* but the letters before; it is shorter than that (no newline, result -1) *)
(* only when kc happened to hold a newline before any key was read.        *)
(***************************************************************************)
LineComplete ==
  \A t \in Readers :
    LET i == Len(buff[t]) IN
    /\ \A j \in 1..i : buff[t][j] = Letter \/ (buff[t][j] = Enter /\ j = i)
    /\ at[t] = "idle" /\ i > 0 => buff[t][i] = Enter
=============================================================================
