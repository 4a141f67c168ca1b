------------------------------- MODULE Screen -------------------------------
(***************************************************************************)
(* kernel/screen.c: text goes to the cell where the cursor of the VGA      *)
(* controller stands.  The cursor is in two byte registers, accessed one   *)
(* at a time through an index port and a data port, with interrupts on.    *)
(* Offsets are in cells, not in bytes; what a cell shows is left out.      *)
(***************************************************************************)
EXTENDS Tasks

CONSTANTS
  ROWS, COLS,   \* VIDEO_ROWS and VIDEO_COLS, 25 and 80
  Byte,         \* 256, what a byte register counts to
  Wrap,         \* 2^31, the cells that an unsigned offset counts
  Start         \* the cell where the messages of kMain left the cursor

ASSUME ScreenAssumption ==
  /\ ROWS \in Nat \ {0} /\ COLS \in Nat \ {0} /\ Byte \in Nat \ {0}
  /\ Wrap \in Nat \ {0}
  /\ ROWS * COLS <= Byte * Byte /\ Wrap % (Byte * Byte) = 0
  /\ Start \in 0..(ROWS * COLS - 1)

Cells == 0..(ROWS * COLS - 1)

VARIABLES
  index,        \* the register that the index port selects
  cursor,       \* the registers
  offset,       \* the local variable of each thread
  position,     \* what kGetChar returned to it
  mixed,        \* a thread used the ports while another was using them
  underflowed   \* a backspace was printed at the first cell

screenVars == <<index, cursor, offset, position, mixed, underflowed>>

ScreenInit ==
  /\ index = "low" /\ cursor = [high |-> Start \div Byte, low |-> Start % Byte]
  /\ offset = [t \in Tasks |-> 0] /\ position = [t \in Tasks |-> 0]
  /\ mixed = FALSE /\ underflowed = FALSE

(* The functions that begin with getCursorOffset, and those that set it.   *)
Getters == {"kPutChar", "kGetChar"}
Setters == {"kPutChar", "kSetCursor"}

InGet == {"getHigh", "getIndex", "getLow"}
InSet == {"setHigh", "setIndex", "setLow"}

Mixes(t) == \E u \in Tasks \ {t} : at[u] \in InGet \cup InSet

Port(t) ==
  /\ mixed' = (mixed \/ Mixes(t))
  /\ UNCHANGED <<position, underflowed>>

outIndex(t, register, place) ==
  /\ index' = register
  /\ Port(t) /\ Goto(t, place)
  /\ UNCHANGED <<cursor, offset>>

outData(t, byte) ==
  /\ cursor' = [cursor EXCEPT ![index] = byte]
  /\ Port(t)
  /\ UNCHANGED <<index, offset>>

-----------------------------------------------------------------------------
screenOffset(row, col) == row * COLS + col

MutantScrollScreen(o) ==
  IF o <= ROWS * COLS THEN o ELSE (o - COLS) % Wrap

(* Only one row is taken off, however far the offset is beyond the screen. *)
scrollScreen(o) ==
  IF o < ROWS * COLS THEN o ELSE (o - COLS) % Wrap

(* kPutChar after it has read the cursor.                                  *)
Moved(ch, o) ==
  CASE ch = "newline"   -> screenOffset(o \div COLS + 1, 0)
    [] ch = "backspace" -> (o - 1) % Wrap
    [] OTHER            -> o + 1

getCursorOffset(t) ==
  \E fn \in Getters :
    \/ In(t, fn, "in") /\ outIndex(t, "high", "getHigh")
    \/ /\ In(t, fn, "getHigh")
       /\ offset' = [offset EXCEPT ![t] = cursor[index] * Byte]
       /\ Port(t) /\ Goto(t, "getIndex")
       /\ UNCHANGED <<index, cursor>>
    \/ In(t, fn, "getIndex") /\ outIndex(t, "low", "getLow")

(* Its last access, and what the caller does before it uses a port again.  *)
kPutChar(t) ==
  /\ In(t, "kPutChar", "getLow")
  /\ LET o == offset[t] + cursor[index] IN
       /\ offset' = [offset EXCEPT ![t] = scrollScreen(Moved(Call(t).ch, o))]
       /\ underflowed' = (underflowed \/ (Call(t).ch = "backspace" /\ o = 0))
  /\ mixed' = (mixed \/ Mixes(t))
  /\ Goto(t, "set")
  /\ UNCHANGED <<index, cursor, position>>

kGetChar(t) ==
  /\ In(t, "kGetChar", "getLow")
  /\ position' = [position EXCEPT ![t] = offset[t] + cursor[index]]
  /\ offset' = [offset EXCEPT ![t] = 0]
  /\ mixed' = (mixed \/ Mixes(t))
  /\ Returns(t)
  /\ UNCHANGED <<index, cursor, underflowed>>

(* printDate sets the cursor to its corner of the screen, then back to the *)
(* row and column that kGetChar returned.                                  *)
kSetCursor(t) ==
  /\ In(t, "kSetCursor", "in")
  /\ offset' = [offset EXCEPT ![t] = IF Call(t).back THEN position[t]
                                         ELSE screenOffset(Call(t).row, Call(t).col)]
  /\ Goto(t, "set")
  /\ UNCHANGED <<index, cursor, position, mixed, underflowed>>

setCursorOffset(t) ==
  \E fn \in Setters :
    \/ In(t, fn, "set") /\ outIndex(t, "high", "setHigh")
    \/ /\ In(t, fn, "setHigh") /\ outData(t, (offset[t] \div Byte) % Byte)
       /\ Goto(t, "setIndex")
    \/ In(t, fn, "setIndex") /\ outIndex(t, "low", "setLow")
    \/ /\ In(t, fn, "setLow")
       /\ cursor' = [cursor EXCEPT ![index] = offset[t] % Byte]
       /\ offset' = [offset EXCEPT ![t] = 0]
       /\ Port(t) /\ Returns(t)
       /\ UNCHANGED index

screenSteps(t) ==
  \/ getCursorOffset(t) \/ kPutChar(t) \/ kGetChar(t)
  \/ kSetCursor(t) \/ setCursorOffset(t)

-----------------------------------------------------------------------------
(***************************************************************************)
(* The cursor and every offset that is going to be written to video memory *)
(* lie on the screen, also when threads print at the same time and lose    *)
(* each other's moves: unless a thread was switched between two accesses   *)
(* to the ports, or a backspace was printed at the first cell.             *)
(***************************************************************************)
CursorOnScreen ==
  mixed \/ underflowed
    \/ /\ (\A t \in Tasks : at[t] \notin InSet) => cursor.high * Byte + cursor.low \in Cells
       /\ \A t \in Tasks : offset[t] \in Cells \/ at[t] \in InGet
=============================================================================
