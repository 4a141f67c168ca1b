SPECIFICATION Spec
CONSTANTS
  Readers = {r1, r2}
  Size = 3
  ClockAt <- NoonToMidnight
  MaxNow = 2
  TicksPerRead = 2
  Machines <- AllMachines
SYMMETRY SwapReaders
INVARIANTS
  PicMirrored
  DevicesNotStuck
  KeysInOrder
  ReadersNotForgotten
  LineComplete
  DateTrue
