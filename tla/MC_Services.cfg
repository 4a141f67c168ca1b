SPECIFICATION Spec
CONSTANTS
  t1 = t1
  t2 = t2
  t3 = t3
  p1 = p1
  p2 = p2
  p3 = p3
  p4 = p4
  p5 = p5
  p6 = p6
  Tasks = {t1, t2, t3}
  Nobody = Nobody
  Workloads <- AllWorkloads
  ROWS = 2
  COLS = 3
  Byte = 4
  Wrap = 16
  Start = 5
  Descs = 3
  Readable = 2
  ScanBound = 1
  Id <- ThreadIds
  Pages = {p1, p2, p3, p4, p5, p6}
  Null = Null
  MaxKeys = 3
  Old <- OldThreads
SYMMETRY SwapPages
INVARIANTS
  CursorOnScreen
  DescriptorsExclusive
  TextReadIsWhole
  ListComplete
  InterruptsGivenBack
