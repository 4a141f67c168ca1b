SPECIFICATION Spec
CONSTANTS
  Clients = {c1, c2}
  p1 = p1
  p2 = p2
  p3 = p3
  p4 = p4
  Pages <- FourPages
  NoPage = NoPage
  NumPages = 4
  pageAt <- InOrder
  Garbage <- Zeroed
  MayDrain = TRUE
INVARIANT EmptyListHasNoHead
