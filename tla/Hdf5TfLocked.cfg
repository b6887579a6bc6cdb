SPECIFICATION Spec
CONSTANTS
  f1 = f1
  f2 = f2
  p1 = p1
  map = map
  base = base
  link = link
  cam = cam
  None = None
  Zero = 0
  Rows <- OwnCells
  Writers = {f1, f2}
  Locked = {f1, f2}
  Pairs <- TwoPairs
  Values = {0, 1, 2}
  MaxRequests = 3
  MaxRestarts = 2
INVARIANTS TypeOK
PROPERTIES ImplementsLog StoredLoadable DamageBounded RestartServes
CHECK_DEADLOCK FALSE
