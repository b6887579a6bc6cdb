SPECIFICATION Spec
CONSTANTS
  Handlers = {h1, h2}
  Uuids = {p1, p2, p3}
  Unknown = unknown
  Foreign = {backup}
  pbImage = pbImage
  fbImage = fbImage
  Services <- MCServices
  Data = {d1}
  None = None
  Buckets = 2
  MaxCalls = 4
  MaxRestarts = 1
INVARIANTS TypeOK CreatedServed IterationComplete OneUserPerFile KeptServed
SYMMETRY Symmetry
CHECK_DEADLOCK FALSE
