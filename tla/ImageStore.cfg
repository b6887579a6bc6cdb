SPECIFICATION FairSpec
PROPERTIES EveryCallEnds
CONSTANTS
  Handlers = {h1, h2}
  Uuids = {u1}
  u1 = u1
  u2 = u2
  Messages <- MCMessages
  Streams <- MCStreams
  Sent <- MCSent
  None = None
  MaxRequests = 2
  MaxQueries = 1
  MaxRestarts = 1
INVARIANTS TypeOK WholeUnlessTorn IndexedReadable AckedKept IndexCurrent FatalBounded
CHECK_DEADLOCK FALSE
