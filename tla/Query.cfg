SPECIFICATION Spec
CONSTANTS
  P1 = P1
  P2 = P2
  P3 = P3
  map = map
  odom = odom
  cam = cam
  u1 = u1
  u2 = u2
  i1 = i1
  i2 = i2
  person = person
  dog = dog
  Nil = Nil
  None = None
  ProjectUuids = {P1, P2, P3}
  Projects = {P1, P2}
  Frames = {map, odom, cam}
  MapFrame <- TwoMaps
  Shift <- Shifts
  Turned = {cam}
  Uploads <- Datasets
  Transforms <- LateTransforms
  FbQueries <- FbFilters
  PbQueries <- PbFilters
  w1 = w1
  w2 = w2
  Writers = {w1, w2}
  Readers = {r1}
  MaxUploads = 2
  MaxQueries = 1
INVARIANTS TypeOK AnswersComplete AnswersMatch FailureExplained InstanceLabelAgrees
SYMMETRY SameWriters
CHECK_DEADLOCK FALSE
