SPECIFICATION Spec
CONSTANTS
  Uuids = {0, 1}
  Frames = {map, camera}
  MapFrame = map
  Times = {0, 1, 2}
  Labels = {person}
  Instances = {inst1}
  Nil = Nil
  Malformed = Malformed
  None = None
  person = person
  dog = dog
  inst1 = inst1
  LabelLists <- NoLabels
  MaxRequests = 3
  MaxRestarts = 2
INVARIANTS PlacementConserved RtTransformable IndexBacked
PROPERTIES SpatialComplete StartupExact
