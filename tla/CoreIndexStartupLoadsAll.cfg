SPECIFICATION Spec
CONSTANTS
  Uuids = {1, 2}
  Frames = {map}
  MapFrame = map
  Times = {1}
  Labels = {person, dog}
  Instances = {inst1}
  Nil = Nil
  Malformed = Malformed
  None = None
  person = person
  dog = dog
  inst1 = inst1
  LabelLists <- NoLabels
  MaxRequests = 2
  MaxRestarts = 1
PROPERTIES StartupLoadsAll
