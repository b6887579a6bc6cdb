SPECIFICATION Spec
SYMMETRY Symmetry
CONSTANTS
  Handlers = {h1, h2}
  Uuids = {u1}
  OtherNames = {"intensity", "normal_x"}
  Normals = {"normal_x"}
  Starts <- MCStarts
  FieldLists <- MCFieldLists
  NameLists <- MCNameLists
  Sizes = {3}
  Contents <- MCContents
  NaN = NaN
  UIntSize = 80
  None = None
  MaxEdits = 2
  MaxUploads = 2
  MaxRestarts = 1
INVARIANTS TypeOK ShapeKept ReadsInside ColoursInOrder WholeUnlessSpoiled BoxCovers BoxIndexed
CHECK_DEADLOCK FALSE
