SPECIFICATION Spec
CONSTANTS
  Names = {a, b}
  Data = {empty, full}
  Empty = empty
  Slots = {1}
  None = None
  Faults = {"create", "copy", "rename", "aside", "publish", "confirm", "remove"}
SYMMETRY NameSymmetry
INVARIANTS TypeOK Kept
PROPERTY RollsBack
