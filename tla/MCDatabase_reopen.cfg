SPECIFICATION Spec
CONSTANTS
  Names = {a, b}
  Data = {empty, full}
  Empty = empty
  Slots = {1}
  None = None
  Faults = {}
SYMMETRY NameSymmetry
INVARIANT Reopens
