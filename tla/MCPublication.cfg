SPECIFICATION Spec
CONSTANTS
  Segs = {s1, s2, s3, s4}
  None = None
  Torn = Torn
  Faults = {"write", "rename", "sync", "point", "commit"}
  HostFails = TRUE
  MaxGen = 5
SYMMETRY SegSymmetry
INVARIANTS TypeOK CurrentComplete
PROPERTIES PublishedIsImmutable RegisterSpec
