SPECIFICATION Spec
CONSTANTS
  Segs = {s1, s2, s3}
  None = None
  Torn = Torn
  Faults = {"confirm"}
  HostFails = FALSE
  MaxGen = 3
SYMMETRY SegSymmetry
INVARIANT CurrentComplete
