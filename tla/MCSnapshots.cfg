SPECIFICATION Spec
CONSTANTS
  Ids = {p1, p2}
  Vecs = {v}
  Fields = {f}
  Gone = Gone
  SegIds = {s1, s2}
  Dests = {d1, d2}
  NewParents = {d2}
  Batches <- MCBatches
  Faults = {"flush", "optimize", "snapshot"}
  HostFails = TRUE
  MaxWal = 3
  MaxGen = 4
CONSTRAINT UntilPublished
SYMMETRY NameSymmetry
INVARIANTS ReopensTheSame AcceptedIsTaken WholeOrNothing
