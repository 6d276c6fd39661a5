SPECIFICATION Spec
CONSTANTS
  Ids = {p1, p2}
  Vecs = {v}
  Fields = {f}
  Gone = Gone
  Down = Down
  SegIds = {s1, s2}
  Durability = "always"
  HostFails = FALSE
  Faults = {"before_wal_fsync", "after_wal_fsync", "before_current_replace"}
  Batches <- MCBatches
  MaxBatch = 2
  MaxWal = 3
SYMMETRY BothSymmetry
INVARIANTS AckedSurvive RootOnDisk
PROPERTIES VersionsIncrease
