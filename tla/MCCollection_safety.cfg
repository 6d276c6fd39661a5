SPECIFICATION Spec
CONSTANTS
  Ids = {p1, p2}
  Vecs = {v}
  Fields = {}
  Gone = Gone
  Down = Down
  SegIds = {s1, s2, s3}
  Durability = "always"
  HostFails = TRUE
  Faults = {"before_current_replace"}
  Batches <- MCBatches
  MaxBatch = 1
  MaxWal = 3
SYMMETRY BothSymmetry
INVARIANTS IInv RecoveryMatchesLog ReadsMatchLog
PROPERTIES PublicationInvisible PromiseSpec
