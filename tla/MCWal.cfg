SPECIFICATION Spec
CONSTANTS
  Down = Down
  Sizes = {3, 4}
  HeaderSize = 2
  Durability = "always"
  HostFails = TRUE
  FsyncFails = FALSE
  MaxSequence = 3
INVARIANTS TypeOK Readable PromisedSurvive
PROPERTY PromiseSpec
