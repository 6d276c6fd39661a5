SPECIFICATION FairSpec
CONSTANTS
  Threads = {t1, t2, t3}
  Segs = {s1, s2}
  Nobody = Nobody
INVARIANTS TypeOK HeldOnDisk OfferedIsAlive NothingLeftBehind
PROPERTIES LogOutlivesReaders ClosedKeepsSegments CloseEnds
CHECK_DEADLOCK FALSE
