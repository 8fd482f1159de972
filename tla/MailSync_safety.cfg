SPECIFICATION Spec
CONSTANTS
  Id = {"delta", "backfill"}
  Worker = {w1, w2}
  NoWorker = NoWorker
  MaxStalls = 1
  Horizon = 1
  Thread = {t1, t2}
  User = {}
  Keeper = {}
  Batch = 1
  PageSize = 1
  Attempts = 1
  Faulty = {"throw", "crash", "abort"}
  MaxHistory = 3
  MaxFaults = 1
SYMMETRY Symmetry
INVARIANTS
  TypeOK
  NothingSkipped
CHECK_DEADLOCK FALSE
