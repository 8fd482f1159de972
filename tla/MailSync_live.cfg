SPECIFICATION FairSpec
CONSTANTS
  Id = {"delta", "backfill"}
  Worker = {w1}
  NoWorker = NoWorker
  MaxStalls = 1
  Horizon = 1
  Thread = {t1}
  User = {}
  Keeper = {k}
  Batch = 2
  PageSize = 1
  Attempts = 2
  Faulty = {"throw", "crash", "lose", "revoke", "stall"}
  MaxHistory = 2
  MaxFaults = 1
PROPERTIES SyncCatchesUp
