SPECIFICATION FairSpec
CONSTANTS
  Id = {"delta", "backfill"}
  Worker = {w1, w2}
  NoWorker = NoWorker
  MaxStalls = 1
  Horizon = 1
  Thread = {t1}
  User = {u1}
  Keeper = {}
  Batch = 2
  PageSize = 1
  Attempts = 2
  Faulty = {"expire", "abort"}
  MaxHistory = 1
  MaxFaults = 1
PROPERTIES Recovers
