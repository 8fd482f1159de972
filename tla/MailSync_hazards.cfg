SPECIFICATION Spec
CONSTANTS
  Id = {"delta", "backfill"}
  Worker = {w1, w2}
  NoWorker = NoWorker
  MaxStalls = 1
  Horizon = 1
  Thread = {t1, t2}
  User = {u1}
  Keeper = {}
  Batch = 2
  PageSize = 1
  Attempts = 2
  Faulty = {"abort", "revoke"}
  MaxHistory = 2
  MaxFaults = 1
INVARIANTS
  NothingLost
  NoGhosts
PROPERTIES
  Heeded
  RevokedStands
