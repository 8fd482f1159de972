SPECIFICATION Spec
CONSTANTS
  Id = {r1}
  Worker = {w1, w2}
  NoWorker = NoWorker
  NoRow = NoRow
  MaxStalls = 1
  Horizon = 1
  Wall = {1}
  Shift = {0}
  Lead = 0
  Backdate = 1
  MaxAhead = 3
  Batch = 1
  MaxFaults = 3
SYMMETRY Symmetry
INVARIANTS
  TypeOK
  AtMostOnce
  HonestStatus
  OneRunPerClaim
  ReminderFollowsSend
PROPERTY KeepsPromise
CHECK_DEADLOCK FALSE
