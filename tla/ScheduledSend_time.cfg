SPECIFICATION FairSpec
CONSTANTS
  Id = {r1}
  Worker = {w1}
  NoWorker = NoWorker
  NoRow = NoRow
  MaxStalls = 1
  Horizon = 3
  Wall = {1}
  Shift = {0, 2}
  Lead = 1
  Backdate = 1
  MaxAhead = 3
  Batch = 1
  MaxFaults = 1
PROPERTIES
  NeverEarly
  EventuallyClaimed
CHECK_DEADLOCK FALSE
